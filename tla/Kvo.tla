---------------------------------- MODULE Kvo ----------------------------------
(****************************************************************************)
(* Observables: lualib/kvo.lua, on top of the trampoline of thread.lua.     *)
(*                                                                          *)
(* Setting an observable has a notification run, at once in the main        *)
(* context and on callback_list in a coroutine.  The notification calls the *)
(* watchers, one of which may set another observable, and then resumes the  *)
(* waiting threads, which run until nothing is left to run: notifications   *)
(* nest, and `frames' is the stack of what the main context is doing.       *)
(* A computed observable watches what its function read last (`mark') and   *)
(* is recomputed when the loop is idle (`update').                          *)
(****************************************************************************)
EXTENDS Naturals, FiniteSets, Sequences, SequencesExt

CONSTANTS
    Plain,          \* observables that are set
    Computed,       \* observables made by setcomputed, and their `mark' watchers
    Watchers,       \* the other functions given to watch
    Threads, Main, Tramp, Nil,
    Values,
    Start,          \* Start[o]: the value a plain observable is made with
    Watched,        \* Watched[w]: what w watches
    Sets,           \* Sets[w]: the observable w sets to what it is given, or Nil
    Coalescing,     \* the observables whose pending notification stands for later ones
    Result(_, _),   \* Result(c, value): what c's function returns
    Reads(_, _),    \* Reads(c, value): the observables it reads
    Listens,        \* Listens[t]: the observables thread t reads, or waits for at once
    MaxWrites       \* bound: the writes of threads and event handlers

Observables == Plain \cup Computed
Actors == Threads \cup {Main}
Colours == {"black", "white"}

ASSUME KvoParameters ==
    /\ Main \notin Threads /\ Tramp \notin Actors
    /\ IsFiniteSet(Computed) /\ IsFiniteSet(Watchers)
    /\ Plain \cap Computed = {} /\ Watchers \cap Computed = {}
    /\ Nil \notin Plain /\ Nil \notin Values /\ Nil \notin Colours
    /\ Start \in [Plain -> Values]
    /\ Watched \in [Watchers -> Observables]
    /\ Sets \in [Watchers -> Plain \cup {Nil}]
    /\ Coalescing \subseteq Observables
    /\ Listens \in [Threads -> SUBSET Observables]
    /\ MaxWrites \in Nat

\* The function of a computed observable depends on what it reads, and on nothing else.
ASSUME KvoFunctions ==
    \A c \in Computed, v \in [Observables -> Values] :
       /\ Result(c, v) \in Values
       /\ Reads(c, v) \subseteq Observables
       /\ \A w \in [Observables -> Values] :
             (\A o \in Reads(c, v) : w[o] = v[o]) =>
                Result(c, w) = Result(c, v) /\ Reads(c, w) = Reads(c, v)

VARIABLES
    current, busy, callbacks, nice, frames, \* the trampoline, as in Scheduler
    parked,     \* the threads blocked in something else than an observable
    value,      \* [_value]
    version,    \* [_version]
    dirty,      \* the observables whose notification has not started
    observers,  \* [_observers]: a mark is named like its computed observable
    seen,       \* [_seen]: the version a thread knows, Nil at first
    waiting,    \* [_waiting]: the threads blocked in a recv of each observable
    list,       \* setcomputed: the colour of each observable watched, Nil if it is not
    color,      \* setcomputed: the colour of the last update
    marked,     \* setcomputed: `dirty', the computed observables with a mark after it
    writes,     \* bound
    informed,   \* history: <<o, t>> when thread t was given the value that o has
    unheard     \* history: the watchers not called since what they watch changed

trampVars == <<current, busy, parked>>
valueVars == <<value, version, dirty, callbacks>>
threadVars == <<seen, waiting>>
computedVars == <<observers, list, color>>
historyVars == <<informed, unheard>>
vars == <<trampVars, nice, frames, valueVars, threadVars, computedVars, marked, writes,
          historyVars>>

Runs(c) == current = c
Top == Last(frames)
Under == Front(frames)
InCode(c) == Runs(c) /\ (c = Main => frames = <<>>)

Watching(o) == {w \in Watchers : Watched[w] = o}

\* What the main context is in the middle of.
CallbackList(todo) == [kind |-> "list", todo |-> todo]
ToWatchers(o, new) == [kind |-> "watchers", ob |-> o, new |-> new, i |-> 1]
ToThreads(o, new, thds) == [kind |-> "threads", ob |-> o, new |-> new, todo |-> thds]
Updating(c) == [kind |-> "update", c |-> c]

\* A notification on callback_list; `new' is cnew, Nil when coalescing.
Notification(o, new) == [ob |-> o, new |-> new]

Init ==
    /\ current = Main /\ busy = {} /\ callbacks = <<>> /\ nice = {} /\ frames = <<>>
    /\ parked = Threads
    /\ value \in {v \in [Observables -> Values] :
                    /\ \A o \in Plain : v[o] = Start[o]
                    /\ \A c \in Computed : v[c] = Result(c, v)}
    /\ version = [o \in Observables |-> 0]
    /\ dirty = {}
    /\ \E order \in [Observables -> {TRUE, FALSE}] :    \* who watched first
          observers = [o \in Observables |->
             LET marks == SetToSeq({c \in Computed : o \in Reads(c, value)})
                 others == SetToSeq({w \in Watchers : Watched[w] = o})
             IN IF order[o] THEN marks \o others ELSE others \o marks]
    /\ seen = [o \in Observables |-> [t \in Threads |-> Nil]]
    /\ waiting = [o \in Observables |-> {}]
    /\ list = [c \in Computed |-> [o \in Observables |->
                  IF o \in Reads(c, value) THEN "black" ELSE Nil]]
    /\ color = [c \in Computed |-> "black"]
    /\ marked = {}
    /\ writes = 0
    /\ informed = {}
    /\ unheard = {}

----------------------------------------------------------------------------
(* Setting an observable. *)

\* A notification of o is queued; `dirty' when it stands for later ones.
NowDirty(o) == IF o \in Coalescing THEN dirty \cup {o} ELSE dirty

\* rawset and notify by c: o gets v while the main context goes on with `rest'.  In a
\* coroutine the notification is queued, in the main context it runs now, on top of `rest'.
Change(c, o, v, rest) ==
    /\ value' = [value EXCEPT ![o] = v]
    /\ informed' = {k \in informed : k[1] # o} \cup ({<<o, c>>} \cap ({o} \X Threads))
    /\ version' = IF o \in dirty THEN version ELSE [version EXCEPT ![o] = @ + 1]
    /\ frames' = IF c = Main /\ o \notin dirty THEN Append(rest, ToWatchers(o, v)) ELSE rest
    /\ IF c = Main \/ o \in dirty
       THEN UNCHANGED <<dirty, callbacks>>
       ELSE /\ dirty' = NowDirty(o)
            /\ callbacks' = Append(callbacks,
                                   Notification(o, IF o \in Coalescing THEN Nil ELSE v))

\* The same in the main context, of a value that may be the old one.
SetTo(o, v, rest) ==
    \/ v # value[o] /\ Change(Main, o, v, rest)
    \/ v = value[o] /\ frames' = rest /\ UNCHANGED <<valueVars, informed>>

\* Observable.__call with an argument.  What a write callback does to the observables a
\* computed one depends on are writes of their own; it then returns the new value.
Write(c, o, v) ==
    /\ InCode(c)
    /\ writes < MaxWrites
    /\ writes' = writes + 1
    /\ v # value[o]
    /\ o \in Computed => v = Result(o, value)
    /\ Change(c, o, v, frames)
    /\ unheard' = unheard \cup Watching(o)
    /\ UNCHANGED <<trampVars, nice, threadVars, computedVars, marked>>

----------------------------------------------------------------------------
(* Threads. *)

controlVars == <<nice, frames, valueVars, computedVars, marked, writes, unheard>>

\* t reads o.
Note(t, o) ==
    /\ seen' = [seen EXCEPT ![o][t] = version[o]]
    /\ informed' = informed \cup {<<o, t>>}

\* Observable.__call without an argument: recorded once some thread has polled o.
Read(t, o) ==
    /\ Runs(t)
    /\ \E u \in Threads : seen[o][u] # Nil
    /\ Note(t, o)
    /\ UNCHANGED <<trampVars, waiting, controlVars>>

\* T.recv of the observables t listens to: poll, then register_thread.
Recv(t) == LET S == Listens[t] IN
    /\ Runs(t)
    /\ S # {}
    /\ \/ \E o \in S : seen[o][t] # version[o] /\ Note(t, o)
          /\ UNCHANGED <<current, waiting>>
       \/ /\ \A o \in S : seen[o][t] = version[o]
          /\ waiting' = [o \in Observables |->
                            IF o \in S THEN waiting[o] \cup {t} ELSE waiting[o]]
          /\ current' = Tramp
          /\ UNCHANGED <<seen, informed>>
    /\ UNCHANGED <<busy, parked, controlVars>>

\* t waits for something else.
Park(t) ==
    /\ Runs(t)
    /\ parked' = parked \cup {t}
    /\ current' = Tramp
    /\ UNCHANGED <<busy, threadVars, informed, controlVars>>

\* c wakes t from it.
Unpark(c, t) ==
    /\ InCode(c)
    /\ t \in parked
    /\ parked' = parked \ {t}
    /\ current' = t
    /\ busy' = IF c \in Threads THEN busy \cup {c} ELSE busy
    /\ UNCHANGED <<threadVars, informed, controlVars>>

----------------------------------------------------------------------------
(* Notifications. *)

Doing(kind) == Runs(Main) /\ frames # <<>> /\ Top.kind = kind

\* Mistake: o stays dirty.
StartStillDirty ==
    /\ Doing("list") /\ Top.todo # <<>>
    /\ LET n == Head(Top.todo) IN
       frames' = Append(Append(Under, CallbackList(Tail(Top.todo))),
                        ToWatchers(n.ob, IF n.new = Nil THEN value[n.ob] ELSE n.new))
    /\ UNCHANGED <<trampVars, nice, valueVars, threadVars, computedVars, marked, writes,
                   historyVars>>

\* The next notification of callback_list: o is no longer dirty, and on to the watchers.
StartNotification ==
    /\ Doing("list") /\ Top.todo # <<>>
    /\ LET n == Head(Top.todo) IN
       /\ dirty' = dirty \ {n.ob}
       /\ frames' = Append(Append(Under, CallbackList(Tail(Top.todo))),
                           ToWatchers(n.ob, IF n.new = Nil THEN value[n.ob] ELSE n.new))
    /\ UNCHANGED <<trampVars, callbacks, nice, value, version, threadVars, computedVars,
                   marked, writes, historyVars>>

\* The next watcher: `mark' of a computed observable, or a function that may set another.
\* ipairs goes by position, whatever was removed from the list meanwhile.
CallWatcher ==
    /\ Doing("watchers") /\ Top.i <= Len(observers[Top.ob])
    /\ LET w == observers[Top.ob][Top.i]
           rest == Append(Under, [Top EXCEPT !.i = @ + 1])
       IN \/ /\ w \in Computed
             /\ marked' = marked \cup {w}
             /\ nice' = nice \cup {w}
             /\ frames' = rest
             /\ UNCHANGED <<valueVars, historyVars>>
          \/ /\ w \in Watchers
             /\ \/ /\ Sets[w] = Nil
                   /\ frames' = rest
                   /\ unheard' = unheard \ {w}
                   /\ UNCHANGED <<valueVars, informed>>
                \/ /\ Sets[w] # Nil
                   /\ SetTo(Sets[w], Top.new, rest)
                   /\ unheard' = (unheard \ {w})
                        \cup IF Top.new # value[Sets[w]] THEN Watching(Sets[w]) ELSE {}
             /\ UNCHANGED <<marked, nice>>
    /\ UNCHANGED <<trampVars, threadVars, computedVars, writes>>

\* Mistake: the threads are forgotten.
WatchersOnly ==
    /\ Doing("watchers") /\ Top.i > Len(observers[Top.ob])
    /\ frames' = Append(Under, ToThreads(Top.ob, Top.new, {}))
    /\ UNCHANGED <<trampVars, nice, valueVars, threadVars, computedVars, marked, writes,
                   historyVars>>

\* The watchers are done: the threads that wait now are those to resume.
WatchersDone ==
    /\ Doing("watchers") /\ Top.i > Len(observers[Top.ob])
    /\ frames' = Append(Under, ToThreads(Top.ob, Top.new, waiting[Top.ob]))
    /\ UNCHANGED <<trampVars, nice, valueVars, threadVars, computedVars, marked, writes,
                   historyVars>>

\* One of them, if it still waits and does not know the version: it is resumed, and
\* unregistered from all it waits for.
WakeWaiter(t) ==
    /\ Doing("threads") /\ t \in Top.todo
    /\ LET o == Top.ob IN
       /\ frames' = Append(Under, [Top EXCEPT !.todo = @ \ {t}])
       /\ \/ /\ t \in waiting[o] /\ seen[o][t] # version[o]
             /\ seen' = [seen EXCEPT ![o][t] = version[o]]
             /\ informed' = IF Top.new = value[o] THEN informed \cup {<<o, t>>}
                                                 ELSE informed \ {<<o, t>>}
             /\ waiting' = [p \in Observables |-> waiting[p] \ {t}]
             /\ current' = t
          \/ /\ t \notin waiting[o] \/ seen[o][t] = version[o]
             /\ UNCHANGED <<current, threadVars, informed>>
    /\ UNCHANGED <<busy, parked, nice, valueVars, computedVars, marked, writes, unheard>>

\* A notification is over: back to whatever started it.
NotificationDone ==
    /\ Doing("threads") /\ Top.todo = {}
    /\ frames' = Under
    /\ UNCHANGED <<trampVars, nice, valueVars, threadVars, computedVars, marked, writes,
                   historyVars>>

----------------------------------------------------------------------------
(* Computed observables: update, called by the trampoline when it is idle. *)

\* note: what c's function reads and is not on its list.  Mistake: whatever is on it.
ReadsAll(c) == Reads(c, value)
NewReads(c) == {o \in Reads(c, value) : list[c][o] = Nil}

\* What the last update did not read.  Mistake: the colours are swapped.
Fresh(c) == {o \in Observables : list[c][o] = color[c]}
Stale(c) == {o \in Observables : list[c][o] \notin {Nil, color[c]}}

\* What c's function reads is watched, and takes the new colour.
Update(c) ==
    LET R == Reads(c, value)
        new == CHOOSE k \in Colours : k # color[c]
    IN /\ marked' = marked \ {c}
       /\ nice' = nice \ {c}
       /\ color' = [color EXCEPT ![c] = new]
       /\ list' = [list EXCEPT ![c] = [o \in Observables |-> IF o \in R THEN new ELSE @[o]]]
       /\ observers' = [o \in Observables |->
                           IF o \in NewReads(c) THEN Append(observers[o], c)
                                                 ELSE observers[o]]
       /\ SetTo(c, Result(c, value), Append(frames, Updating(c)))
       /\ unheard' = IF Result(c, value) # value[c] THEN unheard \cup Watching(c) ELSE unheard
       /\ current' = Main

\* Then what has the old colour is no longer watched, and c marked again if it must be.
UpdateDone ==
    /\ Doing("update")
    /\ LET c == Top.c IN
          /\ observers' = [o \in Observables |->
                              IF o \in Stale(c) THEN RemoveFirst(observers[o], c)
                                                ELSE observers[o]]
          /\ list' = [list EXCEPT ![c] = [o \in Observables |->
                                             IF o \in Stale(c) THEN Nil ELSE @[o]]]
          /\ nice' = IF c \in marked THEN nice \cup {c} ELSE nice
    /\ frames' = Under
    /\ current' = Tramp
    /\ UNCHANGED <<busy, parked, valueVars, threadVars, color, marked, writes, historyVars>>

----------------------------------------------------------------------------
(* The trampoline, as in Scheduler. *)

RunBusy(t) ==
    /\ Runs(Tramp)
    /\ t \in busy
    /\ busy' = busy \ {t}
    /\ current' = t
    /\ UNCHANGED <<parked, threadVars, informed, controlVars>>

RunCallbacks ==
    /\ Runs(Tramp)
    /\ busy = {} /\ callbacks # <<>>
    /\ frames' = Append(frames, CallbackList(callbacks))
    /\ callbacks' = <<>>
    /\ current' = Main
    /\ UNCHANGED <<busy, parked, nice, value, version, dirty, threadVars,
                   computedVars, marked, writes, historyVars>>

CallbacksDone ==
    /\ Doing("list") /\ Top.todo = <<>>
    /\ frames' = Under
    /\ current' = Tramp
    /\ UNCHANGED <<busy, parked, nice, valueVars, threadVars, computedVars, marked, writes,
                   historyVars>>

RunUpdate(c) ==
    /\ Runs(Tramp)
    /\ busy = {} /\ callbacks = <<>>
    /\ c \in nice
    /\ Update(c)
    /\ UNCHANGED <<busy, parked, threadVars, writes>>

\* Mistake: callback_list is not looked at.
ReturnsEarly ==
    /\ Runs(Tramp)
    /\ busy = {} /\ nice = {}
    /\ current' = Main
    /\ UNCHANGED <<busy, parked, threadVars, informed, controlVars>>

TrampolineReturns ==
    /\ Runs(Tramp)
    /\ busy = {} /\ callbacks = <<>> /\ nice = {}
    /\ current' = Main
    /\ UNCHANGED <<busy, parked, threadVars, informed, controlVars>>

Next ==
    \/ \E c \in Actors, o \in Observables, v \in Values : Write(c, o, v)
    \/ \E t \in Threads : Recv(t) \/ \E o \in Listens[t] : Read(t, o)
    \/ \E t \in Threads : Park(t) \/ \E c \in Actors : Unpark(c, t)
    \/ StartNotification \/ CallWatcher \/ WatchersDone \/ NotificationDone
    \/ \E t \in Threads : WakeWaiter(t) \/ RunBusy(t)
    \/ \E c \in Computed : RunUpdate(c)
    \/ UpdateDone \/ RunCallbacks \/ CallbacksDone \/ TrampolineReturns

Spec == Init /\ [][Next]_vars

----------------------------------------------------------------------------
(* Properties. *)

\* A notification of o that has not started.
Queued(o) ==
    \/ \E i \in 1..Len(callbacks) : callbacks[i].ob = o
    \/ \E i \in 1..Len(frames) :
          /\ frames[i].kind = "list"
          /\ \E j \in 1..Len(frames[i].todo) : frames[i].todo[j].ob = o

\* A notification of o that is yet to call fun.
WillCall(o, fun) ==
    \/ Queued(o)
    \/ \E i \in 1..Len(frames) :
          /\ frames[i].kind = "watchers" /\ frames[i].ob = o
          /\ \E j \in frames[i].i..Len(observers[o]) : observers[o][j] = fun

\* A notification of o that is yet to look at thread t.
WillWake(o, t) ==
    \/ Queued(o)
    \/ \E i \in 1..Len(frames) :
          \/ frames[i].kind = "watchers" /\ frames[i].ob = o
          \/ frames[i].kind = "threads" /\ frames[i].ob = o /\ t \in frames[i].todo

\* Coalescing loses no change: a watcher was called after the last change of what it
\* watches, or a notification is on its way to it.
EveryChangeHeard ==
    \A w \in unheard : WillCall(Watched[w], w)

\* An update of c is to come: it is queued, or a notification of something c watches will
\* mark it, or it goes on and was marked again.
UpdateToCome(c) ==
    \/ c \in nice
    \/ \E o \in Observables : list[c][o] # Nil /\ WillCall(o, c)
    \/ c \in marked /\ \E i \in 1..Len(frames) : frames[i] = Updating(c)

\* A computed observable has the value its function would return now, or an update to
\* come.
ComputedFresh ==
    \A c \in Computed : value[c] = Result(c, value) \/ UpdateToCome(c)

\* A computed observable watches, once, what is on its list, and all that its function reads
\* now is on it, or an update is going on or to come.  The list may hold more: an update
\* nested in another flips the colour, and what neither read can look fresh.
WatchesWhatItReads ==
    \A c \in Computed :
       /\ \A o \in Observables :
             Cardinality({i \in 1..Len(observers[o]) : observers[o][i] = c})
                = IF list[c][o] # Nil THEN 1 ELSE 0
       /\ \/ Reads(c, value) \subseteq {o \in Observables : list[c][o] # Nil}
          \/ UpdateToCome(c)
          \/ \E i \in 1..Len(frames) : frames[i] = Updating(c)

\* A thread that waits for an observable and does not know its version is about to be
\* resumed.
NoStaleWaiter ==
    \A o \in Observables : \A t \in waiting[o] :
       seen[o][t] = version[o] \/ WillWake(o, t)

\* A thread that waits for an observable was given its value, or is about to be ("Fanout
\* [async] (wakes up all listeners)", "KVO: value-cell > Fanout", TODO:12, 25).
WaitersKnowTheValue ==
    \A o \in Observables : \A t \in waiting[o] :
       <<o, t>> \in informed \/ WillWake(o, t)

\* When the event loop waits no notification is pending: nothing is dirty, and no thread can
\* run.  An update may be left on nice_list, for the next thread that is resumed.
QuietLoop ==
    current = Main /\ frames = <<>> => callbacks = <<>> /\ dirty = {} /\ busy = {}
=============================================================================
