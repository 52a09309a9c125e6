-------------------------------- MODULE Thread --------------------------------
(****************************************************************************)
(* Threads and the sources they wait for: lualib/thread.lua.                *)
(*                                                                          *)
(* A thread calls T.recv with a set of sources; it takes what one of them   *)
(* has buffered, or registers with all of them and yields.  Mailbox.put     *)
(* resumes a registered thread, with the message, or buffers it.  A thread's*)
(* own mailbox (T.send) is a queue named like the thread.                   *)
(*                                                                          *)
(* Messages of a queue are numbered in the order of put, so `sent' and `got'*)
(* tell which are under way.                                                *)
(****************************************************************************)
EXTENDS Scheduler

CONSTANTS
    Mailboxes,
    Idle,       \* the Idle source: ready when nothing else is
    Kill,       \* what T.kill resumes a thread with: false
    Tick,       \* what a timer resumes a sleeper with: true
    Nil,        \* no argument (the trampoline resumes a busy thread), no message
    Readers,    \* Readers[m]: who calls recv on mailbox m
    KillAt,     \* the states in which a thread is killed
    MaxMsgs     \* bound: messages put in each queue

Queues == Mailboxes \cup Threads
Wakers == Queues \cup {Idle, Kill, Tick, Nil}

ASSUME ThreadNames ==
    /\ Mailboxes \cap (Actors \cup {Tramp}) = {}
    /\ {Idle, Kill, Tick, Nil} \cap (Queues \cup {Main}) = {}
    /\ Idle \notin {Kill, Tick, Nil} /\ Kill \notin {Tick, Nil} /\ Tick # Nil

States == {"unborn", "new", "run", "recv", "recvone", "sleep", "parked", "dead"}

ASSUME ThreadParameters ==
    /\ Readers \in [Mailboxes -> SUBSET Actors]
    /\ KillAt \subseteq States \ {"unborn"}
    /\ MaxMsgs \in Nat

VARIABLES
    pos,        \* where each thread is; "run" also while suspended inside resume
    waits,      \* the sources of the recv a thread is blocked in
    waiting,    \* Source: the list of registered threads of each mailbox
    idx,        \* Source: the position each thread was registered at, 0 for nil
    listening,  \* ThreadMailbox: the threads whose own mailbox is marked waiting
    buffer,     \* what is put and not taken, per queue
    armed,      \* T.sleep timers pending, per thread
    mainArgs,   \* main_thread_resume_arguments: <<source, message>>
    sent, got   \* history: number of the last message put in, and taken from, each queue

waitVars == <<waits, waiting, idx, listening>>
queueVars == <<buffer, sent, got>>
vars == <<schedVars, pos, waitVars, queueVars, armed, mainArgs>>

Blocked(t) == pos[t] \in {"recv", "recvone"}

NoMessage == <<Nil, 0>>

Init ==
    /\ SchedulerInit
    /\ pos = [t \in Actors |-> IF t = Main THEN "run" ELSE "unborn"]
    /\ waits = [t \in Actors |-> {}]
    /\ waiting = [m \in Mailboxes |-> <<>>]
    /\ idx = [m \in Mailboxes |-> [t \in Actors |-> 0]]
    /\ listening = {}
    /\ buffer = [q \in Queues |-> <<>>]
    /\ armed = [t \in Threads |-> 0]
    /\ mainArgs = NoMessage
    /\ sent = [q \in Queues |-> 0]
    /\ got = [q \in Queues |-> 0]

----------------------------------------------------------------------------
(* Sources: register_thread and unregister_thread. *)

Register(t, S) ==
    /\ waits' = [waits EXCEPT ![t] = S]
    /\ waiting' = [m \in Mailboxes |-> IF m \in S THEN Append(waiting[m], t)
                                                  ELSE waiting[m]]
    /\ idx' = [m \in Mailboxes |->
                  IF m \in S THEN [idx[m] EXCEPT ![t] = Len(waiting[m]) + 1]
                             ELSE idx[m]]
    /\ listening' = IF t \in S THEN listening \cup {t} ELSE listening
    /\ nice' = IF Idle \in S THEN nice \cup {t} ELSE nice

\* table.remove(s, i): the last element when i is nil, nothing when out of range.
TableRemove(s, i) ==
    CASE s = <<>> \/ i > Len(s) -> s
      [] s # <<>> /\ i = 0      -> Front(s)
      [] OTHER                  -> RemoveAt(s, i)

\* Mistake: only the mailboxes are told.
UnregisterMailboxes(t) ==
    /\ waits' = [waits EXCEPT ![t] = {}]
    /\ waiting' = [m \in Mailboxes |->
                      IF m \in waits[t] THEN TableRemove(waiting[m], idx[m][t])
                                        ELSE waiting[m]]
    /\ idx' = [m \in Mailboxes |->
                  IF m \in waits[t] THEN [idx[m] EXCEPT ![t] = 0] ELSE idx[m]]
    /\ UNCHANGED <<listening, nice>>

\* idx is not adjusted for the threads after t.
Unregister(t) ==
    /\ waits' = [waits EXCEPT ![t] = {}]
    /\ waiting' = [m \in Mailboxes |->
                      IF m \in waits[t] THEN TableRemove(waiting[m], idx[m][t])
                                        ELSE waiting[m]]
    /\ idx' = [m \in Mailboxes |->
                  IF m \in waits[t] THEN [idx[m] EXCEPT ![t] = 0] ELSE idx[m]]
    /\ listening' = IF t \in waits[t] THEN listening \ {t} ELSE listening
    /\ nice' = IF Idle \in waits[t] THEN nice \ {t} ELSE nice

----------------------------------------------------------------------------
(* Resuming.  Each operator says what thread t does when the yield it is    *)
(* suspended in returns src, up to where its own code goes on.              *)

\* A thread whose wait is over goes on with its own code.
Continues(t) ==
    /\ pos' = [pos EXCEPT ![t] = "run"]
    /\ current' = t
    /\ UNCHANGED exited

\* The `handle' of recv and recvone.  recvone does not look at which source it is.
WakeReceiver(t, src) ==
    /\ Blocked(t)
    /\ Unregister(t)
    /\ \/ src # Kill /\ (src \in waits[t] \/ pos[t] = "recvone") /\ Continues(t)
       \/ /\ src = Kill
          /\ pos' = [pos EXCEPT ![t] = "parked"]
          /\ current' = Tramp
          /\ UNCHANGED exited
       \/ /\ src # Kill /\ src \notin waits[t] /\ pos[t] = "recv"
          /\ Exit               \* srcs[src] is nil, and it is called
          /\ UNCHANGED pos

\* T.sleep: a false or missing argument suspends for good (see CancelTimer).
WakeSleeper(t, src) ==
    /\ pos[t] = "sleep"
    /\ \/ src \notin {Kill, Nil} /\ Continues(t)
       \/ /\ src \in {Kill, Nil}
          /\ pos' = [pos EXCEPT ![t] = "parked"]
          /\ current' = Tramp
          /\ UNCHANGED exited
    /\ UNCHANGED <<waitVars, nice>>

\* Suspended inside resume, not yet started, or suspended by a kill.
WakeOther(t) ==
    /\ pos[t] \in {"run", "new", "parked"}
    /\ Continues(t)
    /\ UNCHANGED <<waitVars, nice>>

\* coroutine.resume fails on a dead coroutine, and report_error exits.
WakeDead(t) ==
    /\ pos[t] = "dead"
    /\ Exit
    /\ UNCHANGED <<pos, waitVars, nice>>

Wake(t, src) ==
    \/ WakeReceiver(t, src)
    \/ WakeSleeper(t, src)
    \/ WakeOther(t)
    \/ WakeDead(t)

\* Mistakes: the timer of a killed sleeper stays; any kill takes a timer away.
KeepTimer(t, src) == UNCHANGED armed
CancelAnyTimer(t, src) ==
    armed' = IF src = Kill THEN [armed EXCEPT ![t] = @ - 1] ELSE armed

\* In the same case T.sleep cancels its timer; no other way of waking does.
CancelTimer(t, src) ==
    armed' = IF pos[t] = "sleep" /\ src \in {Kill, Nil}
             THEN [armed EXCEPT ![t] = @ - 1] ELSE armed

\* Mistake: the arguments are lost.
WakeMainOnly(c, src, v) ==
    /\ mainArgs' = <<src, 0>>
    /\ current' = IF c = Main THEN Main ELSE Tramp
    /\ UNCHANGED <<pos, waitVars, nice, exited>>

\* The main thread is resumed by leaving the event loop, once its handlers are done.
WakeMain(c, src, v) ==
    /\ mainArgs' = <<src, v>>
    /\ current' = IF c = Main THEN Main ELSE Tramp
    /\ UNCHANGED <<pos, waitVars, nice, exited>>

\* resume(t, src, v) called by c.
Resume(c, t, src, v) ==
    /\ \/ t \in Threads \ {c} /\ Wake(t, src) /\ UNCHANGED mainArgs
       \/ t = Main /\ WakeMain(c, src, v)
       \/ /\ t = c /\ c # Main
          /\ Exit               \* a thread cannot resume itself
          /\ UNCHANGED <<pos, waitVars, nice, mainArgs>>
    /\ Suspend(c)
    /\ UNCHANGED deferred

----------------------------------------------------------------------------
(* What a thread, or the main context, does. *)

controlVars == <<schedVars, pos, waitVars, armed, mainArgs>>

\* The main script is blocked in recv while the event loop runs its handlers.
InCode(c) == Runs(c) /\ (c = Main => pos[Main] = "run" /\ frames = <<>>)

SourcesOf(c) == {m \in Mailboxes : c \in Readers[m]}
                  \cup (IF c \in Threads THEN {c, Idle} ELSE {})

\* Mistakes: the newest message is taken; a message is taken and stays.
TakeNewest(c, S) ==
    /\ \E q \in S \cap Queues :
          /\ buffer[q] # <<>>
          /\ got' = [got EXCEPT ![q] = Last(buffer[q])]
          /\ buffer' = [buffer EXCEPT ![q] = Front(@)]
    /\ UNCHANGED <<controlVars, sent>>
TakeAndKeep(c, S) ==
    /\ \E q \in S \cap Queues :
          /\ buffer[q] # <<>>
          /\ got' = [got EXCEPT ![q] = Head(buffer[q])]
    /\ UNCHANGED <<controlVars, buffer, sent>>

\* recv and recvone, something buffered: the message is taken at once.
TakeBuffered(c, S) ==
    /\ \E q \in S \cap Queues :
          /\ buffer[q] # <<>>
          /\ got' = [got EXCEPT ![q] = Head(buffer[q])]
          /\ buffer' = [buffer EXCEPT ![q] = Tail(@)]
    /\ UNCHANGED <<controlVars, sent>>

\* recv and recvone, nothing buffered: registered with every source, then suspended.
BlockOn(c, S) ==
    /\ \A q \in S \cap Queues : buffer[q] = <<>>
    /\ Register(c, S)
    /\ \E state \in {"recv"} \cup (IF \E s \in S : S = {s} THEN {"recvone"} ELSE {}) :
          pos' = [pos EXCEPT ![c] = state]
    /\ current' = IF c = Main THEN Main ELSE Tramp
    /\ UNCHANGED <<busy, deferred, exited, queueVars, armed, mainArgs>>

Recv(c, S) ==
    /\ InCode(c)
    /\ S # {}
    /\ \/ TakeBuffered(c, S)
       \/ BlockOn(c, S)

\* A message handed over reaches a queue's reader if it is that queue it waits for.
HandOver(c, t, q, v) ==
    /\ Resume(c, t, q, v)
    /\ CancelTimer(t, q)
    /\ got' = IF t \in Threads /\ Blocked(t) /\ q \in waits[t]
              THEN [got EXCEPT ![q] = v] ELSE got
    /\ UNCHANGED buffer

\* Mistake: put does not look who waits.
PutBuffers(c, m) ==
    /\ Runs(c)
    /\ sent[m] < MaxMsgs
    /\ sent' = [sent EXCEPT ![m] = @ + 1]
    /\ buffer' = [buffer EXCEPT ![m] = Append(@, sent[m] + 1)]
    /\ UNCHANGED <<controlVars, got>>

\* Mailbox.put
Put(c, m) ==
    /\ Runs(c)
    /\ sent[m] < MaxMsgs
    /\ sent' = [sent EXCEPT ![m] = @ + 1]
    /\ \/ /\ waiting[m] = <<>>
          /\ buffer' = [buffer EXCEPT ![m] = Append(@, sent[m] + 1)]
          /\ UNCHANGED <<controlVars, got>>
       \/ \E i \in 1..Len(waiting[m]) : HandOver(c, waiting[m][i], m, sent[m] + 1)

\* Mailbox.putback: the only reader returns the message it took last.
Putback(c, m) ==
    /\ InCode(c)
    /\ Readers[m] = {c}
    /\ got[m] > 0
    /\ \/ /\ waiting[m] = <<>>
          /\ buffer' = [buffer EXCEPT ![m] = <<got[m]>> \o @]
          /\ got' = [got EXCEPT ![m] = @ - 1]
          /\ UNCHANGED controlVars
       \/ \E i \in 1..Len(waiting[m]) : HandOver(c, waiting[m][i], m, got[m])
    /\ UNCHANGED sent

\* Thread.send
Send(c, t) ==
    /\ Runs(c)
    /\ sent[t] < MaxMsgs
    /\ sent' = [sent EXCEPT ![t] = @ + 1]
    /\ \/ /\ t \notin listening
          /\ buffer' = [buffer EXCEPT ![t] = Append(@, sent[t] + 1)]
          /\ UNCHANGED <<controlVars, got>>
       \/ t \in listening /\ HandOver(c, t, t, sent[t] + 1)

\* Thread.go: started at once in the main context, else left on busy_list.
Go(c, t) ==
    /\ Runs(c)
    /\ pos[t] = "unborn"
    /\ \/ /\ c = Main
          /\ Continues(t)
          /\ UNCHANGED busy
       \/ /\ c # Main
          /\ pos' = [pos EXCEPT ![t] = "new"]
          /\ busy' = busy \cup {t}
          /\ UNCHANGED <<current, exited>>
    /\ UNCHANGED <<nice, deferred, waitVars, queueVars, armed, mainArgs>>

\* Mistake: coroutine.status is not looked at.
KillAnyThread(c, t) ==
    /\ Runs(c)
    /\ t # c
    /\ pos[t] \in KillAt
    /\ Resume(c, t, Kill, 0)
    /\ CancelTimer(t, Kill)
    /\ UNCHANGED queueVars

\* Thread.kill; of a dead thread it is a no-op.
KillThread(c, t) ==
    /\ Runs(c)
    /\ t # c
    /\ pos[t] \in KillAt \ {"dead"}
    /\ Resume(c, t, Kill, 0)
    /\ CancelTimer(t, Kill)
    /\ UNCHANGED queueVars

Sleep(t) ==
    /\ Runs(t)
    /\ armed' = [armed EXCEPT ![t] = @ + 1]
    /\ pos' = [pos EXCEPT ![t] = "sleep"]
    /\ current' = Tramp
    /\ UNCHANGED <<busy, nice, deferred, exited, waitVars, queueVars, mainArgs>>

\* The thread's function returns (nothing: a value would be resumed as a thread).
Finish(t) ==
    /\ Runs(t)
    /\ pos' = [pos EXCEPT ![t] = "dead"]
    /\ current' = Tramp
    /\ UNCHANGED <<busy, nice, deferred, exited, waitVars, queueVars, armed, mainArgs>>

----------------------------------------------------------------------------
(* What the trampoline and the event loop do. *)

RunBusy(t) ==
    /\ Runs(Tramp)
    /\ t \in busy
    /\ busy' = busy \ {t}
    /\ Wake(t, Nil)
    /\ CancelTimer(t, Nil)
    /\ UNCHANGED <<deferred, queueVars, mainArgs>>

RunNiceThread(t) ==
    /\ NiceTurn
    /\ t \in nice
    /\ Wake(t, Idle)
    /\ CancelTimer(t, Idle)
    /\ UNCHANGED <<busy, deferred, queueVars, mainArgs>>

\* The callback of a T.sleep timer, called by the event loop.
TimerFires(t) ==
    /\ Runs(Main)
    /\ frames = <<>>
    /\ armed[t] > 0
    /\ armed' = [armed EXCEPT ![t] = @ - 1]
    /\ Resume(Main, t, Tick, 0)
    /\ UNCHANGED queueVars

\* The event loop was stopped: the main script goes on from its recv.
MainContinues ==
    /\ Runs(Main)
    /\ frames = <<>>
    /\ pos[Main] \in {"recv", "recvone"}
    /\ mainArgs # NoMessage
    /\ mainArgs' = NoMessage
    /\ Unregister(Main)
    /\ \/ /\ mainArgs[1] \in waits[Main] \/ pos[Main] = "recvone"
          /\ pos' = [pos EXCEPT ![Main] = "run"]
          /\ got' = IF mainArgs[1] \in waits[Main]
                    THEN [got EXCEPT ![mainArgs[1]] = mainArgs[2]] ELSE got
          /\ UNCHANGED <<current, exited>>
       \/ /\ mainArgs[1] \notin waits[Main] /\ pos[Main] = "recv"
          /\ Exit
          /\ UNCHANGED <<pos, got>>
    /\ UNCHANGED <<busy, deferred, buffer, sent, armed>>

\* Deferred functions touch nothing of the threads.
threadVars == <<pos, waitVars, queueVars, armed, mainArgs>>

DeferredStep ==
    /\ \/ \E c \in Actors, f \in Calls : QueueCall(c, f) \/ IdleCall(c, f)
       \/ RunCallbacks
       \/ \E f \in Calls : RunNiceFunction(f)
       \/ FunctionReturns
       \/ TrampolineReturns
    /\ UNCHANGED threadVars

ThreadStep(c) ==
    \/ \E S \in SUBSET SourcesOf(c) : Recv(c, S)
    \/ \E m \in Mailboxes : Put(c, m) \/ Putback(c, m)
    \/ \E t \in Threads : Send(c, t) \/ Go(c, t) \/ KillThread(c, t)

Next ==
    \/ \E c \in Actors : ThreadStep(c)
    \/ \E t \in Threads : Sleep(t) \/ Finish(t)
    \/ \E t \in Threads : RunBusy(t) \/ RunNiceThread(t) \/ TimerFires(t)
    \/ MainContinues
    \/ DeferredStep

Spec == Init /\ [][Next]_vars


----------------------------------------------------------------------------
(* Properties. *)

TypeOK ==
    /\ SchedulerTypeOK
    /\ pos \in [Actors -> States]
    /\ waits \in [Actors -> SUBSET (Queues \cup {Idle})]
    /\ waiting \in [Mailboxes -> Seq(Actors)]
    /\ idx \in [Mailboxes -> [Actors -> Nat]]
    /\ listening \in SUBSET Threads
    /\ buffer \in [Queues -> Seq(Nat)]
    /\ armed \in [Threads -> Nat]
    /\ mainArgs \in Wakers \X Nat
    /\ sent \in [Queues -> Nat]
    /\ got \in [Queues -> Nat]

\* The contract of Source: at most one thread waits for a mailbox, and it is not the
\* main one.
SingleReader == \A m \in Mailboxes : \E t \in Threads : Readers[m] \subseteq {t}

\* The contract of kill: the thread is blocked, and not killed before.
KillsBlocked == KillAt \subseteq {"recv", "recvone", "sleep", "dead"}

\* recv registers a thread with its sources, and whoever wakes it takes it off all of
\* them: a thread is on the list of a source, once and where the source's index says,
\* exactly while it is blocked in a recv of that source.
Registration ==
    \A t \in Actors :
       /\ Blocked(t) <=> waits[t] # {}
       /\ \A m \in Mailboxes :
             {i \in 1..Len(waiting[m]) : waiting[m][i] = t}
               = IF m \in waits[t] THEN {idx[m][t]} ELSE {}
       /\ t \in Threads => /\ t \in listening <=> t \in waits[t]
                           /\ t \in nice <=> Idle \in waits[t]

\* No thread is lost and none is resumed behind its back: busy_list holds exactly the
\* threads that were started, are not blocked and are not the running one.
BusyIsRunnable ==
    ~exited => busy = {t \in Threads : pos[t] \in {"new", "run"} /\ t # current}

\* A message on its way to the main thread.
InFlight(q) == IF mainArgs[1] = q THEN <<mainArgs[2]>> ELSE <<>>

\* Messages reach the readers of a queue in the order they were put, each once: what is
\* under way is what was put after the last one taken.
Delivery ==
    \A q \in Queues :
       InFlight(q) \o buffer[q] = [i \in 1..(sent[q] - got[q]) |-> got[q] + i]

\* No lost wakeup: nobody waits for a queue that has a message buffered.
NoStrandedMessage ==
    /\ \A m \in Mailboxes : buffer[m] # <<>> => waiting[m] = <<>>
    /\ \A t \in listening : buffer[t] = <<>>

\* T.sleep: a thread has a timer pending, one, exactly while it sleeps.
SleepersHaveTimers ==
    \A t \in Threads : armed[t] = IF pos[t] = "sleep" THEN 1 ELSE 0

\* When handle_resume_result returns, to an event handler or a deferred function, it has left
\* no thread to run and no function of queuecall: the event loop never waits with a thread
\* runnable.  Functions given to Idle later may wait for the next call.
Drained ==
    Runs(Main) => /\ busy = {} /\ callbacks = <<>>
                  /\ frames = <<>> => nice \cap Threads = {}

\* No legal use of the module makes the scheduler exit the process.
NoExit == ~exited

\* The deferred functions that have not started.
Pending == ToSet(callbacks) \cup (nice \cap Calls)
             \cup UNION {ToSet(Tail(frames[i])) : i \in 1..Len(frames)}

\* A deferred function is called once, whatever nested trampolines run meanwhile.
CalledOnce ==
    /\ issued = ToSet(ran) \cup Pending
    /\ ToSet(ran) \cap Pending = {}
    /\ Len(ran) = Cardinality(ToSet(ran))

\* A thread leaves a recv with a message of one of its sources, or, if it waits for Idle,
\* when nothing else can run ("T.recv blocks the current thread until one of the
\* sources is ready", TODO:18).
WakesOnlyWhenReady ==
    [][\A t \in Actors : Blocked(t) /\ pos'[t] = "run" =>
          \E s \in waits[t] : \/ s \in Queues /\ got'[s] > got[s]
                              \/ s = Idle /\ busy = {} /\ callbacks = <<>>]_vars

\* A thread that was killed, or has returned, does not run again.
KilledForGood ==
    [][\A t \in Threads : pos[t] \in {"parked", "dead"} => pos'[t] = pos[t]]_vars

=============================================================================
