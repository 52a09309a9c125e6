----------------------------- MODULE ThreadProofs -----------------------------
(****************************************************************************)
(* The safety of Thread, for every set of threads, mailboxes and deferred   *)
(* functions and every number of messages, under the contract of Source and *)
(* of kill: one reader per mailbox, a coroutine, and only blocked threads   *)
(* are killed.                                                              *)
(****************************************************************************)
EXTENDS Thread, SequenceTheorems, FiniteSetTheorems, TLAPS

----------------------------------------------------------------------------
(* The inductive invariant. *)

\* The process runs, and the main script is never blocked in a recv.
MainRuns ==
    /\ exited = FALSE
    /\ mainArgs = NoMessage
    /\ pos[Main] = "run"
    /\ waits[Main] = {}

\* A mailbox has no waiter, or one, registered at position 1.
WaitLists ==
    /\ \A m \in Mailboxes :
          \/ waiting[m] = <<>>
          \/ \E t \in Threads : waiting[m] = <<t>> /\ m \in waits[t]
    /\ \A m \in Mailboxes, t \in Threads :
          m \in waits[t] => waiting[m] = <<t>> /\ idx[m][t] = 1

\* A thread is registered where it waits, and waits when it is blocked.
Waiters ==
    \A t \in Threads :
       /\ waits[t] \subseteq SourcesOf(t)
       /\ Blocked(t) <=> waits[t] # {}
       /\ t \in listening <=> t \in waits[t]
       /\ t \in nice <=> Idle \in waits[t]

Scheduled ==
    /\ busy = {t \in Threads : pos[t] \in {"new", "run"} /\ t # current}
    /\ current \in Threads => pos[current] = "run"

\* What is buffered is what was put after the last message taken.
Buffered ==
    \A q \in Queues :
       /\ got[q] <= sent[q]
       /\ buffer[q] = [i \in 1..(sent[q] - got[q]) |-> got[q] + i]

IInv ==
    /\ TypeOK
    /\ MainRuns
    /\ WaitLists
    /\ Waiters
    /\ Scheduled
    /\ SleepersHaveTimers
    /\ Buffered
    /\ NoStrandedMessage
    /\ Drained

----------------------------------------------------------------------------
(* What waking a thread does to the lists. *)

\* The assumptions on the constants that the proofs use.
LEMMA Names ==
    /\ Main \notin Threads /\ Tramp \notin Threads /\ Main # Tramp
    /\ Main \notin Mailboxes /\ Threads \cap Mailboxes = {}
    /\ Threads \cap Calls = {}
    /\ Idle \notin Queues /\ Kill \notin Queues /\ Tick \notin Queues
    /\ Nil \notin Queues
    /\ Idle # Kill /\ Idle # Tick /\ Idle # Nil /\ Kill # Tick
    /\ Kill # Nil /\ Tick # Nil
  BY SchedulerNames, ThreadNames DEF Actors, Queues

\* Taking the only element off a list leaves it empty.
LEMMA RemoveOnly == ASSUME NEW t PROVE TableRemove(<<t>>, 1) = <<>>
  BY DEF TableRemove, RemoveAt

\* A thread that is woken as it expects: it goes on, or a kill parks it, and either way
\* it is off every list.
Woken(t, src) ==
    /\ exited' = FALSE
    /\ waits' = [waits EXCEPT ![t] = {}]
    /\ waiting' = [m \in Mailboxes |-> IF m \in waits[t] THEN <<>> ELSE waiting[m]]
    /\ idx' = [m \in Mailboxes |->
                  IF m \in waits[t] THEN [idx[m] EXCEPT ![t] = 0] ELSE idx[m]]
    /\ listening' = listening \ {t}
    /\ nice' = nice \ {t}
    /\ \/ /\ src = Kill => ~Blocked(t) /\ pos[t] # "sleep"
          /\ pos' = [pos EXCEPT ![t] = "run"]
          /\ current' = t
       \/ src = Kill /\ pos' = [pos EXCEPT ![t] = "parked"] /\ current' = Tramp

\* Off the lists of its own recv, a thread is on none.
LEMMA UnregisterAll ==
    ASSUME IInv, NEW t \in Threads, Unregister(t)
    PROVE  /\ waits' = [waits EXCEPT ![t] = {}]
           /\ waiting' = [m \in Mailboxes |->
                             IF m \in waits[t] THEN <<>> ELSE waiting[m]]
           /\ idx' = [m \in Mailboxes |->
                         IF m \in waits[t] THEN [idx[m] EXCEPT ![t] = 0] ELSE idx[m]]
           /\ listening' = listening \ {t}
           /\ nice' = nice \ {t}
<1>1. \A m \in Mailboxes : m \in waits[t] => TableRemove(waiting[m], idx[m][t]) = <<>>
  BY RemoveOnly DEF IInv, WaitLists
<1>2. listening' = listening \ {t} /\ nice' = nice \ {t}
  BY DEF Unregister, IInv, Waiters
<1> QED
  BY <1>1, <1>2 DEF Unregister

\* A thread that is woken by one of its sources, by a kill, by its timer or from
\* busy_list is woken as it expects.
LEMMA WakeIsWoken ==
    ASSUME IInv, NEW t \in Threads, NEW src, Wake(t, src),
           pos[t] # "dead",
           Blocked(t) => src = Kill \/ src \in waits[t],
           pos[t] = "sleep" => src # Nil
    PROVE  Woken(t, src)
<1>1. CASE WakeReceiver(t, src)
  <2>1. Unregister(t)
    BY <1>1 DEF WakeReceiver
  <2>2. exited' = FALSE /\ \/ src # Kill /\ pos' = [pos EXCEPT ![t] = "run"] /\ current' = t
                           \/ src = Kill /\ pos' = [pos EXCEPT ![t] = "parked"]
                                /\ current' = Tramp
    BY <1>1 DEF WakeReceiver, Continues, IInv, MainRuns
  <2> QED
    BY <2>1, <2>2, UnregisterAll DEF Woken
<1>2. CASE WakeSleeper(t, src) \/ WakeOther(t)
  <2>1. ~Blocked(t)
    BY <1>2 DEF WakeSleeper, WakeOther, Blocked
  <2>2. waits[t] = {} /\ t \notin listening /\ t \notin nice
    BY <2>1 DEF IInv, Waiters
  <2>3. /\ exited' = FALSE
        /\ UNCHANGED <<waits, waiting, idx, listening, nice>>
        /\ \/ /\ src = Kill => pos[t] # "sleep"
              /\ pos' = [pos EXCEPT ![t] = "run"] /\ current' = t
           \/ src = Kill /\ pos' = [pos EXCEPT ![t] = "parked"] /\ current' = Tramp
    BY <1>2 DEF WakeSleeper, WakeOther, Continues, IInv, MainRuns, waitVars
  <2>4. waits = [waits EXCEPT ![t] = {}]
    BY <2>2 DEF IInv, TypeOK, Actors
  <2>5. /\ waiting = [m \in Mailboxes |-> IF m \in waits[t] THEN <<>> ELSE waiting[m]]
        /\ idx = [m \in Mailboxes |->
                     IF m \in waits[t] THEN [idx[m] EXCEPT ![t] = 0] ELSE idx[m]]
    BY <2>2 DEF IInv, TypeOK
  <2> QED
    BY <2>1, <2>2, <2>3, <2>4, <2>5 DEF Woken
<1>3. CASE WakeDead(t)
  BY <1>3 DEF WakeDead
<1> QED
  BY <1>1, <1>2, <1>3 DEF Wake

----------------------------------------------------------------------------
(* What waking a thread keeps. *)

\* The typing of what a resume changes.
TypedWake ==
    /\ current \in Actors \cup {Tramp}
    /\ nice \in SUBSET (Threads \cup Calls)
    /\ pos \in [Actors -> States]
    /\ waits \in [Actors -> SUBSET (Queues \cup {Idle})]
    /\ waiting \in [Mailboxes -> Seq(Actors)]
    /\ idx \in [Mailboxes -> [Actors -> Nat]]
    /\ listening \in SUBSET Threads

LEMMA WokenTyped ==
    ASSUME IInv, NEW t \in Threads, NEW src, Woken(t, src)
    PROVE  TypedWake'
<1>1. "run" \in States /\ "parked" \in States
  BY DEF States
<1>2. current' \in Actors \cup {Tramp} /\ pos' \in [Actors -> States]
  BY <1>1 DEF IInv, TypeOK, Woken, Actors
<1>3. waits' \in [Actors -> SUBSET (Queues \cup {Idle})]
  BY DEF IInv, TypeOK, Woken
<1>4. waiting' \in [Mailboxes -> Seq(Actors)]
  BY DEF IInv, TypeOK, Woken
<1>5. idx' \in [Mailboxes -> [Actors -> Nat]]
  BY DEF IInv, TypeOK, Woken
<1>6. listening' \in SUBSET Threads /\ nice' \in SUBSET (Threads \cup Calls)
  BY DEF IInv, TypeOK, SchedulerTypeOK, Woken
<1> QED
  BY <1>2, <1>3, <1>4, <1>5, <1>6 DEF TypedWake

LEMMA WokenLists ==
    ASSUME IInv, NEW t \in Threads, NEW src, Woken(t, src)
    PROVE  WaitLists'
<1>0. waits \in [Actors -> SUBSET (Queues \cup {Idle})] /\ t \in Actors
      /\ Threads \subseteq Actors
  BY DEF IInv, TypeOK, Actors
<1>1. ASSUME NEW m \in Mailboxes, NEW u \in Threads, m \in waits'[u]
      PROVE  waiting'[m] = <<u>> /\ idx'[m][u] = 1
  <2>1. u # t /\ m \in waits[u]
    BY <1>0, <1>1 DEF Woken
  <2>2. waiting[m] = <<u>> /\ idx[m][u] = 1
    BY <2>1 DEF IInv, WaitLists
  <2>3. m \notin waits[t]
    <3>1. SUFFICES ASSUME m \in waits[t] PROVE FALSE
      OBVIOUS
    <3>2. waiting[m] = <<t>>
      BY <3>1 DEF IInv, WaitLists
    <3> QED
      BY <2>1, <2>2, <3>2
  <2> QED
    BY <2>2, <2>3 DEF Woken
<1>2. ASSUME NEW m \in Mailboxes
      PROVE  \/ waiting'[m] = <<>>
             \/ \E u \in Threads : waiting'[m] = <<u>> /\ m \in waits'[u]
  <2>1. CASE m \in waits[t]
    BY <2>1 DEF Woken
  <2>2. CASE m \notin waits[t]
    BY <2>2, <1>0 DEF Woken, IInv, WaitLists
  <2> QED
    BY <2>1, <2>2
<1> QED
  BY <1>1, <1>2 DEF WaitLists

LEMMA WokenWaiters ==
    ASSUME IInv, NEW t \in Threads, NEW src, Woken(t, src)
    PROVE  Waiters' /\ pos'[Main] = "run" /\ waits'[Main] = {}
<1>0. /\ waits \in [Actors -> SUBSET (Queues \cup {Idle})] /\ pos \in [Actors -> States]
      /\ t \in Actors /\ Threads \subseteq Actors /\ Main \in Actors /\ t # Main
  BY Names DEF IInv, TypeOK, Actors
<1>1. ASSUME NEW u \in Threads
      PROVE  /\ waits'[u] \subseteq SourcesOf(u)
             /\ (pos'[u] \in {"recv", "recvone"}) <=> waits'[u] # {}
             /\ u \in listening' <=> u \in waits'[u]
             /\ u \in nice' <=> Idle \in waits'[u]
  BY <1>0 DEF Woken, IInv, Waiters, Blocked
<1>2. Waiters'
  BY <1>1 DEF Waiters, Blocked, SourcesOf
<1> QED
  BY <1>0, <1>2 DEF Woken, IInv, MainRuns

\* A waiter that leaves its lists strands no message.
LEMMA WokenStrandsNothing ==
    ASSUME IInv, NEW t \in Threads, NEW src, Woken(t, src), UNCHANGED buffer
    PROVE  NoStrandedMessage'
  BY DEF IInv, NoStrandedMessage, Woken

\* Nobody is blocked or asleep and on busy_list.
LEMMA BlockedNotBusy ==
    ASSUME IInv, NEW t \in Threads, Blocked(t) \/ pos[t] = "sleep"
    PROVE  t \notin busy /\ t # current /\ pos[t] \notin {"new", "run", "dead"}
  BY DEF IInv, Scheduled, Blocked

\* The resumer stays runnable, and the thread it resumes runs.
LEMMA ResumedScheduled ==
    ASSUME IInv, NEW c \in Actors, Runs(c), NEW t \in Threads, NEW src,
           Woken(t, src), Suspend(c), Blocked(t) \/ pos[t] = "sleep"
    PROVE  Scheduled' /\ Drained' /\ busy' \in SUBSET Threads
<1>0. /\ pos \in [Actors -> States] /\ t \in Actors /\ Threads \subseteq Actors
      /\ c = current /\ busy \in SUBSET Threads
  BY DEF IInv, TypeOK, SchedulerTypeOK, Actors, Runs
<1>1. busy' = IF c \in Threads THEN busy \cup {c} ELSE busy
  BY DEF Suspend
<1>2. /\ busy = {u \in Threads : pos[u] \in {"new", "run"} /\ u # c}
      /\ c \in Threads => pos[c] = "run"
  BY <1>0 DEF IInv, Scheduled
<1>3. t \notin busy /\ t # c /\ pos[t] \notin {"new", "run"}
  BY <1>0, BlockedNotBusy
<1>4. busy' = {u \in Threads : pos'[u] \in {"new", "run"} /\ u # current'}
  <2>1. CASE pos' = [pos EXCEPT ![t] = "run"] /\ current' = t
    BY <1>0, <1>1, <1>2, <1>3, <2>1
  <2>2. CASE pos' = [pos EXCEPT ![t] = "parked"] /\ current' = Tramp
    BY <1>0, <1>1, <1>2, <1>3, <2>2, Names
  <2> QED
    BY <2>1, <2>2 DEF Woken
<1>5. current' \in Threads => pos'[current'] = "run"
  BY <1>0, Names DEF Woken
<1>6. current' # Main
  BY Names DEF Woken
<1> QED
  BY <1>0, <1>1, <1>4, <1>5, <1>6 DEF Scheduled, Drained, Runs

\* A timer goes with its sleeper.
LEMMA WokenTimers ==
    ASSUME IInv, NEW t \in Threads, NEW src, Woken(t, src),
           \/ CancelTimer(t, src) /\ (pos[t] = "sleep" => src = Kill)
           \/ pos[t] = "sleep" /\ armed' = [armed EXCEPT ![t] = @ - 1]
    PROVE  SleepersHaveTimers' /\ armed' \in [Threads -> Nat]
<1>1. /\ armed \in [Threads -> Nat] /\ pos \in [Actors -> States]
      /\ t \in Actors /\ Threads \subseteq Actors
      /\ \A u \in Threads : armed[u] = IF pos[u] = "sleep" THEN 1 ELSE 0
  BY DEF IInv, TypeOK, Actors, SleepersHaveTimers
<1>2. armed' = [armed EXCEPT ![t] = 0]
  <2>1. CASE pos[t] = "sleep"
    <3>1. armed' = [armed EXCEPT ![t] = armed[t] - 1]
      BY <2>1 DEF CancelTimer
    <3>2. armed[t] - 1 = 0
      BY <1>1, <2>1
    <3> QED
      BY <3>1, <3>2
  <2>2. CASE pos[t] # "sleep"
    <3>1. armed' = armed /\ armed[t] = 0
      BY <1>1, <2>2 DEF CancelTimer
    <3> QED
      BY <1>1, <3>1
  <2> QED
    BY <2>1, <2>2
<1>3. pos'[t] # "sleep" /\ \A u \in Threads \ {t} : pos'[u] = pos[u]
  BY <1>1 DEF Woken
<1> QED
  BY <1>1, <1>2, <1>3 DEF SleepersHaveTimers

----------------------------------------------------------------------------
(* Messages. *)

\* The numbers of the messages under way when the last put is n and the last taken m.
LEMMA AppendNext ==
    ASSUME NEW n \in Nat, NEW m \in Nat, m <= n
    PROVE  Append([i \in 1..(n - m) |-> m + i], n + 1)
             = [i \in 1..((n + 1) - m) |-> m + i]
  OBVIOUS

LEMMA TakeFirst ==
    ASSUME NEW n \in Nat, NEW m \in Nat, m <= n,
           [i \in 1..(n - m) |-> m + i] # <<>>
    PROVE  /\ m + 1 <= n
           /\ Head([i \in 1..(n - m) |-> m + i]) = m + 1
           /\ Tail([i \in 1..(n - m) |-> m + i]) = [i \in 1..(n - (m + 1)) |-> (m + 1) + i]
<1> DEFINE s == [i \in 1..(n - m) |-> m + i]
<1>1. s \in Seq(Nat) /\ Len(s) = n - m
  OBVIOUS
<1>2. n - m # 0
  <2>1. SUFFICES ASSUME n - m = 0 PROVE s = <<>>
    OBVIOUS
  <2> QED
    BY <2>1, <1>1
<1>3. m + 1 <= n
  BY <1>2
<1>4. Tail(s) \in Seq(Nat) /\ Len(Tail(s)) = n - (m + 1)
      /\ \A i \in 1..(n - (m + 1)) : Tail(s)[i] = s[i + 1]
  BY <1>1, <1>3
<1>5. Tail(s) = [i \in 1..(n - (m + 1)) |-> (m + 1) + i]
  <2> DEFINE u == [i \in 1..(n - (m + 1)) |-> (m + 1) + i]
  <2>1. u \in Seq(Nat) /\ Len(u) = n - (m + 1)
    BY <1>3
  <2>2. \A i \in 1..(n - (m + 1)) : Tail(s)[i] = u[i]
    BY <1>3, <1>4
  <2> HIDE DEF s, u
  <2>3. Tail(s) = u
    BY <1>3, <1>4, <2>1, <2>2, SeqEqual
  <2> QED
    BY <2>3 DEF u
<1>6. Head(s) = m + 1
  BY <1>1, <1>3
<1> QED
  BY <1>3, <1>5, <1>6 DEF s

LEMMA PutBackLast ==
    ASSUME NEW n \in Nat, NEW m \in Nat, m <= n, m > 0
    PROVE  <<m>> \o [i \in 1..(n - m) |-> m + i]
             = [i \in 1..(n - (m - 1)) |-> (m - 1) + i]
<1> DEFINE s == [i \in 1..(n - m) |-> m + i]
           u == [i \in 1..(n - (m - 1)) |-> (m - 1) + i]
<1>1. s \in Seq(Nat) /\ Len(s) = n - m /\ <<m>> \in Seq(Nat) /\ Len(<<m>>) = 1
  OBVIOUS
<1>2. u \in Seq(Nat) /\ Len(u) = (n - m) + 1
  OBVIOUS
<1>3. <<m>> \o s \in Seq(Nat) /\ Len(<<m>> \o s) = (n - m) + 1
  BY <1>1
<1>4. ASSUME NEW i \in 1..((n - m) + 1) PROVE (<<m>> \o s)[i] = u[i]
  <2>1. CASE i = 1
    BY <1>1, <2>1
  <2>2. CASE i # 1
    <3>1. i - 1 \in 1..(n - m)
      BY <2>2
    <3>2. (<<m>> \o s)[i] = s[i - 1]
      BY <1>1, <3>1
    <3> QED
      BY <3>1, <3>2
  <2> QED
    BY <2>1, <2>2
<1> HIDE DEF s, u
<1>5. <<m>> \o s = u
  BY <1>2, <1>3, <1>4, SeqEqual
<1> QED
  BY <1>5 DEF s, u

\* Nothing is buffered in a queue somebody waits for.
LEMMA WaitedForIsEmpty ==
    ASSUME IInv, NEW t \in Threads, NEW q \in Queues, q \in waits[t]
    PROVE  /\ buffer[q] = <<>> /\ got[q] = sent[q]
           /\ q \in Mailboxes => waiting[q] = <<t>>
           /\ q \in Threads => q = t /\ t \in listening
<1>1. q \in Mailboxes => waiting[q] = <<t>>
  BY DEF IInv, WaitLists
<1>2. q \in Threads => q = t /\ t \in listening
  <2>1. waits[t] \subseteq SourcesOf(t) /\ (t \in listening <=> t \in waits[t])
    BY DEF IInv, Waiters
  <2>2. q \in Threads => q = t
    BY <2>1, Names DEF SourcesOf, Queues
  <2> QED
    BY <2>1, <2>2
<1>3. buffer[q] = <<>>
  BY <1>1, <1>2 DEF IInv, NoStrandedMessage, Queues
<1>4. got[q] = sent[q]
  <2>1. sent[q] \in Nat /\ got[q] \in Nat /\ got[q] <= sent[q]
        /\ [i \in 1..(sent[q] - got[q]) |-> got[q] + i] = <<>>
    BY <1>3 DEF IInv, TypeOK, Buffered
  <2>2. Len([i \in 1..(sent[q] - got[q]) |-> got[q] + i]) = sent[q] - got[q]
    BY <2>1
  <2>3. sent[q] - got[q] = 0
    BY <2>1, <2>2
  <2> QED
    BY <2>1, <2>3
<1> QED
  BY <1>1, <1>2, <1>3, <1>4

----------------------------------------------------------------------------
(* The initial states, and the steps that wake a thread. *)

LEMMA InitInv == Init => IInv
<1> SUFFICES ASSUME Init PROVE IInv
  OBVIOUS
<1> USE Names DEF Init, SchedulerInit
<1>1. TypeOK
  <2>1. SchedulerTypeOK
    <3>1. callbacks \in Seq(Calls) /\ frames \in Seq(Seq(Calls) \ {<<>>}) /\ ran \in Seq(Calls)
      BY EmptySeq
    <3>2. /\ current \in Actors \cup {Tramp} /\ busy \in SUBSET Threads
          /\ nice \in SUBSET (Threads \cup Calls) /\ issued \in SUBSET Calls
          /\ exited \in BOOLEAN
      BY DEF Actors
    <3> QED
      BY <3>1, <3>2 DEF SchedulerTypeOK
  <2>2. pos \in [Actors -> States] /\ waits \in [Actors -> SUBSET (Queues \cup {Idle})]
    BY DEF States
  <2>3. waiting \in [Mailboxes -> Seq(Actors)] /\ idx \in [Mailboxes -> [Actors -> Nat]]
    OBVIOUS
  <2>4. mainArgs \in Wakers \X Nat
    BY DEF NoMessage, Wakers
  <2>5. /\ listening \in SUBSET Threads /\ buffer \in [Queues -> Seq(Nat)]
        /\ armed \in [Threads -> Nat] /\ sent \in [Queues -> Nat]
        /\ got \in [Queues -> Nat]
    OBVIOUS
  <2> QED
    BY <2>1, <2>2, <2>3, <2>4, <2>5 DEF TypeOK
<1>2. MainRuns /\ WaitLists /\ Waiters
  BY DEF MainRuns, WaitLists, Waiters, Actors, Blocked
<1>3. Scheduled /\ SleepersHaveTimers
  BY DEF Scheduled, SleepersHaveTimers, Actors
<1>4. Buffered
  BY DEF Buffered
<1>5. NoStrandedMessage /\ Drained
  BY DEF NoStrandedMessage, Drained, Queues
<1> QED
  BY <1>1, <1>2, <1>3, <1>4, <1>5 DEF IInv

\* A message handed to a thread that waits for it wakes it, and is taken.
LEMMA HandOverWakes ==
    ASSUME IInv, NEW c \in Actors, Runs(c), NEW t \in Threads, NEW q \in Queues,
           q \in waits[t], NEW v, HandOver(c, t, q, v)
    PROVE  /\ Blocked(t) /\ pos[t] # "sleep"
           /\ Woken(t, q) /\ Suspend(c) /\ CancelTimer(t, q)
           /\ UNCHANGED <<mainArgs, callbacks, frames, issued, ran, buffer>>
           /\ got' = [got EXCEPT ![q] = v]
<1>1. Blocked(t)
  BY DEF IInv, Waiters
<1>2. t # c /\ pos[t] # "dead" /\ pos[t] # "sleep" /\ t # Main
  BY <1>1, BlockedNotBusy, Names DEF Runs, Blocked
<1>3. /\ Wake(t, q) /\ mainArgs' = mainArgs /\ Suspend(c) /\ CancelTimer(t, q)
      /\ UNCHANGED <<callbacks, frames, issued, ran, buffer>>
      /\ got' = [got EXCEPT ![q] = v]
  BY <1>1, <1>2, Names DEF HandOver, Resume, deferred
<1>4. Woken(t, q)
  BY <1>1, <1>2, <1>3, WakeIsWoken
<1> QED
  BY <1>1, <1>2, <1>3, <1>4

\* A message handed to a waiter is the next of its queue.
LEMMA HandOverStep ==
    ASSUME IInv, NEW c \in Actors, Runs(c), NEW t \in Threads, NEW q \in Queues,
           q \in waits[t], HandOver(c, t, q, sent[q] + 1),
           sent' = [sent EXCEPT ![q] = @ + 1]
    PROVE  IInv'
<1>1. /\ Blocked(t) /\ pos[t] # "sleep"
      /\ Woken(t, q) /\ Suspend(c) /\ CancelTimer(t, q)
      /\ UNCHANGED <<mainArgs, callbacks, frames, issued, ran, buffer>>
      /\ got' = [got EXCEPT ![q] = sent[q] + 1]
  BY HandOverWakes
<1>2. /\ sent \in [Queues -> Nat] /\ got \in [Queues -> Nat]
      /\ buffer \in [Queues -> Seq(Nat)]
  BY DEF IInv, TypeOK
<1>3. buffer[q] = <<>> /\ got[q] = sent[q]
  BY WaitedForIsEmpty
<1>4. Scheduled' /\ Drained' /\ busy' \in SUBSET Threads
  BY <1>1, ResumedScheduled
<1>5. SleepersHaveTimers' /\ armed' \in [Threads -> Nat]
  BY <1>1, WokenTimers
<1>6. TypeOK'
  <2>1. TypedWake'
    BY <1>1, WokenTyped
  <2>2. SchedulerTypeOK'
    BY <2>1, <1>1, <1>4 DEF SchedulerTypeOK, TypedWake, IInv, TypeOK, Woken
  <2>3. sent' \in [Queues -> Nat] /\ got' \in [Queues -> Nat]
    BY <1>1, <1>2
  <2> QED
    BY <2>1, <2>2, <2>3, <1>1, <1>5 DEF TypeOK, TypedWake, IInv
<1>7. MainRuns' /\ WaitLists' /\ Waiters' /\ NoStrandedMessage'
  <2>1. WaitLists' /\ NoStrandedMessage'
    BY <1>1, WokenLists, WokenStrandsNothing
  <2>2. Waiters' /\ pos'[Main] = "run" /\ waits'[Main] = {}
    BY <1>1, WokenWaiters
  <2>3. exited' = FALSE /\ mainArgs' = NoMessage
    BY <1>1 DEF Woken, IInv, MainRuns, NoMessage
  <2> QED
    BY <2>1, <2>2, <2>3 DEF MainRuns
<1>8. Buffered'
  <2>1. ASSUME NEW u \in Queues
        PROVE  /\ got'[u] <= sent'[u]
               /\ buffer'[u] = [i \in 1..(sent'[u] - got'[u]) |-> got'[u] + i]
    <3>1. CASE u = q
      <4>1. got'[u] = sent[q] + 1 /\ sent'[u] = sent[q] + 1 /\ buffer'[u] = <<>>
        BY <1>1, <1>2, <1>3, <3>1
      <4> QED
        BY <4>1, <1>2
    <3>2. CASE u # q
      BY <1>1, <1>2, <3>2 DEF IInv, Buffered
    <3> QED
      BY <3>1, <3>2
  <2> QED
    BY <2>1 DEF Buffered
<1> QED
  BY <1>4, <1>5, <1>6, <1>7, <1>8 DEF IInv

\* A thread is woken, and no message moves.
LEMMA WakeStep ==
    ASSUME IInv, NEW t \in Threads, NEW src, Woken(t, src),
           Scheduled', Drained', busy' \in SUBSET Threads,
           SleepersHaveTimers', armed' \in [Threads -> Nat],
           UNCHANGED <<deferred, queueVars, mainArgs>>
    PROVE  IInv'
<1>1. UNCHANGED <<callbacks, frames, issued, ran, buffer, sent, got, mainArgs>>
  BY DEF deferred, queueVars
<1>2. TypedWake'
  BY WokenTyped
<1>3. SchedulerTypeOK'
  BY <1>1, <1>2 DEF SchedulerTypeOK, TypedWake, IInv, TypeOK, Woken
<1>4. TypeOK'
  BY <1>1, <1>2, <1>3 DEF TypeOK, TypedWake, IInv
<1>5. MainRuns' /\ WaitLists' /\ Waiters' /\ NoStrandedMessage'
  <2>1. WaitLists' /\ NoStrandedMessage'
    BY <1>1, WokenLists, WokenStrandsNothing
  <2>2. Waiters' /\ pos'[Main] = "run" /\ waits'[Main] = {}
    BY <1>1, WokenWaiters
  <2>3. exited' = FALSE /\ mainArgs' = NoMessage
    BY <1>1 DEF Woken, IInv, MainRuns, NoMessage
  <2> QED
    BY <2>1, <2>2, <2>3 DEF MainRuns
<1>6. Buffered'
  BY <1>1 DEF Buffered, IInv
<1> QED
  BY <1>4, <1>5, <1>6 DEF IInv

LEMMA KillStep ==
    ASSUME IInv, KillsBlocked, NEW c \in Actors, NEW t \in Threads, KillThread(c, t)
    PROVE  IInv'
<1>1. /\ Runs(c) /\ t # c /\ t # Main
      /\ Blocked(t) \/ pos[t] = "sleep"
  BY Names DEF KillThread, KillsBlocked, Blocked
<1>2. /\ Wake(t, Kill) /\ Suspend(c) /\ CancelTimer(t, Kill)
      /\ UNCHANGED <<deferred, queueVars, mainArgs>>
  BY <1>1 DEF KillThread, Resume, deferred
<1>3. Woken(t, Kill)
  BY <1>1, <1>2, BlockedNotBusy, WakeIsWoken, Names
<1>4. Scheduled' /\ Drained' /\ busy' \in SUBSET Threads
  BY <1>1, <1>2, <1>3, ResumedScheduled
<1>5. SleepersHaveTimers' /\ armed' \in [Threads -> Nat]
  BY <1>2, <1>3, WokenTimers
<1> QED
  BY <1>2, <1>3, <1>4, <1>5, WakeStep

LEMMA TimerStep == ASSUME IInv, NEW t \in Threads, TimerFires(t) PROVE IInv'
<1>1. pos[t] = "sleep"
  BY DEF TimerFires, IInv, SleepersHaveTimers
<1>2. Main \in Actors /\ t # Main
  BY Names DEF Actors
<1>3. /\ Runs(Main) /\ Wake(t, Tick) /\ Suspend(Main)
      /\ armed' = [armed EXCEPT ![t] = @ - 1]
      /\ UNCHANGED <<deferred, queueVars, mainArgs>>
  BY <1>2 DEF TimerFires, Resume, deferred
<1>4. Woken(t, Tick)
  BY <1>1, <1>3, WakeIsWoken, Names DEF Blocked
<1>5. Scheduled' /\ Drained' /\ busy' \in SUBSET Threads
  BY <1>1, <1>2, <1>3, <1>4, ResumedScheduled
<1>6. SleepersHaveTimers' /\ armed' \in [Threads -> Nat]
  BY <1>1, <1>3, <1>4, WokenTimers
<1> QED
  BY <1>3, <1>4, <1>5, <1>6, WakeStep

\* A busy thread goes on where it was: it is not blocked, nor asleep.
LEMMA RunBusyStep == ASSUME IInv, NEW t \in Threads, RunBusy(t) PROVE IInv'
<1>1. /\ pos[t] \in {"new", "run"} /\ t # current /\ ~Blocked(t)
      /\ pos[t] # "sleep" /\ pos[t] # "dead"
  BY DEF RunBusy, IInv, Scheduled, Blocked
<1>2. /\ current = Tramp /\ busy' = busy \ {t} /\ Wake(t, Nil) /\ CancelTimer(t, Nil)
      /\ UNCHANGED <<deferred, queueVars, mainArgs>>
  BY DEF RunBusy, Runs
<1>3. Woken(t, Nil)
  BY <1>1, <1>2, WakeIsWoken
<1>4. pos' = [pos EXCEPT ![t] = "run"] /\ current' = t
  BY <1>3, Names DEF Woken
<1>5. pos \in [Actors -> States] /\ Threads \subseteq Actors /\ busy \in SUBSET Threads
      /\ busy = {u \in Threads : pos[u] \in {"new", "run"} /\ u # current}
  BY DEF IInv, TypeOK, SchedulerTypeOK, Actors, Scheduled
<1>6. Scheduled' /\ busy' \in SUBSET Threads
  <2>1. \A u \in Threads : u # Tramp
    BY Names
  <2>2. busy' = {u \in Threads : pos'[u] \in {"new", "run"} /\ u # current'}
    BY <1>2, <1>4, <1>5, <2>1
  <2> QED
    BY <1>4, <1>5, <2>2 DEF Scheduled
<1>7. Drained'
  BY <1>4, Names DEF Drained, Runs
<1>8. SleepersHaveTimers' /\ armed' \in [Threads -> Nat]
  BY <1>1, <1>2, <1>3, WokenTimers
<1> QED
  BY <1>2, <1>3, <1>6, <1>7, <1>8, WakeStep

LEMMA RunNiceStep == ASSUME IInv, NEW t \in Threads, RunNiceThread(t) PROVE IInv'
<1>1. Idle \in waits[t] /\ Blocked(t)
  BY DEF RunNiceThread, IInv, Waiters
<1>2. pos[t] \notin {"new", "run", "dead", "sleep"} /\ t \notin busy
  BY <1>1, BlockedNotBusy DEF Blocked
<1>3. /\ current = Tramp /\ busy' = busy /\ Wake(t, Idle) /\ CancelTimer(t, Idle)
      /\ UNCHANGED <<deferred, queueVars, mainArgs>>
  BY DEF RunNiceThread, NiceTurn, CallbacksTurn, Runs
<1>4. Woken(t, Idle)
  BY <1>1, <1>2, <1>3, WakeIsWoken
<1>5. pos' = [pos EXCEPT ![t] = "run"] /\ current' = t
  BY <1>4, Names DEF Woken
<1>6. pos \in [Actors -> States] /\ Threads \subseteq Actors /\ busy \in SUBSET Threads
      /\ busy = {u \in Threads : pos[u] \in {"new", "run"} /\ u # current}
  BY DEF IInv, TypeOK, SchedulerTypeOK, Actors, Scheduled
<1>7. Scheduled' /\ busy' \in SUBSET Threads
  <2>1. \A u \in Threads : u # Tramp
    BY Names
  <2>2. busy' = {u \in Threads : pos'[u] \in {"new", "run"} /\ u # current'}
    BY <1>2, <1>3, <1>5, <1>6, <2>1
  <2> QED
    BY <1>3, <1>5, <1>6, <2>2 DEF Scheduled
<1>8. Drained'
  BY <1>5, Names DEF Drained, Runs
<1>9. SleepersHaveTimers' /\ armed' \in [Threads -> Nat]
  BY <1>2, <1>3, <1>4, WokenTimers
<1> QED
  BY <1>3, <1>4, <1>7, <1>8, <1>9, WakeStep

----------------------------------------------------------------------------
(* The steps in which a thread, or the main context, only changes its own state, *)
(* a queue or the list of threads.                                               *)

\* A message is buffered: nobody waits for it.
LEMMA BufferStep ==
    ASSUME IInv, NEW q \in Queues,
           q \in Mailboxes => waiting[q] = <<>>,
           q \in Threads => q \notin listening,
           sent' = [sent EXCEPT ![q] = @ + 1],
           buffer' = [buffer EXCEPT ![q] = Append(@, sent[q] + 1)],
           UNCHANGED <<controlVars, got>>
    PROVE  IInv'
<1>1. /\ UNCHANGED <<schedVars, pos, waits, waiting, idx, listening, armed, mainArgs, got>>
      /\ UNCHANGED <<current, busy, callbacks, nice, frames, issued, ran, exited>>
  BY DEF controlVars, schedVars, waitVars
<1>2. /\ sent \in [Queues -> Nat] /\ got \in [Queues -> Nat]
      /\ buffer \in [Queues -> Seq(Nat)]
  BY DEF IInv, TypeOK
<1>3. sent' \in [Queues -> Nat] /\ buffer' \in [Queues -> Seq(Nat)]
  BY <1>2
<1>4. TypeOK'
  BY <1>1, <1>3 DEF TypeOK, SchedulerTypeOK, IInv
<1>5. MainRuns' /\ WaitLists' /\ Waiters' /\ Scheduled' /\ SleepersHaveTimers' /\ Drained'
  BY <1>1 DEF IInv, MainRuns, WaitLists, Waiters, Scheduled, SleepersHaveTimers,
              Drained, Runs, Blocked
<1>6. Buffered'
  <2>1. ASSUME NEW u \in Queues
        PROVE  /\ got'[u] <= sent'[u]
               /\ buffer'[u] = [i \in 1..(sent'[u] - got'[u]) |-> got'[u] + i]
    <3>1. CASE u = q
      <4>1. got[u] <= sent[u] /\ buffer[u] = [i \in 1..(sent[u] - got[u]) |-> got[u] + i]
        BY DEF IInv, Buffered
      <4>2. sent'[u] = sent[u] + 1 /\ buffer'[u] = Append(buffer[u], sent[u] + 1)
            /\ got'[u] = got[u]
        BY <1>1, <1>2, <3>1
      <4>3. sent[u] \in Nat /\ got[u] \in Nat
        BY <1>2
      <4>4. Append([i \in 1..(sent[u] - got[u]) |-> got[u] + i], sent[u] + 1)
              = [i \in 1..((sent[u] + 1) - got[u]) |-> got[u] + i]
        BY <4>1, <4>3, AppendNext
      <4>5. buffer'[u] = [i \in 1..(sent'[u] - got'[u]) |-> got'[u] + i]
        BY <4>1, <4>2, <4>4
      <4> QED
        BY <4>1, <4>2, <4>3, <4>5
    <3>2. CASE u # q
      BY <1>1, <1>2, <3>2 DEF IInv, Buffered
    <3> QED
      BY <3>1, <3>2
  <2> QED
    BY <2>1 DEF Buffered
<1>7. NoStrandedMessage'
  BY <1>1, <1>2, Names DEF IInv, NoStrandedMessage, Queues, TypeOK
<1> QED
  BY <1>4, <1>5, <1>6, <1>7 DEF IInv

LEMMA PutStep == ASSUME IInv, NEW c \in Actors, NEW m \in Mailboxes, Put(c, m) PROVE IInv'
<1>0. m \in Queues /\ m \notin Threads
  BY Names DEF Queues
<1>1. CASE waiting[m] = <<>>
  <2>1. buffer' = [buffer EXCEPT ![m] = Append(@, sent[m] + 1)]
        /\ UNCHANGED <<controlVars, got>>
    BY <1>1 DEF Put
  <2> QED
    BY <1>0, <1>1, <2>1, BufferStep DEF Put
<1>2. CASE waiting[m] # <<>>
  <2>1. PICK t \in Threads : waiting[m] = <<t>> /\ m \in waits[t]
    BY <1>2 DEF IInv, WaitLists
  <2>2. HandOver(c, t, m, sent[m] + 1)
    BY <1>2, <2>1 DEF Put
  <2> QED
    BY <1>0, <2>1, <2>2, HandOverStep DEF Put
<1> QED
  BY <1>1, <1>2

LEMMA SendStep == ASSUME IInv, NEW c \in Actors, NEW t \in Threads, Send(c, t) PROVE IInv'
<1>0. t \in Queues /\ t \notin Mailboxes
  BY Names DEF Queues
<1>1. CASE t \notin listening
  BY <1>0, <1>1, BufferStep DEF Send
<1>2. CASE t \in listening
  <2>1. t \in waits[t]
    BY <1>2 DEF IInv, Waiters
  <2> QED
    BY <1>0, <1>2, <2>1, HandOverStep DEF Send
<1> QED
  BY <1>1, <1>2

\* The running thread waits for nothing.
LEMMA RunningWaitsForNothing ==
    ASSUME IInv, NEW c \in Threads, Runs(c)
    PROVE  waits[c] = {} /\ pos[c] = "run" /\ c \notin listening /\ c \notin nice
  BY DEF IInv, Scheduled, Waiters, Runs, Blocked

\* A mailbox of which the running thread is a reader has no waiter.
LEMMA NoWaiterBeside ==
    ASSUME IInv, SingleReader, NEW c \in Threads, Runs(c),
           NEW m \in Mailboxes, c \in Readers[m]
    PROVE  waiting[m] = <<>>
<1>1. SUFFICES ASSUME NEW t \in Threads, waiting[m] = <<t>>, m \in waits[t] PROVE FALSE
  BY DEF IInv, WaitLists
<1>2. t \in Readers[m]
  BY <1>1, Names DEF IInv, Waiters, SourcesOf, Queues
<1>3. t = c
  BY <1>2 DEF SingleReader
<1> QED
  BY <1>1, <1>3, RunningWaitsForNothing

\* A message is taken from the buffer, or put back: nobody waits for the queue.
LEMMA BufferChange ==
    ASSUME IInv, NEW q \in Queues,
           q \in Mailboxes => waiting[q] = <<>>,
           q \in Threads => q \notin listening,
           NEW n \in Nat, n <= sent[q],
           got' = [got EXCEPT ![q] = n],
           NEW s \in Seq(Nat), s = [i \in 1..(sent[q] - n) |-> n + i],
           buffer' = [buffer EXCEPT ![q] = s],
           UNCHANGED <<controlVars, sent>>
    PROVE  IInv'
<1>1. /\ UNCHANGED <<schedVars, pos, waits, waiting, idx, listening, armed, mainArgs, sent>>
      /\ UNCHANGED <<current, busy, callbacks, nice, frames, issued, ran, exited>>
  BY DEF controlVars, schedVars, waitVars
<1>2. /\ sent \in [Queues -> Nat] /\ got \in [Queues -> Nat]
      /\ buffer \in [Queues -> Seq(Nat)]
  BY DEF IInv, TypeOK
<1>3. got' \in [Queues -> Nat] /\ buffer' \in [Queues -> Seq(Nat)]
  BY <1>2
<1>4. TypeOK'
  BY <1>1, <1>3 DEF TypeOK, SchedulerTypeOK, IInv
<1>5. MainRuns' /\ WaitLists' /\ Waiters' /\ Scheduled' /\ SleepersHaveTimers' /\ Drained'
  BY <1>1 DEF IInv, MainRuns, WaitLists, Waiters, Scheduled, SleepersHaveTimers,
              Drained, Runs, Blocked
<1>6. Buffered'
  <2>1. ASSUME NEW u \in Queues
        PROVE  /\ got'[u] <= sent'[u]
               /\ buffer'[u] = [i \in 1..(sent'[u] - got'[u]) |-> got'[u] + i]
    <3>1. CASE u = q
      BY <1>1, <1>2, <3>1
    <3>2. CASE u # q
      BY <1>1, <1>2, <3>2 DEF IInv, Buffered
    <3> QED
      BY <3>1, <3>2
  <2> QED
    BY <2>1 DEF Buffered
<1>7. NoStrandedMessage'
  BY <1>1, <1>2, Names DEF IInv, NoStrandedMessage, Queues, TypeOK
<1> QED
  BY <1>4, <1>5, <1>6, <1>7 DEF IInv

LEMMA TakeStep ==
    ASSUME IInv, SingleReader, NEW c \in Threads, Runs(c),
           NEW S \in SUBSET SourcesOf(c), TakeBuffered(c, S)
    PROVE  IInv'
<1>1. PICK q \in S \cap Queues :
         /\ buffer[q] # <<>>
         /\ got' = [got EXCEPT ![q] = Head(buffer[q])]
         /\ buffer' = [buffer EXCEPT ![q] = Tail(@)]
         /\ UNCHANGED <<controlVars, sent>>
  BY DEF TakeBuffered
<1>2. q \in Mailboxes => waiting[q] = <<>>
  BY NoWaiterBeside, Names DEF SourcesOf, Queues
<1>3. q \in Threads => q \notin listening
  BY RunningWaitsForNothing, Names DEF SourcesOf, Queues
<1>4. /\ sent[q] \in Nat /\ got[q] \in Nat /\ got[q] <= sent[q]
      /\ buffer[q] = [i \in 1..(sent[q] - got[q]) |-> got[q] + i]
      /\ buffer \in [Queues -> Seq(Nat)]
  BY DEF IInv, TypeOK, Buffered
<1>5. /\ got[q] + 1 <= sent[q] /\ Head(buffer[q]) = got[q] + 1
      /\ Tail(buffer[q]) = [i \in 1..(sent[q] - (got[q] + 1)) |-> (got[q] + 1) + i]
  <2>1. [i \in 1..(sent[q] - got[q]) |-> got[q] + i] # <<>>
    BY <1>1, <1>4
  <2>2. /\ got[q] + 1 <= sent[q]
        /\ Head([i \in 1..(sent[q] - got[q]) |-> got[q] + i]) = got[q] + 1
        /\ Tail([i \in 1..(sent[q] - got[q]) |-> got[q] + i])
             = [i \in 1..(sent[q] - (got[q] + 1)) |-> (got[q] + 1) + i]
    BY <1>4, <2>1, TakeFirst
  <2> QED
    BY <1>4, <2>2
<1>6. Tail(buffer[q]) \in Seq(Nat) /\ got[q] + 1 \in Nat
  <2>1. buffer[q] \in Seq(Nat) /\ buffer[q] # <<>>
    BY <1>1, <1>4
  <2> QED
    BY <1>4, <2>1
<1>7. buffer' = [buffer EXCEPT ![q] = Tail(buffer[q])]
      /\ got' = [got EXCEPT ![q] = got[q] + 1]
  BY <1>1, <1>5
<1> QED
  BY <1>1, <1>2, <1>3, <1>5, <1>6, <1>7, BufferChange

LEMMA PutbackStep ==
    ASSUME IInv, SingleReader, NEW c \in Actors, NEW m \in Mailboxes, Putback(c, m)
    PROVE  IInv'
<1>1. c \in Threads /\ Runs(c) /\ c \in Readers[m] /\ m \in Queues /\ m \notin Threads
  BY Names DEF Putback, InCode, SingleReader, Queues
<1>2. waiting[m] = <<>>
  BY <1>1, NoWaiterBeside
<1>3. /\ got[m] > 0
      /\ buffer' = [buffer EXCEPT ![m] = <<got[m]>> \o buffer[m]]
      /\ got' = [got EXCEPT ![m] = got[m] - 1]
      /\ UNCHANGED <<controlVars, sent>>
  BY <1>2 DEF Putback
<1>4. /\ sent[m] \in Nat /\ got[m] \in Nat /\ got[m] <= sent[m]
      /\ buffer[m] = [i \in 1..(sent[m] - got[m]) |-> got[m] + i]
      /\ buffer[m] \in Seq(Nat)
  BY <1>1 DEF IInv, TypeOK, Buffered
<1>5. <<got[m]>> \o buffer[m] = [i \in 1..(sent[m] - (got[m] - 1)) |-> (got[m] - 1) + i]
  <2> DEFINE g == got[m]
             s == sent[m]
  <2>1. s \in Nat /\ g \in Nat \ {0} /\ g <= s
    BY <1>3, <1>4
  <2> HIDE DEF g, s
  <2>2. <<g>> \o [i \in 1..(s - g) |-> g + i] = [i \in 1..(s - (g - 1)) |-> (g - 1) + i]
    BY <2>1, PutBackLast
  <2> QED
    BY <1>4, <2>2 DEF g, s
<1>6. <<got[m]>> \o buffer[m] \in Seq(Nat) /\ got[m] - 1 \in Nat /\ got[m] - 1 <= sent[m]
  BY <1>3, <1>4
<1> QED
  BY <1>1, <1>2, <1>3, <1>5, <1>6, BufferChange

\* The contract of Source keeps a list at one waiter.
LEMMA BlockStep ==
    ASSUME IInv, SingleReader, NEW c \in Threads, Runs(c),
           NEW S \in SUBSET SourcesOf(c), S # {}, BlockOn(c, S)
    PROVE  IInv'
<1>0. /\ c \in Actors /\ Threads \subseteq Actors /\ c = current /\ c # Main
      /\ pos \in [Actors -> States] /\ waits \in [Actors -> SUBSET (Queues \cup {Idle})]
      /\ waiting \in [Mailboxes -> Seq(Actors)] /\ idx \in [Mailboxes -> [Actors -> Nat]]
      /\ busy \in SUBSET Threads
  BY Names DEF IInv, TypeOK, SchedulerTypeOK, Actors, Runs
<1>1. /\ UNCHANGED <<busy, callbacks, frames, issued, ran, exited>>
      /\ UNCHANGED <<buffer, sent, got, armed, mainArgs>>
      /\ current' = Tramp
  BY <1>0 DEF BlockOn, deferred, queueVars
<1>2. PICK state \in {"recv", "recvone"} : pos' = [pos EXCEPT ![c] = state]
  BY DEF BlockOn
<1>3. /\ waits' = [waits EXCEPT ![c] = S]
      /\ waiting' = [m \in Mailboxes |-> IF m \in S THEN Append(waiting[m], c)
                                                    ELSE waiting[m]]
      /\ idx' = [m \in Mailboxes |->
                    IF m \in S THEN [idx[m] EXCEPT ![c] = Len(waiting[m]) + 1]
                               ELSE idx[m]]
      /\ listening' = IF c \in S THEN listening \cup {c} ELSE listening
      /\ nice' = IF Idle \in S THEN nice \cup {c} ELSE nice
  BY DEF BlockOn, Register
<1>4. /\ waits[c] = {} /\ pos[c] = "run" /\ c \notin listening /\ c \notin nice
  BY RunningWaitsForNothing
<1>5. \A m \in Mailboxes : m \in S => waiting[m] = <<>>
  BY NoWaiterBeside, Names DEF SourcesOf, Queues
<1>6. waiting' = [m \in Mailboxes |-> IF m \in S THEN <<c>> ELSE waiting[m]]
  <2>1. Append(<<>>, c) = <<c>>
    OBVIOUS
  <2> QED
    BY <1>3, <1>5, <2>1
<1>7. idx' = [m \in Mailboxes |-> IF m \in S THEN [idx[m] EXCEPT ![c] = 1] ELSE idx[m]]
  <2>1. Len(<<>>) + 1 = 1
    OBVIOUS
  <2> QED
    BY <1>3, <1>5, <2>1
<1>8. S \subseteq Queues \cup {Idle}
  BY DEF SourcesOf, Queues
<1>9. TypeOK'
  <2>1. pos' \in [Actors -> States] /\ waits' \in [Actors -> SUBSET (Queues \cup {Idle})]
    BY <1>0, <1>2, <1>3, <1>8 DEF States
  <2>2. waiting' \in [Mailboxes -> Seq(Actors)]
    <3>1. <<c>> \in Seq(Actors)
      BY <1>0
    <3> QED
      BY <1>0, <1>6, <3>1
  <2>3. idx' \in [Mailboxes -> [Actors -> Nat]]
    BY <1>0, <1>7
  <2>4. SchedulerTypeOK'
    BY <1>1, <1>3 DEF SchedulerTypeOK, IInv, TypeOK
  <2>5. listening' \in SUBSET Threads
    BY <1>3 DEF IInv, TypeOK
  <2> QED
    BY <1>1, <2>1, <2>2, <2>3, <2>4, <2>5 DEF TypeOK, IInv
<1>10. MainRuns'
  BY <1>0, <1>1, <1>2, <1>3 DEF IInv, MainRuns, NoMessage, Actors
<1>11. WaitLists'
  <2>1. ASSUME NEW m \in Mailboxes, NEW u \in Threads, m \in waits'[u]
        PROVE  waiting'[m] = <<u>> /\ idx'[m][u] = 1
    <3>1. CASE u = c
      <4>1. m \in S
        BY <1>0, <1>3, <2>1, <3>1
      <4> QED
        BY <1>0, <1>6, <1>7, <3>1, <4>1
    <3>2. CASE u # c
      <4>1. m \in waits[u]
        BY <1>0, <1>3, <2>1, <3>2
      <4>2. waiting[m] = <<u>> /\ idx[m][u] = 1
        BY <4>1 DEF IInv, WaitLists
      <4>3. m \notin S
        <5>1. <<u>> # <<>>
          OBVIOUS
        <5> QED
          BY <1>5, <4>2, <5>1
      <4> QED
        BY <1>6, <1>7, <4>2, <4>3
    <3> QED
      BY <3>1, <3>2
  <2>2. ASSUME NEW m \in Mailboxes
        PROVE  \/ waiting'[m] = <<>>
               \/ \E u \in Threads : waiting'[m] = <<u>> /\ m \in waits'[u]
    <3>1. CASE m \in S
      BY <1>0, <1>3, <1>6, <3>1
    <3>2. CASE m \notin S
      <4>1. waiting'[m] = waiting[m]
        BY <1>6, <3>2
      <4>2. \A u \in Threads : m \in waits[u] => m \in waits'[u]
        BY <1>0, <1>3, <1>4
      <4> QED
        BY <4>1, <4>2 DEF IInv, WaitLists
    <3> QED
      BY <3>1, <3>2
  <2> QED
    BY <2>1, <2>2 DEF WaitLists
<1>12. Waiters'
  <2>1. ASSUME NEW u \in Threads
        PROVE  /\ waits'[u] \subseteq SourcesOf(u)
               /\ (pos'[u] \in {"recv", "recvone"}) <=> waits'[u] # {}
               /\ u \in listening' <=> u \in waits'[u]
               /\ u \in nice' <=> Idle \in waits'[u]
    <3>1. CASE u = c
      BY <1>0, <1>2, <1>3, <1>4, <3>1
    <3>2. CASE u # c
      BY <1>0, <1>2, <1>3, <3>2 DEF IInv, Waiters, Blocked
    <3> QED
      BY <3>1, <3>2
  <2> QED
    BY <2>1 DEF Waiters, Blocked, SourcesOf
<1>13. Scheduled'
  <2>1. busy = {u \in Threads : pos[u] \in {"new", "run"} /\ u # c}
    BY <1>0 DEF IInv, Scheduled
  <2>2. busy = {u \in Threads : pos'[u] \in {"new", "run"} /\ u # Tramp}
    BY <1>0, <1>2, <2>1, Names
  <2> QED
    BY <1>1, <2>2, Names DEF Scheduled
<1>14. SleepersHaveTimers' /\ Buffered' /\ Drained'
  <2>1. SleepersHaveTimers'
    BY <1>0, <1>1, <1>2, <1>4 DEF IInv, SleepersHaveTimers
  <2>2. Buffered'
    BY <1>1 DEF IInv, Buffered
  <2> QED
    BY <1>1, <2>1, <2>2, Names DEF Drained, Runs
<1>15. NoStrandedMessage'
  <2>1. \A q \in S \cap Queues : buffer[q] = <<>>
    BY DEF BlockOn
  <2> QED
    BY <1>1, <1>3, <1>6, <2>1 DEF IInv, NoStrandedMessage, Queues
<1> QED
  BY <1>9, <1>10, <1>11, <1>12, <1>13, <1>14, <1>15 DEF IInv

LEMMA RecvStep ==
    ASSUME IInv, SingleReader, NEW c \in Actors, NEW S \in SUBSET SourcesOf(c), Recv(c, S)
    PROVE  IInv'
<1>1. c \in Threads
  <2>1. ASSUME c = Main PROVE FALSE
    <3>1. SourcesOf(c) = {}
      BY <2>1, Names DEF SourcesOf, SingleReader
    <3> QED
      BY <3>1 DEF Recv
  <2> QED
    BY <2>1 DEF Actors
<1> QED
  BY <1>1, TakeStep, BlockStep DEF Recv, InCode

\* A thread that is not waiting changes its state, and nobody else is concerned.
LEMMA OwnStep ==
    ASSUME IInv, NEW t \in Threads, NEW state \in States \ {"recv", "recvone"},
           waits[t] = {}, pos' = [pos EXCEPT ![t] = state],
           UNCHANGED <<nice, deferred, exited, waitVars, queueVars, mainArgs>>,
           current' \in Actors \cup {Tramp}, busy' \in SUBSET Threads,
           Scheduled', Drained', SleepersHaveTimers', armed' \in [Threads -> Nat]
    PROVE  IInv'
<1>0. t \in Actors /\ t # Main /\ pos \in [Actors -> States] /\ Threads \subseteq Actors
      /\ Main \in Actors
  BY Names DEF IInv, TypeOK, Actors
<1>1. /\ UNCHANGED <<nice, callbacks, frames, issued, ran, exited, mainArgs>>
      /\ UNCHANGED <<waits, waiting, idx, listening, buffer, sent, got>>
  BY DEF deferred, waitVars, queueVars
<1>2. SchedulerTypeOK'
  BY <1>1 DEF SchedulerTypeOK, IInv, TypeOK
<1>3. TypeOK'
  BY <1>0, <1>1, <1>2 DEF TypeOK, IInv
<1>4. MainRuns' /\ WaitLists'
  BY <1>0, <1>1 DEF IInv, MainRuns, WaitLists
<1>5. Waiters'
  BY <1>0, <1>1 DEF IInv, Waiters, Blocked
<1>6. Buffered' /\ NoStrandedMessage'
  BY <1>1 DEF IInv, Buffered, NoStrandedMessage
<1> QED
  BY <1>3, <1>4, <1>5, <1>6 DEF IInv

LEMMA SleepStep == ASSUME IInv, NEW t \in Threads, Sleep(t) PROVE IInv'
<1>0. /\ pos[t] = "run" /\ waits[t] = {} /\ t = current
      /\ pos \in [Actors -> States] /\ Threads \subseteq Actors /\ busy \in SUBSET Threads
      /\ armed \in [Threads -> Nat]
  BY RunningWaitsForNothing
     DEF IInv, TypeOK, SchedulerTypeOK, Sleep, Runs, Actors
<1>1. Scheduled' /\ Drained'
  <2>1. busy = {u \in Threads : pos[u] \in {"new", "run"} /\ u # t}
    BY <1>0 DEF IInv, Scheduled
  <2>2. pos' = [pos EXCEPT ![t] = "sleep"] /\ busy' = busy /\ current' = Tramp
    BY DEF Sleep
  <2>3. busy' = {u \in Threads : pos'[u] \in {"new", "run"} /\ u # current'}
    BY <1>0, <2>1, <2>2, Names
  <2> QED
    BY <2>2, <2>3, Names DEF Scheduled, Drained, Runs
<1>2. SleepersHaveTimers' /\ armed' \in [Threads -> Nat]
  BY <1>0 DEF Sleep, SleepersHaveTimers, IInv
<1>3. "sleep" \in States \ {"recv", "recvone"}
  BY DEF States
<1> QED
  BY <1>0, <1>1, <1>2, <1>3, OwnStep DEF Sleep

LEMMA FinishStep == ASSUME IInv, NEW t \in Threads, Finish(t) PROVE IInv'
<1>0. /\ pos[t] = "run" /\ waits[t] = {} /\ t = current
      /\ pos \in [Actors -> States] /\ Threads \subseteq Actors /\ busy \in SUBSET Threads
  BY RunningWaitsForNothing
     DEF IInv, TypeOK, SchedulerTypeOK, Finish, Runs, Actors
<1>1. Scheduled' /\ Drained'
  <2>1. busy = {u \in Threads : pos[u] \in {"new", "run"} /\ u # t}
    BY <1>0 DEF IInv, Scheduled
  <2>2. pos' = [pos EXCEPT ![t] = "dead"] /\ busy' = busy /\ current' = Tramp
    BY DEF Finish
  <2>3. busy' = {u \in Threads : pos'[u] \in {"new", "run"} /\ u # current'}
    BY <1>0, <2>1, <2>2, Names
  <2> QED
    BY <2>2, <2>3, Names DEF Scheduled, Drained, Runs
<1>2. SleepersHaveTimers' /\ armed' \in [Threads -> Nat]
  BY <1>0 DEF Finish, SleepersHaveTimers, IInv, TypeOK
<1>3. "dead" \in States \ {"recv", "recvone"}
  BY DEF States
<1> QED
  BY <1>0, <1>1, <1>2, <1>3, OwnStep DEF Finish

LEMMA GoStep == ASSUME IInv, NEW c \in Actors, NEW t \in Threads, Go(c, t) PROVE IInv'
<1>0. /\ pos[t] = "unborn" /\ waits[t] = {} /\ t # Main /\ c = current
      /\ pos \in [Actors -> States] /\ Threads \subseteq Actors /\ busy \in SUBSET Threads
      /\ armed \in [Threads -> Nat] /\ exited = FALSE
  BY Names DEF IInv, TypeOK, SchedulerTypeOK, Go, Runs, Actors, Waiters, Blocked, MainRuns
<1>1. /\ busy = {u \in Threads : pos[u] \in {"new", "run"} /\ u # c}
      /\ c \in Threads => pos[c] = "run"
  BY <1>0 DEF IInv, Scheduled
<1>2. \A state \in {"new", "run"} :
         pos' = [pos EXCEPT ![t] = state] /\ UNCHANGED armed => SleepersHaveTimers'
  BY <1>0 DEF SleepersHaveTimers, IInv
<1>3. CASE c = Main
  <2>1. pos' = [pos EXCEPT ![t] = "run"] /\ busy' = busy /\ current' = t /\ exited' = exited
    BY <1>3 DEF Go, Continues
  <2>2. busy' = {u \in Threads : pos'[u] \in {"new", "run"} /\ u # current'}
    BY <1>0, <1>1, <1>3, <2>1, Names
  <2>3. Scheduled' /\ Drained'
    BY <1>0, <2>1, <2>2, Names DEF Scheduled, Drained, Runs
  <2>4. SleepersHaveTimers'
    BY <1>2, <2>1 DEF Go
  <2>5. "run" \in States \ {"recv", "recvone"} /\ current' \in Actors
    BY <1>0, <2>1 DEF States
  <2> QED
    BY <1>0, <2>1, <2>3, <2>4, <2>5, OwnStep DEF Go
<1>4. CASE c # Main
  <2>1. /\ pos' = [pos EXCEPT ![t] = "new"] /\ busy' = busy \cup {t} /\ current' = c
        /\ c \in Threads /\ c # t /\ exited' = exited
    BY <1>0, <1>1, <1>4 DEF Go, Actors
  <2>2. busy' = {u \in Threads : pos'[u] \in {"new", "run"} /\ u # current'}
    BY <1>0, <1>1, <2>1
  <2>3. Scheduled' /\ Drained'
    BY <1>0, <1>1, <1>4, <2>1, <2>2, Names DEF Scheduled, Drained, Runs
  <2>4. SleepersHaveTimers'
    BY <1>2, <2>1 DEF Go
  <2>5. "new" \in States \ {"recv", "recvone"} /\ current' \in Actors
    BY <1>0, <2>1 DEF States
  <2> QED
    BY <1>0, <2>1, <2>3, <2>4, <2>5, OwnStep DEF Go
<1> QED
  BY <1>3, <1>4

\* The trampoline's own part of the invariant, after a step on deferred functions.
DeferredKeeps ==
    /\ SchedulerTypeOK'
    /\ UNCHANGED <<exited, busy>>
    /\ nice' \cap Threads = nice \cap Threads
    /\ current' = current \/ {current, current'} \subseteq {Main, Tramp}
    /\ Drained'

LEMMA DeferredKept ==
    ASSUME IInv, DeferredStep
    PROVE  DeferredKeeps
<1>0. /\ current \in Actors \cup {Tramp} /\ busy \in SUBSET Threads
      /\ callbacks \in Seq(Calls) /\ nice \in SUBSET (Threads \cup Calls)
      /\ frames \in Seq(Seq(Calls) \ {<<>>}) /\ issued \in SUBSET Calls
      /\ ran \in Seq(Calls) /\ exited = FALSE
      /\ Drained /\ Main \in Actors /\ Threads \cap Calls = {} /\ Main # Tramp
  BY Names DEF IInv, TypeOK, SchedulerTypeOK, MainRuns, Actors
<1>1. ASSUME NEW c \in Actors, NEW f \in Calls, QueueCall(c, f) PROVE DeferredKeeps
  <2>1. callbacks' \in Seq(Calls) /\ ran' \in Seq(Calls)
    <3>1. Append(ran, f) \in Seq(Calls) /\ Append(callbacks, f) \in Seq(Calls)
      BY <1>0, AppendProperties
    <3> QED
      BY <1>0, <1>1, <3>1 DEF QueueCall
  <2> QED
    BY <1>0, <1>1, <2>1 DEF QueueCall, DeferredKeeps, SchedulerTypeOK, Drained, Runs
<1>2. ASSUME NEW c \in Actors, NEW f \in Calls, IdleCall(c, f) PROVE DeferredKeeps
  <2>1. nice' \cap Threads = nice \cap Threads
    BY <1>0, <1>2 DEF IdleCall
  <2> QED
    BY <1>0, <1>2, <2>1 DEF IdleCall, DeferredKeeps, SchedulerTypeOK, Drained, Runs
<1>3. CASE RunCallbacks
  <2>1. callbacks' \in Seq(Calls) /\ ran' \in Seq(Calls) /\ frames' \in Seq(Seq(Calls) \ {<<>>})
    BY <1>0, <1>3 DEF RunCallbacks
  <2>2. frames' # <<>>
    BY <1>0, <1>3 DEF RunCallbacks
  <2> QED
    BY <1>0, <1>3, <2>1, <2>2
       DEF RunCallbacks, CallbacksTurn, DeferredKeeps, SchedulerTypeOK, Drained, Runs
<1>4. ASSUME NEW f \in Calls, RunNiceFunction(f) PROVE DeferredKeeps
  <2>1. ran' \in Seq(Calls) /\ frames' \in Seq(Seq(Calls) \ {<<>>}) /\ frames' # <<>>
    <3>1. <<f>> \in Seq(Calls)
      OBVIOUS
    <3> QED
      BY <1>0, <1>4, <3>1 DEF RunNiceFunction
  <2>2. nice' \cap Threads = nice \cap Threads
    BY <1>0, <1>4 DEF RunNiceFunction
  <2> QED
    BY <1>0, <1>4, <2>1, <2>2
       DEF RunNiceFunction, NiceTurn, CallbacksTurn, DeferredKeeps, SchedulerTypeOK,
           Drained, Runs
<1>5. CASE FunctionReturns
  <2>0. /\ current = Main /\ UNCHANGED <<busy, callbacks, nice, issued, exited>>
        /\ frames # <<>>
    BY <1>5 DEF FunctionReturns, Runs
  <2>1. /\ Front(frames) \in Seq(Seq(Calls) \ {<<>>})
        /\ Last(frames) \in Seq(Calls) \ {<<>>}
    BY <1>0, <2>0 DEF Front, Last
  <2>2. Tail(Last(frames)) \in Seq(Calls)
    BY <2>1
  <2>3. CASE /\ Tail(Last(frames)) # <<>>
             /\ frames' = Append(Front(frames), Tail(Last(frames)))
             /\ ran' = Append(ran, Head(Tail(Last(frames))))
             /\ UNCHANGED current
    <3>1. Head(Tail(Last(frames))) \in Calls
      BY <2>2, <2>3
    <3>2. frames' \in Seq(Seq(Calls) \ {<<>>}) /\ frames' # <<>>
      <4> DEFINE F == Seq(Calls) \ {<<>>}
                 front == Front(frames)
                 rest == Tail(Last(frames))
      <4>1. front \in Seq(F) /\ rest \in F
        BY <2>1, <2>2, <2>3
      <4> HIDE DEF F, front, rest
      <4>2. Append(front, rest) \in Seq(F) /\ Append(front, rest) # <<>>
        BY <4>1, AppendProperties
      <4> QED
        BY <2>3, <4>2 DEF F, front, rest
    <3>3. ran' \in Seq(Calls)
      BY <1>0, <2>3, <3>1, AppendProperties
    <3> QED
      BY <1>0, <2>0, <2>3, <3>2, <3>3 DEF DeferredKeeps, SchedulerTypeOK, Drained, Runs
  <2>4. CASE /\ frames' = Front(frames)
             /\ current' = Tramp
             /\ UNCHANGED ran
    BY <1>0, <2>0, <2>1, <2>4 DEF DeferredKeeps, SchedulerTypeOK, Drained, Runs
  <2> QED
    BY <1>5, <2>3, <2>4 DEF FunctionReturns
<1>6. CASE TrampolineReturns
  BY <1>0, <1>6
     DEF TrampolineReturns, NiceTurn, CallbacksTurn, DeferredKeeps, SchedulerTypeOK,
         Drained, Runs
<1> QED
  BY <1>1, <1>2, <1>3, <1>4, <1>5, <1>6 DEF DeferredStep

LEMMA DeferredInv == ASSUME IInv, DeferredStep PROVE IInv'
<1>1. /\ UNCHANGED <<pos, waits, waiting, idx, listening, armed, mainArgs>>
      /\ UNCHANGED <<buffer, sent, got>>
  BY DEF DeferredStep, threadVars, waitVars, queueVars
<1>2. /\ SchedulerTypeOK' /\ UNCHANGED <<exited, busy>> /\ Drained'
      /\ nice' \cap Threads = nice \cap Threads
      /\ current' = current \/ {current, current'} \subseteq {Main, Tramp}
  BY DeferredKept DEF DeferredKeeps
<1>3. TypeOK' /\ MainRuns' /\ WaitLists'
  BY <1>1, <1>2 DEF IInv, TypeOK, MainRuns, WaitLists
<1>4. Waiters'
  BY <1>1, <1>2 DEF IInv, Waiters, Blocked
<1>5. Scheduled'
  <2>1. \A u \in Threads : u # current <=> u # current'
    BY <1>2, Names
  <2>2. current' \in Threads => current' = current
    BY <1>2, Names
  <2> QED
    BY <1>1, <1>2, <2>1, <2>2 DEF IInv, Scheduled
<1>6. SleepersHaveTimers' /\ Buffered' /\ NoStrandedMessage'
  BY <1>1 DEF IInv, SleepersHaveTimers, Buffered, NoStrandedMessage
<1> QED
  BY <1>2, <1>3, <1>4, <1>5, <1>6 DEF IInv

\* A step that changes nothing.
LEMMA StutterInv == ASSUME IInv, UNCHANGED vars PROVE IInv'
<1>1. /\ UNCHANGED <<current, busy, callbacks, nice, frames, issued, ran, exited>>
      /\ UNCHANGED <<pos, waits, waiting, idx, listening, armed, mainArgs>>
      /\ UNCHANGED <<buffer, sent, got>>
  BY DEF vars, schedVars, waitVars, queueVars
<1>2. TypeOK' /\ MainRuns' /\ WaitLists' /\ Waiters'
  BY <1>1 DEF IInv, TypeOK, SchedulerTypeOK, MainRuns, WaitLists, Waiters, Blocked
<1>3. Scheduled' /\ SleepersHaveTimers' /\ Buffered' /\ NoStrandedMessage' /\ Drained'
  BY <1>1 DEF IInv, Scheduled, SleepersHaveTimers, Buffered, NoStrandedMessage, Drained, Runs
<1> QED
  BY <1>2, <1>3 DEF IInv

LEMMA NextInv ==
    ASSUME IInv, SingleReader, KillsBlocked, [Next]_vars
    PROVE  IInv'
<1>1. ASSUME NEW c \in Actors, ThreadStep(c) PROVE IInv'
  BY <1>1, RecvStep, PutStep, PutbackStep, SendStep, GoStep, KillStep DEF ThreadStep
<1>2. ASSUME NEW t \in Threads, Sleep(t) \/ Finish(t) PROVE IInv'
  BY <1>2, SleepStep, FinishStep
<1>3. ASSUME NEW t \in Threads, RunBusy(t) \/ RunNiceThread(t) \/ TimerFires(t)
      PROVE  IInv'
  BY <1>3, RunBusyStep, RunNiceStep, TimerStep
<1>4. CASE MainContinues
  BY <1>4 DEF MainContinues, IInv, MainRuns
<1> QED
  BY <1>1, <1>2, <1>3, <1>4, DeferredInv, StutterInv DEF Next

----------------------------------------------------------------------------
(* The theorems. *)

\* The inductive invariant holds in every reachable state.
THEOREM Invariance ==
    ASSUME SingleReader, KillsBlocked
    PROVE  Spec => []IInv
<1>1. Init => IInv
  BY InitInv
<1>2. IInv /\ [Next]_vars => IInv'
  BY NextInv
<1> QED
  BY <1>1, <1>2, PTL DEF Spec

COROLLARY TypeCorrect == ASSUME SingleReader, KillsBlocked PROVE Spec => []TypeOK
<1>1. IInv => TypeOK
  BY DEF IInv
<1> QED
  BY <1>1, Invariance, PTL

\* Waiters are on the lists of their sources, and nobody else is.
THEOREM Registered == ASSUME SingleReader, KillsBlocked PROVE Spec => []Registration
<1>1. ASSUME IInv PROVE Registration
  <2>0. /\ waits \in [Actors -> SUBSET (Queues \cup {Idle})]
        /\ pos[Main] = "run" /\ waits[Main] = {} /\ Threads \subseteq Actors
    BY <1>1 DEF IInv, TypeOK, MainRuns, Actors
  <2>1. ASSUME NEW t \in Actors, NEW m \in Mailboxes
        PROVE  {i \in 1..Len(waiting[m]) : waiting[m][i] = t}
                 = IF m \in waits[t] THEN {idx[m][t]} ELSE {}
    <3>1. CASE m \in waits[t]
      <4>1. t \in Threads
        BY <2>0, <3>1 DEF Actors
      <4>2. waiting[m] = <<t>> /\ idx[m][t] = 1
        BY <1>1, <3>1, <4>1 DEF IInv, WaitLists
      <4> QED
        BY <3>1, <4>2
    <3>2. CASE m \notin waits[t]
      <4>1. CASE waiting[m] = <<>>
        BY <3>2, <4>1
      <4>2. CASE waiting[m] # <<>>
        <5>1. PICK u \in Threads : waiting[m] = <<u>> /\ m \in waits[u]
          BY <1>1, <4>2 DEF IInv, WaitLists
        <5>2. u # t
          BY <3>2, <5>1
        <5> QED
          BY <3>2, <5>1, <5>2
      <4> QED
        BY <4>1, <4>2
    <3> QED
      BY <3>1, <3>2
  <2>2. ASSUME NEW t \in Actors
        PROVE  /\ Blocked(t) <=> waits[t] # {}
               /\ t \in Threads => /\ t \in listening <=> t \in waits[t]
                                   /\ t \in nice <=> Idle \in waits[t]
    <3>1. CASE t \in Threads
      BY <1>1, <3>1 DEF IInv, Waiters
    <3>2. CASE t = Main
      BY <2>0, <3>2, Names DEF Blocked
    <3> QED
      BY <3>1, <3>2 DEF Actors
  <2> QED
    BY <2>1, <2>2 DEF Registration
<1> QED
  BY <1>1, Invariance, PTL

\* busy_list is exactly the runnable threads.
COROLLARY NoThreadLost == ASSUME SingleReader, KillsBlocked PROVE Spec => []BusyIsRunnable
<1>1. IInv => BusyIsRunnable
  BY DEF IInv, Scheduled, BusyIsRunnable
<1> QED
  BY <1>1, Invariance, PTL

\* Messages arrive in order, each once, however many threads send.
THEOREM Delivered == ASSUME SingleReader, KillsBlocked PROVE Spec => []Delivery
<1>1. ASSUME IInv PROVE Delivery
  <2>1. SUFFICES ASSUME NEW q \in Queues
                 PROVE  InFlight(q) \o buffer[q]
                          = [i \in 1..(sent[q] - got[q]) |-> got[q] + i]
    BY DEF Delivery
  <2>2. InFlight(q) = <<>>
    BY <1>1, Names DEF IInv, MainRuns, NoMessage, InFlight
  <2>3. buffer[q] \in Seq(Nat)
        /\ buffer[q] = [i \in 1..(sent[q] - got[q]) |-> got[q] + i]
    BY <1>1 DEF IInv, TypeOK, Buffered
  <2>4. <<>> \o buffer[q] = buffer[q]
    BY <2>3, ConcatEmptySeq
  <2> QED
    BY <2>2, <2>3, <2>4
<1> QED
  BY <1>1, Invariance, PTL

\* No message waits in a queue beside a thread that waits for it.
COROLLARY NoLostWakeup == ASSUME SingleReader, KillsBlocked PROVE Spec => []NoStrandedMessage
<1>1. IInv => NoStrandedMessage
  BY DEF IInv
<1> QED
  BY <1>1, Invariance, PTL

\* A thread has a timer exactly while it sleeps.
COROLLARY TimersAreSleepers == ASSUME SingleReader, KillsBlocked PROVE Spec => []SleepersHaveTimers
<1>1. IInv => SleepersHaveTimers
  BY DEF IInv
<1> QED
  BY <1>1, Invariance, PTL

\* Control returns to the event loop only when busy_list and callback_list are empty and no thread
\* waits for Idle.  Functions given to Idle by an event handler may be left.
COROLLARY LoopIsDrained == ASSUME SingleReader, KillsBlocked PROVE Spec => []Drained
<1>1. IInv => Drained
  BY DEF IInv
<1> QED
  BY <1>1, Invariance, PTL

\* No dead thread is resumed, and no recv is woken by what it does not wait for.
COROLLARY NeverExits == ASSUME SingleReader, KillsBlocked PROVE Spec => []NoExit
<1>1. IInv => NoExit
  BY DEF IInv, MainRuns, NoExit
<1> QED
  BY <1>1, Invariance, PTL

----------------------------------------------------------------------------
(* Deferred functions.  Nothing here needs the contracts of Source and kill. *)

InCallbacks(f) == \E i \in 1..Len(callbacks) : callbacks[i] = f
InFrames(f) == \E i \in 1..Len(frames) : \E j \in 2..Len(frames[i]) : frames[i][j] = f
HasRun(f) == \E i \in 1..Len(ran) : ran[i] = f

CallTypes ==
    /\ callbacks \in Seq(Calls) /\ frames \in Seq(Seq(Calls) \ {<<>>})
    /\ ran \in Seq(Calls) /\ issued \in SUBSET Calls

\* No function is twice on the stack of lists.
NoneInTwoFrames ==
    \A i, k \in 1..Len(frames) : \A j \in 2..Len(frames[i]), l \in 2..Len(frames[k]) :
        frames[i][j] = frames[k][l] => i = k /\ j = l

\* No list has a function twice.
NoneTwice ==
    /\ \A i, j \in 1..Len(callbacks) : callbacks[i] = callbacks[j] => i = j
    /\ \A i, j \in 1..Len(ran) : ran[i] = ran[j] => i = j
    /\ NoneInTwoFrames

\* Every function that was given is in one place.
OnePlace ==
    \A f \in Calls :
       /\ f \in issued <=> InCallbacks(f) \/ InFrames(f) \/ f \in nice \/ HasRun(f)
       /\ InCallbacks(f) => ~InFrames(f) /\ f \notin nice /\ ~HasRun(f)
       /\ InFrames(f) => f \notin nice /\ ~HasRun(f)
       /\ f \in nice => ~HasRun(f)

CallInv == CallTypes /\ NoneTwice /\ OnePlace

\* No step of a thread touches them.
DeferredAlone == UNCHANGED deferred /\ \A f \in Calls : f \in nice' <=> f \in nice

LEMMA SameFrames == ASSUME NoneInTwoFrames, frames' = frames PROVE NoneInTwoFrames'
  BY DEF NoneInTwoFrames

LEMMA WakeLeavesCalls ==
    ASSUME NEW t \in Actors
    PROVE  /\ Unregister(t) => \A f \in Calls : f \in nice' <=> f \in nice
           /\ \A src : Wake(t, src) => \A f \in Calls : f \in nice' <=> f \in nice
<1>1. \A f \in Calls : f # t
  BY SchedulerNames
<1>2. Unregister(t) => \A f \in Calls : f \in nice' <=> f \in nice
  BY <1>1 DEF Unregister
<1> QED
  BY <1>2 DEF Wake, WakeReceiver, WakeSleeper, WakeOther, WakeDead

LEMMA ResumeLeavesCalls == \A c, t, src, v : Resume(c, t, src, v) => DeferredAlone
<1> SUFFICES ASSUME NEW c, NEW t, NEW src, NEW v, Resume(c, t, src, v) PROVE DeferredAlone
  OBVIOUS
<1>1. UNCHANGED deferred
  BY DEF Resume
<1>2. CASE t \in Threads \ {c} /\ Wake(t, src)
  <2>1. t \in Actors
    BY <1>2 DEF Actors
  <2> QED
    BY <1>1, <1>2, <2>1, WakeLeavesCalls DEF DeferredAlone
<1>3. CASE nice' = nice
  BY <1>1, <1>3 DEF DeferredAlone
<1> QED
  BY <1>2, <1>3 DEF Resume, WakeMain

LEMMA ThreadsLeaveCalls ==
    ASSUME [Next]_vars, ~DeferredStep
    PROVE  DeferredAlone
<1>1. ASSUME NEW c \in Actors, ThreadStep(c) PROVE DeferredAlone
  <2>1. ASSUME NEW S, Recv(c, S) PROVE DeferredAlone
    <3>1. CASE TakeBuffered(c, S)
      BY <3>1 DEF TakeBuffered, controlVars, schedVars, deferred, DeferredAlone
    <3>2. CASE BlockOn(c, S)
      <4>1. \A f \in Calls : f # c
        BY SchedulerNames
      <4> QED
        BY <3>2, <4>1 DEF BlockOn, Register, deferred, DeferredAlone
    <3> QED
      BY <2>1, <3>1, <3>2 DEF Recv
  <2>2. ASSUME NEW m \in Mailboxes, Put(c, m) \/ Putback(c, m) PROVE DeferredAlone
    <3>1. (\E t, q, v : HandOver(c, t, q, v)) \/ UNCHANGED controlVars
      BY <2>2 DEF Put, Putback
    <3> QED
      BY <3>1, ResumeLeavesCalls DEF HandOver, controlVars, schedVars, deferred, DeferredAlone
  <2>3. ASSUME NEW t \in Threads, Send(c, t) PROVE DeferredAlone
    <3>1. (\E q, v : HandOver(c, t, q, v)) \/ UNCHANGED controlVars
      BY <2>3 DEF Send
    <3> QED
      BY <3>1, ResumeLeavesCalls DEF HandOver, controlVars, schedVars, deferred, DeferredAlone
  <2>4. ASSUME NEW t \in Threads, Go(c, t) PROVE DeferredAlone
    BY <2>4 DEF Go, deferred, DeferredAlone
  <2>5. ASSUME NEW t \in Threads, KillThread(c, t) PROVE DeferredAlone
    BY <2>5, ResumeLeavesCalls DEF KillThread
  <2> QED
    BY <1>1, <2>1, <2>2, <2>3, <2>4, <2>5 DEF ThreadStep
<1>2. ASSUME NEW t \in Threads, Sleep(t) \/ Finish(t) PROVE DeferredAlone
  BY <1>2 DEF Sleep, Finish, deferred, DeferredAlone
<1>3. ASSUME NEW t \in Threads, RunBusy(t) \/ RunNiceThread(t) \/ TimerFires(t)
      PROVE  DeferredAlone
  <2>1. t \in Actors
    BY DEF Actors
  <2>2. CASE RunBusy(t)
    BY <2>1, <2>2, WakeLeavesCalls DEF RunBusy, DeferredAlone
  <2>3. CASE RunNiceThread(t)
    BY <2>1, <2>3, WakeLeavesCalls DEF RunNiceThread, DeferredAlone
  <2>4. CASE TimerFires(t)
    BY <2>4, ResumeLeavesCalls DEF TimerFires
  <2> QED
    BY <1>3, <2>2, <2>3, <2>4
<1>4. CASE MainContinues
  <2>1. Main \in Actors
    BY DEF Actors
  <2> QED
    BY <1>4, <2>1, WakeLeavesCalls DEF MainContinues, DeferredAlone
<1>5. CASE UNCHANGED vars
  BY <1>5 DEF vars, schedVars, deferred, DeferredAlone
<1> QED
  BY <1>1, <1>2, <1>3, <1>4, <1>5 DEF Next

LEMMA AloneKeepsCalls == ASSUME CallInv, DeferredAlone PROVE CallInv'
<1>1. UNCHANGED <<callbacks, frames, ran, issued>>
  BY DEF DeferredAlone, deferred
<1>2. CallTypes'
  BY <1>1 DEF CallInv, CallTypes
<1>4. NoneTwice'
  <2>1. NoneTwice /\ callbacks' = callbacks /\ frames' = frames /\ ran' = ran
    BY <1>1 DEF CallInv
  <2> QED
    BY <2>1, SameFrames DEF NoneTwice
<1>3. OnePlace'
  BY <1>1 DEF CallInv, OnePlace, InCallbacks, InFrames, HasRun, DeferredAlone
<1> QED
  BY <1>2, <1>3, <1>4 DEF CallInv

LEMMA QueueCallKeeps ==
    ASSUME CallInv, NEW c, NEW f \in Calls, QueueCall(c, f) PROVE CallInv'
<1> USE DEF CallInv
<1>1. /\ f \notin issued /\ issued' = issued \cup {f} /\ UNCHANGED <<nice, frames>>
      /\ ~InCallbacks(f) /\ ~InFrames(f) /\ f \notin nice /\ ~HasRun(f)
  BY DEF QueueCall, OnePlace
<1>2. \A g \in Calls : InFrames(g)' <=> InFrames(g)
  BY <1>1 DEF InFrames
<1>3. CASE ran' = Append(ran, f) /\ UNCHANGED callbacks
  <2>1. /\ ran' \in Seq(Calls) /\ Len(ran') = Len(ran) + 1 /\ Len(ran) \in Nat
        /\ ran'[Len(ran) + 1] = f /\ \A i \in 1..Len(ran) : ran'[i] = ran[i]
    BY <1>3 DEF CallTypes
  <2>2. \A g \in Calls : (HasRun(g)' <=> HasRun(g) \/ g = f) /\ (InCallbacks(g)' <=> InCallbacks(g))
    BY <1>3, <2>1 DEF HasRun, InCallbacks
  <2>3. CallTypes'
    BY <1>1, <1>3, <2>1 DEF CallTypes
  <2>4. NoneTwice'
    BY <1>1, <1>3, <2>1 DEF NoneTwice, NoneInTwoFrames, HasRun
  <2>5. OnePlace'
    BY <1>1, <1>2, <2>2 DEF OnePlace
  <2> QED
    BY <2>3, <2>4, <2>5
<1>4. CASE callbacks' = Append(callbacks, f) /\ UNCHANGED ran
  <2>1. /\ callbacks' \in Seq(Calls) /\ Len(callbacks') = Len(callbacks) + 1
        /\ Len(callbacks) \in Nat
        /\ callbacks'[Len(callbacks) + 1] = f
        /\ \A i \in 1..Len(callbacks) : callbacks'[i] = callbacks[i]
    BY <1>4 DEF CallTypes
  <2>2. \A g \in Calls : (InCallbacks(g)' <=> InCallbacks(g) \/ g = f) /\ (HasRun(g)' <=> HasRun(g))
    BY <1>4, <2>1 DEF HasRun, InCallbacks
  <2>3. CallTypes'
    BY <1>1, <1>4, <2>1 DEF CallTypes
  <2>4. NoneTwice'
    BY <1>1, <1>4, <2>1 DEF NoneTwice, NoneInTwoFrames, InCallbacks
  <2>5. OnePlace'
    BY <1>1, <1>2, <2>2 DEF OnePlace
  <2> QED
    BY <2>3, <2>4, <2>5
<1> QED
  BY <1>3, <1>4 DEF QueueCall

LEMMA IdleCallKeeps ==
    ASSUME CallInv, NEW c, NEW f \in Calls, IdleCall(c, f) PROVE CallInv'
<1> USE DEF CallInv
<1>1. /\ f \notin issued /\ issued' = issued \cup {f} /\ nice' = nice \cup {f}
      /\ UNCHANGED <<callbacks, frames, ran>>
      /\ ~InCallbacks(f) /\ ~InFrames(f) /\ f \notin nice /\ ~HasRun(f)
  BY DEF IdleCall, OnePlace
<1>2. \A g \in Calls : /\ InFrames(g)' <=> InFrames(g)
                       /\ InCallbacks(g)' <=> InCallbacks(g)
                       /\ HasRun(g)' <=> HasRun(g)
  BY <1>1 DEF InFrames, InCallbacks, HasRun
<1>3. CallTypes' /\ NoneTwice'
  BY <1>1 DEF CallTypes, NoneTwice, NoneInTwoFrames
<1>4. OnePlace'
  BY <1>1, <1>2 DEF OnePlace
<1> QED
  BY <1>3, <1>4

\* A list of one or more functions is started: its first one is called.
LEMMA ListStarted ==
    ASSUME CallInv, NEW s \in Seq(Calls) \ {<<>>}, frames' = Append(frames, s),
           ran' = Append(ran, Head(s)), issued' = issued,
           \A i, j \in 1..Len(s) : s[i] = s[j] => i = j,
           \A i \in 1..Len(s) : ~InFrames(s[i]) /\ ~HasRun(s[i])
    PROVE  /\ frames' \in Seq(Seq(Calls) \ {<<>>}) /\ ran' \in Seq(Calls)
           /\ \A g \in Calls :
                 /\ InFrames(g)' <=> InFrames(g) \/ \E i \in 2..Len(s) : s[i] = g
                 /\ HasRun(g)' <=> HasRun(g) \/ g = s[1]
           /\ \A i, j \in 1..Len(ran') : ran'[i] = ran'[j] => i = j
           /\ \A i, k \in 1..Len(frames') :
                 \A j \in 2..Len(frames'[i]), l \in 2..Len(frames'[k]) :
                    frames'[i][j] = frames'[k][l] => i = k /\ j = l
<1> USE DEF CallInv
<1>1. Len(s) \in Nat /\ Len(s) > 0 /\ Head(s) = s[1] /\ s[1] \in Calls
  OBVIOUS
<1>2. /\ ran' \in Seq(Calls) /\ Len(ran') = Len(ran) + 1 /\ Len(ran) \in Nat
      /\ ran'[Len(ran) + 1] = s[1] /\ \A i \in 1..Len(ran) : ran'[i] = ran[i]
  <2> DEFINE h == s[1]
  <2>1. h \in Calls /\ ran' = Append(ran, h) /\ ran \in Seq(Calls)
    BY <1>1 DEF CallTypes
  <2> HIDE DEF h
  <2>2. /\ Append(ran, h) \in Seq(Calls) /\ Len(Append(ran, h)) = Len(ran) + 1
        /\ Len(ran) \in Nat /\ Append(ran, h)[Len(ran) + 1] = h
        /\ \A i \in 1..Len(ran) : Append(ran, h)[i] = ran[i]
    BY <2>1
  <2> QED
    BY <2>1, <2>2, Zenon DEF h
<1>3. /\ frames' \in Seq(Seq(Calls) \ {<<>>}) /\ Len(frames') = Len(frames) + 1
      /\ Len(frames) \in Nat /\ frames'[Len(frames) + 1] = s
      /\ \A i \in 1..Len(frames) : frames'[i] = frames[i]
  <2> DEFINE F == Seq(Calls) \ {<<>>}
  <2>1. s \in F /\ frames \in Seq(F)
    BY DEF CallTypes
  <2> HIDE DEF F
  <2>2. /\ Append(frames, s) \in Seq(F) /\ Len(Append(frames, s)) = Len(frames) + 1
        /\ Len(frames) \in Nat /\ Append(frames, s)[Len(frames) + 1] = s
        /\ \A i \in 1..Len(frames) : Append(frames, s)[i] = frames[i]
    BY <2>1
  <2> QED
    BY <2>2, Zenon DEF F
<1>4. \A g \in Calls : HasRun(g)' <=> HasRun(g) \/ g = s[1]
  BY <1>2 DEF HasRun
<1>5. ASSUME NEW g \in Calls
      PROVE  InFrames(g)' <=> InFrames(g) \/ \E i \in 2..Len(s) : s[i] = g
  <2> DEFINE n == Len(frames)
  <2>1. n + 1 \in 1..(n + 1) /\ 1..n \subseteq 1..(n + 1)
        /\ \A i \in 1..(n + 1) : i \in 1..n \/ i = n + 1
    BY <1>3
  <2>2. Len(frames') = n + 1 /\ frames'[n + 1] = s /\ \A i \in 1..n : frames'[i] = frames[i]
    BY <1>3
  <2>3. ASSUME InFrames(g)' PROVE InFrames(g) \/ \E i \in 2..Len(s) : s[i] = g
    <3>1. PICK i \in 1..(n + 1) : \E j \in 2..Len(frames'[i]) : frames'[i][j] = g
      BY <2>2, <2>3, Zenon DEF InFrames
    <3>2. PICK j \in 2..Len(frames'[i]) : frames'[i][j] = g
      BY <3>1
    <3>3. CASE i = n + 1
      BY <2>2, <3>2, <3>3
    <3>4. CASE i \in 1..n
      <4>1. frames'[i] = frames[i]
        BY <2>2, <3>4
      <4> QED
        BY <3>2, <3>4, <4>1 DEF InFrames
    <3> QED
      BY <2>1, <3>3, <3>4
  <2>4. ASSUME InFrames(g) PROVE InFrames(g)'
    <3>1. PICK i \in 1..n : \E j \in 2..Len(frames[i]) : frames[i][j] = g
      BY <2>4 DEF InFrames
    <3>2. PICK j \in 2..Len(frames[i]) : frames[i][j] = g
      BY <3>1
    <3>3. frames'[i] = frames[i] /\ i \in 1..Len(frames')
      BY <2>1, <2>2
    <3> QED
      BY <3>2, <3>3 DEF InFrames
  <2>5. ASSUME NEW i \in 2..Len(s), s[i] = g PROVE InFrames(g)'
    BY <2>1, <2>2, <2>5, Zenon DEF InFrames
  <2> QED
    BY <2>3, <2>4, <2>5
<1>6. \A i, j \in 1..Len(ran') : ran'[i] = ran'[j] => i = j
  <2>1. ~HasRun(s[1])
    BY <1>1
  <2> QED
    BY <1>2, <2>1 DEF NoneTwice, NoneInTwoFrames, HasRun
<1>7. ASSUME NEW i \in 1..Len(frames'), NEW k \in 1..Len(frames'),
             NEW j \in 2..Len(frames'[i]), NEW l \in 2..Len(frames'[k]),
             frames'[i][j] = frames'[k][l]
      PROVE  i = k /\ j = l
  <2>1. \A x \in 1..Len(frames') : x \in 1..Len(frames) \/ x = Len(frames) + 1
    <3>1. Len(frames') = Len(frames) + 1 /\ Len(frames) \in Nat
      BY <1>3
    <3> HIDE DEF CallInv
    <3>2. \A n \in Nat : \A x \in 1..(n + 1) : x \in 1..n \/ x = n + 1
      OBVIOUS
    <3> QED
      BY <3>1, <3>2, Zenon
  <2>2. \A x \in 2..Len(s) : x \in 1..Len(s)
    BY <1>1
  <2>3. CASE i = Len(frames) + 1 /\ k = Len(frames) + 1
    BY <1>3, <1>7, <2>2, <2>3
  <2>4. CASE i = Len(frames) + 1 /\ k \in 1..Len(frames)
    <3>1. InFrames(s[j]) /\ j \in 1..Len(s)
      BY <1>3, <1>7, <2>2, <2>4 DEF InFrames
    <3> QED
      BY <3>1
  <2>5. CASE k = Len(frames) + 1 /\ i \in 1..Len(frames)
    <3>1. InFrames(s[l]) /\ l \in 1..Len(s)
      BY <1>3, <1>7, <2>2, <2>5 DEF InFrames
    <3> QED
      BY <3>1
  <2>6. CASE i \in 1..Len(frames) /\ k \in 1..Len(frames)
    BY <1>3, <1>7, <2>6 DEF NoneTwice, NoneInTwoFrames
  <2> QED
    BY <2>1, <2>3, <2>4, <2>5, <2>6
<1> QED
  BY <1>2, <1>3, <1>4, <1>5, <1>6, <1>7

LEMMA RunCallbacksKeeps == ASSUME CallInv, RunCallbacks PROVE CallInv'
<1> USE DEF CallInv
<1>1. /\ callbacks # <<>> /\ callbacks' = <<>> /\ frames' = Append(frames, callbacks)
      /\ ran' = Append(ran, Head(callbacks)) /\ UNCHANGED <<nice, issued>>
      /\ callbacks \in Seq(Calls)
  BY DEF RunCallbacks, CallTypes
<1>2. Len(callbacks) \in Nat /\ Len(callbacks) > 0
      /\ \A i \in 1..Len(callbacks) : callbacks[i] \in Calls /\ InCallbacks(callbacks[i])
  BY <1>1 DEF InCallbacks
<1>3. \A i \in 1..Len(callbacks) : ~InFrames(callbacks[i]) /\ ~HasRun(callbacks[i])
  BY <1>2 DEF OnePlace
<1>4. /\ frames' \in Seq(Seq(Calls) \ {<<>>}) /\ ran' \in Seq(Calls)
      /\ \A g \in Calls :
            /\ InFrames(g)' <=> InFrames(g) \/ \E i \in 2..Len(callbacks) : callbacks[i] = g
            /\ HasRun(g)' <=> HasRun(g) \/ g = callbacks[1]
      /\ \A i, j \in 1..Len(ran') : ran'[i] = ran'[j] => i = j
      /\ \A i, k \in 1..Len(frames') :
            \A j \in 2..Len(frames'[i]), l \in 2..Len(frames'[k]) :
               frames'[i][j] = frames'[k][l] => i = k /\ j = l
  <2>1. \A i, j \in 1..Len(callbacks) : callbacks[i] = callbacks[j] => i = j
    BY DEF NoneTwice, NoneInTwoFrames
  <2> HIDE DEF CallInv
  <2> QED
    BY <1>1, <1>3, <2>1, ListStarted
<1>5. <<>> \in Seq(Calls) /\ Len(callbacks') = 0
  BY <1>1, EmptySeq
<1>6. \A g \in Calls : ~InCallbacks(g)'
  BY <1>5 DEF InCallbacks
<1>7. \A g \in Calls : InCallbacks(g) =>
         IF g = callbacks[1] THEN ~ \E i \in 2..Len(callbacks) : callbacks[i] = g
         ELSE \E i \in 2..Len(callbacks) : callbacks[i] = g
  <2>1. \A i \in 1..Len(callbacks) : callbacks[i] = callbacks[1] => i = 1
    BY <1>2 DEF NoneTwice, NoneInTwoFrames
  <2>2. /\ 1 \in 1..Len(callbacks)
        /\ \A i \in 1..Len(callbacks) : i = 1 \/ i \in 2..Len(callbacks)
        /\ \A i \in 2..Len(callbacks) : i \in 1..Len(callbacks) /\ i # 1
    BY <1>2
  <2> QED
    BY <2>1, <2>2, Zenon DEF InCallbacks
<1>8. \A g \in Calls : /\ g = callbacks[1] => InCallbacks(g)
                       /\ (\E i \in 2..Len(callbacks) : callbacks[i] = g) => InCallbacks(g)
  BY <1>2 DEF InCallbacks
<1>9. CallTypes'
  BY <1>1, <1>4, <1>5 DEF CallTypes
<1>10. NoneTwice'
  BY <1>4, <1>5 DEF NoneTwice, NoneInTwoFrames
<1>11. OnePlace'
  BY <1>1, <1>4, <1>6, <1>7, <1>8 DEF OnePlace
<1> QED
  BY <1>9, <1>10, <1>11

LEMMA RunNiceFunctionKeeps ==
    ASSUME CallInv, NEW f \in Calls, RunNiceFunction(f) PROVE CallInv'
<1> USE DEF CallInv
<1> DEFINE s == <<f>>
<1>1. /\ f \in nice /\ nice' = nice \ {f} /\ frames' = Append(frames, s)
      /\ ran' = Append(ran, f) /\ UNCHANGED <<callbacks, issued>>
      /\ ~InCallbacks(f) /\ ~InFrames(f) /\ ~HasRun(f)
  BY DEF RunNiceFunction, OnePlace
<1>2. s \in Seq(Calls) \ {<<>>} /\ Len(s) = 1 /\ s[1] = f /\ Head(s) = f
  OBVIOUS
<1> HIDE DEF s
<1>3. /\ frames' \in Seq(Seq(Calls) \ {<<>>}) /\ ran' \in Seq(Calls)
      /\ \A g \in Calls :
            /\ InFrames(g)' <=> InFrames(g) \/ \E i \in 2..Len(s) : s[i] = g
            /\ HasRun(g)' <=> HasRun(g) \/ g = s[1]
      /\ \A i, j \in 1..Len(ran') : ran'[i] = ran'[j] => i = j
      /\ \A i, k \in 1..Len(frames') :
            \A j \in 2..Len(frames'[i]), l \in 2..Len(frames'[k]) :
               frames'[i][j] = frames'[k][l] => i = k /\ j = l
  <2>1. /\ \A i, j \in 1..Len(s) : s[i] = s[j] => i = j
        /\ \A i \in 1..Len(s) : ~InFrames(s[i]) /\ ~HasRun(s[i])
    BY <1>1, <1>2
  <2> HIDE DEF CallInv
  <2> QED
    BY <1>1, <1>2, <2>1, ListStarted
<1>4. \A g \in Calls : /\ InFrames(g)' <=> InFrames(g)
                       /\ InCallbacks(g)' <=> InCallbacks(g)
                       /\ HasRun(g)' <=> HasRun(g) \/ g = f
  BY <1>1, <1>2, <1>3 DEF InCallbacks
<1>5. CallTypes'
  BY <1>1, <1>3 DEF CallTypes
<1>6. NoneTwice'
  <2>1. \A i, j \in 1..Len(callbacks') : callbacks'[i] = callbacks'[j] => i = j
    BY <1>1 DEF NoneTwice, NoneInTwoFrames
  <2> QED
    BY <1>3, <2>1 DEF NoneTwice, NoneInTwoFrames
<1>7. OnePlace'
  BY <1>1, <1>4 DEF OnePlace
<1> QED
  BY <1>5, <1>6, <1>7

LEMMA FunctionReturnsKeeps == ASSUME CallInv, FunctionReturns PROVE CallInv'
<1> USE DEF CallInv
<1> DEFINE n == Len(frames)
           top == frames[n]
<1>1. frames # <<>> /\ UNCHANGED <<callbacks, nice, issued>>
  BY DEF FunctionReturns
<1>2. /\ n \in Nat \ {0} /\ n \in 1..n /\ top \in Seq(Calls) /\ top # <<>> /\ Last(frames) = top
      /\ \A i \in 1..n : frames[i] \in Seq(Calls) \ {<<>>}
  <2>1. frames \in Seq(Seq(Calls) \ {<<>>})
    BY DEF CallTypes
  <2> QED
    BY <1>1, <2>1 DEF Last
<1>3. /\ Front(frames) \in Seq(Seq(Calls) \ {<<>>}) /\ Len(Front(frames)) = n - 1
      /\ \A i \in 1..(n - 1) : Front(frames)[i] = frames[i]
  <2> DEFINE F == Seq(Calls) \ {<<>>}
  <2>1. frames \in Seq(F)
    BY DEF CallTypes
  <2> HIDE DEF F
  <2>2. n \in Nat \ {0} /\ n = Len(frames)
    BY <1>2
  <2> HIDE DEF n
  <2>3. Front(frames) = SubSeq(frames, 1, n - 1)
    BY <2>2 DEF Front
  <2>4. /\ SubSeq(frames, 1, n - 1) \in Seq(F) /\ Len(SubSeq(frames, 1, n - 1)) = n - 1
        /\ \A i \in 1..(n - 1) : SubSeq(frames, 1, n - 1)[i] = frames[i]
    BY <2>1, <2>2
  <2> QED
    BY <2>3, <2>4, Zenon DEF F
<1>4. \A g \in Calls : InCallbacks(g)' <=> InCallbacks(g)
  BY <1>1 DEF InCallbacks
<1>5. /\ Tail(top) \in Seq(Calls) /\ Len(top) \in Nat \ {0} /\ Len(Tail(top)) = Len(top) - 1
      /\ \A i \in 1..(Len(top) - 1) : Tail(top)[i] = top[i + 1]
  <2> DEFINE s == top
  <2>1. s \in Seq(Calls) /\ s # <<>>
    BY <1>2
  <2> HIDE DEF s
  <2>2. /\ Tail(s) \in Seq(Calls) /\ Len(s) \in Nat \ {0} /\ Len(Tail(s)) = Len(s) - 1
        /\ \A i \in 1..(Len(s) - 1) : Tail(s)[i] = s[i + 1]
    BY <2>1
  <2> QED
    BY <2>2 DEF s
<1>6. CASE /\ Tail(top) # <<>> /\ frames' = Append(Front(frames), Tail(top))
           /\ ran' = Append(ran, Head(Tail(top)))
  <2> DEFINE h == top[2]
             rest == Tail(top)
             front == Front(frames)
  <2>1. Len(top) > 1 /\ Head(rest) = h /\ h \in Calls /\ 2 \in 2..Len(top)
    <3>1. Len(rest) # 0 /\ Head(rest) = rest[1]
      <4>1. rest \in Seq(Calls) /\ rest # <<>>
        BY <1>5, <1>6
      <4> HIDE DEF rest
      <4>2. Len(rest) # 0
        BY <4>1, EmptySeq
      <4>3. Head(rest) = rest[1]
        BY <4>1
      <4> QED
        BY <4>2, <4>3
    <3>2. Len(top) > 1 /\ 1 \in 1..(Len(top) - 1) /\ 2 \in 1..Len(top) /\ 2 \in 2..Len(top)
      <4> DEFINE k == Len(top)
      <4>1. k \in Nat /\ k # 0 /\ k - 1 # 0
        BY <1>5, <3>1
      <4> HIDE DEF top, k
      <4>2. k > 1 /\ 1 \in 1..(k - 1) /\ 2 \in 1..k /\ 2 \in 2..k
        BY <4>1
      <4> QED
        BY <4>2 DEF k
    <3> QED
      BY <1>2, <1>5, <3>1, <3>2
  <2>2. /\ ran' \in Seq(Calls) /\ Len(ran') = Len(ran) + 1 /\ Len(ran) \in Nat
        /\ ran'[Len(ran) + 1] = h /\ \A i \in 1..Len(ran) : ran'[i] = ran[i]
    <3>1. h \in Calls /\ ran' = Append(ran, h) /\ ran \in Seq(Calls)
      BY <1>6, <2>1 DEF CallTypes
    <3> HIDE DEF h
    <3>2. /\ Append(ran, h) \in Seq(Calls) /\ Len(Append(ran, h)) = Len(ran) + 1
          /\ Len(ran) \in Nat /\ Append(ran, h)[Len(ran) + 1] = h
          /\ \A i \in 1..Len(ran) : Append(ran, h)[i] = ran[i]
      BY <3>1
    <3> QED
      BY <3>1, <3>2, Zenon
  <2>3. /\ frames' \in Seq(Seq(Calls) \ {<<>>}) /\ Len(frames') = n /\ frames'[n] = rest
        /\ \A i \in 1..(n - 1) : frames'[i] = frames[i]
    <3> DEFINE F == Seq(Calls) \ {<<>>}
               m == n - 1
    <3>1. rest \in F /\ front \in Seq(F) /\ Len(front) = m /\ m \in Nat /\ n = m + 1
          /\ \A i \in 1..m : front[i] = frames[i]
      BY <1>2, <1>3, <1>5, <1>6
    <3>2. frames' = Append(front, rest)
      BY <1>6
    <3> HIDE DEF F, front, rest, m
    <3>3. /\ Append(front, rest) \in Seq(F) /\ Len(Append(front, rest)) = m + 1
          /\ Append(front, rest)[m + 1] = rest
          /\ \A i \in 1..m : Append(front, rest)[i] = front[i]
      BY <3>1
    <3>4. /\ frames' \in Seq(F) /\ Len(frames') = m + 1 /\ frames'[m + 1] = rest
          /\ \A i \in 1..m : frames'[i] = frames[i]
      BY <3>1, <3>2, <3>3
    <3> QED
      BY <3>1, <3>4 DEF F, m
  <2> HIDE DEF n, top, h, rest, front
  <2>4. /\ \A i \in 1..n : i \in 1..(n - 1) \/ i = n
        /\ \A i \in 1..(n - 1) : i \in 1..n /\ i # n
        /\ \A j \in 2..Len(rest) : j + 1 \in 2..Len(top) /\ j + 1 # 2 /\ rest[j] = top[j + 1]
        /\ \A j \in 2..Len(top) : j # 2 => j - 1 \in 2..Len(rest) /\ rest[j - 1] = top[j]
        /\ \A j, l \in 2..Len(rest) : j + 1 = l + 1 => j = l
    BY <1>2, <1>5, <2>1 DEF rest
  <2>5. \A i \in 1..n : \A j \in 2..Len(frames[i]) : frames[i][j] = h => i = n /\ j = 2
    BY <1>2, <2>1 DEF NoneTwice, NoneInTwoFrames, n, h, top
  <2>6. ASSUME NEW g \in Calls PROVE InFrames(g)' <=> InFrames(g) /\ g # h
    <3>1. ASSUME InFrames(g)' PROVE InFrames(g) /\ g # h
      <4>1. PICK i \in 1..n : \E j \in 2..Len(frames'[i]) : frames'[i][j] = g
        BY <2>3, <3>1 DEF InFrames
      <4>2. PICK j \in 2..Len(frames'[i]) : frames'[i][j] = g
        BY <4>1
      <4>3. CASE i \in 1..(n - 1)
        <5>1. frames[i][j] = g /\ j \in 2..Len(frames[i]) /\ i \in 1..n /\ i # n
          BY <2>3, <2>4, <4>2, <4>3
        <5> QED
          BY <2>5, <5>1 DEF InFrames, n
      <4>4. CASE i = n
        <5>1. j + 1 \in 2..Len(top) /\ j + 1 # 2 /\ top[j + 1] = g
          BY <2>3, <2>4, <4>2, <4>4
        <5>2. frames[n][j + 1] = g /\ j + 1 \in 2..Len(frames[n]) /\ n \in 1..Len(frames)
          BY <1>2, <5>1 DEF top, n
        <5> QED
          BY <1>2, <2>5, <5>1, <5>2 DEF InFrames, top
      <4> QED
        BY <2>4, <4>3, <4>4
    <3>2. ASSUME InFrames(g), g # h PROVE InFrames(g)'
      <4>1. PICK i \in 1..n : \E j \in 2..Len(frames[i]) : frames[i][j] = g
        BY <3>2 DEF InFrames, n
      <4>2. PICK j \in 2..Len(frames[i]) : frames[i][j] = g
        BY <4>1
      <4>3. CASE i \in 1..(n - 1)
        BY <2>3, <4>2, <4>3 DEF InFrames
      <4>4. CASE i = n
        <5>1. j # 2 /\ j \in 2..Len(top) /\ top[j] = g
          BY <3>2, <4>2, <4>4 DEF h, top
        <5>2. j - 1 \in 2..Len(frames'[n]) /\ frames'[n][j - 1] = g
          BY <2>3, <2>4, <5>1
        <5> QED
          BY <2>3, <4>4, <5>2 DEF InFrames
      <4> QED
        BY <2>4, <4>3, <4>4
    <3> QED
      BY <3>1, <3>2
  <2>7. InFrames(h) /\ ~HasRun(h)
    <3>1. InFrames(h)
      BY <1>2, <2>1 DEF InFrames, h, top, n
    <3> QED
      BY <2>1, <3>1 DEF OnePlace
  <2>8. \A g \in Calls : HasRun(g)' <=> HasRun(g) \/ g = h
    BY <2>2 DEF HasRun
  <2>9. CallTypes'
    BY <1>1, <2>2, <2>3 DEF CallTypes
  <2>10. \A i, j \in 1..Len(ran') : ran'[i] = ran'[j] => i = j
    BY <2>2, <2>7 DEF NoneTwice, NoneInTwoFrames, HasRun
  <2>11. ASSUME NEW i \in 1..Len(frames'), NEW k \in 1..Len(frames'),
                NEW j \in 2..Len(frames'[i]), NEW l \in 2..Len(frames'[k]),
                frames'[i][j] = frames'[k][l]
         PROVE  i = k /\ j = l
    <3> DEFINE J == IF i = n THEN j + 1 ELSE j
               L == IF k = n THEN l + 1 ELSE l
    <3>1. i \in 1..n /\ k \in 1..n
      BY <2>3
    <3>2. J \in 2..Len(frames[i]) /\ frames[i][J] = frames'[i][j]
      <4>1. CASE i = n
        BY <2>3, <2>4, <4>1 DEF top
      <4>2. CASE i # n
        BY <2>3, <2>4, <3>1, <4>2
      <4> QED
        BY <4>1, <4>2
    <3>3. L \in 2..Len(frames[k]) /\ frames[k][L] = frames'[k][l]
      <4>1. CASE k = n
        BY <2>3, <2>4, <4>1 DEF top
      <4>2. CASE k # n
        BY <2>3, <2>4, <3>1, <4>2
      <4> QED
        BY <4>1, <4>2
    <3> HIDE DEF J, L
    <3>4. i = k /\ J = L
      <4>1. frames[i][J] = frames[k][L]
        BY <2>11, <3>2, <3>3
      <4>2. NoneTwice /\ i \in 1..Len(frames) /\ k \in 1..Len(frames)
        BY <1>1, <3>1 DEF n
      <4>3. \A b \in 2..Len(frames[i]), d \in 2..Len(frames[k]) :
               frames[i][b] = frames[k][d] => i = k /\ b = d
        BY <4>2, Zenon DEF NoneTwice, NoneInTwoFrames
      <4> QED
        BY <4>1, <4>3, <3>2, <3>3, Zenon
    <3> QED
      BY <3>4 DEF J, L
  <2>12. NoneTwice'
    <3>1. \A i, j \in 1..Len(callbacks') : callbacks'[i] = callbacks'[j] => i = j
      BY <1>1 DEF NoneTwice, NoneInTwoFrames
    <3> QED
      BY <2>10, <2>11, <3>1 DEF NoneTwice, NoneInTwoFrames
  <2>13. OnePlace'
    BY <1>1, <1>4, <2>6, <2>7, <2>8 DEF OnePlace
  <2> QED
    BY <2>9, <2>12, <2>13
<1>7. CASE Tail(top) = <<>> /\ frames' = Front(frames) /\ UNCHANGED ran
  <2> HIDE DEF n, top
  <2>1. Len(top) = 1
    <3>1. Len(Tail(top)) = 0 /\ Len(top) \in Nat \ {0} /\ Len(Tail(top)) = Len(top) - 1
      BY <1>5, <1>7
    <3> QED
      BY <3>1
  <2>2. /\ \A i \in 1..n : i \in 1..(n - 1) \/ i = n
        /\ \A i \in 1..(n - 1) : i \in 1..n
        /\ 2..Len(frames[n]) = {}
    BY <1>2, <2>1 DEF top
  <2>3. Len(frames') = n - 1 /\ \A i \in 1..(n - 1) : frames'[i] = frames[i]
    BY <1>3, <1>7
  <2>4. \A g \in Calls : InFrames(g)' <=> InFrames(g)
    BY <2>2, <2>3, Zenon DEF InFrames, n
  <2>5. \A g \in Calls : HasRun(g)' <=> HasRun(g)
    BY <1>7 DEF HasRun
  <2>6. CallTypes'
    BY <1>1, <1>3, <1>7 DEF CallTypes
  <2>7. NoneTwice'
    <3>1. /\ NoneTwice /\ callbacks' = callbacks /\ ran' = ran
          /\ \A i \in 1..Len(frames') : i \in 1..Len(frames) /\ frames'[i] = frames[i]
      BY <1>1, <1>7, <2>2, <2>3 DEF n
    <3>2. NoneInTwoFrames
      BY <3>1 DEF NoneTwice
    <3>3. NoneInTwoFrames'
      <4> SUFFICES ASSUME NEW i \in 1..Len(frames'), NEW k \in 1..Len(frames'),
                          NEW j \in 2..Len(frames'[i]), NEW l \in 2..Len(frames'[k]),
                          frames'[i][j] = frames'[k][l]
                   PROVE  i = k /\ j = l
        BY DEF NoneInTwoFrames
      <4>1. /\ i \in 1..Len(frames) /\ k \in 1..Len(frames)
            /\ frames'[i] = frames[i] /\ frames'[k] = frames[k]
        BY <3>1
      <4> QED
        BY <3>2, <4>1 DEF NoneInTwoFrames
    <3> QED
      BY <3>1, <3>3 DEF NoneTwice
  <2>8. OnePlace'
    BY <1>1, <1>4, <2>4, <2>5 DEF OnePlace
  <2> QED
    BY <2>6, <2>7, <2>8
<1> QED
  BY <1>2, <1>6, <1>7 DEF FunctionReturns

\* Every function given to queuecall or Idle.call (lualib/thread.lua) is called once, or waits in
\* one place, whatever nested trampolines run meanwhile; for any use of threads and mailboxes.
THEOREM CallsOnce == Spec => []CalledOnce
<1>1. Init => CallInv
  <2> SUFFICES ASSUME Init PROVE CallInv
    OBVIOUS
  <2>1. callbacks = <<>> /\ frames = <<>> /\ ran = <<>> /\ issued = {} /\ nice = {}
    BY DEF Init, SchedulerInit
  <2> QED
    BY <2>1 DEF CallInv, CallTypes, NoneTwice, NoneInTwoFrames, OnePlace, InCallbacks, InFrames, HasRun
<1>2. ASSUME CallInv, [Next]_vars PROVE CallInv'
  <2>1. CASE DeferredStep
    <3>1. CASE TrampolineReturns
      BY <1>2, <3>1, AloneKeepsCalls DEF TrampolineReturns, DeferredAlone, deferred
    <3> QED
      BY <1>2, <2>1, <3>1, QueueCallKeeps, IdleCallKeeps, RunCallbacksKeeps,
         RunNiceFunctionKeeps, FunctionReturnsKeeps DEF DeferredStep
  <2> QED
    BY <1>2, <2>1, ThreadsLeaveCalls, AloneKeepsCalls
<1>3. ASSUME CallInv PROVE CalledOnce
  <2> USE <1>3 DEF CallInv
  <2>0. CallTypes /\ NoneTwice /\ OnePlace
    OBVIOUS
  <2>1. /\ \A f : f \in ToSet(ran) <=> HasRun(f)
        /\ \A f : f \in ToSet(callbacks) <=> InCallbacks(f)
        /\ ToSet(ran) \subseteq Calls /\ ToSet(callbacks) \subseteq Calls
    <3>1. ran \in Seq(Calls) /\ callbacks \in Seq(Calls)
      BY <2>0 DEF CallTypes
    <3> QED
      BY <3>1 DEF ToSet, HasRun, InCallbacks
  <2>2. \A i \in 1..Len(frames) :
           /\ ToSet(Tail(frames[i])) \subseteq Calls
           /\ \A f : f \in ToSet(Tail(frames[i])) <=> \E j \in 2..Len(frames[i]) : frames[i][j] = f
    <3> TAKE i \in 1..Len(frames)
    <3> DEFINE s == frames[i]
    <3>1. s \in Seq(Calls) /\ s # <<>>
      BY <2>0 DEF CallTypes
    <3> HIDE DEF s
    <3>2. /\ Tail(s) \in Seq(Calls) /\ DOMAIN Tail(s) = 1..(Len(s) - 1) /\ Len(s) \in Nat
          /\ \A j \in 1..(Len(s) - 1) : Tail(s)[j] = s[j + 1] /\ j + 1 \in 2..Len(s)
          /\ \A j \in 2..Len(s) : j - 1 \in 1..(Len(s) - 1) /\ Tail(s)[j - 1] = s[j]
      BY <3>1
    <3>3. ToSet(Tail(s)) \subseteq Calls
      BY <3>2 DEF ToSet
    <3>4. ASSUME NEW f PROVE f \in ToSet(Tail(s)) <=> \E j \in 2..Len(s) : s[j] = f
      <4>1. f \in ToSet(Tail(s)) <=> \E j \in 1..(Len(s) - 1) : Tail(s)[j] = f
        BY <3>2, Zenon DEF ToSet
      <4> QED
        BY <3>2, <4>1, Zenon
    <3> QED
      BY <3>3, <3>4 DEF s
  <2>3. \A f : f \in Pending <=> f \in Calls /\ (InCallbacks(f) \/ f \in nice \/ InFrames(f))
    <3>1. \A f : f \in UNION {ToSet(Tail(frames[i])) : i \in 1..Len(frames)} <=> InFrames(f)
      <4>1. \A f : f \in UNION {ToSet(Tail(frames[i])) : i \in 1..Len(frames)} <=>
                      \E i \in 1..Len(frames) : f \in ToSet(Tail(frames[i]))
        BY Zenon
      <4> QED
        BY <2>2, <4>1, Zenon DEF InFrames
    <3>2. \A f : InFrames(f) => f \in Calls
      BY <2>2 DEF InFrames
    <3> QED
      BY <2>1, <3>1, <3>2 DEF Pending
  <2>4. issued = ToSet(ran) \cup Pending
    <3>1. issued \subseteq Calls
      BY <2>0 DEF CallTypes
    <3> QED
      BY <2>0, <2>1, <2>3, <3>1 DEF OnePlace
  <2>5. ToSet(ran) \cap Pending = {}
    BY <2>0, <2>1, <2>3 DEF OnePlace
  <2>6. Len(ran) = Cardinality(ToSet(ran))
    <3>1. ran \in Seq(Calls) /\ Len(ran) \in Nat /\ ran \in [1..Len(ran) -> ToSet(ran)]
      <4>1. ran \in Seq(Calls)
        BY <2>0 DEF CallTypes
      <4> QED
        BY <4>1 DEF ToSet
    <3>2. ran \in Bijection(1..Len(ran), ToSet(ran))
      <4>1. \A i, j \in 1..Len(ran) : ran[i] = ran[j] => i = j
        BY <2>0 DEF NoneTwice, NoneInTwoFrames
      <4>2. \A f \in ToSet(ran) : \E i \in 1..Len(ran) : ran[i] = f
        BY <2>1 DEF HasRun
      <4> QED
        BY <3>1, <4>1, <4>2 DEF Bijection, Injection, Surjection, IsInjective
    <3>3. ExistsBijection(1..Len(ran), ToSet(ran))
      BY <3>2 DEF ExistsBijection
    <3> QED
      BY <3>1, <3>3, FS_CountingElements
  <2> QED
    BY <2>4, <2>5, <2>6 DEF CalledOnce
<1> QED
  BY <1>1, <1>2, <1>3, PTL DEF Spec

===============================================================================
