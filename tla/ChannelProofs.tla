----------------------------- MODULE ChannelProofs -----------------------------
(****************************************************************************)
(* The steps of Thread, sorted by what they do to the threads that wait and *)
(* to the queues; and from it that a recv ends only with a message or a     *)
(* kill, that a killed thread stays down, and that queues are channels.     *)
(****************************************************************************)
EXTENDS ThreadChannel, ThreadProofs

\* A thread that does not wait to be killed or finished is woken: with the next message
\* of a queue it waits for, because nothing else can run, or by a kill, a timer or its
\* turn.
Wakes(t, src) ==
    /\ Woken(t, src)
    /\ pos[t] \notin {"parked", "dead"}
    /\ UNCHANGED buffer
    /\ \/ src \in waits[t] \cap Queues /\ got' = [got EXCEPT ![src] = got[src] + 1]
       \/ /\ Blocked(t) => \/ src = Kill
                           \/ src = Idle /\ Idle \in waits[t] /\ busy = {} /\ callbacks = <<>>
          /\ UNCHANGED got

\* Nobody is woken.
Settled ==
    \A t \in Actors : pos[t] \in {"recv", "recvone", "parked", "dead"} => pos'[t] = pos[t]

Unawaited(q) ==
    /\ q \in Mailboxes => waiting[q] = <<>>
    /\ q \in Threads => q \notin listening

SameWaiters == UNCHANGED <<waiting, listening>>

Buffers(q) ==
    /\ Settled /\ SameWaiters /\ Unawaited(q)
    /\ buffer' = [buffer EXCEPT ![q] = Append(@, sent[q] + 1)]
    /\ UNCHANGED got

Takes(q) ==
    /\ Settled /\ SameWaiters /\ Unawaited(q)
    /\ buffer[q] # <<>>
    /\ buffer' = [buffer EXCEPT ![q] = Tail(@)]
    /\ got' = [got EXCEPT ![q] = Head(buffer[q])]

PutsBack(q) ==
    /\ Settled /\ SameWaiters /\ Unawaited(q)
    /\ got[q] > 0
    /\ buffer' = [buffer EXCEPT ![q] = <<got[q]>> \o @]
    /\ got' = [got EXCEPT ![q] = @ - 1]

Blocks(c, S) ==
    /\ Settled
    /\ \A q \in S \cap Queues : Unawaited(q) /\ buffer[q] = <<>>
    /\ waiting' = [m \in Mailboxes |-> IF m \in S THEN <<c>> ELSE waiting[m]]
    /\ listening' = IF c \in S THEN listening \cup {c} ELSE listening
    /\ S \cap Threads \subseteq {c}
    /\ UNCHANGED <<buffer, got>>

Quiet == Settled /\ SameWaiters /\ UNCHANGED <<buffer, got>>

StepKinds ==
    \/ \E t \in Threads, src \in Wakers : Wakes(t, src)
    \/ \E q \in Queues : Buffers(q) \/ Takes(q) \/ PutsBack(q)
    \/ \E c \in Threads : \E S \in SUBSET SourcesOf(c) : Blocks(c, S)
    \/ Quiet

LEMMA ControlSettles == UNCHANGED controlVars => Settled /\ SameWaiters
  BY DEF controlVars, waitVars, Settled, SameWaiters

LEMMA HandOverKind ==
    ASSUME IInv, NEW c \in Actors, Runs(c), NEW t \in Threads, NEW q \in Queues,
           q \in waits[t], HandOver(c, t, q, sent[q] + 1)
    PROVE  StepKinds
<1>1. Blocked(t) /\ Woken(t, q) /\ UNCHANGED buffer
      /\ got' = [got EXCEPT ![q] = sent[q] + 1]
  BY HandOverWakes
<1>2. got[q] = sent[q]
  BY WaitedForIsEmpty
<1>3. Wakes(t, q)
  BY <1>1, <1>2 DEF Wakes, Blocked
<1> QED
  BY <1>3 DEF StepKinds, Wakers

LEMMA PutKind == ASSUME IInv, NEW c \in Actors, NEW m \in Mailboxes, Put(c, m) PROVE StepKinds
<1>0. m \in Queues /\ m \notin Threads
  BY Names DEF Queues
<1>1. CASE waiting[m] = <<>>
  <2>1. buffer' = [buffer EXCEPT ![m] = Append(@, sent[m] + 1)]
        /\ UNCHANGED controlVars /\ UNCHANGED got
    BY <1>1 DEF Put
  <2>2. Buffers(m)
    BY <1>0, <1>1, <2>1, ControlSettles DEF Buffers, Unawaited
  <2> QED
    BY <1>0, <2>2 DEF StepKinds
<1>2. CASE waiting[m] # <<>>
  <2>1. PICK t \in Threads : waiting[m] = <<t>> /\ m \in waits[t]
    BY <1>2 DEF IInv, WaitLists
  <2>2. HandOver(c, t, m, sent[m] + 1)
    BY <1>2, <2>1 DEF Put
  <2> QED
    BY <1>0, <2>1, <2>2, HandOverKind DEF Put
<1> QED
  BY <1>1, <1>2

LEMMA SendKind == ASSUME IInv, NEW c \in Actors, NEW t \in Threads, Send(c, t) PROVE StepKinds
<1>0. t \in Queues /\ t \notin Mailboxes
  BY Names DEF Queues
<1>1. CASE t \notin listening
  <2>1. Buffers(t)
    BY <1>0, <1>1, ControlSettles DEF Send, Buffers, Unawaited
  <2> QED
    BY <1>0, <2>1 DEF StepKinds
<1>2. CASE t \in listening
  <2>1. t \in waits[t]
    BY <1>2 DEF IInv, Waiters
  <2> QED
    BY <1>0, <1>2, <2>1, HandOverKind DEF Send
<1> QED
  BY <1>1, <1>2

LEMMA PutbackKind ==
    ASSUME IInv, SingleReader, NEW c \in Actors, NEW m \in Mailboxes, Putback(c, m)
    PROVE  StepKinds
<1>1. c \in Threads /\ Runs(c) /\ c \in Readers[m] /\ m \in Queues /\ m \notin Threads
  BY Names DEF Putback, InCode, SingleReader, Queues
<1>2. waiting[m] = <<>>
  BY <1>1, NoWaiterBeside
<1>3. PutsBack(m)
  BY <1>1, <1>2, ControlSettles DEF Putback, PutsBack, Unawaited
<1> QED
  BY <1>1, <1>3 DEF StepKinds

LEMMA RecvKind ==
    ASSUME IInv, SingleReader, NEW c \in Actors, NEW S \in SUBSET SourcesOf(c), Recv(c, S)
    PROVE  StepKinds
<1>1. c \in Threads
  <2>1. c = Main => SourcesOf(c) = {}
    BY Names DEF SourcesOf, SingleReader
  <2> QED
    BY <2>1 DEF Recv, Actors
<1>2. Runs(c)
  BY DEF Recv, InCode
<1>3. \A q \in S \cap Queues : Unawaited(q)
  <2>1. SUFFICES ASSUME NEW q \in S \cap Queues PROVE Unawaited(q)
    OBVIOUS
  <2>2. q \in Mailboxes => waiting[q] = <<>>
    BY <1>1, <1>2, NoWaiterBeside, Names DEF SourcesOf, Queues
  <2>3. q \in Threads => q \notin listening
    BY <1>1, <1>2, RunningWaitsForNothing, Names DEF SourcesOf, Queues
  <2> QED
    BY <2>2, <2>3 DEF Unawaited
<1>4. CASE TakeBuffered(c, S)
  <2>1. PICK q \in S \cap Queues :
           /\ buffer[q] # <<>>
           /\ got' = [got EXCEPT ![q] = Head(buffer[q])]
           /\ buffer' = [buffer EXCEPT ![q] = Tail(@)]
    BY <1>4 DEF TakeBuffered
  <2>2. UNCHANGED controlVars
    BY <1>4 DEF TakeBuffered
  <2>3. Takes(q)
    BY <1>3, <2>1, <2>2, ControlSettles DEF Takes
  <2> QED
    BY <2>3 DEF StepKinds
<1>5. CASE BlockOn(c, S)
  <2>1. /\ waiting' = [m \in Mailboxes |-> IF m \in S THEN Append(waiting[m], c)
                                                      ELSE waiting[m]]
        /\ listening' = IF c \in S THEN listening \cup {c} ELSE listening
        /\ UNCHANGED <<buffer, got>>
        /\ \A q \in S \cap Queues : buffer[q] = <<>>
    BY <1>5 DEF BlockOn, Register, queueVars
  <2>2. waiting' = [m \in Mailboxes |-> IF m \in S THEN <<c>> ELSE waiting[m]]
    <3>1. Append(<<>>, c) = <<c>>
      OBVIOUS
    <3>2. \A m \in Mailboxes : m \in S => waiting[m] = <<>>
      BY <1>3 DEF Unawaited, Queues
    <3> QED
      BY <2>1, <3>1, <3>2
  <2>3. Settled
    <3>1. PICK state : pos' = [pos EXCEPT ![c] = state]
      BY <1>5 DEF BlockOn
    <3>2. pos[c] = "run" /\ pos \in [Actors -> States]
      BY <1>1, <1>2, RunningWaitsForNothing DEF IInv, TypeOK
    <3> QED
      BY <3>1, <3>2 DEF Settled
  <2>4. S \cap Threads \subseteq {c}
    BY <1>1, Names DEF SourcesOf, Queues
  <2>5. Blocks(c, S)
    BY <1>3, <2>1, <2>2, <2>3, <2>4 DEF Blocks
  <2> QED
    BY <1>1, <2>5 DEF StepKinds
<1> QED
  BY <1>4, <1>5 DEF Recv

\* Woken by no message.
LEMMA WakeKind ==
    ASSUME IInv, NEW t \in Threads, NEW src \in Wakers \ Queues, Wake(t, src),
           pos[t] \notin {"parked", "dead"},
           Blocked(t) => \/ src = Kill
                         \/ src = Idle /\ Idle \in waits[t] /\ busy = {} /\ callbacks = <<>>,
           pos[t] = "sleep" => src # Nil,
           UNCHANGED queueVars
    PROVE  StepKinds
<1>1. Woken(t, src)
  BY WakeIsWoken
<1>2. Wakes(t, src)
  BY <1>1 DEF Wakes, queueVars
<1> QED
  BY <1>2 DEF StepKinds

LEMMA TrampolineKind ==
    ASSUME IInv, NEW t \in Threads, RunBusy(t) \/ RunNiceThread(t) \/ TimerFires(t)
    PROVE  StepKinds
<1>1. {Idle, Tick, Nil, Kill} \subseteq Wakers \ Queues
  BY Names DEF Wakers
<1>2. CASE RunBusy(t)
  <2>1. pos[t] \in {"new", "run"}
    BY <1>2 DEF RunBusy, IInv, Scheduled
  <2> QED
    BY <1>1, <1>2, <2>1, WakeKind DEF RunBusy, Blocked
<1>3. CASE RunNiceThread(t)
  <2>1. Idle \in waits[t] /\ Blocked(t) /\ busy = {} /\ callbacks = <<>>
    BY <1>3 DEF RunNiceThread, NiceTurn, CallbacksTurn, IInv, Waiters
  <2> QED
    BY <1>1, <1>3, <2>1, WakeKind DEF RunNiceThread, Blocked
<1>4. CASE TimerFires(t)
  <2>1. pos[t] = "sleep"
    BY <1>4 DEF TimerFires, IInv, SleepersHaveTimers
  <2>2. Wake(t, Tick) /\ UNCHANGED queueVars
    BY <1>4, Names DEF TimerFires, Resume
  <2> QED
    BY <1>1, <2>1, <2>2, WakeKind, Names DEF Blocked
<1> QED
  BY <1>2, <1>3, <1>4

LEMMA KillKind ==
    ASSUME IInv, KillsBlocked, NEW c \in Actors, NEW t \in Threads, KillThread(c, t)
    PROVE  StepKinds
<1>1. Blocked(t) \/ pos[t] = "sleep"
  BY DEF KillThread, KillsBlocked, Blocked
<1>2. Wake(t, Kill) /\ UNCHANGED queueVars
  BY Names DEF KillThread, Resume
<1>3. Kill \in Wakers \ Queues /\ Kill # Nil
  BY Names DEF Wakers
<1> QED
  BY <1>1, <1>2, <1>3, WakeKind DEF Blocked

\* Starting, finishing, going to sleep.
LEMMA OwnKind ==
    ASSUME IInv, NEW t \in Threads,
           Sleep(t) \/ Finish(t) \/ \E c \in Actors : Go(c, t)
    PROVE  StepKinds
<1>1. pos[t] \in {"run", "unborn"}
  BY DEF Sleep, Finish, Go, Runs, IInv, Scheduled
<1>2. PICK state : pos' = [pos EXCEPT ![t] = state]
  BY DEF Sleep, Finish, Go, Continues
<1>3. UNCHANGED <<waiting, listening, buffer, got>>
  BY DEF Sleep, Finish, Go, waitVars, queueVars
<1>4. Settled
  BY <1>1, <1>2 DEF Settled, IInv, TypeOK
<1> QED
  BY <1>3, <1>4 DEF StepKinds, Quiet, SameWaiters

LEMMA EveryStep ==
    ASSUME IInv, SingleReader, KillsBlocked, [Next]_vars
    PROVE  StepKinds
<1>1. ASSUME NEW c \in Actors, ThreadStep(c) PROVE StepKinds
  BY <1>1, RecvKind, PutKind, PutbackKind, SendKind, OwnKind, KillKind DEF ThreadStep
<1>2. ASSUME NEW t \in Threads, Sleep(t) \/ Finish(t) PROVE StepKinds
  BY <1>2, OwnKind
<1>3. ASSUME NEW t \in Threads, RunBusy(t) \/ RunNiceThread(t) \/ TimerFires(t)
      PROVE  StepKinds
  BY <1>3, TrampolineKind
<1>4. CASE MainContinues
  BY <1>4 DEF MainContinues, IInv, MainRuns
<1>5. CASE DeferredStep
  BY <1>5 DEF DeferredStep, threadVars, waitVars, queueVars, StepKinds, Quiet,
              Settled, SameWaiters
<1>6. CASE UNCHANGED vars
  BY <1>6 DEF vars, waitVars, queueVars, StepKinds, Quiet, Settled, SameWaiters
<1> QED
  BY <1>1, <1>2, <1>3, <1>4, <1>5, <1>6 DEF Next

----------------------------------------------------------------------------
(* What a step may never do. *)

\* A thread leaves a recv with a message of one of its sources, or when idle.
THEOREM RecvBlocksUntilReady ==
    ASSUME SingleReader, KillsBlocked
    PROVE  Spec => WakesOnlyWhenReady
<1>1. ASSUME IInv, [Next]_vars, NEW t \in Actors, Blocked(t), pos'[t] = "run"
      PROVE  \E s \in waits[t] : \/ s \in Queues /\ got'[s] > got[s]
                                 \/ s = Idle /\ busy = {} /\ callbacks = <<>>
  <2>1. ~Settled
    BY <1>1 DEF Settled, Blocked
  <2>2. PICK u \in Threads, src \in Wakers : Wakes(u, src)
    BY <1>1, <2>1, EveryStep DEF StepKinds, Buffers, Takes, PutsBack, Blocks, Quiet
  <2>3. pos \in [Actors -> States] /\ got \in [Queues -> Nat] /\ u \in Actors
    BY <1>1 DEF IInv, TypeOK, Actors
  <2>4. u = t
    BY <1>1, <2>2, <2>3 DEF Wakes, Woken, Blocked
  <2>5. src # Kill
    BY <1>1, <2>2, <2>3, <2>4 DEF Wakes, Woken
  <2>6. CASE src \in waits[u] \cap Queues /\ got' = [got EXCEPT ![src] = got[src] + 1]
    <3>1. got'[src] > got[src]
      BY <2>3, <2>6
    <3> QED
      BY <2>4, <2>6, <3>1
  <2>7. CASE src = Idle /\ Idle \in waits[u] /\ busy = {} /\ callbacks = <<>>
    BY <2>4, <2>7
  <2> QED
    BY <1>1, <2>2, <2>4, <2>5, <2>6, <2>7 DEF Wakes
<1>2. IInv /\ [Next]_vars =>
        [\A t \in Actors : Blocked(t) /\ pos'[t] = "run" =>
            \E s \in waits[t] : \/ s \in Queues /\ got'[s] > got[s]
                                \/ s = Idle /\ busy = {} /\ callbacks = <<>>]_vars
  BY <1>1
<1> QED
  BY <1>2, Invariance, PTL DEF Spec, WakesOnlyWhenReady

\* A killed thread, or one that has returned, stays as it is.
THEOREM KilledStaysDown ==
    ASSUME SingleReader, KillsBlocked
    PROVE  Spec => KilledForGood
<1>1. ASSUME IInv, [Next]_vars
      PROVE  \A t \in Threads : pos[t] \in {"parked", "dead"} => pos'[t] = pos[t]
  <2>1. pos \in [Actors -> States] /\ Threads \subseteq Actors
    BY <1>1 DEF IInv, TypeOK, Actors
  <2>2. CASE Settled
    BY <2>1, <2>2 DEF Settled
  <2>3. ASSUME NEW u \in Threads, NEW src, Wakes(u, src)
        PROVE  \A t \in Threads : pos[t] \in {"parked", "dead"} => pos'[t] = pos[t]
    BY <2>1, <2>3 DEF Wakes, Woken
  <2> QED
    BY <1>1, <2>2, <2>3, EveryStep
       DEF StepKinds, Buffers, Takes, PutsBack, Blocks, Quiet
<1>2. IInv /\ [Next]_vars =>
        [\A t \in Threads : pos[t] \in {"parked", "dead"} => pos'[t] = pos[t]]_vars
  BY <1>1
<1> QED
  BY <1>2, Invariance, PTL DEF Spec, KilledForGood

----------------------------------------------------------------------------
(* Refinement. *)

LEMMA AwaitedUnless ==
    ASSUME NEW q \in Queues, Unawaited(q) PROVE ~Awaited[q]
  BY DEF Awaited, Unawaited, Queues

\* The queues that a step does not concern.
LEMMA SameQueue ==
    ASSUME SameWaiters, NEW q \in Queues, buffer'[q] = buffer[q], got'[q] = got[q]
    PROVE  Chan!Step(q)
  BY DEF SameWaiters, Chan!Step, Chan!Rest, Awaited

LEMMA WakesChannels ==
    ASSUME IInv, NEW t \in Threads, NEW src \in Wakers, Wakes(t, src), NEW q \in Queues
    PROVE  Chan!Step(q)
<1>0. /\ got \in [Queues -> Nat] /\ buffer' = buffer
      /\ waiting' = [m \in Mailboxes |-> IF m \in waits[t] THEN <<>> ELSE waiting[m]]
      /\ listening' = listening \ {t}
  BY DEF IInv, TypeOK, Wakes, Woken
<1>1. CASE q \in waits[t]
  <2>1. q \in Mailboxes => waiting[q] = <<t>>
    BY <1>1, WaitedForIsEmpty
  <2>2. q \in Threads => q = t /\ t \in listening
    BY <1>1, WaitedForIsEmpty
  <2>3. Awaited[q]
    <3>1. <<t>> # <<>>
      OBVIOUS
    <3> QED
      BY <2>1, <2>2, <3>1, Names DEF Awaited, Queues
  <2>4. ~Awaited'[q]
    BY <1>0, <1>1, <2>2, Names DEF Awaited, Queues
  <2>5. got'[q] = got[q] + 1 \/ got'[q] = got[q]
    BY <1>0 DEF Wakes
  <2> QED
    BY <1>0, <2>3, <2>4, <2>5 DEF Chan!Step, Chan!HandOver, Chan!GiveUp
<1>2. CASE q \notin waits[t]
  <2>1. q = t => t \notin listening
    BY <1>2 DEF IInv, Waiters
  <2>2. Awaited'[q] = Awaited[q]
    BY <1>0, <1>2, <2>1, Names DEF Awaited, Queues
  <2>3. got'[q] = got[q]
    BY <1>0, <1>2 DEF Wakes
  <2> QED
    BY <1>0, <2>2, <2>3 DEF Chan!Step, Chan!Rest
<1> QED
  BY <1>1, <1>2

LEMMA QueueStepChannels ==
    ASSUME IInv, NEW u \in Queues, Buffers(u) \/ Takes(u) \/ PutsBack(u), NEW q \in Queues
    PROVE  Chan!Step(q)
<1>0. /\ got \in [Queues -> Nat] /\ sent \in [Queues -> Nat]
      /\ buffer \in [Queues -> Seq(Nat)]
      /\ SameWaiters
  BY DEF IInv, TypeOK, Buffers, Takes, PutsBack
<1>1. CASE q # u
  <2>1. buffer'[q] = buffer[q] /\ got'[q] = got[q]
    BY <1>0, <1>1 DEF Buffers, Takes, PutsBack
  <2> QED
    BY <1>0, <2>1, SameQueue
<1>2. CASE q = u
  <2>1. ~Awaited[q] /\ ~Awaited'[q]
    <3>1. ~Awaited[q]
      BY <1>2, AwaitedUnless DEF Buffers, Takes, PutsBack
    <3> QED
      BY <1>0, <3>1 DEF SameWaiters, Awaited
  <2>2. /\ got[q] <= sent[q] /\ got[q] \in Nat /\ sent[q] \in Nat
        /\ buffer[q] = [i \in 1..(sent[q] - got[q]) |-> got[q] + i]
    BY <1>0 DEF IInv, Buffered
  <2>3. Len(buffer[q]) = sent[q] - got[q]
    BY <2>2
  <2>4. CASE Buffers(q)
    <3>1. /\ buffer'[q] = Append(buffer[q], sent[q] + 1)
          /\ got'[q] = got[q]
      BY <1>0, <2>4 DEF Buffers
    <3>2. got[q] + Len(buffer[q]) + 1 = sent[q] + 1
      BY <2>2, <2>3
    <3> QED
      BY <2>1, <3>1, <3>2 DEF Chan!Step, Chan!Send
  <2>5. CASE Takes(q)
    <3>1. /\ buffer[q] # <<>> /\ buffer'[q] = Tail(buffer[q])
          /\ got'[q] = Head(buffer[q])
      BY <1>0, <2>5 DEF Takes
    <3>2. [i \in 1..(sent[q] - got[q]) |-> got[q] + i] # <<>>
      BY <2>2, <3>1
    <3>3. Head([i \in 1..(sent[q] - got[q]) |-> got[q] + i]) = got[q] + 1
      BY <2>2, <3>2, TakeFirst
    <3>4. Head(buffer[q]) = got[q] + 1
      BY <2>2, <3>3
    <3> QED
      BY <2>1, <3>1, <3>4 DEF Chan!Step, Chan!Take
  <2>6. CASE PutsBack(q)
    <3>1. /\ got[q] > 0 /\ buffer'[q] = <<got[q]>> \o buffer[q]
          /\ got'[q] = got[q] - 1
      BY <1>0, <2>6 DEF PutsBack
    <3> QED
      BY <2>1, <3>1 DEF Chan!Step, Chan!Return
  <2> QED
    BY <1>2, <2>4, <2>5, <2>6
<1> QED
  BY <1>1, <1>2

LEMMA BlocksChannels ==
    ASSUME IInv, NEW c \in Threads, NEW S \in SUBSET SourcesOf(c), Blocks(c, S),
           NEW q \in Queues
    PROVE  Chan!Step(q)
<1>0. /\ UNCHANGED <<buffer, got>>
      /\ waiting' = [m \in Mailboxes |-> IF m \in S THEN <<c>> ELSE waiting[m]]
      /\ listening' = IF c \in S THEN listening \cup {c} ELSE listening
      /\ S \cap Threads \subseteq {c}
  BY DEF Blocks
<1>1. CASE q \in S
  <2>1. buffer[q] = <<>> /\ ~Awaited[q]
    BY <1>1, AwaitedUnless DEF Blocks
  <2>2. Awaited'[q]
    <3>1. <<c>> # <<>>
      OBVIOUS
    <3> QED
      BY <1>0, <1>1, <3>1 DEF Awaited, Queues
  <2> QED
    BY <1>0, <2>1, <2>2 DEF Chan!Step, Chan!Await
<1>2. CASE q \notin S
  <2>1. Awaited'[q] = Awaited[q]
    BY <1>0, <1>2 DEF Awaited, Queues
  <2> QED
    BY <1>0, <2>1 DEF Chan!Step, Chan!Rest
<1> QED
  BY <1>1, <1>2

\* Mailboxes and the threads' own mailboxes implement the abstract channels.
THEOREM QueuesImplementChannels ==
    ASSUME SingleReader, KillsBlocked
    PROVE  Spec => QueuesAreChannels
<1>1. Init => Chan!Init
  <2>1. SUFFICES ASSUME Init PROVE Chan!Init
    OBVIOUS
  <2>2. /\ buffer = [q \in Queues |-> <<>>] /\ got = [q \in Queues |-> 0]
        /\ listening = {} /\ \A m \in Mailboxes : waiting[m] = <<>>
    BY <2>1 DEF Init
  <2>3. Awaited = [q \in Queues |-> FALSE]
    <3>1. SUFFICES ASSUME NEW q \in Queues
                   PROVE  (IF q \in Mailboxes THEN waiting[q] # <<>>
                                              ELSE q \in listening) = FALSE
      BY DEF Awaited
    <3>2. CASE q \in Mailboxes
      BY <2>2, <3>2
    <3>3. CASE q \notin Mailboxes
      BY <2>2, <3>3
    <3> QED
      BY <3>2, <3>3
  <2> QED
    BY <2>2, <2>3 DEF Chan!Init
<1>2. IInv /\ [Next]_vars => [Chan!Next]_(Chan!channelVars)
  <2>1. SUFFICES ASSUME IInv, [Next]_vars, NEW q \in Queues PROVE Chan!Step(q)
    BY DEF Chan!Next
  <2>2. CASE Quiet
    BY <2>2, SameQueue DEF Quiet
  <2> QED
    BY <2>1, <2>2, EveryStep, WakesChannels, QueueStepChannels, BlocksChannels
       DEF StepKinds
<1> QED
  BY <1>1, <1>2, Invariance, PTL DEF Spec, QueuesAreChannels, Chan!Spec

=============================================================================
