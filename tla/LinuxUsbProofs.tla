----------------------------- MODULE LinuxUsbProofs -----------------------------
(****************************************************************************)
(* USB on Linux, for any values of the constants.  Usb.tla: a request is    *)
(* answered at most once, with its own result.  Hotplug.tla: the table of   *)
(* devices follows the port, however often and whenever devices come and    *)
(* go, and the interface in use stays the process's own.                    *)
(****************************************************************************)
EXTENDS Usb, Hotplug, FiniteSetTheorems, SequenceTheorems, TLAPS

----------------------------------------------------------------------------
(* Usb: the inductive invariant *)

Results == [urb : Urbs, status : {"ok", "stall", "error"}]
Answers == [of : Requests, ok : BOOLEAN, fatal : BOOLEAN]

UsbTypeOK ==
    /\ pending \subseteq Urbs /\ IsFiniteSet(pending)
    /\ completed \in Seq(Results)
    /\ owner \in [Urbs -> Requests \cup {NoRequest}]
    /\ callbacks \in [CallbackTokens -> Requests \cup {NoRequest}]
    /\ answers \in [Requests -> Seq(Answers)]
    /\ opened \in BOOLEAN
    /\ errors \in Nat
    /\ leaving \subseteq CallbackTokens

\* A URB is in the kernel once.
OneResult ==
    \A i \in 1..Len(completed) :
        /\ completed[i].urb \notin pending
        /\ \A j \in 1..Len(completed) : completed[i].urb = completed[j].urb => i = j

AnsweredOnce ==
    \A r \in Requests : Len(answers[r]) <= 1 /\ (answers[r] # <<>> => answers[r][1].of = r)

\* What the kernel has is filed under its own token and is still in memory.
Kept ==
    \A u \in InKernel :
        /\ callbacks[u] = owner[u] /\ owner[u] # NoRequest
        /\ u \in allocated
        /\ owner[u] \in Outs => u \in pinned

\* A request is filed once, and under an address only while the kernel has that URB.
Filed ==
    /\ \A s, t \in CallbackTokens :
          callbacks[s] = callbacks[t] /\ callbacks[s] # NoRequest => s = t
    /\ \A t \in CallbackTokens :
          opened /\ callbacks[t] # NoRequest =>
              answers[callbacks[t]] = <<>> /\ (t \in Urbs => t \in InKernel)
    /\ callbacks[Message] # NoRequest => callbacks[Message] \in misfiled

\* After the disconnect the loop has still to call whoever is filed and has no answer.
Left ==
    /\ opened => leaving = {}
    /\ ~opened => InKernel = {}
    /\ \A t \in leaving : callbacks[t] # NoRequest /\ answers[callbacks[t]] = <<>>
    /\ \A t \in CallbackTokens :
          ~opened /\ callbacks[t] # NoRequest /\ answers[callbacks[t]] = <<>> =>
              t \in leaving \/ callbacks[t] \in refused

UsbInv == UsbTypeOK /\ OneResult /\ AnsweredOnce /\ Kept /\ Filed /\ Left

----------------------------------------------------------------------------
(* What a callback and a request find *)

\* The answer of a request that had none is its only one.
LEMMA CalledBack ==
    ASSUME UsbTypeOK, AnsweredOnce, NEW r \in Requests, answers[r] = <<>>,
           NEW a \in Answers, a.of = r, CallBack(r, a)
    PROVE  /\ answers' \in [Requests -> Seq(Answers)]
           /\ answers'[r] # <<>>
           /\ \A q \in Requests : q # r => answers'[q] = answers[q]
           /\ AnsweredOnce'
  <1>1. Append(<<>>, a) \in Seq(Answers) /\ Len(Append(<<>>, a)) = 1
        /\ Append(<<>>, a)[1] = a /\ Append(<<>>, a) # <<>>
    OBVIOUS
  <1>2. answers'[r] = Append(<<>>, a)
    BY DEF CallBack, UsbTypeOK
  <1>3. \A q \in Requests : q # r => answers'[q] = answers[q]
    BY DEF CallBack, UsbTypeOK
  <1>4. answers' \in [Requests -> Seq(Answers)]
    BY <1>1, <1>2, <1>3 DEF CallBack, UsbTypeOK
  <1>5. AnsweredOnce'
    <2>1. Len(answers'[r]) <= 1 /\ answers'[r][1].of = r
      BY <1>1, <1>2
    <2> QED
      BY <1>3, <2>1 DEF AnsweredOnce
  <1> QED
    BY <1>1, <1>2, <1>3, <1>4, <1>5

\* A request that was not made has no answer and no token.
LEMMA NotAsked ==
    ASSUME UsbTypeOK, NEW r \in Requests, ~Asked(r)
    PROVE  /\ answers[r] = <<>> /\ r \notin misfiled \cup refused
           /\ \A t \in CallbackTokens : callbacks[t] # r
           /\ r # NoRequest
  BY UsbParameters DEF UsbTypeOK, Asked, InCallbacks, Requests

LEMMA FailedAnswers == ASSUME NEW r \in Requests PROVE Failed(r) \in Answers /\ Failed(r).of = r
  BY DEF Failed, Answers

\* The kernel's URBs are addresses.
LEMMA KernelUrbs ==
    ASSUME UsbTypeOK
    PROVE  /\ InKernel \subseteq Urbs
           /\ \A i \in 1..Len(completed) : completed[i] \in Results
  <1>1. \A i \in 1..Len(completed) : completed[i] \in Results
    BY DEF UsbTypeOK
  <1>2. \A x \in Results : x.urb \in Urbs
    BY DEF Results
  <1> QED
    BY <1>1, <1>2 DEF UsbTypeOK, InKernel

----------------------------------------------------------------------------
(* The requests *)

LEMMA ReadClosedStep ==
    ASSUME UsbInv, NEW r \in Requests, ~Asked(r), ReadClosed(r)
    PROVE  UsbInv'
  <1>1. /\ answers' \in [Requests -> Seq(Answers)] /\ AnsweredOnce'
        /\ \A q \in Requests : q # r => answers'[q] = answers[q]
    BY CalledBack, NotAsked, FailedAnswers DEF UsbInv, ReadClosed
  <1>2. \A t \in CallbackTokens : callbacks[t] # r
    BY NotAsked DEF UsbInv
  <1>3. ~opened
    BY DEF ReadClosed, getfd
  <1>4. UsbTypeOK'
    BY <1>1 DEF UsbInv, UsbTypeOK, ReadClosed
  <1>5. OneResult' /\ Kept' /\ InKernel' = InKernel
    BY DEF UsbInv, ReadClosed, OneResult, Kept, InKernel
  <1>6. Filed'
    BY <1>3, <1>5 DEF UsbInv, ReadClosed, Filed
  <1>7. \A t \in CallbackTokens : callbacks[t] # NoRequest =>
            answers'[callbacks[t]] = answers[callbacks[t]]
    BY <1>1, <1>2 DEF UsbInv, UsbTypeOK
  <1>8. Left'
    BY <1>3, <1>5, <1>7 DEF UsbInv, UsbTypeOK, ReadClosed, Left
  <1> QED
    BY <1>1, <1>4, <1>5, <1>6, <1>8 DEF UsbInv

LEMMA WriteClosedStep ==
    ASSUME UsbInv, NEW r \in Requests, ~Asked(r), WriteClosed(r)
    PROVE  UsbInv'
  <1>1. ~opened
    BY DEF WriteClosed, checkfd, getfd
  <1>2. UsbTypeOK' /\ OneResult' /\ AnsweredOnce' /\ Kept' /\ InKernel' = InKernel
    BY DEF UsbInv, UsbTypeOK, WriteClosed, OneResult, AnsweredOnce, Kept, InKernel
  <1>3. Filed'
    BY <1>2 DEF UsbInv, WriteClosed, Filed
  <1>4. Left'
    BY <1>1, <1>2 DEF UsbInv, WriteClosed, Left
  <1> QED
    BY <1>2, <1>3, <1>4 DEF UsbInv

LEMMA AcceptedStep ==
    ASSUME UsbInv, NEW r \in Requests, ~Asked(r), NEW u \in Urbs, Allocate(r, u), Accepted(r, u)
    PROVE  UsbInv'
  <1>1. opened
    BY DEF Allocate, checkfd, getfd
  <1>2. /\ answers[r] = <<>> /\ r # NoRequest
        /\ \A t \in CallbackTokens : callbacks[t] # r
    BY NotAsked DEF UsbInv
  <1>3. u \notin InKernel
    BY DEF UsbInv, Kept, Allocate
  <1>4. InKernel' = InKernel \cup {u}
    BY DEF InKernel, Allocate, Accepted
  <1>5. /\ u \in CallbackTokens /\ u # Message
        /\ callbacks' = [callbacks EXCEPT ![u] = r]
    BY UsbParameters DEF CallbackTokens, Accepted
  <1>6. UsbTypeOK'
    <2>1. IsFiniteSet(pending')
      BY FS_AddElement DEF UsbInv, UsbTypeOK, Accepted
    <2> QED
      BY <1>5, <2>1 DEF UsbInv, UsbTypeOK, Allocate, Accepted, CallbackTokens
  <1>7. OneResult'
    BY <1>3 DEF UsbInv, OneResult, InKernel, Allocate, Accepted
  <1>8. AnsweredOnce'
    BY DEF UsbInv, AnsweredOnce, Accepted
  <1>9. Kept'
    <2>1. callbacks'[u] = r /\ owner'[u] = r
      BY <1>5 DEF UsbInv, UsbTypeOK, Accepted
    <2>2. u \in allocated' /\ (r \in Outs => u \in pinned')
      BY DEF Allocate
    <2>3. \A v \in InKernel : callbacks'[v] = callbacks[v] /\ owner'[v] = owner[v]
      BY <1>3, <1>5, KernelUrbs DEF UsbInv, UsbTypeOK, Accepted, CallbackTokens
    <2>4. allocated \subseteq allocated' /\ pinned \subseteq pinned'
      BY DEF Allocate
    <2> QED
      BY <1>2, <1>4, <2>1, <2>2, <2>3, <2>4 DEF UsbInv, Kept
  <1>10. Filed'
    <2>1. \A t \in CallbackTokens : callbacks'[t] = IF t = u THEN r ELSE callbacks[t]
      BY <1>5 DEF UsbInv, UsbTypeOK
    <2>2. answers' = answers /\ misfiled' = misfiled
      BY DEF Accepted
    <2>3. Message \in CallbackTokens
      BY DEF CallbackTokens
    <2> QED
      BY <1>1, <1>2, <1>4, <1>5, <2>1, <2>2, <2>3 DEF UsbInv, Filed
  <1>11. Left'
    BY <1>1 DEF UsbInv, Left, Allocate
  <1> QED
    BY <1>6, <1>7, <1>8, <1>9, <1>10, <1>11 DEF UsbInv

LEMMA RejectedStep ==
    ASSUME UsbInv, NEW r \in Requests, ~Asked(r), NEW u \in Urbs, Allocate(r, u), Rejected(r, u)
    PROVE  UsbInv'
  <1>1. opened
    BY DEF Allocate, checkfd, getfd
  <1>2. /\ answers[r] = <<>> /\ r # NoRequest
        /\ \A t \in CallbackTokens : callbacks[t] # r
    BY NotAsked DEF UsbInv
  <1>3. InKernel' = InKernel /\ owner' = owner
    BY DEF InKernel, Allocate, Rejected
  <1>4. /\ UNCHANGED <<pending, completed, plugged, errors, opened, leaving, refused>>
        /\ allocated \subseteq allocated' /\ pinned \subseteq pinned'
    BY DEF Allocate, Rejected
  <1>5. OneResult'
    BY <1>4 DEF UsbInv, OneResult
  <1>6. CASE CallBack(r, Failed(r)) /\ UNCHANGED <<callbacks, misfiled>>
    <2>1. /\ answers' \in [Requests -> Seq(Answers)] /\ AnsweredOnce'
          /\ \A q \in Requests : q # r => answers'[q] = answers[q]
      BY <1>2, <1>6, CalledBack, FailedAnswers DEF UsbInv
    <2>2. UsbTypeOK'
      BY <1>3, <1>4, <1>6, <2>1 DEF UsbInv, UsbTypeOK
    <2>3. Kept'
      BY <1>3, <1>4, <1>6 DEF UsbInv, Kept
    <2>4. \A t \in CallbackTokens : callbacks[t] # NoRequest =>
              answers'[callbacks[t]] = answers[callbacks[t]]
      BY <1>2, <2>1 DEF UsbInv, UsbTypeOK
    <2>5. Filed'
      BY <1>1, <1>3, <1>4, <1>6, <2>4 DEF UsbInv, Filed
    <2>6. Left'
      BY <1>1, <1>4 DEF UsbInv, Left
    <2> QED
      BY <1>5, <2>1, <2>2, <2>3, <2>5, <2>6 DEF UsbInv
  <1>7. CASE /\ callbacks' = [callbacks EXCEPT ![Message] = r]
             /\ misfiled' = misfiled \cup {r}
             /\ UNCHANGED answers
    <2>1. Message \in CallbackTokens /\ \A v \in Urbs : v # Message /\ v \in CallbackTokens
      BY UsbParameters DEF CallbackTokens
    <2>2. \A t \in CallbackTokens : callbacks'[t] = IF t = Message THEN r ELSE callbacks[t]
      BY <1>7 DEF UsbInv, UsbTypeOK
    <2>3. UsbTypeOK'
      BY <1>3, <1>4, <1>7 DEF UsbInv, UsbTypeOK
    <2>4. AnsweredOnce'
      BY <1>7 DEF UsbInv, AnsweredOnce
    <2>5. Kept'
      <3>1. \A v \in InKernel : callbacks'[v] = callbacks[v]
        BY <2>1, <2>2, KernelUrbs DEF UsbInv
      <3> QED
        BY <1>3, <1>4, <3>1 DEF UsbInv, Kept
    <2>6. Filed'
      BY <1>1, <1>2, <1>3, <1>4, <1>7, <2>1, <2>2 DEF UsbInv, Filed
    <2>7. Left'
      BY <1>1, <1>4 DEF UsbInv, Left
    <2> QED
      BY <1>5, <2>3, <2>4, <2>5, <2>6, <2>7 DEF UsbInv
  <1>8. \A results \in RefusedResults(u) : results[1] # "nil" => results[1] = Message
    <2>1. /\ SubSeq(<<u>> \o posix_error, 2, 4)[1] = "nil"
          /\ SubSeq(posix_error \o <<u>>, 2, 4)[1] = Message
      BY DEF posix_error
    <2> QED
      BY <2>1 DEF RefusedResults
  <1> QED
    BY <1>6, <1>7, <1>8 DEF Rejected

LEMMA SubmitStep ==
    ASSUME UsbInv, NEW r \in Requests, Submit(r)
    PROVE  UsbInv'
  BY ReadClosedStep, WriteClosedStep, AcceptedStep, RejectedStep DEF Submit

----------------------------------------------------------------------------
(* The kernel *)

\* What the kernel moves from one place to another it still has.
LEMMA KernelMoves ==
    ASSUME UsbInv, UsbTypeOK', OneResult', InKernel' = InKernel,
           UNCHANGED <<allocated, pinned, owner, callbacks, errors, opened, leaving, answers,
                       misfiled, refused>>
    PROVE  UsbInv'
  <1>1. AnsweredOnce' /\ Kept' /\ Filed' /\ Left'
    BY DEF UsbInv, AnsweredOnce, Kept, Filed, Left
  <1> QED
    BY <1>1 DEF UsbInv

LEMMA CompleteStep ==
    ASSUME UsbInv, NEW u \in Urbs, Complete(u)
    PROVE  UsbInv'
  <1>1. PICK status \in {"ok", "stall", "error"} :
            completed' = Append(completed, [urb |-> u, status |-> status])
    BY DEF Complete
  <1> DEFINE x == [urb |-> u, status |-> status]
  <1>2. x \in Results /\ x.urb = u
    BY DEF Results
  <1> HIDE DEF x
  <1>3. /\ completed' = Append(completed, x) /\ completed \in Seq(Results)
        /\ u \in pending /\ pending' = pending \ {u}
    BY <1>1 DEF x, Complete, UsbInv, UsbTypeOK
  <1>4. /\ completed' \in Seq(Results)
        /\ Len(completed') = Len(completed) + 1 /\ Len(completed) \in Nat
        /\ \A i \in 1..Len(completed') :
              completed'[i] = IF i = Len(completed) + 1 THEN x ELSE completed[i]
    BY <1>2, <1>3
  <1>5. 1..Len(completed') = 1..Len(completed) \cup {Len(completed) + 1}
    BY <1>4
  <1>6. InKernel' = InKernel
    <2>1. \A i \in 1..Len(completed) : completed'[i] = completed[i]
      BY <1>4
    <2>2. completed'[Len(completed) + 1].urb = u
      BY <1>2, <1>4
    <2>3. {completed'[i].urb : i \in 1..Len(completed')}
             = {completed[i].urb : i \in 1..Len(completed)} \cup {u}
      BY <1>5, <2>1, <2>2
    <2> QED
      BY <1>3, <2>3 DEF InKernel
  <1>7. OneResult'
    <2>1. \A i \in 1..Len(completed) : completed'[i] = completed[i] /\ completed[i].urb # u
      BY <1>3, <1>4 DEF UsbInv, OneResult
    <2> QED
      BY <1>2, <1>3, <1>4, <1>5, <2>1 DEF UsbInv, OneResult
  <1>8. UsbTypeOK'
    <2>1. IsFiniteSet(pending')
      BY <1>3, FS_RemoveElement DEF UsbInv, UsbTypeOK
    <2> QED
      BY <1>3, <1>4, <2>1 DEF UsbInv, UsbTypeOK, Complete
  <1> QED
    BY <1>6, <1>7, <1>8, KernelMoves DEF Complete

\* An order of a finite set has each of its elements once.
LEMMA OrdersAll ==
    ASSUME NEW S, IsFiniteSet(S), NEW f \in Orders(S)
    PROVE  /\ Cardinality(S) \in Nat /\ f \in [1..Cardinality(S) -> S]
           /\ \A i, j \in 1..Cardinality(S) : f[i] = f[j] => i = j
           /\ \A x \in S : \E i \in 1..Cardinality(S) : f[i] = x
  <1> DEFINE n == Cardinality(S)
  <1>1. n \in Nat
    BY FS_CardinalityType
  <1>2. f \in [1..n -> S] /\ \A i, j \in 1..n : f[i] = f[j] => i = j
    BY DEF Orders
  <1>3. IsFiniteSet(1..n) /\ Cardinality(1..n) = n
    BY <1>1, FS_Interval, SMT
  <1>4. f \in Injection(1..n, S)
    BY <1>2 DEF Injection, IsInjective
  <1>5. f \in Surjection(1..n, S)
    BY <1>3, <1>4, FS_Injection
  <1> QED
    BY <1>1, <1>2, <1>5 DEF Surjection

LEMMA UnplugStep ==
    ASSUME UsbInv, Unplug
    PROVE  UsbInv'
  <1> DEFINE n == Cardinality(pending)
  <1>1. PICK order \in Orders(pending) :
            completed' = completed \o [i \in DOMAIN order |-> [urb |-> order[i], status |-> "error"]]
    BY DEF Unplug
  <1>2. IsFiniteSet(pending) /\ pending \subseteq Urbs /\ completed \in Seq(Results)
        /\ pending' = {}
    BY DEF UsbInv, UsbTypeOK, Unplug
  <1>3. /\ n \in Nat /\ order \in [1..n -> pending]
        /\ \A i, j \in 1..n : order[i] = order[j] => i = j
        /\ \A x \in pending : \E i \in 1..n : order[i] = x
    BY <1>2, OrdersAll
  <1> HIDE DEF n
  <1> DEFINE last == [i \in 1..n |-> [urb |-> order[i], status |-> "error"]]
             k == Len(completed)
  <1>4. last \in [1..n -> Results] /\ \A i \in 1..n : last[i].urb = order[i]
    BY <1>2, <1>3 DEF Results
  <1>5. completed' = completed \o last
    BY <1>1, <1>3
  <1> HIDE DEF last
  <1>6. last \in Seq(Results) /\ Len(last) = n
    BY <1>3, <1>4
  <1>7. /\ completed' \in Seq(Results) /\ k \in Nat /\ Len(completed') = k + n
        /\ \A i \in 1..k : completed'[i] = completed[i]
        /\ \A i \in 1..n : completed'[k + i] = last[i]
    BY <1>2, <1>3, <1>5, <1>6
  <1> HIDE DEF k
  <1>8. \A i \in 1..(k + n) : i \in 1..k \/ (i - k \in 1..n /\ i = k + (i - k))
    BY <1>3, <1>7
  <1>9. \A i \in 1..(k + n) :
            \/ i \in 1..k /\ completed'[i].urb = completed[i].urb
            \/ i - k \in 1..n /\ completed'[i].urb = order[i - k]
    BY <1>4, <1>7, <1>8
  <1>10. /\ 1..k \subseteq 1..(k + n)
         /\ \A i \in 1..n : k + i \in 1..(k + n) /\ completed'[k + i].urb = order[i]
    BY <1>3, <1>4, <1>7
  <1>11. InKernel' = InKernel
    <2>1. \A u \in InKernel' : u \in InKernel
      <3> SUFFICES ASSUME NEW i \in 1..(k + n) PROVE completed'[i].urb \in InKernel
        BY <1>2, <1>7 DEF InKernel
      <3>1. CASE i \in 1..k /\ completed'[i].urb = completed[i].urb
        BY <3>1 DEF InKernel, k
      <3>2. CASE i - k \in 1..n /\ completed'[i].urb = order[i - k]
        BY <1>3, <3>2 DEF InKernel
      <3> QED
        BY <1>9, <3>1, <3>2
    <2>2. \A u \in InKernel : u \in InKernel'
      <3> SUFFICES ASSUME NEW u \in InKernel PROVE \E i \in 1..(k + n) : completed'[i].urb = u
        BY <1>7 DEF InKernel
      <3>1. CASE u \in pending
        <4>1. PICK i \in 1..n : order[i] = u
          BY <1>3, <3>1
        <4> QED
          BY <1>10, <4>1
      <3>2. CASE \E i \in 1..k : u = completed[i].urb
        BY <1>7, <1>10, <3>2
      <3> QED
        BY <3>1, <3>2 DEF InKernel, k
    <2> QED
      BY <2>1, <2>2
  <1>12. OneResult'
    <2> SUFFICES ASSUME NEW i \in 1..(k + n), NEW j \in 1..(k + n),
                        completed'[i].urb = completed'[j].urb
                 PROVE  i = j
      BY <1>2, <1>7 DEF OneResult
    <2>1. \A x \in 1..k, y \in 1..n : completed[x].urb # order[y]
      BY <1>3 DEF UsbInv, OneResult, k
    <2>2. \A x, y \in 1..k : completed[x].urb = completed[y].urb => x = y
      BY DEF UsbInv, OneResult, k
    <2>3. i - k = j - k => i = j
      BY <1>3, <1>7
    <2> QED
      BY <1>3, <1>9, <2>1, <2>2, <2>3
  <1>13. UsbTypeOK'
    BY <1>2, <1>7, FS_EmptySet DEF UsbInv, UsbTypeOK, Unplug
  <1> QED
    BY <1>11, <1>12, <1>13, KernelMoves DEF Unplug

----------------------------------------------------------------------------
(* The watcher *)

LEMMA ReapResultStep ==
    ASSUME UsbInv, ReapResult
    PROVE  UsbInv'
  <1> DEFINE u == Head(completed).urb
             status == Head(completed).status
             r == callbacks[u]
             k == Len(completed)
             failures == IF status = "ok" THEN 0 ELSE errors + 1
             a == [of |-> owner[u], ok |-> status = "ok",
                   fatal |-> status = "error" \/ failures > MaxErrors]
  <1>1. /\ opened /\ leaving = {} /\ completed # <<>> /\ completed \in Seq(Results)
        /\ completed' = Tail(completed) /\ pending' = pending
    BY DEF ReapResult, UsbInv, UsbTypeOK
  <1>2. /\ k \in Nat /\ k > 0 /\ Len(completed') = k - 1 /\ completed' \in Seq(Results)
        /\ \A i \in 1..(k - 1) : completed'[i] = completed[i + 1]
        /\ Head(completed) = completed[1] /\ completed[1] \in Results
    BY <1>1
  <1>3. /\ Release(u, status) /\ errors' = failures /\ CallBack(r, a)
        /\ UNCHANGED <<pending, plugged, owner, opened, leaving, misfiled, refused>>
    BY DEF ReapResult
  <1>4. u \in InKernel /\ u \in Urbs /\ 1 \in 1..k
    BY <1>2, KernelUrbs DEF InKernel, UsbInv
  <1>5. u \in CallbackTokens /\ r = owner[u] /\ r # NoRequest /\ r \in Requests /\ answers[r] = <<>>
    BY <1>1, <1>4 DEF UsbInv, UsbTypeOK, Kept, Filed, CallbackTokens
  <1>6. a \in Answers /\ a.of = r
    BY <1>5 DEF Answers
  <1>7. /\ Len(completed') = k - 1
        /\ \A i \in 1..(k - 1) : i + 1 \in 1..k /\ completed'[i].urb = completed[i + 1].urb
    BY <1>2
  <1>8. failures \in Nat
    BY DEF UsbInv, UsbTypeOK
  <1> HIDE DEF u, status, r, k, failures, a
  <1>9. /\ answers' \in [Requests -> Seq(Answers)] /\ AnsweredOnce' /\ answers'[r] # <<>>
        /\ \A q \in Requests : q # r => answers'[q] = answers[q]
    BY <1>3, <1>5, <1>6, CalledBack DEF UsbInv
  <1>10. completed[1].urb = u
    BY <1>2 DEF u
  <1>11. /\ \A i \in 2..k : completed[i].urb # u /\ completed[i].urb \notin pending
         /\ u \notin pending
    BY <1>2, <1>4, <1>10 DEF UsbInv, OneResult, k
  <1>12. InKernel' = InKernel \ {u}
    <2>1. \A i \in 1..(k - 1) : i + 1 \in 2..k
      BY <1>2
    <2>2. \A i \in 2..k : i - 1 \in 1..(k - 1) /\ completed'[i - 1].urb = completed[i].urb
      BY <1>2
    <2>3. \A i \in 1..k : i = 1 \/ i \in 2..k
      BY <1>2
    <2>4. InKernel = pending \cup {completed[i].urb : i \in 1..k}
      BY DEF InKernel, k
    <2>5. InKernel' = pending \cup {completed'[i].urb : i \in 1..(k - 1)}
      BY <1>1, <1>7 DEF InKernel
    <2>6. \A v \in InKernel' : v \in InKernel \ {u}
      BY <1>7, <1>11, <2>1, <2>4, <2>5
    <2>7. \A v \in InKernel \ {u} : v \in InKernel'
      BY <1>10, <2>2, <2>3, <2>4, <2>5
    <2> QED
      BY <2>6, <2>7
  <1>13. OneResult'
    <2> SUFFICES ASSUME NEW i \in 1..(k - 1)
                 PROVE  /\ completed'[i].urb \notin pending
                        /\ \A j \in 1..(k - 1) :
                              completed'[i].urb = completed'[j].urb => i = j
      BY <1>1, <1>7 DEF OneResult
    <2>1. i + 1 \in 1..k /\ completed'[i].urb = completed[i + 1].urb
      BY <1>7
    <2>2. completed'[i].urb \notin pending
      BY <2>1 DEF UsbInv, OneResult, k
    <2>3. ASSUME NEW j \in 1..(k - 1), completed'[i].urb = completed'[j].urb PROVE i = j
      <3>1. j + 1 \in 1..k /\ completed[i + 1].urb = completed[j + 1].urb
        BY <1>7, <2>1, <2>3
      <3>2. i + 1 = j + 1
        BY <2>1, <3>1 DEF UsbInv, OneResult, k
      <3> QED
        BY <1>2, <3>2
    <2> QED
      BY <2>2, <2>3
  <1>14. callbacks' = [callbacks EXCEPT ![u] = NoRequest]
    BY <1>3 DEF Release
  <1>15. \A t \in CallbackTokens : callbacks'[t] = IF t = u THEN NoRequest ELSE callbacks[t]
    BY <1>14 DEF UsbInv, UsbTypeOK
  <1>16. UsbTypeOK'
    BY <1>2, <1>3, <1>8, <1>9, <1>14 DEF UsbInv, UsbTypeOK
  <1>17. Kept'
    <2>1. \A v \in InKernel' : v \in InKernel /\ v # u /\ v \in CallbackTokens
      BY <1>12, KernelUrbs DEF UsbInv, CallbackTokens
    <2>2. \A v : v # u => (v \in allocated => v \in allocated') /\ (v \in pinned => v \in pinned')
      BY <1>3 DEF Release
    <2> QED
      BY <1>3, <1>15, <2>1, <2>2 DEF UsbInv, Kept
  <1>18. \A t \in CallbackTokens : callbacks'[t] # NoRequest =>
             /\ t # u /\ callbacks'[t] = callbacks[t]
             /\ answers'[callbacks'[t]] = answers[callbacks[t]]
    <2> SUFFICES ASSUME NEW t \in CallbackTokens, callbacks'[t] # NoRequest
                 PROVE  t # u /\ callbacks'[t] = callbacks[t] /\ callbacks[t] # r
                        /\ callbacks[t] \in Requests
      BY <1>9
    <2>1. t # u /\ callbacks'[t] = callbacks[t]
      BY <1>15
    <2>2. callbacks[t] # r
      BY <1>5, <2>1 DEF UsbInv, Filed, r
    <2> QED
      BY <2>1, <2>2 DEF UsbInv, UsbTypeOK
  <1>19. Filed'
    <2>1. Message \in CallbackTokens
      BY DEF CallbackTokens
    <2>2. \A s, t \in CallbackTokens :
              callbacks'[s] = callbacks'[t] /\ callbacks'[s] # NoRequest => s = t
      BY <1>18 DEF UsbInv, Filed
    <2>3. \A t \in CallbackTokens : callbacks'[t] # NoRequest =>
              answers'[callbacks'[t]] = <<>> /\ (t \in Urbs => t \in InKernel')
      BY <1>1, <1>12, <1>18 DEF UsbInv, Filed
    <2>4. callbacks'[Message] # NoRequest => callbacks'[Message] \in misfiled'
      BY <1>3, <1>18, <2>1 DEF UsbInv, Filed
    <2> QED
      BY <2>2, <2>3, <2>4 DEF Filed
  <1>20. Left'
    BY <1>1, <1>3 DEF Left
  <1> QED
    BY <1>9, <1>13, <1>16, <1>17, <1>19, <1>20 DEF UsbInv

LEMMA ReapGoneStep ==
    ASSUME UsbInv, ReapGone
    PROVE  UsbInv'
  <1>1. /\ opened /\ ~opened' /\ pending' = {} /\ completed' = <<>>
        /\ leaving' = {t \in CallbackTokens : callbacks[t] # NoRequest}
        /\ UNCHANGED <<owner, callbacks, errors, answers, misfiled, refused>>
    BY DEF ReapGone, ToLeave
  <1>2. InKernel' = {} /\ OneResult'
    BY <1>1 DEF InKernel, OneResult
  <1>3. UsbTypeOK'
    <2>1. pending' \subseteq Urbs /\ IsFiniteSet(pending') /\ completed' \in Seq(Results)
      BY <1>1, FS_EmptySet
    <2>2. opened' \in BOOLEAN /\ leaving' \subseteq CallbackTokens
      BY <1>1 DEF ReapGone
    <2> QED
      BY <1>1, <2>1, <2>2 DEF UsbInv, UsbTypeOK
  <1>4. AnsweredOnce' /\ Kept'
    BY <1>1, <1>2 DEF UsbInv, AnsweredOnce, Kept
  <1>5. Filed'
    BY <1>1 DEF UsbInv, Filed
  <1>6. Left'
    BY <1>1, <1>2 DEF UsbInv, Filed, Left
  <1> QED
    BY <1>2, <1>3, <1>4, <1>5, <1>6 DEF UsbInv

LEMMA LeaveStep ==
    ASSUME UsbInv, NEW t \in CallbackTokens, Leave(t)
    PROVE  UsbInv'
  <1> DEFINE r == callbacks[t]
  <1>1. /\ t \in leaving /\ leaving' = leaving \ {t} /\ CallBack(r, Failed(r))
        /\ UNCHANGED <<allocated, pinned, pending, completed, plugged, owner, callbacks, errors,
                       opened, misfiled, refused>>
    BY DEF Leave
  <1>2. r # NoRequest /\ r \in Requests /\ answers[r] = <<>> /\ ~opened
    BY <1>1 DEF UsbInv, UsbTypeOK, Left
  <1>3. /\ answers' \in [Requests -> Seq(Answers)] /\ AnsweredOnce' /\ answers'[r] # <<>>
        /\ \A q \in Requests : q # r => answers'[q] = answers[q]
    BY <1>1, <1>2, CalledBack, FailedAnswers DEF UsbInv
  <1>4. InKernel' = InKernel /\ OneResult' /\ Kept'
    BY <1>1 DEF UsbInv, InKernel, OneResult, Kept
  <1>5. UsbTypeOK'
    BY <1>1, <1>3 DEF UsbInv, UsbTypeOK
  <1>6. Filed'
    BY <1>1, <1>2, <1>4 DEF UsbInv, Filed
  <1>7. \A s \in CallbackTokens : callbacks[s] # NoRequest /\ s # t =>
            answers'[callbacks[s]] = answers[callbacks[s]]
    BY <1>2, <1>3 DEF UsbInv, UsbTypeOK, Filed
  <1>8. leaving \subseteq CallbackTokens
    BY DEF UsbInv, UsbTypeOK
  <1>9. Left'
    BY <1>1, <1>2, <1>3, <1>4, <1>7, <1>8 DEF UsbInv, Left
  <1> QED
    BY <1>3, <1>4, <1>5, <1>6, <1>9 DEF UsbInv

LEMMA FirstUsbState == UsbInit => UsbInv
  <1> SUFFICES ASSUME UsbInit PROVE UsbInv
    OBVIOUS
  <1>1. UsbTypeOK
    BY UsbParameters, FS_EmptySet DEF UsbInit, UsbTypeOK
  <1>2. InKernel = {} /\ OneResult
    BY DEF UsbInit, InKernel, OneResult
  <1>3. AnsweredOnce /\ Kept /\ Left
    BY <1>2 DEF UsbInit, AnsweredOnce, Kept, Left
  <1>4. Filed
    BY DEF UsbInit, Filed, CallbackTokens
  <1> QED
    BY <1>1, <1>2, <1>3, <1>4 DEF UsbInv

LEMMA UsbStep == UsbInv /\ [UsbNext]_usbVars => UsbInv'
  <1> SUFFICES ASSUME UsbInv, [UsbNext]_usbVars PROVE UsbInv'
    OBVIOUS
  <1>1. ASSUME NEW r \in Requests, Submit(r) PROVE UsbInv'
    BY <1>1, SubmitStep
  <1>2. ASSUME NEW u \in Urbs, Complete(u) PROVE UsbInv'
    BY <1>2, CompleteStep
  <1>3. ASSUME NEW t \in CallbackTokens, Leave(t) PROVE UsbInv'
    BY <1>3, LeaveStep
  <1>4. ASSUME UNCHANGED usbVars PROVE UsbInv'
    <2>1. OneResult' /\ InKernel' = InKernel /\ UsbTypeOK'
      BY <1>4 DEF usbVars, UsbInv, OneResult, InKernel, UsbTypeOK
    <2> QED
      BY <1>4, <2>1, KernelMoves DEF usbVars
  <1> QED
    BY <1>1, <1>2, <1>3, <1>4, UnplugStep, ReapResultStep, ReapGoneStep DEF UsbNext

----------------------------------------------------------------------------

\* The inductive invariant of the transfers.
THEOREM UsbInvariance == UsbSpec => []UsbInv
  <1> QED
    BY FirstUsbState, UsbStep, PTL DEF UsbSpec

\* A callback is called at most once and with its own result, although addresses are used again
\* (usb.lua:161); a request without an answer is in the kernel under its own token, or its turn at
\* the disconnect is to come (usb.lua:183); and the kernel's transfers keep their memory.
THEOREM TransfersAccountedFor == UsbSpec => []AccountedFor
  <1>1. ASSUME UsbInv PROVE AccountedFor
    <2>1. ASSUME NEW r \in Requests, Asked(r), answers[r] = <<>>, r \notin misfiled \cup refused
          PROVE  \E u \in Urbs : callbacks[u] = r /\ (u \in InKernel \/ u \in leaving)
      <3>1. PICK t \in CallbackTokens : callbacks[t] = r /\ r # NoRequest
        BY <2>1 DEF Asked, InCallbacks
      <3>2. t \in Urbs
        BY <1>1, <2>1, <3>1 DEF UsbInv, Filed, CallbackTokens
      <3> QED
        BY <1>1, <2>1, <3>1, <3>2 DEF UsbInv, Filed, Left
    <2> QED
      BY <1>1, <2>1 DEF UsbInv, AnsweredOnce, Kept, AccountedFor
  <1> QED
    BY <1>1, UsbInvariance, PTL

----------------------------------------------------------------------------
(* Hotplug: the inductive invariant of the table *)

ADevice == Nat \ {0}
AJob == [job : {"connect", "sleep and connect", "disconnect"}, of : ADevice]
AnEvent == [action : {"add", "remove"}, of : ADevice]

HotplugTypes ==
    /\ plugs \in Nat /\ plugged_in \in Nat /\ known \in Nat
    /\ uevents \in Seq(AnEvent)
    /\ jobs \in Seq(AJob) /\ told \in Seq(AJob)
    /\ stage \in {"start", "monitor", "enumerated", "loop", "exited"}

Present == IF IsOurs(plugged_in) THEN plugged_in ELSE 0
Looking == stage \in {"enumerated", "loop"}

\* The events to come end with what is at the port; before a first one that adds the device that
\* is there, it may have been found by enumeration.
Events ==
    /\ stage \in {"start", "monitor"} => known = 0
    /\ stage = "start" => uevents = <<>>
    /\ Looking /\ uevents = <<>> => known = Present
    /\ Looking /\ Len(uevents) = 1 /\ uevents[1].action = "add" => known \in {0, Present}
    /\ uevents # <<>> =>
          /\ uevents[Len(uevents)].action = "add" <=> plugged_in # 0
          /\ plugged_in # 0 => uevents[Len(uevents)].of = plugged_in
    /\ \A i \in 1..(Len(uevents) - 1) : uevents[i].action # uevents[i + 1].action

\* The job the agent is at is still the first of its messages.
Begun == opening # "" => told # <<>> /\ jobs # <<>> /\ told[Len(told)] = Head(jobs)

InPairs ==
    /\ \A i \in 1..Len(AllTold) : (AllTold[i].job = "disconnect") = (i % 2 = 0)
    /\ \A i \in 1..Len(AllTold) : i % 2 = 0 => AllTold[i].of = AllTold[i - 1].of
    /\ known = IF Len(AllTold) % 2 = 1 THEN AllTold[Len(AllTold)].of ELSE 0

HotplugInv == HotplugTypes /\ Events /\ Begun /\ InPairs

----------------------------------------------------------------------------
(* Sequences *)

LEMMA ShiftedOver ==
    ASSUME NEW S, NEW s \in Seq(S), NEW t \in Seq(S), t # <<>>
    PROVE  Append(s, Head(t)) \o Tail(t) = s \o t
  <1>1. /\ Head(t) \in S /\ Tail(t) \in Seq(S) /\ <<Head(t)>> \in Seq(S)
        /\ Head(t) = t[1] /\ Len(t) \in Nat /\ Len(t) > 0
    OBVIOUS
  <1>2. t = <<Head(t)>> \o Tail(t)
    <2>1. 1 \in 1..Len(t) /\ Len(t) \in 1..Len(t)
      BY <1>1
    <2>2. SubSeq(t, 1, Len(t)) = <<t[1]>> \o SubSeq(t, 1 + 1, Len(t))
      BY <2>1, SubSeqRecursiveFirst
    <2> QED
      BY <1>1, <2>2, SubSeqFull, TailIsSubSeq
  <1>3. Append(s, Head(t)) = s \o <<Head(t)>>
    BY <1>1, AppendIsConcat
  <1> QED
    BY <1>1, <1>2, <1>3, ConcatAssociative

LEMMA FrontOf ==
    ASSUME NEW S, NEW s \in Seq(S)
    PROVE  /\ SubSeq(s, 1, Len(s)) = s
           /\ \A x \in S : SubSeq(Append(s, x), 1, Len(Append(s, x)) - 1) = s
           /\ s # <<>> => /\ SubSeq(s, 1, Len(s) - 1) \in Seq(S)
                          /\ s = Append(SubSeq(s, 1, Len(s) - 1), s[Len(s)])
  <1>1. SubSeq(s, 1, Len(s)) = s
    BY SubSeqFull
  <1>2. ASSUME NEW x \in S PROVE SubSeq(Append(s, x), 1, Len(Append(s, x)) - 1) = s
    <2> DEFINE t == Append(s, x)
               f == SubSeq(t, 1, Len(s))
    <2>1. /\ t \in Seq(S) /\ Len(t) - 1 = Len(s) /\ Len(s) \in Nat
          /\ \A i \in 1..Len(s) : t[i] = s[i] /\ s[i] \in S
      BY AppendProperties, LenProperties, ElementOfSeq
    <2> HIDE DEF t
    <2>2. \A i \in 1..Len(s) : t[i] \in S
      BY <2>1
    <2>3. /\ f \in Seq(S) /\ Len(f) = IF 1 <= Len(s) THEN Len(s) - 1 + 1 ELSE 0
          /\ \A i \in 1..(Len(s) - 1 + 1) : f[i] = t[1 + i - 1]
      BY <2>1, <2>2, SubSeqProperties
    <2> HIDE DEF f
    <2>4. Len(f) = Len(s) /\ \A i \in 1..Len(f) : f[i] = s[i]
      BY <2>1, <2>3
    <2>5. f = s
      BY <2>3, <2>4, SeqEqual
    <2> QED
      BY <2>1, <2>5 DEF f, t
  <1>3. ASSUME s # <<>>
        PROVE  /\ SubSeq(s, 1, Len(s) - 1) \in Seq(S)
               /\ s = Append(SubSeq(s, 1, Len(s) - 1), s[Len(s)])
    <2>1. Len(s) \in Nat /\ Len(s) > 0
      BY <1>3, EmptySeq
    <2>2. 1 \in 1..Len(s) /\ Len(s) \in 1..Len(s) /\ s[Len(s)] \in S
      BY <2>1, ElementOfSeq
    <2>3. SubSeq(s, 1, Len(s)) = SubSeq(s, 1, Len(s) - 1) \o <<s[Len(s)]>>
      BY <2>2, SubSeqRecursiveSecond
    <2>4. \A i \in 1..(Len(s) - 1) : s[i] \in S
      BY <2>1, ElementOfSeq
    <2>5. SubSeq(s, 1, Len(s) - 1) \in Seq(S)
      BY <2>1, <2>4, SubSeqProperties
    <2> QED
      BY <1>1, <2>2, <2>3, <2>5, AppendIsConcat
  <1> QED
    BY <1>1, <1>2, <1>3

----------------------------------------------------------------------------
(* The messages of the agent *)

LEMMA ToldType ==
    ASSUME HotplugTypes, Begun
    PROVE  /\ AllTold \in Seq(AJob) /\ Len(AllTold) \in Nat
           /\ \A i \in 1..Len(AllTold) : AllTold[i] \in AJob
           /\ opening = "" => AllTold = told \o jobs
  <1> DEFINE front == SubSeq(told, 1, IF opening = "" THEN Len(told) ELSE Len(told) - 1)
  <1>1. front \in Seq(AJob) /\ (opening = "" => front = told)
    BY FrontOf DEF HotplugTypes, Begun
  <1>2. AllTold = front \o jobs
    BY DEF AllTold
  <1> HIDE DEF front
  <1>3. AllTold \in Seq(AJob)
    BY <1>1, <1>2, ConcatProperties DEF HotplugTypes
  <1>4. Len(AllTold) \in Nat /\ \A i \in 1..Len(AllTold) : AllTold[i] \in AJob
    BY <1>3, LenProperties, ElementOfSeq
  <1> QED
    BY <1>1, <1>2, <1>3, <1>4

\* What the agent does leaves the sequence of calls as it was.
LEMMA AgentKeeps ==
    ASSUME HotplugInv, known' = known, AllTold' = AllTold
    PROVE  InPairs'
  BY DEF HotplugInv, InPairs

\* A new message continues the pairs.
LEMMA NewJob ==
    ASSUME HotplugInv, NEW x \in AJob, jobs' = Append(jobs, x), UNCHANGED <<told, opening>>,
           \/ known = 0 /\ x.job # "disconnect" /\ known' = x.of
           \/ known # 0 /\ x.job = "disconnect" /\ x.of = known /\ known' = 0
    PROVE  jobs' \in Seq(AJob) /\ Begun' /\ InPairs'
  <1> DEFINE front == SubSeq(told, 1, IF opening = "" THEN Len(told) ELSE Len(told) - 1)
             n == Len(AllTold)
  <1>1. jobs \in Seq(AJob) /\ told \in Seq(AJob)
    BY DEF HotplugInv, HotplugTypes
  <1>2. jobs' \in Seq(AJob) /\ Begun'
    <2>1. jobs' \in Seq(AJob) /\ jobs' # <<>> /\ (jobs # <<>> => Head(jobs') = Head(jobs))
      BY <1>1, AppendProperties, HeadTailAppend
    <2> QED
      BY <2>1 DEF HotplugInv, Begun
  <1>3. front \in Seq(AJob)
    BY <1>1, FrontOf DEF HotplugInv, Begun
  <1>4. AllTold = front \o jobs /\ AllTold' = front \o Append(jobs, x)
    BY DEF AllTold
  <1> HIDE DEF front
  <1>5. n \in Nat /\ AllTold \in Seq(AJob) /\ \A i \in 1..n : AllTold[i] \in AJob
    BY ToldType DEF HotplugInv
  <1>6. /\ Len(AllTold') = n + 1 /\ AllTold'[n + 1] = x
        /\ \A i \in 1..n : AllTold'[i] = AllTold[i]
    BY <1>1, <1>3, <1>4
  <1> HIDE DEF n
  <1>7. /\ \A i \in 1..n : (AllTold[i].job = "disconnect") = (i % 2 = 0)
        /\ \A i \in 1..n : i % 2 = 0 => AllTold[i].of = AllTold[i - 1].of
        /\ known = IF n % 2 = 1 THEN AllTold[n].of ELSE 0
    BY DEF HotplugInv, InPairs, n
  <1>8. n % 2 = 1 => n \in 1..n /\ AllTold[n].of # 0
    <2>1. n % 2 = 1 => n \in 1..n
      BY <1>5, SMT
    <2>2. \A j \in AJob : j.of # 0
      BY DEF AJob, ADevice
    <2> QED
      BY <1>5, <2>1, <2>2
  <1>9. (known = 0) = ((n + 1) % 2 = 1) /\ ((n + 1) % 2 = 0 <=> n % 2 = 1)
    <2>1. (n % 2 = 1 <=> (n + 1) % 2 = 0) /\ (n % 2 # 1 <=> (n + 1) % 2 = 1)
      BY <1>5, SMT
    <2> QED
      BY <1>7, <1>8, <2>1
  <1>10. \A i \in 1..(n + 1) : i \in 1..n \/ i = n + 1
    BY <1>5
  <1>11. \A i \in 1..(n + 1) : (AllTold'[i].job = "disconnect") = (i % 2 = 0)
    <2>1. (x.job = "disconnect") = ((n + 1) % 2 = 0)
      BY <1>5, <1>9, SMT
    <2> QED
      BY <1>6, <1>7, <1>10, <2>1
  <1>12. \A i \in 1..(n + 1) : i % 2 = 0 => AllTold'[i].of = AllTold'[i - 1].of
    <2>1. ASSUME NEW i \in 1..n, i % 2 = 0 PROVE AllTold'[i].of = AllTold'[i - 1].of
      <3>1. i - 1 \in 1..n
        BY <1>5, <2>1, SMT
      <3> QED
        BY <1>6, <1>7, <2>1, <3>1
    <2>2. ASSUME (n + 1) % 2 = 0 PROVE AllTold'[n + 1].of = AllTold'[(n + 1) - 1].of
      <3>1. n % 2 = 1 /\ known = AllTold[n].of /\ known # 0
        BY <1>7, <1>8, <1>9, <2>2
      <3>2. (n + 1) - 1 = n /\ AllTold'[n] = AllTold[n]
        BY <1>5, <1>6, <1>8, <3>1
      <3> QED
        BY <1>6, <3>1, <3>2
    <2> QED
      BY <1>10, <2>1, <2>2
  <1>13. known' = IF (n + 1) % 2 = 1 THEN AllTold'[n + 1].of ELSE 0
    BY <1>6, <1>9
  <1>14. InPairs'
    BY <1>6, <1>11, <1>12, <1>13 DEF InPairs
  <1> QED
    BY <1>2, <1>14

\* The port, the events and the table are as they were, and so is the sequence of calls.
LEMMA Quiet ==
    ASSUME HotplugInv, UNCHANGED <<plugs, plugged_in, ours, uevents, known>>,
           stage' = stage \/ (stage = "loop" /\ stage' = "exited"),
           jobs' \in Seq(AJob), told' \in Seq(AJob), Begun', AllTold' = AllTold
    PROVE  HotplugInv'
  <1>1. HotplugTypes'
    BY DEF HotplugInv, HotplugTypes
  <1>2. Present' = Present
    BY DEF Present, IsOurs
  <1>3. Events'
    BY <1>2 DEF HotplugInv, Events, Looking
  <1>4. InPairs'
    BY AgentKeeps
  <1> QED
    BY <1>1, <1>3, <1>4 DEF HotplugInv

----------------------------------------------------------------------------
(* The agent *)

LEMMA Gives ==
    ASSUME HotplugInv, stage = "loop", GiveUp, Agent
    PROVE  HotplugInv'
  <1>1. /\ UNCHANGED <<plugs, plugged_in, ours, uevents, known, jobs, told, opening>>
        /\ stage' = "exited"
    BY DEF GiveUp, Agent, kernelVars, agentVars
  <1>2. jobs' \in Seq(AJob) /\ told' \in Seq(AJob) /\ Begun' /\ AllTold' = AllTold
    BY <1>1 DEF HotplugInv, HotplugTypes, Begun, AllTold
  <1> QED
    BY <1>1, <1>2, Quiet

\* From one call of the opening to the next.
LEMMA GoesOn ==
    ASSUME HotplugInv, opening # "", NEW s, s # "", Go(s), Agent,
           UNCHANGED <<plugs, plugged_in, ours>>
    PROVE  HotplugInv'
  <1>1. UNCHANGED <<uevents, known, jobs, told, stage>> /\ opening' = s
    BY DEF Go, Agent
  <1>2. jobs' \in Seq(AJob) /\ told' \in Seq(AJob) /\ Begun' /\ AllTold' = AllTold
    BY <1>1 DEF HotplugInv, HotplugTypes, Begun, AllTold
  <1> QED
    BY <1>1, <1>2, Quiet

LEMMA BeginStep ==
    ASSUME HotplugInv, Begin
    PROVE  HotplugInv'
  <1> DEFINE h == Head(jobs)
  <1>1. /\ opening = "" /\ jobs # <<>>
        /\ told' = Append(told, [job |-> h.job, of |-> h.of])
        /\ UNCHANGED <<plugs, plugged_in, ours, uevents, known, stage>>
    BY DEF Begin, AgentAt, Device, Agent, kernelVars
  <1>2. jobs \in Seq(AJob) /\ told \in Seq(AJob) /\ h \in AJob /\ Tail(jobs) \in Seq(AJob)
    BY <1>1, HeadTailProperties DEF HotplugInv, HotplugTypes
  <1>3. [job |-> h.job, of |-> h.of] = h
    BY <1>2 DEF AJob
  <1> HIDE DEF h
  <1>4. /\ told' = Append(told, h) /\ told' \in Seq(AJob) /\ told' # <<>>
        /\ told'[Len(told')] = h
    <2>1. told' = Append(told, h)
      BY <1>1, <1>3
    <2>2. /\ Append(told, h) \in Seq(AJob) /\ Append(told, h) # <<>>
          /\ Len(Append(told, h)) = Len(told) + 1 /\ Append(told, h)[Len(told) + 1] = h
      BY <1>2, AppendProperties
    <2> QED
      BY <2>1, <2>2
  <1>5. AllTold = told \o jobs
    BY <1>1, ToldType DEF HotplugInv
  <1>6. CASE h.job = "disconnect"
    <2>1. jobs' = Tail(jobs) /\ opening' = ""
      BY <1>1, <1>6 DEF Begin, h
    <2>2. AllTold' = told' \o jobs'
      BY <1>4, <2>1, FrontOf DEF AllTold
    <2>3. AllTold' = AllTold
      BY <1>1, <1>2, <1>4, <1>5, <2>1, <2>2, ShiftedOver DEF h
    <2>4. Begun'
      BY <2>1 DEF Begun
    <2> QED
      BY <1>1, <1>2, <1>4, <2>1, <2>3, <2>4, Quiet
  <1>7. CASE h.job # "disconnect"
    <2>1. jobs' = jobs /\ opening' = "open"
      BY <1>7 DEF Begin, h
    <2>2. AllTold' = SubSeq(told', 1, Len(told') - 1) \o jobs
      BY <2>1 DEF AllTold
    <2>3. SubSeq(told', 1, Len(told') - 1) = told
      BY <1>2, <1>4, FrontOf
    <2>4. Begun'
      BY <1>1, <1>4, <2>1 DEF Begun, h
    <2> QED
      BY <1>1, <1>2, <1>4, <1>5, <2>1, <2>2, <2>3, <2>4, Quiet
  <1> QED
    BY <1>6, <1>7

LEMMA OpeningSteps ==
    ASSUME HotplugInv,
           OpenDevice \/ ResetConfiguration \/ set_configuration \/ SetAgain
              \/ \E i \in AllInterfaces : disconnect_kernel(i)
    PROVE  HotplugInv'
  <1>1. ASSUME OpenDevice PROVE HotplugInv'
    BY <1>1, GoesOn, Gives DEF OpenDevice, AgentAt, kernelVars
  <1>2. ASSUME ResetConfiguration PROVE HotplugInv'
    BY <1>2, GoesOn DEF ResetConfiguration, AgentAt, kernelVars, _set_configuration
  <1>3. ASSUME set_configuration PROVE HotplugInv'
    <2>1. stage = "loop" /\ opening # "" /\ Agent
      BY <1>3 DEF set_configuration, AgentAt
    <2>2. \/ GiveUp
          \/ (Go("disconnect") \/ Go("claim")) /\ UNCHANGED <<plugs, plugged_in, ours>>
      BY <1>3 DEF set_configuration, kernelVars, _set_configuration
    <2> QED
      BY <2>1, <2>2, GoesOn, Gives
  <1>4. ASSUME SetAgain PROVE HotplugInv'
    BY <1>4, GoesOn, Gives DEF SetAgain, AgentAt, _set_configuration
  <1>5. ASSUME NEW i \in AllInterfaces, disconnect_kernel(i) PROVE HotplugInv'
    BY <1>5, GoesOn DEF disconnect_kernel, AgentAt
  <1> QED
    BY <1>1, <1>2, <1>3, <1>4, <1>5

LEMMA ClaimStep ==
    ASSUME HotplugInv, claim_interface
    PROVE  HotplugInv'
  <1>1. stage = "loop" /\ opening = "claim" /\ jobs # <<>> /\ Agent
    BY DEF claim_interface, AgentAt
  <1>2. CASE GiveUp
    BY <1>1, <1>2, Gives
  <1>3. CASE /\ opening' = "" /\ jobs' = Tail(jobs)
             /\ UNCHANGED <<plugged_in, plugs, ours, stage, told>>
    <2> DEFINE front == SubSeq(told, 1, Len(told) - 1)
    <2>1. /\ jobs \in Seq(AJob) /\ told \in Seq(AJob)
          /\ told # <<>> /\ told[Len(told)] = Head(jobs)
      BY <1>1 DEF HotplugInv, HotplugTypes, Begun
    <2>2. front \in Seq(AJob) /\ told = Append(front, Head(jobs))
      BY <2>1, FrontOf
    <2>3. AllTold = front \o jobs
      BY <1>1 DEF AllTold
    <2>4. AllTold' = told \o Tail(jobs)
      BY <1>3, <2>1, FrontOf DEF AllTold
    <2> HIDE DEF front
    <2>5. AllTold' = AllTold
      BY <1>1, <2>1, <2>2, <2>3, <2>4, ShiftedOver
    <2>6. jobs' \in Seq(AJob) /\ told' \in Seq(AJob) /\ Begun'
      BY <1>1, <1>3, <2>1, HeadTailProperties DEF Begun
    <2> QED
      BY <1>1, <1>3, <2>5, <2>6, Quiet DEF Agent
  <1> QED
    BY <1>2, <1>3 DEF claim_interface

----------------------------------------------------------------------------
(* The port and its events *)

\* A new event is the opposite of the last one.
LEMMA EventStep ==
    ASSUME HotplugInv, NEW x \in AnEvent, stage # "exited",
           uevents' = IF Monitored THEN Append(uevents, x) ELSE uevents,
           UNCHANGED <<stage, known>>,
           \/ plugged_in = 0 /\ plugged_in' = x.of /\ x.action = "add"
           \/ plugged_in # 0 /\ plugged_in' = 0 /\ x.action = "remove"
    PROVE  uevents' \in Seq(AnEvent) /\ Events'
  <1> DEFINE n == Len(uevents)
  <1>1. uevents \in Seq(AnEvent) /\ n \in Nat /\ x.of # 0
    BY DEF HotplugInv, HotplugTypes, AnEvent, ADevice
  <1>2. CASE stage = "start"
    <2>1. uevents' = uevents /\ uevents = <<>> /\ known = 0
      BY <1>2 DEF Monitored, HotplugInv, Events
    <2> QED
      BY <1>1, <1>2, <2>1 DEF Events, Looking
  <1>3. CASE stage # "start"
    <2>1. uevents' = Append(uevents, x)
      BY <1>3 DEF Monitored, HotplugInv, HotplugTypes
    <2>2. /\ uevents' \in Seq(AnEvent) /\ uevents' # <<>> /\ Len(uevents') = n + 1
          /\ uevents'[n + 1] = x /\ \A i \in 1..n : uevents'[i] = uevents[i]
      BY <1>1, <2>1, AppendProperties
    <2>3. uevents = <<>> <=> n = 0
      BY <1>1, EmptySeq
    <2>4. n # 0 => uevents[n].action # x.action
      <3>1. n # 0 => (uevents[n].action = "add" <=> plugged_in # 0)
        BY <2>3 DEF HotplugInv, Events
      <3> QED
        BY <3>1
    <2> HIDE DEF n
    <2>5. \A i \in 1..n : uevents'[i].action # uevents'[i + 1].action
      <3> SUFFICES ASSUME NEW i \in 1..n PROVE uevents'[i].action # uevents'[i + 1].action
        OBVIOUS
      <3>1. CASE i = n
        BY <1>1, <2>2, <2>4, <3>1
      <3>2. CASE i # n
        <4>1. i \in 1..(n - 1) /\ i + 1 \in 1..n
          BY <1>1, <3>2
        <4>2. uevents[i].action # uevents[i + 1].action
          BY <4>1 DEF HotplugInv, Events, n
        <4> QED
          BY <2>2, <4>1, <4>2
      <3> QED
        BY <3>1, <3>2
    <2>6. Looking' /\ Len(uevents') = 1 /\ uevents'[1].action = "add" => known' = 0
      <3>1. Looking' /\ Len(uevents') = 1 /\ uevents'[1].action = "add" =>
                Looking /\ uevents = <<>> /\ plugged_in = 0
        BY <1>1, <2>2, <2>3 DEF Looking
      <3>2. plugged_in = 0 => Present = 0
        BY DEF Present, IsOurs
      <3> QED
        BY <3>1, <3>2 DEF HotplugInv, Events
    <2>7. (stage' \in {"start", "monitor"} => known' = 0) /\ stage' # "start"
      BY <1>3 DEF HotplugInv, Events
    <2>8. /\ uevents'[Len(uevents')].action = "add" <=> plugged_in' # 0
          /\ plugged_in' # 0 => uevents'[Len(uevents')].of = plugged_in'
      BY <1>1, <2>2
    <2>9. (Len(uevents') - 1) = n
      BY <1>1, <2>2
    <2> QED
      BY <2>2, <2>5, <2>6, <2>7, <2>8, <2>9 DEF Events
  <1> QED
    BY <1>2, <1>3

LEMMA PortStep ==
    ASSUME HotplugInv, Plug \/ PullOut
    PROVE  HotplugInv'
  <1>1. /\ UNCHANGED <<jobs, told, opening, stage, known>> /\ stage # "exited"
        /\ plugs \in Nat /\ plugged_in \in Nat
    BY DEF Plug, PullOut, agentVars, Running, HotplugInv, HotplugTypes
  <1>2. uevents' \in Seq(AnEvent) /\ Events' /\ plugs' \in Nat /\ plugged_in' \in Nat
    <2>1. CASE Plug
      <3>1. /\ uevents' = IF Monitored THEN Append(uevents, [action |-> "add", of |-> plugs + 1])
                          ELSE uevents
            /\ plugged_in = 0 /\ plugged_in' = plugs + 1 /\ plugs' = plugs + 1
        BY <2>1 DEF Plug, Event
      <3>2. plugs + 1 \in ADevice
        BY <1>1 DEF ADevice
      <3>3. [action |-> "add", of |-> plugs + 1] \in AnEvent
        BY <3>2 DEF AnEvent
      <3> QED
        BY <1>1, <3>1, <3>3, EventStep
    <2>2. CASE PullOut
      <3>1. /\ uevents' = IF Monitored THEN Append(uevents, [action |-> "remove", of |-> plugged_in])
                          ELSE uevents
            /\ plugged_in # 0 /\ plugged_in' = 0 /\ plugs' = plugs
        BY <2>2 DEF PullOut, Event
      <3>2. [action |-> "remove", of |-> plugged_in] \in AnEvent
        BY <1>1, <3>1 DEF AnEvent, ADevice
      <3> QED
        BY <1>1, <3>1, <3>2, EventStep
    <2> QED
      BY <2>1, <2>2
  <1>3. HotplugTypes'
    BY <1>1, <1>2 DEF HotplugInv, HotplugTypes
  <1>4. Begun' /\ AllTold' = AllTold
    BY <1>1 DEF HotplugInv, Begun, AllTold
  <1>5. InPairs'
    BY <1>1, <1>4, AgentKeeps
  <1> QED
    BY <1>2, <1>3, <1>4, <1>5 DEF HotplugInv

----------------------------------------------------------------------------
(* usb.watch *)

LEMMA EnumerateStep ==
    ASSUME HotplugInv, Enumerate
    PROVE  HotplugInv'
  <1>1. /\ stage = "monitor" /\ stage' = "enumerated" /\ known = 0
        /\ UNCHANGED <<plugs, plugged_in, ours, uevents, told, opening>>
    BY DEF Enumerate, kernelVars, agentVars, HotplugInv, Events
  <1>2. IsOurs(plugged_in)' = IsOurs(plugged_in) /\ Present' = Present
    BY <1>1 DEF Present, IsOurs
  <1>3. known' = Present /\ known' \in Nat
    BY <1>1 DEF Enumerate, Present, HotplugInv, HotplugTypes
  <1>4. jobs' \in Seq(AJob) /\ Begun' /\ InPairs'
    <2>1. CASE IsOurs(plugged_in)
      <3>1. /\ jobs' = Append(jobs, [job |-> "connect", of |-> plugged_in])
            /\ known' = plugged_in
        BY <2>1 DEF Enumerate, Job
      <3>2. [job |-> "connect", of |-> plugged_in] \in AJob
        BY <2>1 DEF AJob, ADevice, IsOurs, HotplugInv, HotplugTypes
      <3> QED
        BY <1>1, <3>1, <3>2, NewJob
    <2>2. CASE ~IsOurs(plugged_in)
      <3>1. jobs' = jobs /\ known' = known
        BY <2>2 DEF Enumerate
      <3>2. AllTold' = AllTold
        BY <1>1, <3>1 DEF AllTold
      <3> QED
        BY <1>1, <3>1, <3>2, AgentKeeps DEF HotplugInv, HotplugTypes, Begun
    <2> QED
      BY <2>1, <2>2
  <1>5. HotplugTypes'
    BY <1>1, <1>3, <1>4 DEF HotplugInv, HotplugTypes
  <1>6. Events'
    BY <1>1, <1>2, <1>3 DEF HotplugInv, Events, Looking
  <1> QED
    BY <1>4, <1>5, <1>6 DEF HotplugInv

LEMMA StageStep ==
    ASSUME HotplugInv, MakeMonitor \/ Enable
    PROVE  HotplugInv'
  <1>1. UNCHANGED <<plugs, plugged_in, ours, uevents, known, jobs, told, opening>>
    BY DEF MakeMonitor, Enable, kernelVars, agentVars
  <1>2. HotplugTypes'
    BY <1>1 DEF MakeMonitor, Enable, HotplugInv, HotplugTypes
  <1>3. Begun' /\ AllTold' = AllTold
    BY <1>1 DEF HotplugInv, Begun, AllTold
  <1>4. InPairs'
    BY <1>1, <1>3, AgentKeeps
  <1>5. Present' = Present
    BY <1>1 DEF Present, IsOurs
  <1>6. Events'
    BY <1>1, <1>5 DEF MakeMonitor, Enable, HotplugInv, Events, Looking
  <1> QED
    BY <1>2, <1>3, <1>4, <1>6 DEF HotplugInv

LEMMA ReadDevStep ==
    ASSUME HotplugInv, ReadDev
    PROVE  HotplugInv'
  <1> DEFINE n == Len(uevents)
             e == Head(uevents)
  <1>1. /\ stage = "loop" /\ uevents # <<>> /\ uevents' = Tail(uevents)
        /\ IF e.action = "add" THEN adddev(e.of) ELSE remdev
        /\ UNCHANGED <<plugs, plugged_in, ours, told, opening, stage>>
    BY DEF ReadDev, kernelVars, agentVars
  <1>2. /\ uevents \in Seq(AnEvent) /\ n \in Nat /\ n > 0 /\ e = uevents[1] /\ e \in AnEvent
        /\ known \in Nat
    BY <1>1, EmptySeq, ElementOfSeq DEF HotplugInv, HotplugTypes
  <1>3. /\ uevents' \in Seq(AnEvent) /\ Len(uevents') = n - 1
        /\ \A i \in 1..(n - 1) : uevents'[i] = uevents[i + 1]
    BY <1>1, <1>2, HeadTailProperties
  <1>4. uevents' = <<>> <=> n = 1
    BY <1>2, <1>3, EmptySeq
  <1>5. e.of \in ADevice /\ e.of # 0 /\ e.of \in Nat
    BY <1>2 DEF AnEvent, ADevice
  <1> HIDE DEF n, e
  <1>6. Present' = Present /\ (Present # 0 => IsOurs(plugged_in) /\ Present = plugged_in)
    BY <1>1 DEF Present, IsOurs
  <1>7. /\ (uevents[n].action = "add" <=> plugged_in # 0)
        /\ plugged_in # 0 => uevents[n].of = plugged_in
        /\ \A i \in 1..(n - 1) : uevents[i].action # uevents[i + 1].action
        /\ n = 1 /\ e.action = "add" => known \in {0, Present}
    BY <1>1, <1>2 DEF HotplugInv, Events, Looking, n
  <1>8. /\ jobs' \in Seq(AJob) /\ Begun' /\ InPairs' /\ known' \in Nat
        /\ e.action # "add" => known' = 0
        /\ e.action = "add" => known' = IF known # 0 \/ ~IsOurs(plugged_in) THEN known ELSE e.of
    <2>1. CASE UNCHANGED <<known, jobs>>
      <3>1. AllTold' = AllTold
        BY <1>1, <2>1 DEF AllTold
      <3>2. jobs' \in Seq(AJob) /\ Begun' /\ InPairs' /\ known' \in Nat
        BY <1>1, <1>2, <2>1, <3>1, AgentKeeps DEF HotplugInv, HotplugTypes, Begun
      <3>3. e.action # "add" => known' = 0
        BY <1>1, <2>1 DEF remdev
      <3>4. e.action = "add" => known' = IF known # 0 \/ ~IsOurs(plugged_in) THEN known ELSE e.of
        BY <1>1, <2>1 DEF adddev
      <3> QED
        BY <3>2, <3>3, <3>4
    <2>2. CASE e.action = "add" /\ known = 0 /\ IsOurs(plugged_in)
      <3>1. known' = e.of /\ jobs' = Append(jobs, [job |-> "sleep and connect", of |-> e.of])
        BY <1>1, <2>2 DEF adddev, Job
      <3>2. [job |-> "sleep and connect", of |-> e.of] \in AJob
        BY <1>5 DEF AJob
      <3> QED
        BY <1>1, <1>5, <2>2, <3>1, <3>2, NewJob
    <2>3. CASE e.action # "add" /\ known # 0
      <3>1. known' = 0 /\ jobs' = Append(jobs, [job |-> "disconnect", of |-> known])
        BY <1>1, <2>3 DEF remdev, Job
      <3>2. [job |-> "disconnect", of |-> known] \in AJob
        BY <1>2, <2>3 DEF AJob, ADevice
      <3> QED
        BY <1>1, <2>3, <3>1, <3>2, NewJob
    <2> QED
      BY <1>1, <2>1, <2>2, <2>3 DEF adddev, remdev
  <1>9. HotplugTypes'
    BY <1>1, <1>3, <1>8 DEF HotplugInv, HotplugTypes
  <1>10. n = 1 => known' = Present
    <2>1. n = 1 /\ e.action = "add" => plugged_in # 0 /\ e.of = plugged_in
      BY <1>2, <1>7 DEF e, n
    <2>2. n = 1 /\ e.action # "add" => plugged_in = 0
      BY <1>2, <1>7 DEF e, n
    <2> QED
      BY <1>6, <1>7, <1>8, <2>1, <2>2 DEF Present, IsOurs
  <1>11. n = 2 /\ uevents'[1].action = "add" => known' = 0
    <2>1. n = 2 => uevents'[1] = uevents[2] /\ uevents[1].action # uevents[2].action
      BY <1>3, <1>7
    <2> QED
      BY <1>2, <1>8, <2>1
  <1>12. n > 1 => uevents'[n - 1] = uevents[n]
    BY <1>2, <1>3
  <1>13. \A i \in 1..(n - 2) : uevents'[i].action # uevents'[i + 1].action
    <2> SUFFICES ASSUME NEW i \in 1..(n - 2) PROVE uevents'[i].action # uevents'[i + 1].action
      OBVIOUS
    <2>1. i \in 1..(n - 1) /\ i + 1 \in 1..(n - 1)
      BY <1>2
    <2> QED
      BY <1>3, <1>7, <2>1
  <1>14. Events'
    <2>1. Len(uevents') = n - 1 /\ (Len(uevents') - 1) = n - 2 /\ (Len(uevents') = 1 => n = 2)
          /\ (uevents' # <<>> => n > 1)
      BY <1>2, <1>3, <1>4
    <2>2. stage' = "loop"
      BY <1>1
    <2> QED
      BY <1>1, <1>4, <1>6, <1>7, <1>10, <1>11, <1>12, <1>13, <2>1, <2>2 DEF Events
  <1> QED
    BY <1>8, <1>9, <1>14 DEF HotplugInv

----------------------------------------------------------------------------

LEMMA FirstHotplugState == HotplugInit => HotplugInv
  <1> SUFFICES ASSUME HotplugInit PROVE HotplugInv
    OBVIOUS
  <1>1. plugged_in \in {0, 1} /\ plugs = plugged_in /\ stage = "start" /\ known = 0
        /\ uevents = <<>> /\ jobs = <<>> /\ told = <<>> /\ opening = ""
    BY DEF HotplugInit
  <1>2. HotplugTypes
    <2>1. <<>> \in Seq(AnEvent) /\ <<>> \in Seq(AJob)
      BY EmptySeq
    <2>2. plugged_in \in Nat /\ plugs \in Nat /\ known \in Nat
      <3>1. plugged_in = 0 \/ plugged_in = 1
        BY <1>1
      <3>2. plugs = plugged_in /\ known = 0
        BY <1>1
      <3> QED
        BY <3>1, <3>2
    <2>3. stage \in {"start", "monitor", "enumerated", "loop", "exited"}
      BY <1>1
    <2>4. uevents \in Seq(AnEvent) /\ jobs \in Seq(AJob) /\ told \in Seq(AJob)
      BY <1>1, <2>1
    <2> QED
      BY <2>2, <2>3, <2>4 DEF HotplugTypes
  <1>3. Begun
    BY <1>1 DEF Begun
  <1>4. Events
    <2>1. ~Looking
      BY <1>1 DEF Looking
    <2>2. \A i \in 1..(Len(uevents) - 1) : FALSE
      <3>1. Len(uevents) = 0
        BY <1>1
      <3> QED
        BY <3>1
    <2> QED
      BY <1>1, <2>1, <2>2 DEF Events
  <1>5. Len(AllTold) = 0
    <2>1. AllTold = <<>> \o <<>>
      BY <1>1, <1>2, <1>3, ToldType
    <2>2. <<>> \o <<>> = <<>>
      BY ConcatEmptySeq, EmptySeq
    <2> QED
      BY <2>1, <2>2
  <1>6. InPairs
    <2>1. Len(AllTold) % 2 # 1 /\ \A i \in 1..Len(AllTold) : FALSE
      BY <1>5
    <2>2. known = 0
      BY <1>1
    <2> QED
      BY <2>1, <2>2 DEF InPairs
  <1> QED
    BY <1>2, <1>3, <1>4, <1>6 DEF HotplugInv

LEMMA HotplugStep == HotplugInv /\ [HotplugNext]_hotplugVars => HotplugInv'
  <1> SUFFICES ASSUME HotplugInv, [HotplugNext]_hotplugVars PROVE HotplugInv'
    OBVIOUS
  <1>1. ASSUME \/ UNCHANGED hotplugVars \/ KernelConfigures
               \/ \E i \in AllInterfaces : Bind(i)
        PROVE  HotplugInv'
    <2>1. UNCHANGED <<plugs, plugged_in, ours, uevents, known, jobs, told, opening, stage>>
      BY <1>1 DEF hotplugVars, kernelVars, agentVars, KernelConfigures, Bind
    <2>2. jobs' \in Seq(AJob) /\ told' \in Seq(AJob) /\ Begun' /\ AllTold' = AllTold
      BY <2>1 DEF HotplugInv, HotplugTypes, Begun, AllTold
    <2> QED
      BY <2>1, <2>2, Quiet
  <1>2. ASSUME Lost \/ UnknownAction PROVE HotplugInv'
    BY <1>2, Gives DEF Lost, UnknownAction
  <1> QED
    BY <1>1, <1>2, PortStep, StageStep, EnumerateStep, ReadDevStep, BeginStep, OpeningSteps,
       ClaimStep DEF HotplugNext

\* The inductive invariant of the port, the table and the agent.
THEOREM HotplugInvariance == HotplugSpec => []HotplugInv
  <1> QED
    BY FirstHotplugState, HotplugStep, PTL DEF HotplugSpec

\* Whatever the interleaving of enumeration, events and the agent, and for any number of
\* devices: the table follows the port, and each connect is followed by its disconnect
\* (usb.lua:400).
THEOREM TableTracksThePort == HotplugSpec => []Tracks
  <1>1. HotplugInv => Tracks
    BY DEF HotplugInv, Events, InPairs, Looking, Present, Tracks
  <1> QED
    BY <1>1, HotplugInvariance, PTL

----------------------------------------------------------------------------
(* Hotplug: the interface in use *)

\* The kernel is done with the device, or nothing waited for it.
Settled(d) ==
    plugged_in = d =>
        \/ ~probing
        \/ d \in hasty

\* A device that is plugged in has a number that nothing refers to.
Numbered ==
    /\ plugged_in <= plugs /\ known <= plugs /\ attached \in Nat /\ attached <= plugs
    /\ \A i \in 1..Len(uevents) : uevents[i].of <= plugs
    /\ \A i \in 1..Len(jobs) : jobs[i].of <= plugs

NotYet == stage \in {"start", "monitor"} => jobs = <<>> /\ opening = "" /\ attached = 0

Waiting ==
    /\ \A i \in 1..Len(jobs) : jobs[i].job = "connect" => Settled(jobs[i].of)
    /\ opening # "" => Settled(Head(jobs).of) /\ Head(jobs).job # "disconnect"

Configured ==
    opening = "claim" /\ plugged_in = Head(jobs).of =>
        \/ configured = Wanted
        \/ Head(jobs).of \in hasty

\* What is opened while it is attached is connected again.
Connected ==
    /\ attached # 0 => Connects(told, attached) # {}
    /\ opening # "" /\ Head(jobs).of = attached => Twice(attached)

\* The kernel does not configure again what it is done with.
Held ==
    attached # 0 /\ attached = plugged_in =>
        \/ configured = Wanted /\ driver_of[Vendor] = "usbfs" /\ ~probing
        \/ attached \in hasty
        \/ Twice(attached)

Drivers == driver_of \in [AllInterfaces -> {"none", "kernel", "usbfs"}]

ClaimInv == Drivers /\ Numbered /\ NotYet /\ Waiting /\ Configured /\ Connected /\ Held

LEMMA Numbers ==
    /\ \A e \in AnEvent : e.of \in Nat /\ e.of # 0
    /\ \A j \in AJob : j.of \in Nat /\ j.of # 0
  BY DEF AnEvent, AJob, ADevice

LEMMA AppendAt ==
    ASSUME NEW S, NEW s \in Seq(S), NEW x \in S
    PROVE  /\ Len(s) \in Nat /\ Len(Append(s, x)) = Len(s) + 1
           /\ \A i \in 1..Len(s) : Append(s, x)[i] = s[i]
           /\ Append(s, x)[Len(s) + 1] = x
           /\ \A i \in 1..Len(Append(s, x)) : i \in 1..Len(s) \/ i = Len(s) + 1
  <1>1. /\ Len(s) \in Nat /\ Len(Append(s, x)) = Len(s) + 1
        /\ \A i \in 1..Len(s) : Append(s, x)[i] = s[i]
        /\ Append(s, x)[Len(s) + 1] = x
    BY AppendProperties, LenProperties
  <1>2. \A i \in 1..(Len(s) + 1) : i \in 1..Len(s) \/ i = Len(s) + 1
    BY <1>1
  <1> QED
    BY <1>1, <1>2

LEMMA TailAt ==
    ASSUME NEW S, NEW s \in Seq(S), s # <<>>
    PROVE  /\ 1 \in 1..Len(s) /\ Head(s) = s[1] /\ Head(s) \in S
           /\ \A i \in 1..Len(Tail(s)) : i + 1 \in 1..Len(s) /\ Tail(s)[i] = s[i + 1]
  <1>1. Len(s) \in Nat /\ Len(s) > 0
    BY EmptySeq
  <1>2. /\ Head(s) = s[1] /\ Head(s) \in S /\ Len(Tail(s)) = Len(s) - 1
        /\ \A i \in 1..(Len(s) - 1) : Tail(s)[i] = s[i + 1]
    BY HeadTailProperties, <1>1
  <1>3. 1 \in 1..Len(s) /\ \A i \in 1..(Len(s) - 1) : i + 1 \in 1..Len(s)
    BY <1>1
  <1> QED
    BY <1>2, <1>3

LEMMA OneMore ==
    ASSUME NEW s \in Seq(AJob), NEW x \in AJob, NEW d
    PROVE  /\ Connects(s, d) \subseteq Connects(Append(s, x), d)
           /\ x.of = d /\ x.job # "disconnect" =>
                  Len(s) + 1 \in Connects(Append(s, x), d) \ Connects(s, d)
  <1>1. /\ Len(s) \in Nat /\ Len(Append(s, x)) = Len(s) + 1
        /\ \A i \in 1..Len(s) : Append(s, x)[i] = s[i]
        /\ Append(s, x)[Len(s) + 1] = x
    BY AppendProperties, LenProperties
  <1>2. 1..Len(s) \subseteq 1..(Len(s) + 1) /\ Len(s) + 1 \in 1..(Len(s) + 1)
        /\ Len(s) + 1 \notin 1..Len(s)
    BY <1>1
  <1> QED
    BY <1>1, <1>2 DEF Connects

\* The first message is one of them.
LEMMA FirstJob ==
    ASSUME HotplugInv, ClaimInv, jobs # <<>>
    PROVE  /\ 1 \in 1..Len(jobs) /\ Head(jobs) = jobs[1] /\ Head(jobs) \in AJob
           /\ Head(jobs).of \in Nat /\ Head(jobs).of # 0 /\ Head(jobs).of <= plugs
  <1>1. jobs \in Seq(AJob) /\ \A i \in 1..Len(jobs) : jobs[i].of <= plugs
    BY DEF HotplugInv, HotplugTypes, ClaimInv, Numbered
  <1>2. 1 \in 1..Len(jobs) /\ Head(jobs) = jobs[1] /\ Head(jobs) \in AJob
    BY <1>1, EmptySeq, HeadTailProperties, ElementOfSeq
  <1> QED
    BY <1>1, <1>2 DEF AJob, ADevice

LEMMA SameTwice == told' = told /\ attached' = attached => Twice(attached)' = Twice(attached)
  BY DEF Twice, Connects

\* The device comes or goes: what is there now is no device that anything refers to.
LEMMA PortClaims ==
    ASSUME HotplugInv, ClaimInv, Plug \/ PullOut
    PROVE  ClaimInv'
  <1>1. /\ UNCHANGED <<jobs, told, opening, stage, known, attached, hasty>>
        /\ plugs \in Nat /\ plugged_in \in Nat /\ attached \in Nat
        /\ jobs \in Seq(AJob) /\ uevents \in Seq(AnEvent)
    BY DEF Plug, PullOut, agentVars, HotplugInv, HotplugTypes, ClaimInv, Numbered
  <1>2. /\ plugged_in <= plugs /\ known <= plugs /\ attached <= plugs /\ known \in Nat
        /\ \A i \in 1..Len(uevents) : uevents[i].of <= plugs
        /\ \A i \in 1..Len(jobs) : jobs[i].of <= plugs
    BY DEF ClaimInv, Numbered, HotplugInv, HotplugTypes
  <1>3. PICK x \in AnEvent : /\ uevents' = uevents \/ uevents' = Append(uevents, x)
                             /\ x.of <= plugs' /\ plugs' \in Nat /\ plugs <= plugs'
                             /\ plugged_in' <= plugs'
                             /\ plugged_in' = 0 \/ plugged_in' > plugs
    <2>1. CASE Plug
      <3> DEFINE y == [action |-> "add", of |-> plugs + 1]
      <3>1. /\ uevents' = uevents \/ uevents' = Append(uevents, y)
            /\ plugged_in' = plugs + 1 /\ plugs' = plugs + 1
        BY <2>1 DEF Plug, Event
      <3>2. y \in AnEvent /\ y.of = plugs + 1
        BY <1>1 DEF AnEvent, ADevice
      <3> HIDE DEF y
      <3> QED
        BY <1>1, <3>1, <3>2
    <2>2. CASE PullOut
      <3> DEFINE y == [action |-> "remove", of |-> plugged_in]
      <3>1. /\ uevents' = uevents \/ uevents' = Append(uevents, y)
            /\ plugged_in # 0 /\ plugged_in' = 0 /\ plugs' = plugs
        BY <2>2 DEF PullOut, Event
      <3>2. y \in AnEvent /\ y.of = plugged_in
        BY <1>1, <3>1 DEF AnEvent, ADevice
      <3> HIDE DEF y
      <3> QED
        BY <1>1, <1>2, <3>1, <3>2
    <2> QED
      BY <2>1, <2>2
  <1>4. \A i \in 1..Len(jobs) : jobs[i].of \in Nat /\ jobs[i].of # 0 /\ jobs[i].of # plugged_in'
    <2> TAKE i \in 1..Len(jobs)
    <2>1. jobs[i].of \in Nat /\ jobs[i].of # 0
      BY <1>1, Numbers, ElementOfSeq
    <2> QED
      BY <1>1, <1>2, <1>3, <2>1
  <1>5. attached # 0 => attached # plugged_in'
    BY <1>1, <1>2, <1>3
  <1>6. opening # "" => Head(jobs).of # plugged_in'
    <2>1. opening # "" => jobs # <<>>
      BY DEF HotplugInv, Begun
    <2> QED
      BY <1>4, <2>1, FirstJob
  <1>7. Numbered'
    <2>1. \A i \in 1..Len(uevents') : uevents'[i].of <= plugs'
      <3>1. CASE uevents' = uevents
        <4>1. \A i \in 1..Len(uevents) : uevents[i].of \in Nat
          BY <1>1, Numbers, ElementOfSeq
        <4> QED
          BY <1>1, <1>2, <1>3, <3>1, <4>1
      <3>2. CASE uevents' = Append(uevents, x)
        <4>1. \A i \in 1..Len(uevents) : uevents[i].of \in Nat
          BY <1>1, Numbers, ElementOfSeq
        <4>2. /\ Len(uevents) \in Nat /\ Len(uevents') = Len(uevents) + 1
              /\ \A i \in 1..Len(uevents) : uevents'[i] = uevents[i]
              /\ uevents'[Len(uevents) + 1] = x
          BY <1>1, <3>2, AppendAt
        <4>3. \A i \in 1..Len(uevents') : i \in 1..Len(uevents) \/ i = Len(uevents) + 1
          BY <1>1, <3>2, AppendAt
        <4>4. \A i \in 1..Len(uevents) : uevents[i].of <= plugs'
          BY <1>1, <1>2, <1>3, <4>1
        <4> QED
          BY <1>3, <4>2, <4>3, <4>4
      <3> QED
        BY <1>3, <3>1, <3>2
    <2>2. \A i \in 1..Len(jobs') : jobs'[i].of <= plugs'
      BY <1>1, <1>2, <1>3, <1>4
    <2>3. known' <= plugs' /\ attached' \in Nat /\ attached' <= plugs'
      BY <1>1, <1>2, <1>3
    <2> QED
      BY <1>3, <2>1, <2>2, <2>3 DEF Numbered
  <1>8. Waiting'
    BY <1>1, <1>4, <1>6 DEF ClaimInv, Waiting, Settled
  <1>9. Configured' /\ Held'
    BY <1>1, <1>5, <1>6 DEF Configured, Held
  <1>10. Connected' /\ NotYet'
    BY <1>1 DEF ClaimInv, Connected, NotYet, Twice, Connects
  <1>11. Drivers'
    BY DEF Plug, PullOut, NoDrivers, Drivers
  <1> QED
    BY <1>7, <1>8, <1>9, <1>10, <1>11 DEF ClaimInv

LEMMA KernelClaims ==
    ASSUME HotplugInv, ClaimInv, KernelConfigures \/ \E i \in AllInterfaces : Bind(i)
    PROVE  ClaimInv'
  <1>1. UNCHANGED <<plugs, plugged_in, uevents, known, jobs, told, opening, attached, stage, hasty>>
    BY DEF KernelConfigures, Bind, agentVars
  <1>2. Numbered' /\ NotYet' /\ Connected'
    BY <1>1 DEF ClaimInv, Numbered, NotYet, Connected, Twice, Connects
  <1>3. Twice(attached)' = Twice(attached)
    BY <1>1, SameTwice
  <1>4. CASE KernelConfigures
    <2>1. probing /\ ~probing' /\ driver_of' = NoDrivers
      BY <1>4 DEF KernelConfigures
    <2>2. Waiting' /\ Drivers'
      BY <1>1, <2>1 DEF ClaimInv, Waiting, Settled, Drivers, NoDrivers
    <2>3. Configured'
      BY <1>1, <2>1 DEF ClaimInv, Waiting, Settled, Configured
    <2>4. Held'
      BY <1>1, <1>3, <2>1 DEF ClaimInv, Held
    <2> QED
      BY <1>2, <2>2, <2>3, <2>4 DEF ClaimInv
  <1>5. ASSUME NEW i \in AllInterfaces, Bind(i) PROVE ClaimInv'
    <2>1. /\ UNCHANGED <<probing, configured>>
          /\ driver_of[i] = "none" /\ driver_of' = [driver_of EXCEPT ![i] = "kernel"]
          /\ driver_of \in [AllInterfaces -> {"none", "kernel", "usbfs"}]
      BY <1>5 DEF Bind, ClaimInv, Drivers
    <2>2. Drivers' /\ (driver_of[Vendor] = "usbfs" => driver_of'[Vendor] = "usbfs")
      <3>1. Drivers'
        BY <2>1 DEF Drivers
      <3>2. Vendor \in AllInterfaces
        BY HotplugParameters DEF AllInterfaces
      <3> QED
        BY <2>1, <3>1, <3>2
    <2>3. Waiting' /\ Configured'
      BY <1>1, <2>1 DEF ClaimInv, Waiting, Settled, Configured
    <2>4. Held'
      BY <1>1, <1>3, <2>1, <2>2 DEF ClaimInv, Held
    <2> QED
      BY <1>2, <2>2, <2>3, <2>4 DEF ClaimInv
  <1> QED
    BY <1>4, <1>5

----------------------------------------------------------------------------
(* Hotplug: what usb.watch and the agent do to it *)

\* The agent is where it was.
LEMMA WatchClaims ==
    ASSUME HotplugInv, ClaimInv, HotplugInv', MakeMonitor \/ Enumerate \/ Enable \/ ReadDev
    PROVE  ClaimInv'
  <1>1. UNCHANGED <<plugs, plugged_in, probing, configured, driver_of, told, opening, attached>>
    BY DEF MakeMonitor, Enumerate, Enable, ReadDev, kernelVars, agentVars
  <1>2. /\ plugged_in <= plugs /\ known <= plugs
        /\ \A i \in 1..Len(uevents) : uevents[i].of <= plugs
        /\ \A i \in 1..Len(jobs) : jobs[i].of <= plugs
    BY DEF ClaimInv, Numbered
  <1>3. CASE MakeMonitor \/ Enable
    <2>1. UNCHANGED <<uevents, known, jobs, hasty>>
      BY <1>3 DEF MakeMonitor, Enable
    <2>2. NotYet'
      BY <1>1, <1>3, <2>1 DEF MakeMonitor, Enable, ClaimInv, NotYet
    <2>3. Twice(attached)' = Twice(attached)
      BY <1>1, SameTwice
    <2> QED
      BY <1>1, <2>1, <2>2, <2>3 DEF ClaimInv, Drivers, Numbered, Waiting, Settled, Configured,
         Connected, Connects, Held
  <1>4. CASE Enumerate
    <2>1. /\ stage' = "enumerated" /\ uevents' = uevents
          /\ jobs = <<>> /\ opening = "" /\ attached = 0
          /\ hasty' = IF probing THEN {plugged_in} ELSE {}
      BY <1>4 DEF Enumerate, ClaimInv, NotYet
    <2>2. Settled(plugged_in)'
      BY <1>1, <2>1 DEF Settled
    <2>3. CASE IsOurs(plugged_in)
      <3>1. known' = plugged_in /\ jobs' = <<[job |-> "connect", of |-> plugged_in]>>
        <4>1. /\ known' = plugged_in
              /\ jobs' = Append(jobs, [job |-> "connect", of |-> plugged_in])
          BY <1>4, <2>3 DEF Enumerate, Job
        <4>2. \A y : Append(<<>>, y) = <<y>>
          OBVIOUS
        <4> QED
          BY <2>1, <4>1, <4>2
      <3>2. Len(jobs') = 1 /\ jobs'[1].of = plugged_in
        BY <3>1
      <3>3. 1..Len(jobs') = {1}
        BY <3>2
      <3> QED
        BY <1>1, <1>2, <2>1, <2>2, <3>1, <3>2, <3>3 DEF ClaimInv, Drivers, Numbered, NotYet,
           Waiting, Settled, Configured, Connected, Held
    <2>4. CASE ~IsOurs(plugged_in)
      <3>1. known' = known /\ jobs' = <<>>
        BY <1>4, <2>1, <2>4 DEF Enumerate
      <3>2. 1..Len(jobs') = {}
        BY <3>1
      <3> QED
        BY <1>1, <1>2, <2>1, <3>1, <3>2 DEF ClaimInv, Drivers, Numbered, NotYet,
           Waiting, Configured, Connected, Held
    <2> QED
      BY <2>3, <2>4
  <1>5. CASE ReadDev
    <2>1. /\ stage = "loop" /\ stage' = "loop" /\ uevents # <<>> /\ uevents' = Tail(uevents)
          /\ hasty' = hasty
          /\ IF Head(uevents).action = "add" THEN adddev(Head(uevents).of) ELSE remdev
      BY <1>5 DEF ReadDev
    <2>2. /\ uevents \in Seq(AnEvent) /\ jobs \in Seq(AJob) /\ plugs \in Nat
          /\ opening # "" => jobs # <<>>
      BY DEF HotplugInv, HotplugTypes, Begun
    <2>3. /\ 1 \in 1..Len(uevents) /\ Head(uevents) = uevents[1]
          /\ \A i \in 1..Len(uevents') : i + 1 \in 1..Len(uevents) /\ uevents'[i] = uevents[i + 1]
      BY <2>1, <2>2, TailAt
    <2>4. /\ known' <= plugs
          /\ \/ jobs' = jobs
             \/ \E x \in AJob : jobs' = Append(jobs, x) /\ x.of <= plugs /\ x.job # "connect"
      <3>1. CASE UNCHANGED <<known, jobs>>
        BY <1>2, <3>1
      <3>2. CASE known' = Head(uevents).of /\ Job("sleep and connect", Head(uevents).of)
        <4>1. Head(uevents).of \in ADevice
          <5>1. Head(uevents) \in AnEvent
            BY <2>1, <2>2, TailAt
          <5> QED
            BY <5>1 DEF AnEvent
        <4>2. [job |-> "sleep and connect", of |-> Head(uevents).of] \in AJob
          BY <4>1 DEF AJob
        <4> QED
          BY <1>2, <2>3, <3>2, <4>2 DEF Job
      <3>3. CASE known # 0 /\ known' = 0 /\ Job("disconnect", known)
        <4>1. [job |-> "disconnect", of |-> known] \in AJob
          <5>1. known \in ADevice
            BY <3>3 DEF ADevice, HotplugInv, HotplugTypes
          <5> QED
            BY <5>1 DEF AJob
        <4>2. 0 <= plugs
          <5>1. plugs \in Nat
            BY <2>2
          <5> QED
            BY <5>1
        <4> DEFINE x == [job |-> "disconnect", of |-> known]
        <4>3. jobs' = Append(jobs, x) /\ x \in AJob /\ x.of = known /\ x.job # "connect"
          BY <3>3, <4>1 DEF Job
        <4> HIDE DEF x
        <4> QED
          BY <1>2, <3>3, <4>2, <4>3
      <3> QED
        BY <2>1, <3>1, <3>2, <3>3 DEF adddev, remdev
    <2>5. /\ \A i \in 1..Len(jobs') : jobs'[i].of <= plugs
          /\ \A i \in 1..Len(jobs') : jobs'[i].job = "connect" => Settled(jobs'[i].of)
          /\ opening # "" => Head(jobs') = Head(jobs)
      <3>1. \A i \in 1..Len(jobs) : jobs[i].job = "connect" => Settled(jobs[i].of)
        BY DEF ClaimInv, Waiting
      <3>2. ASSUME NEW x \in AJob, jobs' = Append(jobs, x), x.of <= plugs, x.job # "connect"
            PROVE  /\ \A i \in 1..Len(jobs') : jobs'[i].of <= plugs
                   /\ \A i \in 1..Len(jobs') : jobs'[i].job = "connect" => Settled(jobs'[i].of)
                   /\ opening # "" => Head(jobs') = Head(jobs)
        <4> DEFINE t == Append(jobs, x)
        <4>0. jobs \in Seq(AJob) /\ jobs' = t
          BY <2>2, <3>2
        <4>1. /\ \A i \in 1..Len(jobs) : t[i] = jobs[i]
              /\ t[Len(jobs) + 1] = x
              /\ \A i \in 1..Len(t) : i \in 1..Len(jobs) \/ i = Len(jobs) + 1
          BY <4>0, AppendAt
        <4> HIDE DEF t
        <4>2. \A i \in 1..Len(jobs') : \/ i \in 1..Len(jobs) /\ jobs'[i] = jobs[i]
                                      \/ jobs'[i] = x
          BY <4>0, <4>1
        <4>3. opening # "" => Head(jobs') = Head(jobs)
          BY <2>2, <3>2, HeadTailAppend
        <4> QED
          BY <1>2, <3>1, <3>2, <4>2, <4>3
      <3> QED
        BY <1>2, <2>4, <3>1, <3>2
    <2>6. Numbered'
      BY <1>1, <1>2, <2>3, <2>4, <2>5 DEF ClaimInv, Numbered
    <2>7. Waiting'
      BY <1>1, <2>1, <2>5 DEF ClaimInv, Waiting, Settled
    <2>8. Twice(attached)' = Twice(attached)
      BY <1>1, SameTwice
    <2>9. Configured' /\ Connected' /\ Held'
      BY <1>1, <2>1, <2>5, <2>8 DEF ClaimInv, Configured, Connected, Connects, Held
    <2> QED
      BY <1>1, <2>1, <2>6, <2>7, <2>9 DEF ClaimInv, Drivers, NotYet
  <1> QED
    BY <1>3, <1>4, <1>5

\* The agent ends the process.
LEMMA GivesClaims ==
    ASSUME ClaimInv, GiveUp, Agent
    PROVE  ClaimInv'
  <1>1. UNCHANGED <<kernelVars, agentVars, jobs, uevents, known, hasty>> /\ stage' = "exited"
    BY DEF GiveUp, Agent
  <1> QED
    BY <1>1 DEF ClaimInv, Drivers, Numbered, NotYet, Waiting, Settled, Configured, Connected,
       Connects, Twice, Held, kernelVars, agentVars

\* A step of the opening changes only a device that is connected again, if it is in use.
LEMMA OpeningClaims ==
    ASSUME HotplugInv, ClaimInv, stage = "loop", opening # "", Agent,
           NEW next \in {"reset", "set", "disconnect", "claim"}, Go(next),
           UNCHANGED <<plugged_in, plugs, probing>>, Drivers',
           \/ UNCHANGED <<configured, driver_of>>
           \/ There,
           next = "claim" => There /\ configured' = Wanted
    PROVE  ClaimInv'
  <1>1. UNCHANGED <<jobs, told, attached, stage, uevents, known, hasty>> /\ opening' = next /\ next # ""
    BY DEF Go, Agent
  <1>2. Numbered' /\ NotYet'
    BY <1>1 DEF ClaimInv, Numbered, NotYet
  <1>3. Waiting'
    BY <1>1 DEF ClaimInv, Waiting, Settled
  <1>4. Configured'
    BY <1>1 DEF Configured
  <1>5. Twice(attached)' = Twice(attached)
    BY <1>1, SameTwice
  <1>6. Connected'
    BY <1>1, <1>5 DEF ClaimInv, Connected, Connects
  <1>7. Held'
    <2>1. CASE UNCHANGED <<configured, driver_of>>
      BY <1>1, <1>5, <2>1 DEF ClaimInv, Held
    <2>2. CASE There
      <3>1. attached = plugged_in => Twice(attached)
        BY <2>2 DEF There, Device, ClaimInv, Connected
      <3> QED
        BY <1>1, <1>5, <3>1 DEF Held
    <2> QED
      BY <2>1, <2>2
  <1> QED
    BY <1>2, <1>3, <1>4, <1>6, <1>7 DEF ClaimInv

LEMMA CallClaims ==
    ASSUME HotplugInv, ClaimInv,
           \/ OpenDevice \/ ResetConfiguration \/ set_configuration \/ SetAgain
           \/ \E i \in AllInterfaces : disconnect_kernel(i)
    PROVE  ClaimInv'
  <1>1. ASSUME OpenDevice PROVE ClaimInv'
    <2>1. stage = "loop" /\ opening # "" /\ Agent
      BY <1>1 DEF OpenDevice, AgentAt
    <2>2. CASE There
      <3>1. Go("reset") /\ UNCHANGED kernelVars
        BY <1>1, <2>2 DEF OpenDevice
      <3> QED
        BY <2>1, <3>1, OpeningClaims DEF kernelVars, ClaimInv, Drivers
    <2>3. CASE ~There
      BY <1>1, <2>1, <2>3, GivesClaims DEF OpenDevice
    <2> QED
      BY <2>2, <2>3
  <1>2. ASSUME ResetConfiguration PROVE ClaimInv'
    <2>1. stage = "loop" /\ opening # "" /\ Agent /\ Go("set")
      BY <1>2 DEF ResetConfiguration, AgentAt
    <2>2. /\ UNCHANGED <<plugged_in, plugs, probing, driver_of>>
          /\ \/ UNCHANGED <<configured, driver_of>>
             \/ There
      BY <1>2 DEF ResetConfiguration, kernelVars, _set_configuration
    <2>3. Drivers'
      BY <2>2 DEF ClaimInv, Drivers
    <2> QED
      BY <2>1, <2>2, <2>3, OpeningClaims
  <1>3. ASSUME set_configuration PROVE ClaimInv'
    <2>1. stage = "loop" /\ opening # "" /\ Agent
      BY <1>3 DEF set_configuration, AgentAt
    <2>2. \/ GiveUp
          \/ Go("disconnect") /\ UNCHANGED kernelVars
          \/ There /\ Go("claim") /\ _set_configuration(Wanted)
      BY <1>3 DEF set_configuration
    <2>3. CASE Go("disconnect") /\ UNCHANGED kernelVars
      BY <2>1, <2>3, OpeningClaims DEF kernelVars, ClaimInv, Drivers
    <2>4. CASE There /\ Go("claim") /\ _set_configuration(Wanted)
      BY <2>1, <2>4, OpeningClaims DEF _set_configuration, ClaimInv, Drivers
    <2> QED
      BY <2>1, <2>2, <2>3, <2>4, GivesClaims
  <1>4. ASSUME SetAgain PROVE ClaimInv'
    <2>1. stage = "loop" /\ opening # "" /\ Agent
      BY <1>4 DEF SetAgain, AgentAt
    <2>2. \/ GiveUp
          \/ There /\ Go("claim") /\ _set_configuration(Wanted)
      BY <1>4 DEF SetAgain
    <2>3. CASE There /\ Go("claim") /\ _set_configuration(Wanted)
      BY <2>1, <2>3, OpeningClaims DEF _set_configuration, ClaimInv, Drivers
    <2> QED
      BY <2>1, <2>2, <2>3, GivesClaims
  <1>5. ASSUME NEW i \in AllInterfaces, disconnect_kernel(i) PROVE ClaimInv'
    <2>1. /\ stage = "loop" /\ opening # "" /\ Agent /\ Go("disconnect")
          /\ UNCHANGED <<plugged_in, plugs, probing, configured>>
          /\ \/ driver_of' = driver_of
             \/ There /\ driver_of' = [driver_of EXCEPT ![i] = "none"]
      BY <1>5 DEF disconnect_kernel, AgentAt
    <2>2. Drivers'
      BY <2>1 DEF ClaimInv, Drivers
    <2> QED
      BY <2>1, <2>2, OpeningClaims
  <1> QED
    BY <1>1, <1>2, <1>3, <1>4, <1>5

\* The device is settled when its opening begins, and has been connected before if it is in use.
LEMMA BeginClaims ==
    ASSUME HotplugInv, ClaimInv, Begin
    PROVE  ClaimInv'
  <1> DEFINE x == [job |-> Head(jobs).job, of |-> Head(jobs).of]
  <1>1. /\ stage = "loop" /\ opening = "" /\ jobs # <<>> /\ told' = Append(told, x)
        /\ UNCHANGED <<plugged_in, plugs, probing, configured, driver_of, stage, attached,
                       uevents, known, hasty>>
        /\ Head(jobs).job = "sleep and connect" /\ plugged_in = Head(jobs).of => ~probing
    BY DEF Begin, AgentAt, Slept, There, Device, Agent, kernelVars
  <1>2. /\ jobs \in Seq(AJob) /\ told \in Seq(AJob) /\ Head(jobs) \in AJob /\ Head(jobs) = jobs[1]
        /\ 1 \in 1..Len(jobs)
    BY <1>1, TailAt DEF HotplugInv, HotplugTypes
  <1>3. x = Head(jobs)
    BY <1>2 DEF AJob
  <1>4. /\ Connects(told, attached) \subseteq Connects(told', attached)
        /\ x.of = attached /\ x.job # "disconnect" =>
               Len(told) + 1 \in Connects(told', attached) \ Connects(told, attached)
    BY <1>1, <1>2, <1>3, OneMore
  <1> HIDE DEF x
  <1>5. Twice(attached) => Twice(attached)'
    BY <1>1, <1>4 DEF Twice
  <1>6. attached # 0 => Connects(told', attached) # {}
    BY <1>4 DEF ClaimInv, Connected
  <1>7. x.job # "disconnect" /\ attached # 0 /\ x.of = attached => Twice(attached)'
    BY <1>1, <1>4 DEF ClaimInv, Connected, Twice
  <1>8. x.job # "disconnect" => Settled(x.of)
    <2>1. x.job \in {"connect", "sleep and connect", "disconnect"}
      BY <1>2, <1>3 DEF AJob
    <2> QED
      BY <1>1, <1>2, <1>3, <2>1 DEF ClaimInv, Waiting, Settled
  <1>9. Held' /\ Drivers' /\ NotYet'
    BY <1>1, <1>5 DEF ClaimInv, Held, Drivers, NotYet
  <1>10. CASE x.job = "disconnect"
    <2>1. jobs' = Tail(jobs) /\ opening' = ""
      BY <1>1, <1>3, <1>10 DEF Begin
    <2>2. \A i \in 1..Len(jobs') : i + 1 \in 1..Len(jobs) /\ jobs'[i] = jobs[i + 1]
      BY <1>1, <1>2, <2>1, TailAt
    <2>3. Numbered' /\ Waiting'
      BY <1>1, <2>1, <2>2 DEF ClaimInv, Numbered, Waiting, Settled
    <2> QED
      BY <1>1, <1>6, <1>9, <2>1, <2>3 DEF ClaimInv, Configured, Connected
  <1>11. CASE x.job # "disconnect"
    <2>1. jobs' = jobs /\ opening' = "open"
      BY <1>1, <1>3, <1>11 DEF Begin
    <2>2. Numbered' /\ Waiting'
      BY <1>1, <1>3, <1>8, <1>11, <2>1 DEF ClaimInv, Numbered, Waiting, Settled
    <2>3. Connected'
      <3>1. x.of # 0
        BY <1>2, <1>3, Numbers
      <3> QED
        BY <1>1, <1>3, <1>6, <1>7, <1>11, <2>1, <3>1 DEF Connected
    <2> QED
      BY <1>9, <2>1, <2>2, <2>3 DEF ClaimInv, Configured
  <1> QED
    BY <1>10, <1>11

LEMMA ClaimClaims ==
    ASSUME HotplugInv, ClaimInv, claim_interface
    PROVE  ClaimInv'
  <1>1. stage = "loop" /\ opening = "claim" /\ jobs # <<>> /\ Agent
    BY DEF claim_interface, AgentAt
  <1>2. CASE GiveUp
    BY <1>1, <1>2, GivesClaims
  <1>3. CASE ~GiveUp
    <2>1. /\ plugged_in = Head(jobs).of /\ driver_of' = [driver_of EXCEPT ![Vendor] = "usbfs"]
          /\ attached' = Head(jobs).of /\ opening' = "" /\ jobs' = Tail(jobs)
          /\ UNCHANGED <<plugged_in, plugs, probing, configured, stage, told, uevents, known, hasty>>
      BY <1>1, <1>3 DEF claim_interface, There, Device, Agent
    <2>2. /\ jobs \in Seq(AJob) /\ told \in Seq(AJob) /\ told # <<>>
          /\ told[Len(told)] = Head(jobs) /\ Head(jobs).job # "disconnect"
      BY <1>1 DEF HotplugInv, HotplugTypes, Begun, ClaimInv, Waiting
    <2>3. \A i \in 1..Len(jobs') : i + 1 \in 1..Len(jobs) /\ jobs'[i] = jobs[i + 1]
      BY <1>1, <2>1, <2>2, TailAt
    <2>4. /\ Head(jobs).of \in Nat /\ Head(jobs).of # 0 /\ Head(jobs).of <= plugs
      BY <1>1, FirstJob
    <2>5. Numbered' /\ Waiting' /\ NotYet'
      BY <1>1, <2>1, <2>3, <2>4 DEF ClaimInv, Numbered, Waiting, Settled, NotYet
    <2>6. Drivers' /\ driver_of'[Vendor] = "usbfs"
      <3>1. Vendor \in AllInterfaces
        BY HotplugParameters DEF AllInterfaces
      <3> QED
        BY <2>1, <3>1 DEF ClaimInv, Drivers
    <2>7. Connected'
      <3>1. Len(told) \in 1..Len(told)
        BY <2>2, EmptySeq
      <3>2. Len(told) \in Connects(told', attached')
        BY <2>1, <2>2, <3>1 DEF Connects
      <3> QED
        BY <2>1, <3>2 DEF Connected
    <2>8. Held'
      <3>1. \/ configured = Wanted
            \/ Head(jobs).of \in hasty
        BY <1>1, <2>1 DEF ClaimInv, Configured
      <3>2. \/ ~probing
            \/ Head(jobs).of \in hasty
        BY <1>1, <2>1 DEF ClaimInv, Waiting, Settled
      <3> QED
        BY <2>1, <2>6, <3>1, <3>2 DEF Held
    <2> QED
      BY <2>1, <2>5, <2>6, <2>7, <2>8 DEF ClaimInv, Configured
  <1> QED
    BY <1>2, <1>3

LEMMA ClaimInvariance == HotplugSpec => []ClaimInv
  <1>1. HotplugInit => ClaimInv
    <2> SUFFICES ASSUME HotplugInit PROVE ClaimInv
      OBVIOUS
    <2>1. /\ plugged_in = plugs /\ plugs \in Nat /\ known = 0 /\ attached = 0 /\ opening = ""
          /\ jobs = <<>> /\ uevents = <<>> /\ driver_of = NoDrivers
      <3>1. plugs \in Nat
        BY FirstHotplugState DEF HotplugInv, HotplugTypes
      <3> QED
        BY <3>1 DEF HotplugInit
    <2>2. 1..Len(jobs) = {} /\ 1..Len(uevents) = {}
      <3>1. Len(jobs) = 0 /\ Len(uevents) = 0
        BY <2>1
      <3> QED
        BY <3>1
    <2>3. Numbered
      <3>1. plugged_in <= plugs /\ known <= plugs /\ attached \in Nat /\ attached <= plugs
        <4>1. plugs <= plugs /\ 0 <= plugs
          <5>1. \A n \in Nat : n <= n /\ 0 <= n
            OBVIOUS
          <5>2. plugs \in Nat
            BY <2>1
          <5> QED
            BY <5>1, <5>2
        <4> QED
          BY <2>1, <4>1
      <3> QED
        BY <2>2, <3>1 DEF Numbered
    <2>4. Drivers
      BY <2>1 DEF Drivers, NoDrivers
    <2> QED
      BY <2>1, <2>2, <2>3, <2>4 DEF ClaimInv, NotYet, Waiting, Configured, Connected, Held
  <1>2. ASSUME HotplugInv, HotplugInv', ClaimInv, [HotplugNext]_hotplugVars PROVE ClaimInv'
    <2>1. CASE UNCHANGED hotplugVars
      BY <1>2, <2>1 DEF ClaimInv, Drivers, Numbered, NotYet, Waiting, Settled, Configured,
         Connected, Connects, Twice, Held, hotplugVars, kernelVars, agentVars
    <2>2. CASE Lost \/ UnknownAction
      BY <1>2, <2>2, GivesClaims DEF Lost, UnknownAction
    <2> QED
      BY <1>2, <2>1, <2>2, PortClaims, KernelClaims, WatchClaims, BeginClaims, CallClaims,
         ClaimClaims DEF HotplugNext
  <1> QED
    BY <1>1, <1>2, HotplugInvariance, PTL DEF HotplugSpec

\* The interface that transfers use stays the process's own, in the configuration it asked for:
\* the kernel configures a device once and binds no driver to an interface that is claimed, and
\* the agent changes only the device it is opening (usb.lua:415).  For any configurations and
\* interfaces and any number of devices.
THEOREM InterfaceStaysClaimed == HotplugSpec => []HoldsItsInterface
  <1>1. ClaimInv => HoldsItsInterface
    BY DEF ClaimInv, Held, HoldsItsInterface
  <1> QED
    BY <1>1, ClaimInvariance, PTL
=================================================================================
