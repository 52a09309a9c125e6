----------------------------- MODULE SepackProofs -----------------------------
(****************************************************************************)
(* Sepack gives every thread the reply to its own request, for any number of *)
(* users, requests and connections, provided that the device is not lost     *)
(* while its channels are enumerated, and until a packet is lost between the *)
(* helper and the device or a frame torn between the helper and ExtProc.     *)
(****************************************************************************)
EXTENDS Sepack, SequenceTheorems, WellFoundedInduction, TLAPS

----------------------------------------------------------------------------
(* The inductive invariant. *)

AMessage == [kind : {"coldplug-end", "connect", "reply", "data", "eof"}, request : Nat]

\* What the helper has sent and ExtProc not handled, and Sepack not handled.
Coming == batch \o wire
Pipeline == inbox \o Coming
Under == Replies(Pipeline) \o device

\* Where the enumeration of the present connection is.
Current == IF connection = 0 THEN "idle" ELSE doing[connection]

SepackTypes ==
    /\ link \in {"none", "started", "connected", "searching", "plugged", "gone"}
    /\ connection \in 0..MaxConnections
    /\ wire \in Seq(AMessage) /\ batch \in Seq(AMessage) /\ inbox \in Seq(AMessage)
    /\ device \in Seq(Nat) /\ outbox \in Seq(Nat)
    /\ status \in {"false", "true", "connect", "coldplug-end"}
    /\ changed \in BOOLEAN /\ dirty \in BOOLEAN /\ awake \in BOOLEAN /\ coldplug \in BOOLEAN
    /\ connected \in BOOLEAN \cup {Nil}
    /\ reply_chns = Nil \/ reply_chns \in Seq(Nat)
    /\ doing \in [Threads -> {"idle", "waiting", "starting", "naming", "named", "setup",
                              "finishing", "done"}]
    /\ asking \in [Threads -> Nat] /\ asked \in Nat

\* Each thread does what is its own, and only the last connection is being enumerated.
Roles ==
    /\ \A u \in Users : doing[u] \in {"idle", "waiting"}
    /\ \A k \in Enumerators : /\ doing[k] # "waiting"
                              /\ k > connection => doing[k] = "idle"
                              /\ k < connection => doing[k] \in {"idle", "done"}
                              /\ coldplug => doing[k] = "idle"
    /\ link # "none" => connection > 0

\* An enumeration that goes on has its device; one that is done was connected until the end
\* of the connection is noticed.
Stages ==
    /\ Current \in {"idle", "starting"} => reply_chns = Nil
    /\ Current \in {"naming", "named", "setup", "finishing"} => reply_chns # Nil
    /\ Current \in {"starting", "naming", "named", "setup", "finishing"} =>
          link = "plugged" /\ connected # TRUE
    /\ Current = "done" =>
          \/ /\ connected = TRUE /\ reply_chns # Nil
             /\ \/ link \in {"plugged", "gone"}
                \/ link = "none" /\ status = "false" /\ changed /\ dirty
          \/ connected # TRUE /\ reply_chns = Nil /\ link = "none"
    /\ connected = TRUE => Current = "done"

\* The status follows the connection: no change of it is overwritten before Sepack's loop has
\* seen it, because the loop waits and nothing wakes it until then.
Noticed ==
    /\ link \in {"none", "started"} => status = "false"
    /\ link = "connected" => status = "true"
    /\ Current # "idle" /\ link # "none" => status = "connect" /\ ~changed
    /\ Current # "idle" /\ link # "none" /\ dirty =>
          /\ Current \notin {"finishing", "done"}
          /\ \A i \in 1..Len(inbox) : inbox[i].kind # "reply"
          /\ \A i \in 1..Len(batch) : batch[i].kind # "reply"
    /\ Current = "idle" /\ status = "connect" => changed /\ link = "plugged"
    /\ Current = "idle" /\ status # "connect" =>
          /\ inbox = <<>>
          /\ batch # <<>> \/ dirty => ~awake
          /\ dirty => changed

\* The messages of a connection come in order.
Announced ==
    /\ link \in {"none", "started", "connected"} => Coming = <<>>
    /\ \A i \in 1..Len(Coming) :
          /\ Coming[i].kind = "coldplug-end" => i = 1 /\ status = "true"
          /\ Coming[i].kind = "connect" =>
                /\ link = "plugged" /\ Current = "idle" /\ status # "connect"
                /\ \A j \in 1..(i - 1) : Coming[j].kind = "coldplug-end"
          /\ Coming[i].kind = "eof" => i = Len(Coming) /\ link = "gone"
          /\ Coming[i].kind \in {"reply", "data"} /\ Current = "idle" /\ status # "connect" =>
                \E j \in 1..(i - 1) : Coming[j].kind = "connect"
    /\ link = "plugged" /\ Current = "idle" /\ status # "connect" =>
          \E i \in 1..Len(Coming) : Coming[i].kind = "connect"

\* The requests under way are those that wait: all of them while the device is there, and
\* otherwise the first ones.
Ordered ==
    /\ link # "plugged" => device = <<>>
    /\ link # "none" /\ reply_chns = Nil => Under = <<>> /\ outbox = <<>>
    /\ reply_chns # Nil =>
          /\ \E gone \in Seq(Nat) : reply_chns = Under \o gone
          /\ link = "plugged" => reply_chns = Under \o outbox

\* Requests are numbered in their order, and every thread that waits has its own.
Numbered ==
    /\ reply_chns # Nil =>
          /\ \A i \in 1..Len(reply_chns) : reply_chns[i] <= asked
          /\ \A i, j \in 1..Len(reply_chns) : i < j => reply_chns[i] < reply_chns[j]
    /\ \A t, u \in Threads : Waiting(t) /\ Waiting(u) /\ asking[t] = asking[u] => t = u

\* WaitersListed, of each thread and of each request.
Listed ==
    /\ \A t \in Threads : Waiting(t) =>
          reply_chns # Nil /\ \E i \in 1..Len(reply_chns) : reply_chns[i] = asking[t]
    /\ reply_chns # Nil =>
          \A i \in 1..Len(reply_chns) :
             \E t \in Threads : Waiting(t) /\ reply_chns[i] = asking[t]

Unmixed == ~mixed

SepackInv ==
    /\ SepackTypes /\ Roles /\ Stages /\ Noticed /\ Announced /\ Ordered /\ Numbered
    /\ Listed /\ Unmixed

----------------------------------------------------------------------------
(* Sequences. *)

LEMMA ThreeParts ==
    ASSUME NEW s \in Seq(Nat), NEW t \in Seq(Nat), NEW u \in Seq(Nat)
    PROVE  (s \o t) \o u = s \o (t \o u)
  <1> DEFINE a == (s \o t) \o u
             b == s \o (t \o u)
  <1>1. a \in Seq(Nat) /\ b \in Seq(Nat) /\ Len(a) = Len(b)
    OBVIOUS
  <1>2. \A i \in 1..Len(a) : a[i] = b[i]
    OBVIOUS
  <1> HIDE DEF a, b
  <1>3. a = b
    BY <1>1, <1>2, SeqEqual
  <1> QED
    BY <1>3 DEF a, b

----------------------------------------------------------------------------
(* Replies, by induction over the natural numbers: the least number principle of    *)
(* WellFoundedInduction, for the set of the numbers for which something does not hold. *)

LEMMA NatSetInduction ==
    ASSUME NEW T, 0 \in T, \A n \in Nat : n \in T => n + 1 \in T
    PROVE  \A n \in Nat : n \in T
  <1> DEFINE U == Nat \ T
  <1> SUFFICES ASSUME U # {} PROVE FALSE
    OBVIOUS
  <1>1. PICK n \in U : \A k \in U : ~ (<<k, n>> \in OpToRel(<, Nat))
    <2>1. U \subseteq Nat
      OBVIOUS
    <2> HIDE DEF U
    <2> QED
      BY <2>1, WFMin, NatLessThanWellFounded, Zenon
  <1>2. n # 0 /\ n - 1 \in Nat /\ n \in Nat /\ n - 1 < n /\ n = (n - 1) + 1
    BY SMT
  <1>3. <<n - 1, n>> \in OpToRel(<, Nat)
    BY <1>2, SMT DEF OpToRel
  <1>4. n - 1 \in T
    BY <1>1, <1>2, <1>3, Zenon
  <1> QED
    BY <1>2, <1>4

\* f[i] is the requests answered by the first i of the messages s.
Upto(s, n, f) ==
    f = [i \in 0..n |-> IF i = 0 THEN <<>>
                        ELSE IF s[i].kind = "reply" THEN Append(f[i - 1], s[i].request)
                        ELSE f[i - 1]]

LEMMA UptoExists ==
    ASSUME NEW s
    PROVE  \A n \in Nat : \E f : Upto(s, n, f)
  <1> DEFINE T == {n \in Nat : \E f : Upto(s, n, f)}
  <1>1. 0 \in T
    <2>1. Upto(s, 0, [i \in 0..0 |-> <<>>])
      BY DEF Upto
    <2> QED
      BY <2>1
  <1>2. ASSUME NEW n \in Nat, n \in T PROVE n + 1 \in T
    <2>1. PICK f : Upto(s, n, f)
      BY <1>2
    <2> DEFINE x == IF s[n + 1].kind = "reply" THEN Append(f[n], s[n + 1].request) ELSE f[n]
               g == [i \in 0..(n + 1) |-> IF i = n + 1 THEN x ELSE f[i]]
    <2>2. \A i \in 0..n : f[i] = IF i = 0 THEN <<>>
                                 ELSE IF s[i].kind = "reply" THEN Append(f[i - 1], s[i].request)
                                 ELSE f[i - 1]
      BY <2>1 DEF Upto
    <2>3. \A i \in 0..(n + 1) : g[i] = IF i = 0 THEN <<>>
                                 ELSE IF s[i].kind = "reply" THEN Append(g[i - 1], s[i].request)
                                 ELSE g[i - 1]
      <3> TAKE i \in 0..(n + 1)
      <3>1. CASE i = n + 1
        BY <3>1
      <3>2. CASE i # n + 1
        <4>1. g[i] = f[i] /\ i \in 0..n
          BY <3>2
        <4>2. i # 0 => g[i - 1] = f[i - 1]
          BY <3>2
        <4> HIDE DEF g
        <4> QED
          BY <4>1, <4>2, <2>2
      <3> QED
        BY <3>1, <3>2
    <2>4. g = [i \in 0..(n + 1) |-> g[i]]
      OBVIOUS
    <2> HIDE DEF g
    <2>5. Upto(s, n + 1, g)
      BY <2>3, <2>4 DEF Upto
    <2> QED
      BY <2>5
  <1> HIDE DEF T
  <1>3. \A n \in Nat : n \in T
    BY <1>1, <1>2, NatSetInduction
  <1> QED
    BY <1>3 DEF T

LEMMA UptoAgree ==
    \A s, t, f, g : \A n \in Nat :
       Upto(s, n, f) /\ Upto(t, n + 1, g) /\ (\A i \in 1..n : s[i] = t[i]) => f[n] = g[n]
  <1> SUFFICES ASSUME NEW s, NEW t, NEW f, NEW g, NEW n \in Nat,
                      Upto(s, n, f), Upto(t, n + 1, g), \A i \in 1..n : s[i] = t[i]
               PROVE  f[n] = g[n]
    OBVIOUS
  <1> DEFINE T == {i \in Nat : i <= n => f[i] = g[i]}
  <1>1. \A i \in 0..n : f[i] = IF i = 0 THEN <<>>
                                ELSE IF s[i].kind = "reply" THEN Append(f[i - 1], s[i].request)
                                ELSE f[i - 1]
    BY DEF Upto
  <1>2. \A i \in 0..(n + 1) : g[i] = IF i = 0 THEN <<>>
                                ELSE IF t[i].kind = "reply" THEN Append(g[i - 1], t[i].request)
                                ELSE g[i - 1]
    BY DEF Upto
  <1>3. 0 \in T
    BY <1>1, <1>2
  <1>4. ASSUME NEW i \in Nat, i \in T PROVE i + 1 \in T
    <2> SUFFICES ASSUME i + 1 <= n PROVE f[i + 1] = g[i + 1]
      OBVIOUS
    <2>1. i + 1 \in 0..n /\ i + 1 \in 0..(n + 1) /\ i + 1 # 0 /\ (i + 1) - 1 = i /\ s[i + 1] = t[i + 1]
      OBVIOUS
    <2>2. f[i] = g[i]
      BY <1>4
    <2> QED
      BY <1>1, <1>2, <2>1, <2>2
  <1> HIDE DEF T
  <1>5. n \in T
    BY <1>3, <1>4, NatSetInduction
  <1> QED
    BY <1>5 DEF T

\* What Replies returns: nothing of nothing, and one more for a reply.
LEMMA RepliesUpto ==
    ASSUME NEW s, Len(s) \in Nat
    PROVE  \E f : Upto(s, Len(s), f) /\ Replies(s) = f[Len(s)]
  <1> DEFINE Step(f, i) == IF i = 0 THEN <<>>
                           ELSE IF s[i].kind = "reply" THEN Append(f[i - 1], s[i].request)
                           ELSE f[i - 1]
             g == CHOOSE f : f = [i \in 0..Len(s) |-> Step(f, i)]
  <1>1. \E f : f = [i \in 0..Len(s) |-> Step(f, i)]
    <2>1. PICK f : Upto(s, Len(s), f)
      BY UptoExists
    <2>2. f = [i \in 0..Len(s) |-> Step(f, i)]
      BY <2>1, Zenon DEF Upto
    <2> QED
      BY <2>2, Zenon
  <1>2. Replies(s) = g[Len(s)]
    BY DEF Replies
  <1>3. g = [i \in 0..Len(s) |-> Step(g, i)]
    <2> HIDE DEF Step
    <2> QED
      BY <1>1
  <1>4. Upto(s, Len(s), g)
    BY <1>3 DEF Upto
  <1> HIDE DEF g
  <1> QED
    BY <1>2, <1>4

LEMMA RepliesEmpty == Replies(<<>>) = <<>>
  <1>1. Len(<<>>) = 0
    OBVIOUS
  <1>2. PICK f : Upto(<<>>, 0, f) /\ Replies(<<>>) = f[0]
    BY <1>1, RepliesUpto
  <1> QED
    BY <1>2 DEF Upto

LEMMA RepliesAppend ==
    ASSUME NEW s \in Seq(AMessage), NEW m \in AMessage
    PROVE  Replies(Append(s, m)) =
              IF m.kind = "reply" THEN Append(Replies(s), m.request) ELSE Replies(s)
  <1> DEFINE t == Append(s, m)
             n == Len(s)
  <1>1. n \in Nat /\ Len(t) = n + 1 /\ t[n + 1] = m /\ \A i \in 1..n : s[i] = t[i]
    OBVIOUS
  <1> HIDE DEF t
  <1>2. PICK f : Upto(s, n, f) /\ Replies(s) = f[n]
    BY <1>1, RepliesUpto
  <1> HIDE DEF n
  <1>3. PICK g : Upto(t, n + 1, g) /\ Replies(t) = g[n + 1]
    BY <1>1, RepliesUpto
  <1>4. f[n] = g[n]
    <2>1. n \in Nat /\ \A i \in 1..n : s[i] = t[i]
      BY <1>1
    <2>2. Upto(s, n, f) /\ Upto(t, n + 1, g)
      BY <1>2, <1>3
    <2> QED
      BY <2>1, <2>2, UptoAgree
  <1>5. g[n + 1] = IF m.kind = "reply" THEN Append(g[n], m.request) ELSE g[n]
    <2>1. n + 1 \in 0..(n + 1) /\ n + 1 # 0 /\ (n + 1) - 1 = n
      BY <1>1
    <2>2. Upto(t, n + 1, g)
      BY <1>3
    <2> QED
      BY <1>1, <2>1, <2>2 DEF Upto
  <1> QED
    BY <1>2, <1>3, <1>4, <1>5 DEF t

LEMMA RepliesType == \A s \in Seq(AMessage) : Replies(s) \in Seq(Nat)
  <1> DEFINE T == {n \in Nat : \A s \in Seq(AMessage) : Len(s) = n => Replies(s) \in Seq(Nat)}
  <1>1. 0 \in T
    BY RepliesEmpty
  <1>2. ASSUME NEW n \in Nat, n \in T PROVE n + 1 \in T
    <2> SUFFICES ASSUME NEW s \in Seq(AMessage), Len(s) = n + 1 PROVE Replies(s) \in Seq(Nat)
      OBVIOUS
    <2>1. PICK p \in Seq(AMessage), m \in AMessage : s = Append(p, m)
      BY SequenceEmptyOrAppend
    <2>2. Len(p) = n /\ m.request \in Nat
      BY <2>1 DEF AMessage
    <2>3. Replies(p) \in Seq(Nat)
      BY <1>2, <2>2
    <2>4. Replies(s) = IF m.kind = "reply" THEN Append(Replies(p), m.request) ELSE Replies(p)
      BY <2>1, RepliesAppend
    <2>5. Append(Replies(p), m.request) \in Seq(Nat)
      BY <2>2, <2>3
    <2> QED
      BY <2>3, <2>4, <2>5, Zenon
  <1> HIDE DEF T
  <1>3. \A n \in Nat : n \in T
    BY <1>1, <1>2, NatSetInduction
  <1> QED
    BY <1>3 DEF T

\* No reply is under way when no request is.
LEMMA RepliesNone ==
    \A s \in Seq(AMessage) : Replies(s) = <<>> => \A i \in 1..Len(s) : s[i].kind # "reply"
  <1> DEFINE T == {n \in Nat : \A s \in Seq(AMessage) : Len(s) = n /\ Replies(s) = <<>> =>
                                  \A i \in 1..Len(s) : s[i].kind # "reply"}
  <1>1. 0 \in T
    OBVIOUS
  <1>2. ASSUME NEW n \in Nat, n \in T PROVE n + 1 \in T
    <2> SUFFICES ASSUME NEW s \in Seq(AMessage), Len(s) = n + 1, Replies(s) = <<>>
                 PROVE  \A i \in 1..Len(s) : s[i].kind # "reply"
      OBVIOUS
    <2>1. PICK p \in Seq(AMessage), m \in AMessage : s = Append(p, m)
      BY SequenceEmptyOrAppend
    <2>2. Len(p) = n /\ Replies(p) \in Seq(Nat) /\ m.request \in Nat
      BY <2>1, RepliesType DEF AMessage
    <2>3. m.kind # "reply" /\ Replies(p) = <<>>
      BY <2>1, <2>2, RepliesAppend
    <2>4. \A i \in 1..n : p[i].kind # "reply"
      BY <1>2, <2>2, <2>3
    <2> QED
      BY <2>1, <2>2, <2>3, <2>4
  <1> HIDE DEF T
  <1>3. \A n \in Nat : n \in T
    BY <1>1, <1>2, NatSetInduction
  <1> QED
    BY <1>3 DEF T

\* The same at the other end.
One(m) == IF m.kind = "reply" THEN <<m.request>> ELSE <<>>

LEMMA RepliesFirst ==
    ASSUME NEW m \in AMessage
    PROVE  \A s \in Seq(AMessage) : Replies(<<m>> \o s) = One(m) \o Replies(s)
  <1> DEFINE T == {n \in Nat : \A s \in Seq(AMessage) :
                                  Len(s) = n => Replies(<<m>> \o s) = One(m) \o Replies(s)}
  <1>0. One(m) \in Seq(Nat) /\ <<m>> \in Seq(AMessage)
    BY DEF One, AMessage
  <1>1. 0 \in T
    <2> SUFFICES ASSUME NEW s \in Seq(AMessage), Len(s) = 0
                 PROVE  Replies(<<m>> \o s) = One(m) \o Replies(s)
      OBVIOUS
    <2>1. s = <<>> /\ <<m>> \o s = Append(<<>>, m) /\ <<>> \in Seq(AMessage)
      OBVIOUS
    <2>2. Replies(Append(<<>>, m)) =
             IF m.kind = "reply" THEN Append(Replies(<<>>), m.request) ELSE Replies(<<>>)
      BY <2>1, RepliesAppend
    <2>3. Append(<<>>, m.request) = <<m.request>>
      OBVIOUS
    <2>4. Replies(Append(<<>>, m)) = One(m)
      BY <2>2, <2>3, RepliesEmpty DEF One
    <2> QED
      BY <1>0, <2>1, <2>4, RepliesEmpty
  <1>2. ASSUME NEW n \in Nat, n \in T PROVE n + 1 \in T
    <2> SUFFICES ASSUME NEW s \in Seq(AMessage), Len(s) = n + 1
                 PROVE  Replies(<<m>> \o s) = One(m) \o Replies(s)
      OBVIOUS
    <2>1. PICK p \in Seq(AMessage), x \in AMessage : s = Append(p, x)
      BY SequenceEmptyOrAppend
    <2> DEFINE q == <<m>> \o p
    <2>2. Len(p) = n /\ Replies(p) \in Seq(Nat) /\ x.request \in Nat /\ q \in Seq(AMessage)
      BY <2>1, RepliesType DEF AMessage
    <2>3. Replies(q) = One(m) \o Replies(p)
      BY <1>2, <2>2
    <2>4. <<m>> \o s = Append(q, x)
      <3>1. s = p \o <<x>> /\ Append(q, x) = q \o <<x>> /\ <<x>> \in Seq(AMessage)
        BY <2>1, <2>2, AppendIsConcat
      <3> QED
        BY <1>0, <3>1, ConcatAssociative
    <2>5. \A r \in Seq(Nat) : One(m) \o Append(r, x.request) = Append(One(m) \o r, x.request)
      BY <1>0, <2>2
    <2> HIDE DEF q
    <2>6. Replies(Append(q, x)) =
             IF x.kind = "reply" THEN Append(Replies(q), x.request) ELSE Replies(q)
      BY <2>2, RepliesAppend
    <2>7. Replies(s) = IF x.kind = "reply" THEN Append(Replies(p), x.request) ELSE Replies(p)
      BY <2>1, RepliesAppend
    <2> QED
      BY <2>2, <2>3, <2>4, <2>5, <2>6, <2>7
  <1> HIDE DEF T
  <1>3. \A n \in Nat : n \in T
    BY <1>1, <1>2, NatSetInduction
  <1> QED
    BY <1>3 DEF T

LEMMA RepliesTail ==
    ASSUME NEW s \in Seq(AMessage), s # <<>>
    PROVE  Replies(s) = One(Head(s)) \o Replies(Tail(s))
  <1>1. Head(s) \in AMessage /\ Tail(s) \in Seq(AMessage) /\ s = <<Head(s)>> \o Tail(s)
    OBVIOUS
  <1> QED
    BY <1>1, RepliesFirst

----------------------------------------------------------------------------
(* Sequences *)

LEMMA AppendToConcat ==
    ASSUME NEW S
    PROVE  \A s, t \in Seq(S), x \in S : s \o Append(t, x) = Append(s \o t, x)
  <1> SUFFICES ASSUME NEW s \in Seq(S), NEW t \in Seq(S), NEW x \in S
               PROVE  s \o Append(t, x) = Append(s \o t, x)
    OBVIOUS
  <1>1. <<x>> \in Seq(S) /\ s \o t \in Seq(S)
    OBVIOUS
  <1>2. Append(t, x) = t \o <<x>> /\ Append(s \o t, x) = (s \o t) \o <<x>>
    BY <1>1, AppendIsConcat
  <1> QED
    BY <1>1, <1>2, ConcatAssociative

LEMMA AppendIsLast ==
    ASSUME NEW S
    PROVE  \A s \in Seq(S), x \in S :
              /\ Append(s, x) \in Seq(S) /\ Len(Append(s, x)) = Len(s) + 1 /\ Len(s) \in Nat
              /\ Append(s, x)[Len(s) + 1] = x
              /\ \A i \in 1..Len(s) : Append(s, x)[i] = s[i]
  OBVIOUS

LEMMA HeadIsFirst ==
    ASSUME NEW S
    PROVE  \A t \in Seq(S) : t # <<>> =>
              /\ Head(t) \in S /\ Tail(t) \in Seq(S)
              /\ t = <<Head(t)>> \o Tail(t) /\ Head(t) = t[1] /\ Len(t) > 0
              /\ Len(Tail(t)) = Len(t) - 1
              /\ \A i \in 1..(Len(t) - 1) : Tail(t)[i] = t[i + 1]
  OBVIOUS

LEMMA MoveOver ==
    ASSUME NEW S
    PROVE  \A s, t \in Seq(S) : t # <<>> => Append(s, Head(t)) \o Tail(t) = s \o t
  <1> SUFFICES ASSUME NEW s \in Seq(S), NEW t \in Seq(S), t # <<>>
               PROVE  Append(s, Head(t)) \o Tail(t) = s \o t
    OBVIOUS
  <1>1. Head(t) \in S /\ Tail(t) \in Seq(S) /\ t = <<Head(t)>> \o Tail(t)
    BY HeadIsFirst
  <1>2. Append(s, Head(t)) = s \o <<Head(t)>> /\ <<Head(t)>> \in Seq(S)
    BY <1>1, AppendIsConcat
  <1> QED
    BY <1>1, <1>2, ConcatAssociative

LEMMA TailOfConcat ==
    ASSUME NEW S
    PROVE  \A s, t \in Seq(S) : s # <<>> =>
              s \o t # <<>> /\ Head(s \o t) = Head(s) /\ Tail(s \o t) = Tail(s) \o t
  <1> SUFFICES ASSUME NEW s \in Seq(S), NEW t \in Seq(S), s # <<>>
               PROVE  s \o t # <<>> /\ Head(s \o t) = Head(s) /\ Tail(s \o t) = Tail(s) \o t
    OBVIOUS
  <1>1. Head(s) \in S /\ Tail(s) \in Seq(S) /\ s = <<Head(s)>> \o Tail(s)
        /\ <<Head(s)>> \in Seq(S)
    BY HeadIsFirst
  <1>2. s \o t # <<>> /\ Head(s \o t) = Head(s)
    OBVIOUS
  <1>3. Tail(s \o t) = Tail(s) \o t
    <2>1. Len(s) > 0 /\ Len(s) \in Nat /\ Len(t) \in Nat
      OBVIOUS
    <2> DEFINE l == Tail(s \o t)
               r == Tail(s) \o t
    <2>2. l \in Seq(S) /\ r \in Seq(S) /\ Len(l) = Len(s) + Len(t) - 1 /\ Len(r) = Len(l)
      BY <1>1, <1>2, <2>1, ConcatProperties, HeadTailProperties
    <2>3. \A i \in 1..Len(l) : l[i] = r[i]
      <3> TAKE i \in 1..Len(l)
      <3>1. l[i] = (s \o t)[i + 1]
        BY <1>2, <2>2, HeadTailProperties
      <3>2. (s \o t)[i + 1] = IF i + 1 <= Len(s) THEN s[i + 1] ELSE t[i + 1 - Len(s)]
        BY <2>1, <2>2, ConcatProperties
      <3>3. r[i] = IF i <= Len(Tail(s)) THEN Tail(s)[i] ELSE t[i - Len(Tail(s))]
        BY <1>1, <2>1, <2>2, ConcatProperties
      <3>4. Len(Tail(s)) = Len(s) - 1 /\ \A j \in 1..(Len(s) - 1) : Tail(s)[j] = s[j + 1]
        BY HeadIsFirst
      <3> HIDE DEF l, r
      <3> QED
        BY <2>1, <2>2, <3>1, <3>2, <3>3, <3>4
    <2> HIDE DEF l, r
    <2>4. l = r
      BY <2>2, <2>3, SeqEqual
    <2> QED
      BY <2>4 DEF l, r
  <1> QED
    BY <1>2, <1>3

LEMMA SplitInTwo ==
    ASSUME NEW S
    PROVE  \A s \in Seq(S) : \A n \in 1..Len(s) :
              /\ SubSeq(s, 1, n) \in Seq(S) /\ SubSeq(s, n + 1, Len(s)) \in Seq(S)
              /\ Len(SubSeq(s, 1, n)) = n
              /\ SubSeq(s, 1, n) \o SubSeq(s, n + 1, Len(s)) = s
  <1> SUFFICES ASSUME NEW s \in Seq(S), NEW n \in 1..Len(s)
               PROVE  /\ SubSeq(s, 1, n) \in Seq(S) /\ SubSeq(s, n + 1, Len(s)) \in Seq(S)
                      /\ Len(SubSeq(s, 1, n)) = n
                      /\ SubSeq(s, 1, n) \o SubSeq(s, n + 1, Len(s)) = s
    OBVIOUS
  <1>1. Len(s) \in Nat /\ \A i \in 1..Len(s) : s[i] \in S
    OBVIOUS
  <1>2. SubSeq(s, 1, n) \in Seq(S) /\ Len(SubSeq(s, 1, n)) = n
    BY <1>1, SubSeqProperties
  <1>3. SubSeq(s, n + 1, Len(s)) \in Seq(S)
    BY <1>1, SubSeqProperties
  <1>4. SubSeq(s, 1, n) \o SubSeq(s, n + 1, Len(s)) = SubSeq(s, 1, Len(s))
    <2>1. 1 \in 1..(Len(s) + 1) /\ n \in (1 - 1)..Len(s) /\ Len(s) \in n..Len(s)
      BY <1>1
    <2> QED
      BY <2>1, ConcatAdjacentSubSeq
  <1> QED
    BY <1>2, <1>3, <1>4, SubSeqFull

----------------------------------------------------------------------------
(* What the steps do to what is under way. *)

LEMMA PipelineTypes ==
    ASSUME SepackTypes
    PROVE  /\ Coming \in Seq(AMessage) /\ Pipeline \in Seq(AMessage)
           /\ Replies(Pipeline) \in Seq(Nat) /\ Under \in Seq(Nat)
           /\ inbox = <<>> => Pipeline = Coming
           /\ batch # <<>> => Coming # <<>> /\ Head(Coming) = Head(batch)
  <1>1. Coming \in Seq(AMessage)
    BY DEF SepackTypes, Coming
  <1>2. Pipeline \in Seq(AMessage)
    BY <1>1 DEF SepackTypes, Pipeline
  <1>3. Replies(Pipeline) \in Seq(Nat)
    BY <1>2, RepliesType
  <1>4. Under \in Seq(Nat)
    BY <1>3 DEF SepackTypes, Under
  <1>5. inbox = <<>> => Pipeline = Coming
    BY <1>1, ConcatEmptySeq DEF Pipeline
  <1>6. batch # <<>> => Coming # <<>> /\ Head(Coming) = Head(batch)
    BY TailOfConcat DEF SepackTypes, Coming
  <1> QED
    BY <1>1, <1>2, <1>3, <1>4, <1>5, <1>6

\* The enumerator of a connection runs until the next one.
LEMMA CurrentThread ==
    ASSUME SepackTypes, Roles
    PROVE  /\ Enumerators \subseteq Nat \ {0} /\ Enumerators \subseteq Threads
           /\ Users \subseteq Threads /\ Users \cap Enumerators = {}
           /\ connection = 0 => Current = "idle"
           /\ connection # 0 => connection \in Enumerators /\ Current = doing[connection]
           /\ \A k \in Enumerators : doing[k] \notin {"idle", "done"} =>
                 k = connection /\ Current = doing[k]
           /\ Current # "waiting"
  BY SepackParameters DEF SepackTypes, Roles, Enumerators, Threads, Current

\* Messages are sent by the helper.
LEMMA SentOut ==
    ASSUME SepackTypes, NEW m \in AMessage, Sends(m)
    PROVE  /\ Coming' = Append(Coming, m) /\ wire' \in Seq(AMessage)
           /\ Pipeline' = Append(Pipeline, m)
           /\ Replies(Pipeline') = IF m.kind = "reply" THEN Append(Replies(Pipeline), m.request)
                                   ELSE Replies(Pipeline)
  <1>1. Coming' = Append(Coming, m)
    BY AppendToConcat DEF Sends, SepackTypes, Coming, loopVars
  <1>2. Pipeline' = Append(Pipeline, m)
    <2>1. Coming \in Seq(AMessage)
      BY PipelineTypes
    <2>2. inbox' = inbox /\ inbox \in Seq(AMessage)
      BY DEF Sends, loopVars, SepackTypes
    <2> QED
      BY <1>1, <2>1, <2>2, AppendToConcat DEF Pipeline
  <1>3. wire' \in Seq(AMessage)
    BY DEF Sends, SepackTypes
  <1> QED
    BY <1>1, <1>2, <1>3, PipelineTypes, RepliesAppend

\* A message of the batch is handled.
LEMMA Taken ==
    ASSUME SepackTypes, batch # <<>>, batch' = Tail(batch), wire' = wire
    PROVE  /\ Coming # <<>> /\ Coming' = Tail(Coming) /\ Head(Coming) = Head(batch)
           /\ Head(batch) \in AMessage /\ batch' \in Seq(AMessage)
           /\ Len(Coming) \in Nat /\ Len(Coming) > 0 /\ Coming[1] = Head(batch)
           /\ Len(Coming') = Len(Coming) - 1
           /\ \A i \in 1..(Len(Coming) - 1) : Coming'[i] = Coming[i + 1]
           /\ Len(batch') = Len(batch) - 1
           /\ \A i \in 1..(Len(batch) - 1) : batch'[i] = batch[i + 1]
  <1>1. batch \in Seq(AMessage) /\ wire \in Seq(AMessage) /\ Coming \in Seq(AMessage)
    BY PipelineTypes DEF SepackTypes
  <1>2. Coming # <<>> /\ Head(Coming) = Head(batch) /\ Coming' = Tail(Coming)
    BY <1>1, TailOfConcat DEF Coming
  <1> QED
    BY <1>1, <1>2, HeadIsFirst

LEMMA HandedOver ==
    ASSUME SepackTypes, batch # <<>>, batch' = Tail(batch), wire' = wire,
           inbox' = Append(inbox, Head(batch))
    PROVE  Pipeline' = Pipeline /\ inbox' \in Seq(AMessage)
  <1>1. Coming # <<>> /\ Coming' = Tail(Coming) /\ Head(Coming) = Head(batch)
        /\ Head(batch) \in AMessage
    BY Taken
  <1>2. Coming \in Seq(AMessage) /\ inbox \in Seq(AMessage)
    BY PipelineTypes DEF SepackTypes
  <1> QED
    BY <1>1, <1>2, MoveOver DEF Pipeline

\* A packet is taken from inbox.
LEMMA PacketTaken ==
    ASSUME SepackTypes, inbox # <<>>, inbox' = Tail(inbox), batch' = batch, wire' = wire
    PROVE  /\ Replies(Pipeline) = One(Head(inbox)) \o Replies(Pipeline')
           /\ Pipeline' \in Seq(AMessage) /\ Coming' = Coming
           /\ Head(inbox) \in AMessage /\ inbox' \in Seq(AMessage)
           /\ Len(inbox) \in Nat /\ Len(inbox) > 0 /\ Head(inbox) = inbox[1]
           /\ Len(inbox') = Len(inbox) - 1
           /\ \A i \in 1..(Len(inbox) - 1) : inbox'[i] = inbox[i + 1]
  <1>1. Coming \in Seq(AMessage) /\ inbox \in Seq(AMessage) /\ Pipeline \in Seq(AMessage)
    BY PipelineTypes DEF SepackTypes
  <1>2. Coming' = Coming
    BY DEF Coming
  <1>3. Pipeline # <<>> /\ Head(Pipeline) = Head(inbox) /\ Pipeline' = Tail(Pipeline)
    BY <1>1, <1>2, TailOfConcat DEF Pipeline
  <1>4. Replies(Pipeline) = One(Head(Pipeline)) \o Replies(Tail(Pipeline))
    BY <1>1, <1>3, RepliesTail
  <1>5. Tail(Pipeline) \in Seq(AMessage)
    BY <1>1, <1>3, HeadIsFirst
  <1> QED
    BY <1>1, <1>2, <1>3, <1>4, <1>5, HeadIsFirst

----------------------------------------------------------------------------
(* Each action keeps the invariant. *)

LEMMA NilIsNone == Nil # TRUE /\ Nil # FALSE /\ Nil \notin Seq(Nat)
  <1>1. Nil \notin BOOLEAN /\ Nil \notin Seq(Nat)
    BY SepackParameters
  <1> QED
    BY <1>1

LEMMA SepackStart == Init => SepackInv
  <1> SUFFICES ASSUME Init PROVE SepackInv
    OBVIOUS
  <1> USE DEF Init
  <1>1. Current = "idle" /\ Coming = <<>> /\ Pipeline = <<>>
    BY DEF Current, Coming, Pipeline
  <1>2. Under = <<>>
    BY <1>1, RepliesEmpty DEF Under
  <1>3. SepackTypes
    <2>1. <<>> \in Seq(AMessage) /\ <<>> \in Seq(Nat) /\ 0 \in 0..MaxConnections
      BY SepackParameters
    <2>2. /\ doing \in [Threads -> {"idle", "waiting", "starting", "naming", "named", "setup",
                                    "finishing", "done"}]
          /\ asking \in [Threads -> Nat]
      OBVIOUS
    <2> QED
      BY <2>1, <2>2 DEF SepackTypes
  <1>4. \A t \in Threads : doing[t] = "idle" /\ ~Waiting(t)
    BY DEF Waiting
  <1>5. Users \subseteq Threads /\ Enumerators \subseteq Threads
    BY DEF Threads
  <1>6. Roles
    BY <1>4, <1>5 DEF Roles
  <1>7. Stages /\ Noticed /\ Announced
    <2>1. Stages
      BY <1>1, NilIsNone DEF Stages
    <2>2. Noticed
      BY <1>1 DEF Noticed
    <2> QED
      BY <1>1, <2>1, <2>2 DEF Announced
  <1>8. Ordered /\ Numbered /\ Listed /\ Unmixed
    BY <1>2, <1>4 DEF Ordered, Numbered, Listed, Unmixed
  <1> QED
    BY <1>3, <1>6, <1>7, <1>8 DEF SepackInv

\* What the helper sends does not concern the threads yet.
LEMMA HelperKeeps ==
    ASSUME SepackInv, UNCHANGED <<connection, statusVars, loopVars, stateVars, requestVars, mixed>>,
           link # "none", link' \in {"searching", "plugged", "gone"},
           Current \notin {"idle", "done"} => link' = "plugged",
           Current = "done" => link' \in {"plugged", "gone"},
           Current = "idle" /\ status = "connect" => link' = "plugged"
    PROVE  /\ Current' = Current /\ Roles' /\ Stages' /\ Noticed' /\ Numbered' /\ Listed'
           /\ Unmixed'
  <1> USE DEF SepackInv, statusVars, loopVars, stateVars, requestVars
  <1>1. Current' = Current
    BY DEF Current
  <1>2. Roles'
    BY DEF Roles
  <1>3. Stages'
    BY <1>1 DEF Stages, SepackTypes
  <1>4. Noticed'
    BY <1>1 DEF Noticed
  <1>5. Numbered' /\ Listed'
    BY DEF Numbered, Listed, Waiting
  <1> QED
    BY <1>1, <1>2, <1>3, <1>4, <1>5 DEF Unmixed

LEMMA NoDeviceKeeps == ASSUME SepackInv, NoDevice PROVE SepackInv'
  <1> DEFINE m == Message("coldplug-end")
  <1> USE DEF SepackInv
  <1>1. m \in AMessage /\ m.kind = "coldplug-end"
    BY DEF Message, AMessage
  <1> HIDE DEF m
  <1>2. Sends(m) /\ link = "connected" /\ link' = "searching" /\ device' = device
    BY DEF NoDevice, m
  <1>3. /\ Coming' = Append(Coming, m) /\ wire' \in Seq(AMessage)
        /\ Replies(Pipeline') = Replies(Pipeline)
    BY <1>1, <1>2, SentOut
  <1>4. UNCHANGED <<connection, statusVars, loopVars, stateVars, requestVars, mixed>>
    BY <1>2 DEF Sends
  <1>5. Current = "idle" /\ status = "true" /\ Coming = <<>>
    BY <1>2, CurrentThread DEF Stages, Noticed, Announced, SepackTypes, Roles
  <1>6. /\ Current' = Current /\ Roles' /\ Stages' /\ Noticed' /\ Numbered' /\ Listed'
        /\ Unmixed'
    BY <1>2, <1>4, <1>5, HelperKeeps
  <1>7. SepackTypes'
    BY <1>2, <1>3, <1>4 DEF SepackTypes, statusVars, loopVars, stateVars, requestVars
  <1>8. Announced'
    <2>1. Len(Coming') = 1 /\ Coming'[1] = m
      BY <1>1, <1>3, <1>5
    <2> QED
      BY <1>1, <1>2, <1>4, <1>5, <2>1 DEF Announced, statusVars
  <1>9. Ordered'
    BY <1>2, <1>3, <1>4 DEF Ordered, Under, requestVars
  <1> QED
    BY <1>6, <1>7, <1>8, <1>9

LEMMA PlugKeeps == ASSUME SepackInv, Plug PROVE SepackInv'
  <1> DEFINE m == Message("connect")
  <1> USE DEF SepackInv
  <1>1. m \in AMessage /\ m.kind = "connect"
    BY DEF Message, AMessage
  <1> HIDE DEF m
  <1>2. Sends(m) /\ link \in {"connected", "searching"} /\ link' = "plugged" /\ device' = device
    BY DEF Plug, m
  <1>3. /\ Coming' = Append(Coming, m) /\ wire' \in Seq(AMessage)
        /\ Replies(Pipeline') = Replies(Pipeline)
    BY <1>1, <1>2, SentOut
  <1>4. UNCHANGED <<connection, statusVars, loopVars, stateVars, requestVars, mixed>>
    BY <1>2 DEF Sends
  <1>5. Current = "idle" /\ status # "connect" /\ reply_chns = Nil
    BY <1>2, CurrentThread DEF Stages, Noticed, SepackTypes, Roles
  <1>6. /\ Current' = Current /\ Roles' /\ Stages' /\ Noticed' /\ Numbered' /\ Listed'
        /\ Unmixed'
    BY <1>2, <1>4, <1>5, HelperKeeps
  <1>7. SepackTypes'
    BY <1>2, <1>3, <1>4 DEF SepackTypes, statusVars, loopVars, stateVars, requestVars
  <1>8. Announced'
    <2>1. Coming \in Seq(AMessage)
      BY PipelineTypes
    <2>2. /\ Len(Coming') = Len(Coming) + 1 /\ Coming'[Len(Coming) + 1] = m /\ Len(Coming) \in Nat
          /\ \A i \in 1..Len(Coming) : Coming'[i] = Coming[i] /\ Coming[i] \in AMessage
      BY <1>1, <1>3, <2>1, AppendProperties, ElementOfSeq, LenProperties
    <2>3. \A i \in 1..Len(Coming) : Coming[i].kind = "coldplug-end" /\ i = 1 /\ status = "true"
      <3> TAKE i \in 1..Len(Coming)
      <3> DEFINE nth == Coming[i]
      <3>1. nth.kind \in {"coldplug-end", "connect", "reply", "data", "eof"}
        BY <2>2 DEF AMessage
      <3>2. /\ nth.kind = "coldplug-end" => i = 1 /\ status = "true"
            /\ nth.kind # "connect" /\ nth.kind # "eof"
            /\ nth.kind \in {"reply", "data"} =>
                  \E j \in 1..(i - 1) : Coming[j].kind = "connect"
        BY <1>2, <1>5 DEF Announced
      <3>3. \A j \in 1..(i - 1) : Coming[j].kind # "connect"
        BY <1>2, <2>2 DEF Announced
      <3> QED
        BY <3>1, <3>2, <3>3
    <2> QED
      BY <1>1, <1>2, <1>4, <1>5, <1>6, <2>2, <2>3 DEF Announced, statusVars
  <1>9. Ordered'
    BY <1>2, <1>3, <1>4, <1>5 DEF Ordered, Under, requestVars
  <1> QED
    BY <1>6, <1>7, <1>8, <1>9

\* One more message at the end.
LEMMA AnnouncedMore ==
    ASSUME SepackInv, NEW m \in AMessage, Sends(m), Current' = Current,
           m.kind \in {"reply", "data"}, link = "plugged", link' = "plugged"
    PROVE  Announced'
  <1> USE DEF SepackInv
  <1>1. Coming' = Append(Coming, m) /\ Coming \in Seq(AMessage)
    BY SentOut, PipelineTypes
  <1>2. /\ Len(Coming') = Len(Coming) + 1 /\ Coming'[Len(Coming) + 1] = m /\ Len(Coming) \in Nat
        /\ \A i \in 1..Len(Coming) : Coming'[i] = Coming[i]
    BY <1>1, AppendProperties, LenProperties
  <1>3. status' = status
    BY DEF Sends, statusVars
  <1>4. Current = "idle" /\ status # "connect" =>
           \E j \in 1..Len(Coming) : Coming'[j].kind = "connect"
    BY <1>2 DEF Announced
  <1>5. \A i \in 1..Len(Coming) : Coming[i].kind # "eof"
    BY DEF Announced
  <1>6. ASSUME NEW i \in 1..Len(Coming') PROVE
          /\ Coming'[i].kind = "coldplug-end" => i = 1 /\ status' = "true"
          /\ Coming'[i].kind = "connect" =>
                /\ link' = "plugged" /\ Current' = "idle" /\ status' # "connect"
                /\ \A j \in 1..(i - 1) : Coming'[j].kind = "coldplug-end"
          /\ Coming'[i].kind = "eof" => i = Len(Coming') /\ link' = "gone"
          /\ Coming'[i].kind \in {"reply", "data"} /\ Current' = "idle" /\ status' # "connect" =>
                \E j \in 1..(i - 1) : Coming'[j].kind = "connect"
    <2>1. CASE i = Len(Coming) + 1
      BY <1>2, <1>3, <1>4, <2>1
    <2>2. CASE i # Len(Coming) + 1
      <3>1. i \in 1..Len(Coming) /\ Coming'[i] = Coming[i]
            /\ \A j \in 1..(i - 1) : j \in 1..Len(Coming) /\ Coming'[j] = Coming[j]
        BY <1>2, <2>2
      <3> QED
        BY <1>3, <1>5, <3>1 DEF Announced
    <2> QED
      BY <2>1, <2>2
  <1>7. link' = "plugged" /\ Current' = "idle" /\ status' # "connect" =>
           \E i \in 1..Len(Coming') : Coming'[i].kind = "connect"
    BY <1>2, <1>3, <1>4
  <1> HIDE DEF SepackInv
  <1> QED
    BY <1>6, <1>7 DEF Announced

LEMMA ReplyKeeps == ASSUME SepackInv, Reply PROVE SepackInv'
  <1> DEFINE m == ReplyTo(Head(device))
  <1> USE DEF SepackInv
  <1>0. device # <<>> /\ link = "plugged" /\ device \in Seq(Nat)
    BY DEF Reply, Ordered, SepackTypes
  <1>a. Head(device) \in Nat /\ Tail(device) \in Seq(Nat) /\ device = <<Head(device)>> \o Tail(device)
    BY <1>0, HeadIsFirst
  <1>1. m \in AMessage /\ m.kind = "reply" /\ m.request = Head(device)
    BY <1>a DEF ReplyTo, AMessage
  <1> HIDE DEF m
  <1>2. Sends(m) /\ link' = link /\ device' = Tail(device)
    BY DEF Reply, m
  <1>3. /\ wire' \in Seq(AMessage)
        /\ Replies(Pipeline') = Append(Replies(Pipeline), m.request)
    BY <1>1, <1>2, SentOut
  <1>4. UNCHANGED <<connection, statusVars, loopVars, stateVars, requestVars, mixed>>
    BY <1>2 DEF Sends
  <1>6. /\ Current' = Current /\ Roles' /\ Stages' /\ Noticed' /\ Numbered' /\ Listed'
        /\ Unmixed'
    BY <1>0, <1>2, <1>4, HelperKeeps
  <1>7. SepackTypes'
    BY <1>a, <1>2, <1>3, <1>4 DEF SepackTypes, statusVars, loopVars, stateVars, requestVars
  <1>8. Announced'
    BY <1>0, <1>1, <1>2, <1>6, AnnouncedMore
  <1>9. Under' = Under
    BY <1>0, <1>1, <1>2, <1>3, MoveOver, PipelineTypes DEF Under
  <1>10. Ordered'
    BY <1>0, <1>2, <1>4, <1>9 DEF Ordered, requestVars
  <1> QED
    BY <1>6, <1>7, <1>8, <1>10

LEMMA DataKeeps == ASSUME SepackInv, Data PROVE SepackInv'
  <1> DEFINE m == Message("data")
  <1> USE DEF SepackInv
  <1>1. m \in AMessage /\ m.kind = "data"
    BY DEF Message, AMessage
  <1> HIDE DEF m
  <1>2. Sends(m) /\ link = "plugged" /\ link' = link /\ device' = device
    BY DEF Data, m
  <1>3. wire' \in Seq(AMessage) /\ Replies(Pipeline') = Replies(Pipeline)
    BY <1>1, <1>2, SentOut
  <1>4. UNCHANGED <<connection, statusVars, loopVars, stateVars, requestVars, mixed>>
    BY <1>2 DEF Sends
  <1>6. /\ Current' = Current /\ Roles' /\ Stages' /\ Noticed' /\ Numbered' /\ Listed'
        /\ Unmixed'
    BY <1>2, <1>4, HelperKeeps
  <1>7. SepackTypes'
    BY <1>2, <1>3, <1>4 DEF SepackTypes, statusVars, loopVars, stateVars, requestVars
  <1>8. Announced'
    BY <1>1, <1>2, <1>6, AnnouncedMore
  <1>9. Ordered'
    BY <1>2, <1>3, <1>4 DEF Ordered, Under, requestVars
  <1> QED
    BY <1>6, <1>7, <1>8, <1>9

LEMMA UnplugKeeps == ASSUME ~Unpluggable, SepackInv, Unplug PROVE SepackInv'
  <1> DEFINE m == Message("eof")
  <1> USE DEF SepackInv
  <1>1. m \in AMessage /\ m.kind = "eof"
    BY DEF Message, AMessage
  <1> HIDE DEF m
  <1>2. /\ Sends(m) /\ link \in {"connected", "searching", "plugged"} /\ link' = "gone"
        /\ device' = <<>>
        /\ link = "plugged" => connected = TRUE
    BY DEF Unplug, m
  <1>3. /\ Coming' = Append(Coming, m) /\ wire' \in Seq(AMessage)
        /\ Replies(Pipeline') = Replies(Pipeline)
    BY <1>1, <1>2, SentOut
  <1>4. UNCHANGED <<connection, statusVars, loopVars, stateVars, requestVars, mixed>>
    BY <1>2 DEF Sends
  <1>5. Current \in {"idle", "done"} /\ (Current = "idle" => link # "plugged")
        /\ (link = "plugged" => Current = "done")
    BY <1>2, CurrentThread DEF Stages, SepackTypes, Roles
  <1>6. /\ Current' = Current /\ Roles' /\ Stages' /\ Noticed' /\ Numbered' /\ Listed'
        /\ Unmixed'
    <2>1. Current = "idle" => status # "connect"
      BY <1>5 DEF Noticed
    <2> QED
      BY <1>2, <1>4, <1>5, <2>1, HelperKeeps
  <1>7. SepackTypes'
    <2>1. device' \in Seq(Nat)
      BY <1>2, EmptySeq
    <2> QED
      BY <1>2, <1>3, <1>4, <2>1 DEF SepackTypes, statusVars, loopVars, stateVars, requestVars
  <1>8. Announced'
    <2>1. Coming \in Seq(AMessage)
      BY PipelineTypes
    <2>2. /\ Len(Coming') = Len(Coming) + 1 /\ Coming'[Len(Coming) + 1] = m /\ Len(Coming) \in Nat
          /\ \A i \in 1..Len(Coming) : Coming'[i] = Coming[i]
      BY <1>1, <1>3, <2>1, AppendProperties, LenProperties
    <2>3. \A i \in 1..Len(Coming) : Coming[i].kind \notin {"eof", "connect"}
      BY <1>2, <1>5 DEF Announced
    <2>4. status' = status
      BY <1>4 DEF statusVars
    <2>5. Current = "idle" /\ status # "connect" =>
             \A i \in 1..Len(Coming) : Coming[i].kind \notin {"reply", "data"}
      <3> SUFFICES ASSUME Current = "idle", status # "connect", NEW i \in 1..Len(Coming),
                          Coming[i].kind \in {"reply", "data"}
                   PROVE  FALSE
        OBVIOUS
      <3>1. PICK j \in 1..(i - 1) : Coming[j].kind = "connect"
        BY DEF Announced
      <3> QED
        BY <2>2, <2>3, <3>1
    <2> QED
      BY <1>1, <1>2, <1>6, <2>2, <2>3, <2>4, <2>5 DEF Announced
  <1>9. Ordered'
    <2>1. reply_chns = Nil => Under = <<>> /\ outbox = <<>>
      BY <1>2 DEF Ordered
    <2>a. Replies(Pipeline) \in Seq(Nat) /\ device \in Seq(Nat)
      BY PipelineTypes DEF SepackTypes
    <2>b. Under' = Replies(Pipeline) \o <<>>
      BY <1>2, <1>3 DEF Under
    <2>2. Under = Replies(Pipeline) \o device /\ Under' = Replies(Pipeline)
      BY <2>a, <2>b, ConcatEmptySeq DEF Under
    <2>3. Under = <<>> => Under' = <<>>
      <3> DEFINE r == Replies(Pipeline)
                 d == device
      <3>1. r \in Seq(Nat) /\ d \in Seq(Nat)
        BY <2>a
      <3> HIDE DEF r, d
      <3>2. r \o d = <<>> => r = <<>>
        BY <3>1, ConcatSimplifications
      <3> QED
        BY <2>2, <3>2 DEF r, d
    <2>4. ASSUME reply_chns # Nil PROVE \E gone \in Seq(Nat) : reply_chns = Under' \o gone
      <3>1. PICK gone \in Seq(Nat) : reply_chns = Under \o gone
        BY <2>4 DEF Ordered
      <3>2. device \o gone \in Seq(Nat)
        BY <2>a, ConcatProperties
      <3>3. reply_chns = Replies(Pipeline) \o (device \o gone)
        <4> DEFINE r == Replies(Pipeline)
                   d == device
        <4>1. r \in Seq(Nat) /\ d \in Seq(Nat)
          BY <2>a
        <4> HIDE DEF r, d, SepackInv
        <4>2. (r \o d) \o gone = r \o (d \o gone)
          BY <4>1, ThreeParts
        <4> USE DEF r, d
        <4> QED
          BY <2>2, <3>1, <4>2, Zenon
      <3> QED
        BY <2>2, <3>2, <3>3
    <2> QED
      BY <1>2, <1>4, <2>1, <2>3, <2>4 DEF Ordered, requestVars
  <1> QED
    BY <1>6, <1>7, <1>8, <1>9

LEMMA LaunchKeeps == ASSUME SepackInv, Launch PROVE SepackInv'
  <1> USE DEF SepackInv
  <1>1. /\ LoopRuns /\ link = "none" /\ link' = "started"
        /\ connection < MaxConnections /\ connection' = connection + 1
        /\ UNCHANGED <<wire, device, statusVars, loopVars, stateVars, requestVars, mixed>>
    BY DEF Launch
  <1>2. batch = <<>> /\ inbox = <<>> /\ outbox = <<>> /\ ~awake /\ ~dirty
    BY <1>1 DEF LoopRuns, AllWait
  <1> USE DEF statusVars, loopVars, stateVars, requestVars
  <1>3. Current \in {"idle", "done"} /\ reply_chns = Nil /\ connected # TRUE /\ status = "false"
    BY <1>1, <1>2, CurrentThread DEF Stages, Noticed, SepackTypes, Roles
  <1>4. Current' = "idle"
    <2>1. connection' \in Enumerators /\ connection' > connection /\ connection' # 0
      BY <1>1, SepackParameters DEF SepackTypes, Enumerators
    <2>2. doing[connection'] = "idle"
      BY <2>1 DEF Roles
    <2> QED
      BY <1>1, <2>1, <2>2 DEF Current
  <1>5. SepackTypes'
    <2>1. connection' \in 0..MaxConnections
      BY <1>1, SepackParameters DEF SepackTypes
    <2>2. UNCHANGED <<reply_chns, doing, asking, asked, coldplug, connected, wire, device, batch,
                      inbox, outbox, awake, status, changed, dirty>> /\ link' = "started"
      BY <1>1
    <2> QED
      BY <2>1, <2>2 DEF SepackTypes
  <1>6. Roles'
    <2>1. \A u \in Users : doing'[u] \in {"idle", "waiting"}
      BY <1>1 DEF Roles
    <2>2. connection \in Nat /\ connection' \in Nat /\ connection' > 0
      BY <1>1, SepackParameters DEF SepackTypes
    <2>3. ASSUME NEW k \in Enumerators
          PROVE  /\ doing'[k] # "waiting"
                 /\ k > connection' => doing'[k] = "idle"
                 /\ k < connection' => doing'[k] \in {"idle", "done"}
                 /\ coldplug' => doing'[k] = "idle"
      <3>1. k \in Nat /\ doing' = doing /\ coldplug' = coldplug
        BY <1>1 DEF Enumerators
      <3>2. k = connection => doing[k] \in {"idle", "done"}
        BY <1>3, CurrentThread
      <3>3. k < connection' => k < connection \/ k = connection
        BY <1>1, <2>2, <3>1
      <3>4. k > connection' => k > connection
        BY <1>1, <2>2, <3>1
      <3> QED
        BY <3>1, <3>2, <3>3, <3>4 DEF Roles
    <2> QED
      BY <2>1, <2>2, <2>3 DEF Roles
  <1>7. Stages'
    BY <1>1, <1>3, <1>4 DEF Stages
  <1>8. Noticed'
    BY <1>1, <1>2, <1>3, <1>4 DEF Noticed
  <1>9. Coming' = Coming /\ Coming = <<>> /\ Pipeline' = Pipeline /\ Under' = Under
    BY <1>1 DEF Coming, Pipeline, Under, Announced
  <1>10. Announced'
    BY <1>1, <1>9 DEF Announced
  <1>11. Ordered'
    <2>1. Pipeline = <<>>
      BY <1>2, <1>9, PipelineTypes
    <2>2. Under = <<>>
      BY <1>1, <2>1, RepliesEmpty DEF Under, Ordered
    <2> QED
      BY <1>1, <1>2, <1>3, <1>9, <2>2 DEF Ordered
  <1>12. Numbered' /\ Listed' /\ Unmixed'
    BY <1>1 DEF Numbered, Listed, Unmixed, Waiting
  <1> QED
    BY <1>5, <1>6, <1>7, <1>8, <1>10, <1>11, <1>12

LEMMA AcceptKeeps == ASSUME SepackInv, Accept PROVE SepackInv'
  <1> USE DEF SepackInv
  <1>1. /\ LoopRuns /\ link = "started" /\ link' = "connected" /\ SetStatus("true")
        /\ UNCHANGED <<connection, wire, device, loopVars, stateVars, requestVars, mixed>>
    BY DEF Accept
  <1>2. batch = <<>> /\ inbox = <<>> /\ ~awake /\ ~dirty
    BY <1>1 DEF LoopRuns, AllWait
  <1> USE DEF loopVars, stateVars, requestVars
  <1>3. status' = "true" /\ dirty' = TRUE /\ changed' = TRUE
    BY <1>1, <1>2 DEF SetStatus, Noticed
  <1>4. Current = "idle" /\ Current' = Current
    <2>1. Current = "idle"
      BY <1>1, CurrentThread DEF Stages, SepackTypes, Roles
    <2> QED
      BY <1>1, <2>1 DEF Current
  <1>5. SepackTypes' /\ Roles'
    BY <1>1, <1>3 DEF SepackTypes, Roles
  <1>7. Stages'
    BY <1>1, <1>4 DEF Stages
  <1>8. Noticed'
    BY <1>1, <1>2, <1>3, <1>4 DEF Noticed
  <1>9. Coming' = Coming /\ Coming = <<>> /\ Pipeline' = Pipeline /\ Under' = Under
    BY <1>1 DEF Coming, Pipeline, Under, Announced
  <1>10. Announced' /\ Ordered'
    BY <1>1, <1>9 DEF Announced, Ordered
  <1>12. Numbered' /\ Listed' /\ Unmixed'
    BY <1>1 DEF Numbered, Listed, Unmixed, Waiting
  <1> QED
    BY <1>5, <1>7, <1>8, <1>10, <1>12

LEMMA ReadBatchKeeps == ASSUME SepackInv, ReadBatch PROVE SepackInv'
  <1> USE DEF SepackInv
  <1>1. /\ LoopRuns
        /\ UNCHANGED <<link, connection, device, statusVars, inbox, awake, stateVars, requestVars,
                       mixed>>
    BY DEF ReadBatch
  <1>2. batch = <<>> /\ inbox = <<>> /\ ~awake /\ ~dirty
    BY <1>1 DEF LoopRuns, AllWait
  <1>3. /\ batch' \in Seq(AMessage) /\ wire' \in Seq(AMessage) /\ Coming' = Coming
        /\ batch' # <<>>
    <2>1. wire \in Seq(AMessage)
      BY DEF SepackTypes
    <2>2. PICK n \in 1..Len(wire) : /\ batch' = SubSeq(wire, 1, n)
                                    /\ wire' = SubSeq(wire, n + 1, Len(wire))
      BY DEF ReadBatch
    <2>3. /\ batch' \in Seq(AMessage) /\ wire' \in Seq(AMessage)
          /\ Len(batch') = n /\ batch' \o wire' = wire
      BY <2>1, <2>2, SplitInTwo
    <2>4. Coming = wire
      BY <1>2, <2>1, ConcatEmptySeq DEF Coming
    <2> QED
      BY <2>3, <2>4 DEF Coming
  <1> USE DEF statusVars, stateVars, requestVars
  <1>4. Current' = Current /\ Pipeline' = Pipeline /\ Under' = Under
    BY <1>1, <1>3 DEF Current, Pipeline, Under
  <1>5. SepackTypes'
    BY <1>1, <1>3 DEF SepackTypes
  <1>6. Roles'
    BY <1>1 DEF Roles
  <1>7. Stages'
    BY <1>1, <1>4 DEF Stages
  <1>8. Noticed'
    BY <1>1, <1>2, <1>4 DEF Noticed
  <1>10. Announced'
    BY <1>1, <1>3, <1>4 DEF Announced
  <1>11. Ordered'
    BY <1>1, <1>4 DEF Ordered
  <1>12. Numbered' /\ Listed' /\ Unmixed'
    BY <1>1 DEF Numbered, Listed, Unmixed, Waiting
  <1> QED
    BY <1>5, <1>6, <1>7, <1>8, <1>10, <1>11, <1>12

LEMMA StatusSet ==
    ASSUME SepackTypes, NEW s, SetStatus(s)
    PROVE  /\ status' = s /\ changed' \in BOOLEAN /\ dirty' \in BOOLEAN
           /\ s # status => dirty' = TRUE
           /\ s # status /\ ~dirty => changed' = TRUE
           /\ (dirty => changed) => (dirty' => changed')
           /\ dirty => changed' = changed
  <1>1. CASE s # status /\ ~dirty
    BY <1>1 DEF SetStatus, SepackTypes
  <1>2. CASE ~(s # status /\ ~dirty)
    BY <1>2 DEF SetStatus, SepackTypes
  <1> QED
    BY <1>1, <1>2

\* A message is only handled once the device was announced, and a change of the status when
\* Sepack's loop waits.
LEMMA PacketHandled ==
    ASSUME SepackInv, HandleMessage, Head(batch).kind \in {"reply", "data"}
    PROVE  SepackInv'
  <1> DEFINE m == Head(batch)
  <1> USE DEF SepackInv, statusVars, stateVars, requestVars
  <1>1. /\ batch # <<>> /\ batch' = Tail(batch) /\ inbox' = Append(inbox, m)
        /\ UNCHANGED <<connection, link, wire, device, statusVars, awake, stateVars, requestVars,
                       mixed>>
    BY DEF HandleMessage
  <1>2. /\ Coming # <<>> /\ Len(Coming) \in Nat /\ Len(Coming) > 0 /\ Coming[1] = m
        /\ m \in AMessage /\ batch' \in Seq(AMessage)
        /\ Len(Coming') = Len(Coming) - 1
        /\ \A i \in 1..(Len(Coming) - 1) : Coming'[i] = Coming[i + 1]
        /\ Len(batch') = Len(batch) - 1
        /\ \A i \in 1..(Len(batch) - 1) : batch'[i] = batch[i + 1]
    BY <1>1, Taken
  <1>3. Pipeline' = Pipeline /\ inbox' \in Seq(AMessage)
    BY <1>1, HandedOver
  <1>4. Current' = Current /\ Under' = Under
    BY <1>1, <1>3 DEF Current, Under
  <1>5. Current # "idle" \/ status = "connect"
    <2>1. 1 \in 1..Len(Coming) /\ 1..(1 - 1) = {}
      BY <1>2
    <2> QED
      BY <1>2, <2>1 DEF Announced
  <1>6. SepackTypes'
    BY <1>1, <1>2, <1>3 DEF SepackTypes
  <1>7. Roles'
    BY <1>1 DEF Roles
  <1>8. Stages'
    BY <1>1, <1>4 DEF Stages
  <1>9. Noticed'
    <2>1. link # "none"
      BY <1>2 DEF Announced
    <2>2. ASSUME Current # "idle", dirty
          PROVE  /\ \A i \in 1..Len(inbox') : inbox'[i].kind # "reply"
                 /\ \A i \in 1..Len(batch') : batch'[i].kind # "reply"
      <3>1. /\ \A i \in 1..Len(inbox) : inbox[i].kind # "reply"
            /\ \A i \in 1..Len(batch) : batch[i].kind # "reply"
        BY <2>1, <2>2 DEF Noticed
      <3>2. batch \in Seq(AMessage) /\ inbox \in Seq(AMessage)
        BY DEF SepackTypes
      <3>3. m = batch[1] /\ Len(batch) > 0 /\ Len(batch) \in Nat
        BY <1>1, <3>2, HeadIsFirst
      <3>4. m.kind # "reply"
        BY <3>1, <3>3
      <3>5. /\ Len(inbox') = Len(inbox) + 1 /\ inbox'[Len(inbox) + 1] = m /\ Len(inbox) \in Nat
            /\ \A i \in 1..Len(inbox) : inbox'[i] = inbox[i]
        BY <1>1, <1>2, <3>2, AppendProperties, LenProperties
      <3> HIDE DEF m
      <3>6. ASSUME NEW i \in 1..Len(inbox') PROVE inbox'[i].kind # "reply"
        <4>1. CASE i = Len(inbox) + 1
          BY <3>4, <3>5, <4>1
        <4>2. CASE i # Len(inbox) + 1
          <5>1. i \in 1..Len(inbox)
            BY <3>5, <4>2
          <5> QED
            BY <3>1, <3>5, <5>1
        <4> QED
          BY <4>1, <4>2
      <3>7. ASSUME NEW i \in 1..Len(batch') PROVE batch'[i].kind # "reply"
        <4>1. i \in 1..(Len(batch) - 1) /\ i + 1 \in 1..Len(batch)
          BY <1>2, <3>3
        <4> QED
          BY <1>2, <3>1, <4>1
      <3> QED
        BY <3>6, <3>7
    <2>3. UNCHANGED <<status, changed, dirty, link, awake>>
      BY <1>1
    <2> QED
      BY <1>4, <1>5, <2>1, <2>2, <2>3 DEF Noticed
  <1>10. Announced'
    <2>1. link # "none" /\ link # "started" /\ link # "connected"
      BY <1>2 DEF Announced
    <2>2. ASSUME NEW i \in 1..Len(Coming')
          PROVE  /\ Coming'[i].kind # "coldplug-end" /\ Coming'[i].kind # "connect"
                 /\ Coming'[i].kind = "eof" => i = Len(Coming') /\ link = "gone"
      <3>1. /\ Coming'[i] = Coming[i + 1] /\ i + 1 \in 1..Len(Coming) /\ i + 1 # 1
            /\ 1 \in 1..((i + 1) - 1) /\ (i + 1 = Len(Coming) => i = Len(Coming'))
        BY <1>2
      <3>2. Coming[1].kind # "coldplug-end"
        BY <1>2
      <3> QED
        BY <3>1, <3>2 DEF Announced
    <2>3. link' = link /\ status' = status
      BY <1>1
    <2> QED
      BY <1>4, <1>5, <2>1, <2>2, <2>3 DEF Announced
  <1>11. Ordered'
    BY <1>1, <1>4 DEF Ordered
  <1>12. Numbered' /\ Listed' /\ Unmixed'
    BY <1>1 DEF Numbered, Listed, Unmixed, Waiting
  <1> QED
    BY <1>6, <1>7, <1>8, <1>9, <1>10, <1>11, <1>12

LEMMA NewsHandled ==
    ASSUME SepackInv, HandleMessage, Head(batch).kind \in {"connect", "coldplug-end"}
    PROVE  SepackInv'
  <1> DEFINE m == Head(batch)
  <1> USE DEF SepackInv, stateVars, requestVars
  <1>1. /\ batch # <<>> /\ batch' = Tail(batch) /\ inbox' = inbox /\ SetStatus(m.kind)
        /\ UNCHANGED <<connection, link, wire, device, awake, stateVars, requestVars, mixed>>
    BY DEF HandleMessage
  <1>2. /\ Coming # <<>> /\ Len(Coming) \in Nat /\ Len(Coming) > 0 /\ Coming[1] = m
        /\ m \in AMessage /\ batch' \in Seq(AMessage) /\ Coming' = Tail(Coming)
        /\ Head(Coming) = m
        /\ Len(Coming') = Len(Coming) - 1
        /\ \A i \in 1..(Len(Coming) - 1) : Coming'[i] = Coming[i + 1]
    BY <1>1, Taken
  <1>a. m.kind \in {"connect", "coldplug-end"}
    OBVIOUS
  <1> HIDE DEF m
  <1>3. link \notin {"none", "started", "connected"}
    BY <1>2 DEF Announced
  <1>4. /\ Current = "idle" /\ status # "connect" /\ m.kind # status
        /\ m.kind = "connect" => link = "plugged"
    <2>1. 1 \in 1..Len(Coming)
      BY <1>2
    <2>2. m.kind = "coldplug-end" => status = "true"
      BY <1>2, <2>1 DEF Announced
    <2>3. m.kind = "connect" => link = "plugged" /\ Current = "idle" /\ status # "connect"
      BY <1>2, <2>1 DEF Announced
    <2>4. status = "true" => Current = "idle"
      BY <1>3 DEF Noticed
    <2> QED
      BY <1>a, <2>2, <2>3, <2>4
  <1>5. inbox = <<>> /\ ~awake /\ (dirty => changed)
    BY <1>1, <1>4 DEF Noticed
  <1>6. /\ status' = m.kind /\ dirty' = TRUE /\ changed' = TRUE
    BY <1>1, <1>4, <1>5, StatusSet DEF SepackTypes
  <1>7. Current' = Current
    BY <1>1 DEF Current
  <1>8. SepackTypes'
    BY <1>1, <1>2, <1>a, <1>6 DEF SepackTypes
  <1>9. Roles'
    BY <1>1 DEF Roles
  <1>10. Stages'
    BY <1>1, <1>4, <1>7 DEF Stages
  <1>11. Noticed'
    BY <1>1, <1>a, <1>3, <1>4, <1>5, <1>6, <1>7 DEF Noticed
  <1>12. Announced'
    <2>1. ASSUME NEW i \in 1..Len(Coming')
          PROVE  /\ Coming'[i].kind # "coldplug-end"
                 /\ Coming'[i].kind = "connect" =>
                       /\ link = "plugged" /\ m.kind = "coldplug-end"
                       /\ \A j \in 1..(i - 1) : Coming'[j].kind = "coldplug-end"
                 /\ Coming'[i].kind = "eof" => i = Len(Coming') /\ link = "gone"
                 /\ Coming'[i].kind \in {"reply", "data"} /\ m.kind = "coldplug-end" =>
                       \E j \in 1..(i - 1) : Coming'[j].kind = "connect"
      <3> DEFINE n == Len(Coming)
      <3>a. n \in Nat /\ i \in 1..(n - 1) /\ Len(Coming') = n - 1
        BY <1>2
      <3>b. Coming'[i] = Coming[i + 1]
        BY <1>2, <3>a
      <3>1. /\ Coming'[i] = Coming[i + 1] /\ i + 1 \in 1..Len(Coming) /\ i + 1 # 1
            /\ 1 \in 1..((i + 1) - 1) /\ (i + 1 = Len(Coming) => i = Len(Coming'))
        <4> HIDE DEF n
        <4>1. i + 1 \in 1..n /\ i + 1 # 1 /\ 1 \in 1..((i + 1) - 1) /\ (i + 1 = n => i = n - 1)
          BY <3>a
        <4> QED
          BY <3>a, <3>b, <4>1, Zenon DEF n
      <3>2. Coming'[i].kind # "coldplug-end"
        BY <3>1 DEF Announced
      <3>3. ASSUME Coming'[i].kind = "connect"
            PROVE  /\ link = "plugged" /\ m.kind = "coldplug-end"
                   /\ \A j \in 1..(i - 1) : Coming'[j].kind = "coldplug-end"
        <4>1. link = "plugged" /\ \A j \in 1..((i + 1) - 1) : Coming[j].kind = "coldplug-end"
          BY <3>1, <3>3 DEF Announced
        <4>2. \A j \in 1..(i - 1) : Coming'[j] = Coming[j + 1] /\ j + 1 \in 1..((i + 1) - 1)
          BY <1>2
        <4> QED
          BY <1>2, <3>1, <4>1, <4>2
      <3>4. Coming'[i].kind = "eof" => i = Len(Coming') /\ link = "gone"
        BY <3>1 DEF Announced
      <3>5. ASSUME Coming'[i].kind \in {"reply", "data"}, m.kind = "coldplug-end"
            PROVE  \E j \in 1..(i - 1) : Coming'[j].kind = "connect"
        <4>1. PICK j \in 1..((i + 1) - 1) : Coming[j].kind = "connect"
          BY <1>4, <3>1, <3>5 DEF Announced
        <4>2. j # 1
          BY <1>2, <3>5, <4>1
        <4>3. j - 1 \in 1..(i - 1) /\ Coming'[j - 1] = Coming[j]
          BY <1>2, <4>2
        <4> QED
          BY <4>1, <4>3
      <3> QED
        BY <3>2, <3>3, <3>4, <3>5
    <2>2. ASSUME link = "plugged", m.kind = "coldplug-end"
          PROVE  \E i \in 1..Len(Coming') : Coming'[i].kind = "connect"
      <3>1. PICK j \in 1..Len(Coming) : Coming[j].kind = "connect"
        BY <1>4, <2>2 DEF Announced
      <3>2. j # 1
        BY <1>2, <2>2, <3>1
      <3>3. j - 1 \in 1..Len(Coming') /\ Coming'[j - 1] = Coming[j]
        BY <1>2, <3>2
      <3> QED
        BY <3>1, <3>3
    <2>3. link' = link /\ Current' = "idle" /\ status' = m.kind
      BY <1>1, <1>4, <1>6, <1>7
    <2> HIDE DEF SepackInv
    <2> QED
      BY <1>3, <1>a, <2>1, <2>2, <2>3 DEF Announced
  <1>13. Ordered'
    <2>1. Pipeline = Coming /\ Coming \in Seq(AMessage) /\ Coming' \in Seq(AMessage)
      BY <1>2, <1>5, PipelineTypes, HeadIsFirst
    <2>2. Pipeline' = Coming'
      BY <1>1, <1>5, <2>1, ConcatEmptySeq DEF Pipeline
    <2>3. Replies(Coming) = <<>> \o Replies(Coming')
      BY <1>2, <1>a, <2>1, RepliesTail DEF One
    <2>4. Replies(Coming') \in Seq(Nat)
      BY <2>1, RepliesType
    <2>5. Replies(Coming) = Replies(Coming')
      BY <2>3, <2>4, ConcatEmptySeq
    <2>6. Under' = Under
      BY <1>1, <2>1, <2>2, <2>5 DEF Under
    <2> QED
      BY <1>1, <2>6 DEF Ordered
  <1>14. Numbered' /\ Listed' /\ Unmixed'
    BY <1>1 DEF Numbered, Listed, Unmixed, Waiting
  <1> QED
    BY <1>8, <1>9, <1>10, <1>11, <1>12, <1>13, <1>14

LEMMA EndHandled ==
    ASSUME SepackInv, HandleMessage, Head(batch).kind = "eof"
    PROVE  SepackInv'
  <1> DEFINE m == Head(batch)
  <1> USE DEF SepackInv, stateVars, requestVars
  <1>1. /\ batch # <<>> /\ batch' = Tail(batch) /\ inbox' = inbox /\ SetStatus("false")
        /\ link' = "none"
        /\ UNCHANGED <<connection, wire, device, awake, stateVars, requestVars, mixed>>
    BY DEF HandleMessage
  <1>2. /\ Coming # <<>> /\ Len(Coming) \in Nat /\ Len(Coming) > 0 /\ Coming[1] = m
        /\ m \in AMessage /\ batch' \in Seq(AMessage) /\ Coming' = Tail(Coming)
        /\ Head(Coming) = m
        /\ Len(Coming') = Len(Coming) - 1
    BY <1>1, Taken
  <1>a. m.kind = "eof"
    OBVIOUS
  <1> HIDE DEF m
  <1>3. link = "gone" /\ Len(Coming) = 1
    <2>1. 1 \in 1..Len(Coming)
      BY <1>2
    <2> QED
      BY <1>2, <1>a, <2>1 DEF Announced
  <1>4. Coming \in Seq(AMessage) /\ inbox \in Seq(AMessage)
    BY PipelineTypes DEF SepackTypes
  <1>5. Coming' = <<>> /\ Coming = <<m>>
    BY <1>2, <1>3, <1>4
  <1>6. Current' = Current
    BY <1>1 DEF Current
  <1>7. /\ status' = "false" /\ changed' \in BOOLEAN /\ dirty' \in BOOLEAN
        /\ (dirty => changed) => (dirty' => changed')
        /\ "false" # status => dirty' = TRUE
        /\ "false" # status /\ ~dirty => changed' = TRUE
    BY <1>1, StatusSet
  <1>8. Current # "idle" => Current = "done" /\ changed' = TRUE /\ dirty' = TRUE
    <2> SUFFICES ASSUME Current # "idle"
                 PROVE  Current = "done" /\ changed' = TRUE /\ dirty' = TRUE
      OBVIOUS
    <2>1. Current = "done"
      <3>1. Current \in {"idle", "waiting", "starting", "naming", "named", "setup", "finishing",
                         "done"}
        BY CurrentThread DEF SepackTypes
      <3> QED
        BY <1>3, <3>1, CurrentThread DEF Stages
    <2>2. status = "connect" /\ ~dirty
      BY <1>3, <2>1 DEF Noticed
    <2> QED
      BY <1>7, <2>1, <2>2
  <1>9. Current = "idle" => inbox = <<>> /\ ~awake /\ (dirty' => changed')
    <2>1. Current = "idle" => status # "connect"
      BY <1>3 DEF Noticed
    <2> QED
      BY <1>1, <1>7, <2>1 DEF Noticed, SepackTypes
  <1>10. SepackTypes'
    BY <1>1, <1>2, <1>7 DEF SepackTypes
  <1>11. Roles'
    BY <1>1 DEF Roles
  <1>12. Stages'
    <2>1. UNCHANGED <<connected, reply_chns>>
      BY <1>1
    <2> QED
      BY <1>1, <1>3, <1>6, <1>7, <1>8, <2>1 DEF Stages
  <1>13. Noticed'
    <2>1. UNCHANGED <<awake, inbox>>
      BY <1>1
    <2> QED
      BY <1>1, <1>6, <1>7, <1>8, <1>9, <2>1 DEF Noticed
  <1>14. Announced'
    BY <1>1, <1>5 DEF Announced
  <1>15. Ordered'
    <2>1. Pipeline' = inbox
      BY <1>1, <1>4, <1>5, ConcatEmptySeq DEF Pipeline
    <2>2. Pipeline = Append(inbox, m)
      BY <1>2, <1>4, <1>5, AppendIsConcat DEF Pipeline
    <2>3. Replies(Pipeline) = Replies(inbox)
      BY <1>2, <1>4, <1>a, <2>2, RepliesAppend
    <2>4. Under' = Under
      BY <1>1, <2>1, <2>3 DEF Under
    <2> QED
      BY <1>1, <1>3, <2>4 DEF Ordered
  <1>16. Numbered' /\ Listed' /\ Unmixed'
    BY <1>1 DEF Numbered, Listed, Unmixed, Waiting
  <1> QED
    BY <1>10, <1>11, <1>12, <1>13, <1>14, <1>15, <1>16

LEMMA HandleMessageKeeps == ASSUME SepackInv, HandleMessage PROVE SepackInv'
  <1>1. Head(batch).kind \in {"reply", "data", "connect", "coldplug-end", "eof"}
    BY DEF HandleMessage
  <1> QED
    BY <1>1, PacketHandled, NewsHandled, EndHandled

\* A request goes out, or is lost.
LEMMA SendOutKeeps == ASSUME SepackInv, SendOut PROVE SepackInv'
  <1> USE DEF SepackInv, statusVars, loopVars, stateVars
  <1>1. /\ outbox # <<>> /\ outbox' = Tail(outbox)
        /\ device' = IF link = "plugged" THEN Append(device, Head(outbox)) ELSE device
        /\ UNCHANGED <<link, connection, wire, statusVars, loopVars, stateVars,
                       reply_chns, doing, asking, asked, mixed>>
    BY DEF SendOut
  <1>2. /\ Head(outbox) \in Nat /\ Tail(outbox) \in Seq(Nat) /\ outbox \in Seq(Nat)
        /\ device \in Seq(Nat) /\ Replies(Pipeline) \in Seq(Nat) /\ Under \in Seq(Nat)
    BY <1>1, PipelineTypes, HeadIsFirst DEF SepackTypes
  <1>3. Current' = Current /\ Coming' = Coming /\ Pipeline' = Pipeline
    BY <1>1 DEF Current, Coming, Pipeline
  <1>4. SepackTypes'
    <2>1. device' \in Seq(Nat) /\ outbox' \in Seq(Nat)
      BY <1>1, <1>2
    <2> QED
      BY <1>1, <2>1 DEF SepackTypes
  <1>5. Roles'
    BY <1>1 DEF Roles
  <1>6. Stages'
    BY <1>1, <1>3 DEF Stages
  <1>7. Noticed'
    BY <1>1, <1>3 DEF Noticed
  <1>8. Announced'
    BY <1>1, <1>3 DEF Announced
  <1>9. Ordered'
    <2>1. CASE link = "plugged"
      <3>1. Under' = Append(Under, Head(outbox))
        <4> DEFINE r == Replies(Pipeline)
                   h == Head(outbox)
        <4>1. Under = r \o device /\ Under' = r \o Append(device, h)
          BY <1>1, <1>3, <2>1 DEF Under
        <4>2. r \in Seq(Nat) /\ h \in Nat /\ device \in Seq(Nat)
          BY <1>2
        <4> HIDE DEF r, h
        <4>3. r \o Append(device, h) = Append(r \o device, h)
          BY <4>2, AppendToConcat
        <4> QED
          BY <4>1, <4>3 DEF h
      <3>2. Under' \o outbox' = Under \o outbox
        BY <1>1, <1>2, <3>1, MoveOver
      <3>3. outbox' \in Seq(Nat)
        BY <1>1, <1>2
      <3>4. reply_chns # Nil /\ reply_chns' = Under' \o outbox'
        BY <1>1, <2>1, <3>2 DEF Ordered
      <3> QED
        BY <1>1, <2>1, <3>3, <3>4 DEF Ordered
    <2>2. CASE link # "plugged"
      <3>1. Under' = Under
        BY <1>1, <1>3, <2>2 DEF Under
      <3> QED
        BY <1>1, <2>2, <3>1 DEF Ordered
    <2> QED
      BY <2>1, <2>2
  <1>10. Numbered' /\ Listed' /\ Unmixed'
    BY <1>1 DEF Numbered, Listed, Unmixed, Waiting
  <1> QED
    BY <1>4, <1>5, <1>6, <1>7, <1>8, <1>9, <1>10

\* A new request has the highest number and comes last everywhere.
LEMMA AskKeeps ==
    ASSUME SepackInv, NEW t \in Threads, NEW w \in {"waiting", "naming", "setup"},
           ~Waiting(t), reply_chns = Nil => link = "plugged",
           asked' = asked + 1, asking' = [asking EXCEPT ![t] = asked + 1],
           reply_chns' = Append(IF reply_chns = Nil THEN <<>> ELSE reply_chns, asked + 1),
           outbox' = Append(outbox, asked + 1), doing' = [doing EXCEPT ![t] = w],
           UNCHANGED <<helperVars, loopVars, mixed>>
    PROVE  /\ reply_chns' \in Seq(Nat) /\ reply_chns' # Nil /\ outbox' \in Seq(Nat)
           /\ asked' \in Nat /\ asking' \in [Threads -> Nat]
           /\ Ordered' /\ Numbered' /\ Listed' /\ Unmixed'
  <1> DEFINE n == asked + 1
             R == IF reply_chns = Nil THEN <<>> ELSE reply_chns
  <1> USE DEF SepackInv, helperVars, loopVars
  <1>1. n \in Nat /\ asked \in Nat /\ asked < n /\ outbox \in Seq(Nat)
        /\ asking \in [Threads -> Nat]
    BY DEF SepackTypes
  <1>2. R \in Seq(Nat)
    BY EmptySeq DEF SepackTypes
  <1>3. /\ \A i \in 1..Len(R) : R[i] <= asked
        /\ \A i, j \in 1..Len(R) : i < j => R[i] < R[j]
    BY DEF Numbered
  <1>4. /\ \A u \in Threads : Waiting(u) => \E i \in 1..Len(R) : R[i] = asking[u]
        /\ \A i \in 1..Len(R) : \E u \in Threads : Waiting(u) /\ R[i] = asking[u]
    BY DEF Listed
  <1>5. /\ \E gone \in Seq(Nat) : R = Under \o gone
        /\ link = "plugged" => R = Under \o outbox
    <2>1. CASE reply_chns = Nil
      <3>1. Under = <<>> /\ outbox = <<>> /\ R = <<>>
        BY <2>1 DEF Ordered
      <3>2. <<>> \o <<>> = <<>> /\ <<>> \in Seq(Nat)
        BY ConcatEmptySeq, EmptySeq
      <3> QED
        BY <3>1, <3>2
    <2>2. CASE reply_chns # Nil
      BY <2>2 DEF Ordered
    <2> QED
      BY <2>1, <2>2
  <1>6. reply_chns' = Append(R, n)
    OBVIOUS
  <1> HIDE DEF R
  <1>7. /\ reply_chns' \in Seq(Nat) /\ Len(reply_chns') = Len(R) + 1 /\ Len(R) \in Nat
        /\ reply_chns'[Len(R) + 1] = n
        /\ \A i \in 1..Len(R) : reply_chns'[i] = R[i]
    <2>1. n \in Nat
      BY <1>1
    <2> DEFINE r == Append(R, n)
    <2>2. /\ r \in Seq(Nat) /\ Len(r) = Len(R) + 1 /\ Len(R) \in Nat
          /\ r[Len(R) + 1] = n /\ \A i \in 1..Len(R) : r[i] = R[i]
      BY <1>2, <2>1, AppendIsLast
    <2>3. reply_chns' = r
      BY <1>6
    <2> HIDE DEF n, r
    <2> QED
      BY <2>2, <2>3, Zenon
  <1>8. reply_chns' # Nil
    BY <1>7, NilIsNone
  <1>9. /\ \A u \in Threads : u # t => asking'[u] = asking[u] /\ (Waiting(u)' <=> Waiting(u))
        /\ asking'[t] = n /\ Waiting(t)'
    BY <1>1 DEF Waiting, SepackTypes
  <1>10. Ordered'
    <2>1. Under' = Under /\ Under \in Seq(Nat)
      BY PipelineTypes DEF Under, Pipeline, Coming
    <2>a. n \in Nat
      BY <1>1
    <2> HIDE DEF n
    <2>b. \A s \in Seq(Nat) :
             Append(s, n) \in Seq(Nat) /\ Under \o Append(s, n) = Append(Under \o s, n)
      <3> DEFINE r == Under
      <3>1. r \in Seq(Nat)
        BY <2>1
      <3> HIDE DEF r
      <3>2. \A s \in Seq(Nat) : r \o Append(s, n) = Append(r \o s, n)
        BY <2>a, <3>1, AppendToConcat
      <3>3. \A s \in Seq(Nat) : Append(s, n) \in Seq(Nat)
        BY <2>a, AppendProperties
      <3> QED
        BY <3>2, <3>3 DEF r
    <2>2. \E gone \in Seq(Nat) : reply_chns' = Under \o gone
      BY <1>5, <1>6, <2>b
    <2>3. link = "plugged" => reply_chns' = Under \o outbox'
      <3>1. outbox' = Append(outbox, n)
        BY DEF n
      <3> QED
        BY <1>1, <1>5, <1>6, <2>b, <3>1
    <2>4. link # "plugged" => device = <<>>
      BY DEF Ordered
    <2>5. link' = link /\ device' = device
      OBVIOUS
    <2> QED
      BY <1>8, <2>1, <2>2, <2>3, <2>4, <2>5 DEF Ordered
  <1>11. Numbered'
    <2>1. ASSUME NEW i \in 1..Len(reply_chns') PROVE reply_chns'[i] <= asked'
      <3>1. CASE i = Len(R) + 1
        BY <1>1, <1>7, <3>1
      <3>2. CASE i # Len(R) + 1
        <4>1. i \in 1..Len(R) /\ R[i] \in Nat
          BY <1>2, <1>7, <3>2
        <4> QED
          BY <1>1, <1>3, <1>7, <4>1
      <3> QED
        BY <3>1, <3>2
    <2>2. ASSUME NEW i \in 1..Len(reply_chns'), NEW j \in 1..Len(reply_chns'), i < j
          PROVE  reply_chns'[i] < reply_chns'[j]
      <3>1. i \in 1..Len(R) /\ R[i] \in Nat /\ R[i] <= asked
        BY <1>2, <1>3, <1>7, <2>2
      <3>2. CASE j = Len(R) + 1
        BY <1>1, <1>7, <3>1, <3>2
      <3>3. CASE j # Len(R) + 1
        <4>1. j \in 1..Len(R)
          BY <1>7, <3>3
        <4> QED
          BY <1>3, <1>7, <2>2, <3>1, <4>1
      <3> QED
        BY <3>2, <3>3
    <2>3. ASSUME NEW u \in Threads, NEW v \in Threads, Waiting(u)', Waiting(v)',
                 asking'[u] = asking'[v], u # v
          PROVE  FALSE
      <3>1. \A x \in Threads : Waiting(x) => asking[x] # n
        <4> SUFFICES ASSUME NEW x \in Threads, Waiting(x), asking[x] = n PROVE FALSE
          OBVIOUS
        <4>1. PICK i \in 1..Len(R) : R[i] = n
          BY <1>4
        <4> QED
          BY <1>1, <1>3, <4>1
      <3> QED
        BY <1>9, <2>3, <3>1 DEF Numbered
    <2> HIDE DEF SepackInv
    <2> QED
      BY <2>1, <2>2, <2>3 DEF Numbered
  <1>12. Listed'
    <2> HIDE DEF SepackInv
    <2>1. ASSUME NEW u \in Threads, Waiting(u)'
          PROVE  \E i \in 1..Len(reply_chns') : reply_chns'[i] = asking'[u]
      <3>1. CASE u = t
        BY <1>7, <1>9, <3>1
      <3>2. CASE u # t
        <4>1. PICK i \in 1..Len(R) : R[i] = asking[u]
          BY <1>4, <1>9, <2>1, <3>2
        <4> QED
          BY <1>7, <1>9, <3>2, <4>1
      <3> QED
        BY <3>1, <3>2
    <2>2. ASSUME NEW i \in 1..Len(reply_chns')
          PROVE  \E u \in Threads : Waiting(u)' /\ reply_chns'[i] = asking'[u]
      <3>1. CASE i = Len(R) + 1
        BY <1>7, <1>9, <3>1
      <3>2. CASE i # Len(R) + 1
        <4>1. i \in 1..Len(R)
          BY <1>7, <3>2
        <4>2. PICK u \in Threads : Waiting(u) /\ R[i] = asking[u]
          BY <1>4, <4>1
        <4> QED
          BY <1>7, <1>9, <4>1, <4>2
      <3> QED
        BY <3>1, <3>2
    <2> QED
      BY <1>8, <2>1, <2>2 DEF Listed
  <1>13. Unmixed'
    BY DEF Unmixed
  <1>14. outbox' \in Seq(Nat) /\ asked' \in Nat /\ asking' \in [Threads -> Nat]
    BY <1>1
  <1> HIDE DEF SepackInv
  <1> QED
    BY <1>7, <1>8, <1>10, <1>11, <1>12, <1>13, <1>14

LEMMA XchgKeeps == ASSUME SepackInv, NEW u \in Users, Xchg(u) PROVE SepackInv'
  <1> USE DEF SepackInv, helperVars, statusVars, loopVars, stateVars
  <1>1. /\ doing[u] = "idle" /\ Ask(u, "waiting")
        /\ UNCHANGED <<helperVars, statusVars, loopVars, stateVars, mixed>>
    BY DEF Xchg
  <1>2. /\ reply_chns # Nil /\ asked' = asked + 1 /\ asking' = [asking EXCEPT ![u] = asked + 1]
        /\ reply_chns' = Append(reply_chns, asked + 1) /\ outbox' = Append(outbox, asked + 1)
        /\ doing' = [doing EXCEPT ![u] = "waiting"]
    BY <1>1 DEF Ask
  <1>3. u \in Threads /\ u \notin Enumerators /\ ~Waiting(u)
    BY <1>1, CurrentThread DEF Waiting
  <1>4. /\ reply_chns' \in Seq(Nat) /\ reply_chns' # Nil /\ outbox' \in Seq(Nat)
        /\ asked' \in Nat /\ asking' \in [Threads -> Nat]
        /\ Ordered' /\ Numbered' /\ Listed' /\ Unmixed'
    BY <1>1, <1>2, <1>3, AskKeeps
  <1>5. Current' = Current /\ Coming' = Coming
    BY <1>1, <1>2, <1>3, CurrentThread DEF Current, Coming, SepackTypes
  <1>6. SepackTypes'
    <2>1. doing' \in [Threads -> {"idle", "waiting", "starting", "naming", "named", "setup",
                                  "finishing", "done"}]
      BY <1>2 DEF SepackTypes
    <2> QED
      BY <1>1, <1>4, <2>1 DEF SepackTypes
  <1>7. Roles'
    <2>1. \A k \in Enumerators : doing'[k] = doing[k]
      BY <1>2, <1>3, CurrentThread DEF SepackTypes
    <2>2. \A v \in Users : doing'[v] = doing[v] \/ doing'[v] = "waiting"
      BY <1>2, CurrentThread DEF SepackTypes
    <2> QED
      BY <1>1, <2>1, <2>2 DEF Roles
  <1>8. Stages'
    BY <1>1, <1>2, <1>4, <1>5 DEF Stages
  <1>9. Noticed'
    BY <1>1, <1>5 DEF Noticed
  <1>10. Announced'
    BY <1>1, <1>5 DEF Announced
  <1> QED
    BY <1>4, <1>6, <1>7, <1>8, <1>9, <1>10

\* The enumeration of the present connection goes on.
LEMMA EnumeratorMoves ==
    ASSUME SepackInv, NEW k \in Enumerators, doing[k] \notin {"idle", "done"},
           NEW w \in {"naming", "named", "setup", "finishing", "done"},
           doing' = [doing EXCEPT ![k] = w], dirty => w \notin {"finishing", "done"},
           UNCHANGED <<helperVars, statusVars, loopVars, coldplug>>
    PROVE  /\ Current = doing[k] /\ Current' = w /\ link = "plugged" /\ connected # TRUE
           /\ Roles' /\ Noticed' /\ Announced' /\ k \in Threads /\ Coming' = Coming
           /\ doing' \in [Threads -> {"idle", "waiting", "starting", "naming", "named", "setup",
                                      "finishing", "done"}]
  <1> USE DEF SepackInv, helperVars, statusVars, loopVars
  <1>1. k = connection /\ Current = doing[k] /\ k \in Threads /\ k \in Nat \ {0}
    BY CurrentThread
  <1>2. doing' \in [Threads -> {"idle", "waiting", "starting", "naming", "named", "setup",
                                "finishing", "done"}]
    BY DEF SepackTypes
  <1>3. /\ doing'[k] = w
        /\ \A t \in Threads : t # k => doing'[t] = doing[t]
    BY <1>1 DEF SepackTypes
  <1>4. Current' = w
    BY <1>1, <1>3 DEF Current
  <1>5. link = "plugged" /\ connected # TRUE
    <2>1. Current \in {"starting", "naming", "named", "setup", "finishing"}
      BY <1>1, CurrentThread DEF SepackTypes, Roles
    <2> QED
      BY <2>1 DEF Stages
  <1>6. Roles'
    <2>1. \A u \in Users : u \in Threads /\ u # k
      BY CurrentThread
    <2>2. \A j \in Enumerators : j \in Threads /\ j \in Nat
      BY CurrentThread
    <2>3. ~coldplug
      BY <1>1 DEF Roles
    <2> QED
      BY <1>1, <1>3, <2>1, <2>2, <2>3 DEF Roles
  <1>7. Coming' = Coming
    BY DEF Coming
  <1>8. Current # "idle" /\ Current # "done"
    BY <1>1
  <1>9. Noticed'
    BY <1>4, <1>5, <1>8 DEF Noticed
  <1>10. Announced'
    BY <1>4, <1>5, <1>7, <1>8 DEF Announced
  <1> HIDE DEF SepackInv
  <1> QED
    BY <1>1, <1>2, <1>4, <1>5, <1>6, <1>7, <1>9, <1>10

LEMMA EnumerateControlKeeps ==
    ASSUME SepackInv, NEW k \in Enumerators, EnumerateControl(k) PROVE SepackInv'
  <1> USE DEF SepackInv
  <1>1. /\ doing[k] = "starting"
        /\ UNCHANGED <<helperVars, statusVars, loopVars, coldplug, connected, mixed>>
    BY DEF EnumerateControl
  <1>2. Current = "starting" /\ k \in Threads /\ link = "plugged" /\ reply_chns = Nil
        /\ connected # TRUE
    BY <1>1, CurrentThread DEF Stages
  <1>3. \A t \in Threads : ~Waiting(t)
    BY <1>2 DEF Listed
  <1>4. CASE control = "none"
    <2>1. /\ asked' = asked + 1 /\ asking' = [asking EXCEPT ![k] = asked + 1]
          /\ reply_chns' = <<asked + 1>> /\ outbox' = Append(outbox, asked + 1)
          /\ doing' = [doing EXCEPT ![k] = "naming"]
      BY <1>4 DEF EnumerateControl
    <2>2. reply_chns' = Append(IF reply_chns = Nil THEN <<>> ELSE reply_chns, asked + 1)
      BY <1>2, <2>1
    <2>3. /\ reply_chns' \in Seq(Nat) /\ reply_chns' # Nil /\ outbox' \in Seq(Nat)
          /\ asked' \in Nat /\ asking' \in [Threads -> Nat]
          /\ Ordered' /\ Numbered' /\ Listed' /\ Unmixed'
      BY <1>1, <1>2, <1>3, <2>1, <2>2, AskKeeps
    <2>4. /\ Current' = "naming" /\ Roles' /\ Noticed' /\ Announced'
          /\ doing' \in [Threads -> {"idle", "waiting", "starting", "naming", "named", "setup",
                                     "finishing", "done"}]
      BY <1>1, <2>1, EnumeratorMoves
    <2>5. SepackTypes'
      BY <1>1, <2>3, <2>4 DEF SepackTypes, helperVars, statusVars, loopVars
    <2>6. Stages'
      BY <1>1, <1>2, <2>3, <2>4 DEF Stages, helperVars
    <2> QED
      BY <2>3, <2>4, <2>5, <2>6
  <1>5. CASE control = "named"
    <2>1. reply_chns' = <<>> /\ doing' = [doing EXCEPT ![k] = "named"]
          /\ UNCHANGED <<outbox, asking, asked>>
      BY <1>5 DEF EnumerateControl
    <2>2. /\ Current' = "named" /\ Roles' /\ Noticed' /\ Announced' /\ Coming' = Coming
          /\ doing' \in [Threads -> {"idle", "waiting", "starting", "naming", "named", "setup",
                                     "finishing", "done"}]
      BY <1>1, <2>1, EnumeratorMoves
    <2>3. reply_chns' \in Seq(Nat) /\ reply_chns' # Nil /\ Len(reply_chns') = 0
      <3>1. <<>> \in Seq(Nat) /\ Len(<<>>) = 0
        BY EmptySeq
      <3> QED
        BY <2>1, <3>1, NilIsNone
    <2>4. SepackTypes'
      BY <1>1, <2>1, <2>2, <2>3 DEF SepackTypes, helperVars, statusVars, loopVars
    <2>5. Stages'
      BY <1>1, <1>2, <2>2, <2>3 DEF Stages, helperVars
    <2>6. Ordered'
      <3>1. Under' = Under /\ link' = link /\ device' = device
        BY <1>1, <2>2 DEF Under, Pipeline, helperVars, loopVars
      <3>2. Under = <<>> /\ outbox = <<>>
        BY <1>2 DEF Ordered
      <3>3. <<>> \o <<>> = <<>> /\ <<>> \in Seq(Nat)
        BY ConcatEmptySeq, EmptySeq
      <3> QED
        BY <1>2, <2>1, <2>3, <3>1, <3>2, <3>3 DEF Ordered
    <2>7. \A t \in Threads : ~Waiting(t)'
      BY <1>2, <1>3, <2>1 DEF Waiting, SepackTypes
    <2>8. Numbered' /\ Listed'
      <3>1. 1..Len(reply_chns') = {}
        BY <2>3
      <3> QED
        BY <2>7, <3>1 DEF Numbered, Listed
    <2>9. Unmixed'
      BY <1>1 DEF Unmixed
    <2> QED
      BY <2>2, <2>4, <2>5, <2>6, <2>8, <2>9
  <1>6. CASE UNCHANGED <<control, reply_chns, outbox, doing, asking, asked>>
    <2> USE DEF helperVars, statusVars, loopVars
    <2>1. Current' = Current /\ Coming' = Coming /\ Under' = Under
      BY <1>1, <1>6 DEF Current, Coming, Under, Pipeline
    <2>2. SepackTypes'
      BY <1>1, <1>6 DEF SepackTypes
    <2>3. Roles' /\ Noticed' /\ Announced'
      BY <1>1, <1>6, <2>1 DEF Roles, Noticed, Announced
    <2>4. Stages' /\ Ordered'
      BY <1>1, <1>6, <2>1 DEF Stages, Ordered
    <2>5. Numbered' /\ Listed' /\ Unmixed'
      BY <1>1, <1>6 DEF Numbered, Listed, Unmixed, Waiting
    <2> QED
      BY <2>2, <2>3, <2>4, <2>5
  <1> QED
    BY <1>4, <1>5, <1>6 DEF EnumerateControl

LEMMA EnumerateOtherKeeps ==
    ASSUME SepackInv, NEW k \in Enumerators, EnumerateOther(k) PROVE SepackInv'
  <1> USE DEF SepackInv
  <1>1. /\ doing[k] = "named"
        /\ UNCHANGED <<helperVars, statusVars, loopVars, stateVars, mixed>>
    BY DEF EnumerateOther
  <1>2. Current = "named" /\ k \in Threads /\ reply_chns # Nil /\ ~Waiting(k)
        /\ link = "plugged" /\ connected # TRUE
    BY <1>1, CurrentThread DEF Stages, Waiting
  <1>3. /\ asked' = asked + 1 /\ asking' = [asking EXCEPT ![k] = asked + 1]
        /\ reply_chns' = Append(reply_chns, asked + 1) /\ outbox' = Append(outbox, asked + 1)
        /\ doing' = [doing EXCEPT ![k] = "setup"]
    BY <1>2 DEF EnumerateOther, Ask
  <1>4. /\ reply_chns' \in Seq(Nat) /\ reply_chns' # Nil /\ outbox' \in Seq(Nat)
        /\ asked' \in Nat /\ asking' \in [Threads -> Nat]
        /\ Ordered' /\ Numbered' /\ Listed' /\ Unmixed'
    BY <1>1, <1>2, <1>3, AskKeeps
  <1>5. /\ Current' = "setup" /\ Roles' /\ Noticed' /\ Announced'
        /\ doing' \in [Threads -> {"idle", "waiting", "starting", "naming", "named", "setup",
                                   "finishing", "done"}]
    BY <1>1, <1>3, EnumeratorMoves DEF stateVars
  <1>6. SepackTypes'
    BY <1>1, <1>4, <1>5 DEF SepackTypes, helperVars, statusVars, loopVars, stateVars
  <1>7. Stages'
    BY <1>1, <1>2, <1>4, <1>5 DEF Stages, helperVars, stateVars
  <1> QED
    BY <1>4, <1>5, <1>6, <1>7

LEMMA EnumerateDoneKeeps ==
    ASSUME SepackInv, NEW k \in Enumerators, EnumerateDone(k) PROVE SepackInv'
  <1> USE DEF SepackInv
  <1>1. /\ doing[k] = "finishing" /\ doing' = [doing EXCEPT ![k] = "done"] /\ connected' = TRUE
        /\ UNCHANGED <<helperVars, statusVars, loopVars, coldplug, reply_chns, outbox, asking,
                       asked, mixed>>
    BY DEF EnumerateDone
  <1>2. Current = "finishing" /\ k \in Threads /\ reply_chns # Nil /\ link = "plugged"
    BY <1>1, CurrentThread DEF Stages
  <1>3. ~dirty
    BY <1>2 DEF Noticed, SepackTypes
  <1>4. /\ Current' = "done" /\ Roles' /\ Noticed' /\ Announced' /\ Coming' = Coming
        /\ doing' \in [Threads -> {"idle", "waiting", "starting", "naming", "named", "setup",
                                   "finishing", "done"}]
    BY <1>1, <1>3, EnumeratorMoves
  <1>5. SepackTypes'
    BY <1>1, <1>4 DEF SepackTypes, helperVars, statusVars, loopVars
  <1>6. Stages'
    BY <1>1, <1>2, <1>4 DEF Stages, helperVars
  <1>7. Ordered'
    <2>1. Under' = Under
      BY <1>1, <1>4 DEF Under, Pipeline, helperVars, loopVars
    <2> QED
      BY <1>1, <2>1 DEF Ordered, helperVars
  <1>8. \A t \in Threads : Waiting(t)' <=> Waiting(t)
    BY <1>1, <1>2 DEF Waiting, SepackTypes
  <1>9. Numbered'
    <2>1. reply_chns' = reply_chns /\ asking' = asking /\ asked' = asked
      BY <1>1
    <2> QED
      BY <1>8, <2>1 DEF Numbered
  <1>10. Listed'
    <2>1. reply_chns' = reply_chns /\ asking' = asking
      BY <1>1
    <2> QED
      BY <1>8, <2>1 DEF Listed
  <1>11. Unmixed'
    BY <1>1 DEF Unmixed
  <1> QED
    BY <1>4, <1>5, <1>6, <1>7, <1>9, <1>10, <1>11

\* A packet only reaches Sepack's loop after the device was announced.
LEMMA PacketRead ==
    ASSUME SepackInv, SepackPacket
    PROVE  /\ inbox # <<>> /\ inbox' = Tail(inbox) /\ awake' = TRUE
           /\ UNCHANGED <<helperVars, statusVars, batch, coldplug, connected, outbox, asking, asked>>
           /\ Current # "idle" \/ status = "connect"
           /\ Coming' = Coming /\ inbox' \in Seq(AMessage)
           /\ Replies(Pipeline) = One(Head(inbox)) \o Replies(Pipeline')
           /\ Head(inbox) \in AMessage /\ Replies(Pipeline') \in Seq(Nat)
           /\ Current # "idle" /\ link # "none" /\ dirty =>
                 /\ Head(inbox).kind # "reply"
                 /\ \A i \in 1..Len(inbox') : inbox'[i].kind # "reply"
  <1> USE DEF SepackInv
  <1>1. /\ inbox # <<>> /\ inbox' = Tail(inbox) /\ awake' = TRUE
        /\ UNCHANGED <<helperVars, statusVars, batch, coldplug, connected, outbox, asking, asked>>
    BY DEF SepackPacket
  <1>2. Current # "idle" \/ status = "connect"
    BY <1>1 DEF Noticed
  <1>3. /\ Replies(Pipeline) = One(Head(inbox)) \o Replies(Pipeline')
        /\ Pipeline' \in Seq(AMessage) /\ Coming' = Coming
        /\ Head(inbox) \in AMessage /\ inbox' \in Seq(AMessage)
        /\ Len(inbox) \in Nat /\ Len(inbox) > 0 /\ Head(inbox) = inbox[1]
        /\ Len(inbox') = Len(inbox) - 1
        /\ \A i \in 1..(Len(inbox) - 1) : inbox'[i] = inbox[i + 1]
    BY <1>1, PacketTaken DEF helperVars
  <1>4. Replies(Pipeline') \in Seq(Nat)
    BY <1>3, RepliesType
  <1>5. Current # "idle" /\ link # "none" /\ dirty =>
           /\ Head(inbox).kind # "reply"
           /\ \A i \in 1..Len(inbox') : inbox'[i].kind # "reply"
    <2> SUFFICES ASSUME Current # "idle", link # "none", dirty
                 PROVE  /\ Head(inbox).kind # "reply"
                        /\ \A i \in 1..Len(inbox') : inbox'[i].kind # "reply"
      OBVIOUS
    <2>1. \A i \in 1..Len(inbox) : inbox[i].kind # "reply"
      BY DEF Noticed
    <2>2. 1 \in 1..Len(inbox) /\ \A i \in 1..Len(inbox') : i \in 1..(Len(inbox) - 1) /\ i + 1 \in 1..Len(inbox)
      BY <1>3
    <2> QED
      BY <1>3, <2>1, <2>2
  <1> HIDE DEF SepackInv
  <1> QED
    BY <1>1, <1>2, <1>3, <1>4, <1>5

\* It is no reply, or one that comes too late.
LEMMA PacketDropped ==
    ASSUME SepackInv, SepackPacket, UNCHANGED <<reply_chns, doing, mixed>>,
           Head(inbox).kind = "reply" => reply_chns = Nil
    PROVE  SepackInv'
  <1> USE DEF SepackInv, helperVars, statusVars
  <1>1. /\ inbox # <<>> /\ inbox' = Tail(inbox) /\ awake' = TRUE
        /\ UNCHANGED <<helperVars, statusVars, batch, coldplug, connected, outbox, asking, asked>>
        /\ Current # "idle" \/ status = "connect"
        /\ Coming' = Coming /\ inbox' \in Seq(AMessage)
        /\ Replies(Pipeline) = One(Head(inbox)) \o Replies(Pipeline')
        /\ Head(inbox) \in AMessage /\ Replies(Pipeline') \in Seq(Nat)
        /\ Current # "idle" /\ link # "none" /\ dirty =>
              \A i \in 1..Len(inbox') : inbox'[i].kind # "reply"
    BY PacketRead
  <1>2. Current' = Current
    BY <1>1 DEF Current
  <1>3. SepackTypes'
    BY <1>1 DEF SepackTypes
  <1>4. Roles'
    BY <1>1 DEF Roles
  <1>5. Stages'
    BY <1>1, <1>2 DEF Stages
  <1>6. Noticed'
    BY <1>1, <1>2 DEF Noticed
  <1>7. Announced'
    BY <1>1, <1>2 DEF Announced
  <1>8. Ordered'
    <2>1. CASE Head(inbox).kind # "reply"
      <3>1. Replies(Pipeline) = Replies(Pipeline')
        BY <1>1, <2>1, ConcatEmptySeq DEF One
      <3>2. Under' = Under
        BY <1>1, <3>1 DEF Under
      <3> QED
        BY <1>1, <3>2 DEF Ordered
    <2>2. CASE Head(inbox).kind = "reply"
      <3> DEFINE r == Replies(Pipeline')
                 h == <<Head(inbox).request>>
      <3>1. link = "none"
        <4>1. link # "none" => Replies(Pipeline) \o device = <<>>
          BY <2>2 DEF Ordered, Under
        <4>2. Replies(Pipeline) = h \o r /\ r \in Seq(Nat) /\ h \in Seq(Nat) /\ h # <<>>
          BY <1>1, <2>2 DEF One, AMessage
        <4>3. device \in Seq(Nat)
          BY DEF SepackTypes
        <4> HIDE DEF r, h
        <4>4. (h \o r) \o device # <<>>
          <5>1. h \o r # <<>> /\ h \o r \in Seq(Nat)
            BY <4>2
          <5> DEFINE q == h \o r
          <5>2. q # <<>> /\ q \in Seq(Nat)
            BY <5>1
          <5> HIDE DEF q
          <5>3. q \o device # <<>>
            BY <4>3, <5>2
          <5> QED
            BY <5>3 DEF q
        <4> QED
          BY <4>1, <4>2, <4>4
      <3>2. link' = link /\ device' = device /\ reply_chns' = Nil
        BY <1>1, <2>2
      <3> QED
        BY <3>1, <3>2 DEF Ordered
    <2> QED
      BY <2>1, <2>2
  <1>9. Numbered' /\ Listed' /\ Unmixed'
    BY <1>1 DEF Numbered, Listed, Unmixed, Waiting
  <1> QED
    BY <1>3, <1>4, <1>5, <1>6, <1>7, <1>8, <1>9

\* The first of those who wait is answered.
LEMMA FirstAnswered ==
    ASSUME SepackInv, reply_chns # Nil, reply_chns # <<>>, NEW t, t = Waiter(Head(reply_chns)),
           reply_chns' = Tail(reply_chns), doing' = [doing EXCEPT ![t] = After(t)],
           UNCHANGED <<asking, asked, connection>>
    PROVE  /\ t \in Threads /\ Waiting(t)
           /\ reply_chns' \in Seq(Nat) /\ reply_chns' # Nil
           /\ doing' \in [Threads -> {"idle", "waiting", "starting", "naming", "named", "setup",
                                      "finishing", "done"}]
           /\ Current # "idle" /\ Current' # "idle" /\ ~coldplug
           /\ \/ Current' = Current
              \/ Current = "naming" /\ Current' = "named"
              \/ Current = "setup" /\ Current' = "finishing"
           /\ Numbered' /\ Listed'
           /\ \A u \in Users : doing'[u] \in {"idle", "waiting"}
           /\ \A k \in Enumerators : /\ doing'[k] # "waiting"
                                     /\ k # connection => doing'[k] = doing[k]
  <1> USE DEF SepackInv
  <1>1. reply_chns \in Seq(Nat)
    BY DEF SepackTypes
  <1>2. /\ Len(reply_chns) \in Nat /\ Len(reply_chns) > 0 /\ Head(reply_chns) = reply_chns[1]
        /\ reply_chns' \in Seq(Nat) /\ Len(reply_chns') = Len(reply_chns) - 1
        /\ \A i \in 1..(Len(reply_chns) - 1) : reply_chns'[i] = reply_chns[i + 1]
    BY <1>1, HeadIsFirst, LenProperties
  <1>3. t \in Threads /\ Waiting(t) /\ asking[t] = reply_chns[1]
    <2>1. 1 \in 1..Len(reply_chns)
      BY <1>2
    <2>2. \E u \in Threads : Waiting(u) /\ asking[u] = reply_chns[1]
      BY <2>1 DEF Listed
    <2> QED
      BY <1>2, <2>2 DEF Waiter
  <1>4. After(t) \in {"idle", "named", "finishing"}
    BY <1>3 DEF Waiting, After
  <1>5. /\ doing' \in [Threads -> {"idle", "waiting", "starting", "naming", "named", "setup",
                                   "finishing", "done"}]
        /\ doing'[t] = After(t)
        /\ \A u \in Threads : u # t => doing'[u] = doing[u]
    BY <1>3, <1>4 DEF SepackTypes
  <1>6. /\ ~Waiting(t)'
        /\ \A u \in Threads : u # t => (Waiting(u)' <=> Waiting(u))
        /\ \A u \in Threads : Waiting(u)' => Waiting(u)
    BY <1>3, <1>4, <1>5 DEF Waiting
  <1>7. reply_chns' # Nil
    BY <1>2, NilIsNone
  <1>8. Current # "idle"
    BY DEF Stages
  <1>9. connection \in Enumerators /\ Current = doing[connection] /\ Current' = doing'[connection]
    BY <1>8, CurrentThread DEF Current
  <1>10. ~coldplug
    BY <1>8, <1>9 DEF Roles
  <1>11. t \in Users \/ t = connection
    <2>1. t \in Users \/ t \in Enumerators
      BY <1>3 DEF Threads
    <2>2. t \in Enumerators => doing[t] \notin {"idle", "done"}
      BY <1>3 DEF Waiting
    <2> QED
      BY <2>1, <2>2, CurrentThread
  <1>12. /\ t \in Users => doing[t] = "waiting" /\ After(t) = "idle"
         /\ t = connection => \/ doing[t] = "naming" /\ After(t) = "named"
                              \/ doing[t] = "setup" /\ After(t) = "finishing"
    BY <1>3, <1>9 DEF Roles, Waiting, After
  <1>13. /\ Users \subseteq Threads /\ Enumerators \subseteq Threads
         /\ Users \cap Enumerators = {}
    BY CurrentThread
  <1>14. /\ Current' # "idle"
         /\ \/ Current' = Current
            \/ Current = "naming" /\ Current' = "named"
            \/ Current = "setup" /\ Current' = "finishing"
    <2>1. CASE t = connection
      <3>1. Current = doing[t] /\ Current' = After(t)
        BY <1>5, <1>9, <2>1
      <3> QED
        BY <1>12, <2>1, <3>1
    <2>2. CASE t # connection
      <3>1. Current' = Current
        BY <1>5, <1>9, <1>13, <2>2
      <3> QED
        BY <1>8, <3>1
    <2> QED
      BY <2>1, <2>2
  <1>15. \A u \in Users : doing'[u] \in {"idle", "waiting"}
    BY <1>5, <1>9, <1>11, <1>12, <1>13 DEF Roles
  <1>16. \A k \in Enumerators : /\ doing'[k] # "waiting"
                                /\ k # connection => doing'[k] = doing[k]
    BY <1>5, <1>9, <1>11, <1>12, <1>13 DEF Roles
  <1>17. \A i \in 1..Len(reply_chns') :
            /\ reply_chns'[i] = reply_chns[i + 1] /\ i + 1 \in 1..Len(reply_chns)
            /\ 1 \in 1..Len(reply_chns) /\ 1 < i + 1
    BY <1>2
  <1>18. Numbered'
    <2>1. \A i \in 1..Len(reply_chns') : reply_chns'[i] <= asked'
      BY <1>17 DEF Numbered
    <2>2. ASSUME NEW i \in 1..Len(reply_chns'), NEW j \in 1..Len(reply_chns'), i < j
          PROVE  reply_chns'[i] < reply_chns'[j]
      <3>1. i + 1 < j + 1
        BY <2>2
      <3> QED
        BY <1>17, <3>1 DEF Numbered
    <2>3. \A u, v \in Threads : Waiting(u)' /\ Waiting(v)' /\ asking'[u] = asking'[v] => u = v
      BY <1>6 DEF Numbered
    <2> HIDE DEF SepackInv
    <2> QED
      BY <2>1, <2>2, <2>3 DEF Numbered
  <1>19. Listed'
    <2>1. ASSUME NEW u \in Threads, Waiting(u)'
          PROVE  \E i \in 1..Len(reply_chns') : reply_chns'[i] = asking'[u]
      <3>1. u # t /\ Waiting(u)
        BY <1>6, <2>1
      <3>2. PICK i \in 1..Len(reply_chns) : reply_chns[i] = asking[u]
        BY <3>1 DEF Listed
      <3>3. i # 1
        BY <1>3, <3>1, <3>2 DEF Numbered
      <3>4. i - 1 \in 1..Len(reply_chns') /\ reply_chns'[i - 1] = reply_chns[i]
        BY <1>2, <3>3
      <3> QED
        BY <3>2, <3>4
    <2>2. ASSUME NEW i \in 1..Len(reply_chns')
          PROVE  \E u \in Threads : Waiting(u)' /\ reply_chns'[i] = asking'[u]
      <3>1. PICK u \in Threads : Waiting(u) /\ reply_chns[i + 1] = asking[u]
        BY <1>17 DEF Listed
      <3>2. reply_chns[1] < reply_chns[i + 1] /\ reply_chns[1] \in Nat
        BY <1>1, <1>17 DEF Numbered
      <3>3. u # t
        BY <1>3, <3>1, <3>2
      <3> QED
        BY <1>6, <1>17, <3>1, <3>3
    <2> HIDE DEF SepackInv
    <2> QED
      BY <1>7, <2>1, <2>2 DEF Listed
  <1> HIDE DEF SepackInv
  <1> QED
    BY <1>2, <1>3, <1>5, <1>7, <1>8, <1>10, <1>14, <1>15, <1>16, <1>18, <1>19

LEMMA PacketAnswers ==
    ASSUME SepackInv, SepackPacket, Head(inbox).kind = "reply", reply_chns # Nil
    PROVE  SepackInv'
  <1> DEFINE n == Head(inbox).request
             t == Waiter(Head(reply_chns))
             q == Replies(Pipeline')
  <1> USE DEF SepackInv
  <1>1. /\ inbox # <<>> /\ inbox' = Tail(inbox) /\ awake' = TRUE
        /\ UNCHANGED <<helperVars, statusVars, batch, coldplug, connected, outbox, asking, asked>>
        /\ Coming' = Coming /\ inbox' \in Seq(AMessage)
        /\ Replies(Pipeline) = One(Head(inbox)) \o q
        /\ Head(inbox) \in AMessage /\ q \in Seq(Nat)
        /\ Current # "idle" /\ link # "none" => ~dirty
    BY PacketRead
  <1>2. n \in Nat /\ Replies(Pipeline) = <<n>> \o q /\ <<n>> \in Seq(Nat)
    BY <1>1 DEF One, AMessage
  <1>3. Under = <<n>> \o Under' /\ Under' \in Seq(Nat)
    <2>1. Under = (<<n>> \o q) \o device /\ Under' = q \o device
      BY <1>1, <1>2 DEF Under, helperVars
    <2>2. device \in Seq(Nat) /\ q \in Seq(Nat)
      BY <1>1 DEF SepackTypes
    <2> HIDE DEF q, n
    <2>3. (<<n>> \o q) \o device = <<n>> \o (q \o device) /\ q \o device \in Seq(Nat)
      BY <1>2, <2>2, ConcatAssociative, ConcatProperties
    <2> QED
      BY <2>1, <2>3
  <1> DEFINE r == Under'
  <1>4. \A s \in Seq(Nat) : /\ Under \o s # <<>> /\ Head(Under \o s) = n
                            /\ Tail(Under \o s) = Under' \o s
    <2>1. r \in Seq(Nat) /\ n \in Nat /\ <<n>> \in Seq(Nat) /\ Under = <<n>> \o r
      BY <1>2, <1>3
    <2> HIDE DEF r, n
    <2>2. <<n>> \o r \in Seq(Nat) /\ <<n>> \o r # <<>> /\ Head(<<n>> \o r) = n /\ Tail(<<n>> \o r) = r
      BY <2>1
    <2>3. Under \in Seq(Nat) /\ Under # <<>> /\ Head(Under) = n /\ Tail(Under) = r
      BY <2>1, <2>2
    <2> DEFINE w == Under
    <2>4. w \in Seq(Nat) /\ w # <<>> /\ Head(w) = n /\ Tail(w) = r
      BY <2>3
    <2> HIDE DEF w
    <2>5. \A s \in Seq(Nat) : w \o s # <<>> /\ Head(w \o s) = Head(w) /\ Tail(w \o s) = Tail(w) \o s
      BY <2>4, TailOfConcat
    <2> QED
      BY <2>4, <2>5 DEF w, r
  <1> HIDE DEF r, q
  <1>5. reply_chns # <<>> /\ Head(reply_chns) = n
    <2>1. PICK gone \in Seq(Nat) : reply_chns = Under \o gone
      BY DEF Ordered
    <2> QED
      BY <1>4, <2>1
  <1>6. /\ reply_chns' = Tail(reply_chns) /\ doing' = [doing EXCEPT ![t] = After(t)]
        /\ Unmixed'
    <2>1. TakeReply(n)
      BY DEF SepackPacket
    <2>2. reply_chns \notin {Nil, <<>>}
      BY <1>5
    <2>3. ~mixed
      BY DEF Unmixed
    <2>4. /\ reply_chns' = Tail(reply_chns) /\ doing' = [doing EXCEPT ![t] = After(t)]
          /\ mixed' = (mixed \/ Head(reply_chns) # n)
      BY <2>1, <2>2 DEF TakeReply
    <2>5. ~mixed'
      BY <1>5, <2>3, <2>4, Zenon
    <2> QED
      BY <2>4, <2>5 DEF Unmixed
  <1>7. /\ reply_chns' \in Seq(Nat) /\ reply_chns' # Nil
        /\ doing' \in [Threads -> {"idle", "waiting", "starting", "naming", "named", "setup",
                                   "finishing", "done"}]
        /\ Current # "idle" /\ Current' # "idle" /\ ~coldplug
        /\ \/ Current' = Current
           \/ Current = "naming" /\ Current' = "named"
           \/ Current = "setup" /\ Current' = "finishing"
        /\ Numbered' /\ Listed'
        /\ \A u \in Users : doing'[u] \in {"idle", "waiting"}
        /\ \A k \in Enumerators : /\ doing'[k] # "waiting"
                                  /\ k # connection => doing'[k] = doing[k]
    <2>1. UNCHANGED <<asking, asked, connection>>
      BY <1>1 DEF helperVars
    <2> HIDE DEF t
    <2>2. t = Waiter(Head(reply_chns))
      BY DEF t
    <2> QED
      BY <1>5, <1>6, <2>1, <2>2, FirstAnswered
  <1> USE DEF helperVars, statusVars
  <1>8. SepackTypes'
    BY <1>1, <1>7 DEF SepackTypes
  <1>9. Roles'
    <2>1. \A k \in Enumerators : k # connection => doing'[k] = doing[k]
      BY <1>7
    <2>2. \A k \in Enumerators : k > connection \/ k < connection => k # connection
      BY CurrentThread DEF SepackTypes
    <2> QED
      BY <1>1, <1>7, <2>1, <2>2 DEF Roles
  <1>10. Stages'
    BY <1>1, <1>7 DEF Stages
  <1>11. Noticed'
    BY <1>1, <1>7 DEF Noticed
  <1>12. Announced'
    BY <1>1, <1>7 DEF Announced
  <1>13. Ordered'
    <2>1. \E gone \in Seq(Nat) : reply_chns' = Under' \o gone
      <3>1. PICK gone \in Seq(Nat) : reply_chns = Under \o gone
        BY DEF Ordered
      <3> QED
        BY <1>4, <1>6, <3>1
    <2>2. link = "plugged" => reply_chns' = Under' \o outbox
      <3>1. outbox \in Seq(Nat)
        BY DEF SepackTypes
      <3> QED
        BY <1>4, <1>6, <3>1 DEF Ordered
    <2> QED
      BY <1>1, <1>7, <2>1, <2>2 DEF Ordered
  <1> QED
    BY <1>6, <1>7, <1>8, <1>9, <1>10, <1>11, <1>12, <1>13

LEMMA SepackPacketKeeps == ASSUME SepackInv, SepackPacket PROVE SepackInv'
  <1>1. CASE Head(inbox).kind # "reply"
    BY <1>1, PacketDropped DEF SepackPacket
  <1>2. CASE Head(inbox).kind = "reply" /\ reply_chns = Nil
    BY <1>2, PacketDropped DEF SepackPacket, TakeReply
  <1>3. CASE Head(inbox).kind = "reply" /\ reply_chns # Nil
    BY <1>3, PacketAnswers
  <1> QED
    BY <1>1, <1>2, <1>3

\* Sepack's loop or the notification learns of the status.
LEMMA HeardConnect ==
    ASSUME SepackInv, changed, status = "connect", ExtStatus, dirty' \in BOOLEAN, awake' \in BOOLEAN,
           UNCHANGED <<helperVars, status, batch, inbox, outbox, asking, asked, mixed>>
    PROVE  SepackInv'
  <1> USE DEF SepackInv, helperVars
  <1>1. /\ coldplug' = FALSE /\ doing' = [doing EXCEPT ![connection] = "starting"]
        /\ changed' = FALSE /\ UNCHANGED <<connected, reply_chns>>
    BY DEF ExtStatus
  <1>2. link \notin {"none", "started", "connected"}
    BY DEF Noticed
  <1>3. Current = "idle" /\ link = "plugged" /\ reply_chns = Nil /\ connected # TRUE
    <2>1. Current = "idle"
      BY <1>2 DEF Noticed
    <2> QED
      BY <2>1 DEF Noticed, Stages
  <1>4. connection \in Enumerators /\ connection \in Nat \ {0} /\ connection \in Threads
        /\ doing[connection] = "idle"
    <2>1. connection > 0 /\ connection \in Nat
      BY <1>2 DEF Roles, SepackTypes
    <2>2. connection # 0
      BY <2>1
    <2> QED
      BY <1>3, <2>1, <2>2, CurrentThread
  <1>5. /\ doing' \in [Threads -> {"idle", "waiting", "starting", "naming", "named", "setup",
                                   "finishing", "done"}]
        /\ doing'[connection] = "starting"
        /\ \A t \in Threads : t # connection => doing'[t] = doing[t]
    BY <1>1, <1>4 DEF SepackTypes
  <1>6. Current' = "starting" /\ Coming' = Coming /\ Pipeline' = Pipeline /\ Under' = Under
    BY <1>4, <1>5 DEF Current, Coming, Pipeline, Under
  <1>7. SepackTypes'
    BY <1>1, <1>5 DEF SepackTypes
  <1>8. Roles'
    <2>1. \A u \in Users : u \in Threads /\ u # connection
      BY <1>4, CurrentThread
    <2>2. \A k \in Enumerators : k \in Threads /\ k \in Nat
      BY CurrentThread
    <2> QED
      BY <1>1, <1>4, <1>5, <2>1, <2>2 DEF Roles
  <1>9. Stages'
    BY <1>1, <1>3, <1>6 DEF Stages
  <1>10. /\ \A i \in 1..Len(inbox) : inbox[i].kind # "reply"
         /\ \A i \in 1..Len(batch) : batch[i].kind # "reply"
    <2> DEFINE r == Replies(Pipeline)
    <2>1. r \in Seq(Nat) /\ device \in Seq(Nat) /\ Pipeline \in Seq(AMessage)
      BY PipelineTypes DEF SepackTypes
    <2>2. r \o device = <<>>
      BY <1>3 DEF Ordered, Under
    <2> HIDE DEF r
    <2>3. r = <<>>
      BY <2>1, <2>2, ConcatSimplifications
    <2>4. \A i \in 1..Len(Pipeline) : Pipeline[i].kind # "reply"
      BY <2>1, <2>3, RepliesNone DEF r
    <2>5. /\ inbox \in Seq(AMessage) /\ batch \in Seq(AMessage) /\ wire \in Seq(AMessage)
          /\ Coming \in Seq(AMessage)
      BY PipelineTypes DEF SepackTypes
    <2>6. \A i \in 1..Len(inbox) : Pipeline[i] = inbox[i] /\ i \in 1..Len(Pipeline)
      BY <2>5 DEF Pipeline
    <2>7. \A i \in 1..Len(batch) : Coming[i] = batch[i] /\ i \in 1..Len(Coming)
      BY <2>5 DEF Coming
    <2>8. \A i \in 1..Len(Coming) :
             Pipeline[Len(inbox) + i] = Coming[i] /\ Len(inbox) + i \in 1..Len(Pipeline)
      <3> DEFINE c == Coming
      <3>1. c \in Seq(AMessage) /\ inbox \in Seq(AMessage) /\ Pipeline = inbox \o c
        BY <2>5 DEF Pipeline
      <3> HIDE DEF c
      <3>2. \A i \in 1..Len(c) :
               (inbox \o c)[Len(inbox) + i] = c[i] /\ Len(inbox) + i \in 1..Len(inbox \o c)
        BY <3>1
      <3> QED
        BY <3>1, <3>2 DEF c
    <2>9. \A i \in 1..Len(Coming) : Coming[i].kind # "reply"
      BY <2>4, <2>8
    <2> QED
      BY <2>4, <2>6, <2>7, <2>9
  <1>11. Noticed'
    <2>1. UNCHANGED <<inbox, batch, link, status>>
      OBVIOUS
    <2> QED
      BY <1>1, <1>2, <1>6, <1>10, <2>1 DEF Noticed
  <1>12. Announced'
    <2>1. UNCHANGED <<link, status>>
      OBVIOUS
    <2> QED
      BY <1>3, <1>6, <2>1 DEF Announced
  <1>13. Ordered'
    <2>1. UNCHANGED <<link, device, outbox, reply_chns>>
      BY <1>1
    <2> QED
      BY <1>6, <2>1 DEF Ordered
  <1>14. \A t \in Threads : Waiting(t)' <=> Waiting(t)
    BY <1>4, <1>5 DEF Waiting
  <1>15. Numbered'
    <2>1. UNCHANGED <<reply_chns, asking, asked>>
      BY <1>1
    <2> QED
      BY <1>14, <2>1 DEF Numbered
  <1>16. Listed'
    <2>1. UNCHANGED <<reply_chns, asking>>
      BY <1>1
    <2> QED
      BY <1>14, <2>1 DEF Listed
  <1>17. Unmixed'
    BY DEF Unmixed
  <1> HIDE DEF SepackInv
  <1> QED
    BY <1>7, <1>8, <1>9, <1>11, <1>12, <1>13, <1>15, <1>16, <1>17 DEF SepackInv

\* Nothing that the threads see changes.
LEMMA NothingHeard ==
    ASSUME SepackInv, UNCHANGED <<helperVars, status, batch, inbox, outbox, asking, asked, mixed>>,
           UNCHANGED <<coldplug, reply_chns, doing>>,
           connected' \in {connected, FALSE}, changed' \in {changed, FALSE},
           dirty' \in {dirty, FALSE}, awake' \in BOOLEAN,
           connected = TRUE => connected' = TRUE,
           link = "none" /\ connected = TRUE => changed' = changed /\ dirty' = dirty,
           status = "connect" => changed' = changed,
           Current = "idle" /\ status # "connect" =>
              /\ batch # <<>> \/ dirty' => ~awake'
              /\ dirty' => changed'
    PROVE  SepackInv'
  <1> USE DEF SepackInv, helperVars
  <1>1. Current' = Current /\ Coming' = Coming /\ Pipeline' = Pipeline /\ Under' = Under
    BY DEF Current, Coming, Pipeline, Under
  <1>2. connected' = TRUE <=> connected = TRUE
    OBVIOUS
  <1>3. SepackTypes'
    <2>1. connected' \in BOOLEAN \cup {Nil} /\ changed' \in BOOLEAN /\ dirty' \in BOOLEAN
      BY DEF SepackTypes
    <2> QED
      BY <2>1 DEF SepackTypes
  <1>4. Roles'
    BY DEF Roles
  <1>5. Stages'
    BY <1>1, <1>2 DEF Stages
  <1>6. Noticed'
    <2>1. /\ Current # "idle" /\ link # "none" => status = "connect" /\ ~changed /\ changed' = changed
          /\ Current = "idle" /\ status = "connect" => changed' = changed
      BY DEF Noticed
    <2>2. Current # "idle" /\ link # "none" /\ dirty' => dirty
      OBVIOUS
    <2> QED
      BY <1>1, <2>1, <2>2 DEF Noticed
  <1>7. Announced' /\ Ordered'
    BY <1>1 DEF Announced, Ordered
  <1>8. Numbered' /\ Listed' /\ Unmixed'
    BY DEF Numbered, Listed, Unmixed, Waiting
  <1> HIDE DEF SepackInv
  <1> QED
    BY <1>3, <1>4, <1>5, <1>6, <1>7, <1>8 DEF SepackInv

\* Everyone who waits is answered.
LEMMA DisconnectAnswers ==
    ASSUME SepackInv, UNCHANGED <<helperVars, status, batch, inbox, outbox, asking, asked, mixed>>,
           coldplug' = coldplug, status = "false", connected = TRUE, connected' = FALSE,
           OnDisconnect, changed' \in BOOLEAN, dirty' \in BOOLEAN, awake' \in BOOLEAN
    PROVE  SepackInv'
  <1> USE DEF SepackInv, helperVars
  <1>1. Current = "done" /\ link = "none" /\ reply_chns # Nil
    <2>1. Current = "done"
      BY DEF Stages
    <2>2. link = "none"
      BY <2>1 DEF Noticed
    <2> QED
      BY <2>1, <2>2 DEF Stages
  <1>2. /\ reply_chns' = Nil
        /\ doing' = [t \in Threads |->
                        IF Waiting(t) /\ asking[t] \in ToSet(reply_chns) THEN After(t)
                        ELSE doing[t]]
    BY DEF OnDisconnect
  <1>3. \A t \in Threads : Waiting(t) => asking[t] \in ToSet(reply_chns)
    <2> SUFFICES ASSUME NEW t \in Threads, Waiting(t) PROVE asking[t] \in ToSet(reply_chns)
      OBVIOUS
    <2>1. PICK i \in 1..Len(reply_chns) : reply_chns[i] = asking[t]
      BY DEF Listed
    <2>2. reply_chns \in Seq(Nat)
      BY <1>1 DEF SepackTypes
    <2>3. i \in DOMAIN reply_chns
      BY <2>2, <2>1
    <2> QED
      BY <2>1, <2>3, Zenon DEF ToSet
  <1>4. \A t \in Threads : Waiting(t) => t \in Users /\ doing[t] = "waiting" /\ After(t) = "idle"
    <2> SUFFICES ASSUME NEW t \in Threads, Waiting(t)
                 PROVE  t \in Users /\ doing[t] = "waiting" /\ After(t) = "idle"
      OBVIOUS
    <2>1. t \notin Enumerators
      <3>1. doing[t] \in {"waiting", "naming", "setup"}
        BY DEF Waiting
      <3>2. t \in Enumerators => doing[t] = "done"
        BY <1>1, <3>1, CurrentThread
      <3> QED
        BY <3>1, <3>2
    <2>2. t \in Users
      BY <2>1 DEF Threads
    <2>3. doing[t] = "waiting"
      BY <2>2 DEF Waiting, Roles
    <2> QED
      BY <2>2, <2>3 DEF After
  <1>5. \A t \in Threads : doing'[t] = IF Waiting(t) THEN "idle" ELSE doing[t]
    BY <1>2, <1>3, <1>4
  <1>6. /\ Users \subseteq Threads /\ Enumerators \subseteq Threads
        /\ \A k \in Enumerators : ~Waiting(k)
    BY <1>4, CurrentThread
  <1>7. \A t \in Threads : ~Waiting(t)'
    BY <1>5 DEF Waiting
  <1>8. Current' = Current /\ Coming' = Coming
    BY <1>1, <1>5, <1>6, CurrentThread DEF Current, Coming
  <1>9. SepackTypes'
    <2>1. doing' \in [Threads -> {"idle", "waiting", "starting", "naming", "named", "setup",
                                  "finishing", "done"}]
      <3>1. \A t \in Threads : doing'[t] \in {"idle", "waiting", "starting", "naming", "named",
                                              "setup", "finishing", "done"}
        BY <1>5 DEF SepackTypes
      <3> QED
        BY <1>2, <3>1
    <2> QED
      BY <1>2, <2>1 DEF SepackTypes
  <1>10. Roles'
    <2>1. \A u \in Users : doing'[u] \in {"idle", "waiting"}
      BY <1>5, <1>6 DEF Roles
    <2>2. \A k \in Enumerators : doing'[k] = doing[k]
      BY <1>5, <1>6
    <2> QED
      BY <2>1, <2>2 DEF Roles
  <1>11. Stages'
    BY <1>1, <1>2, <1>8 DEF Stages
  <1>12. Noticed'
    BY <1>1, <1>8 DEF Noticed
  <1>13. Announced'
    BY <1>1, <1>8 DEF Announced
  <1>14. Ordered'
    BY <1>1, <1>2 DEF Ordered
  <1>15. Numbered' /\ Listed' /\ Unmixed'
    BY <1>2, <1>7 DEF Numbered, Listed, Unmixed
  <1> HIDE DEF SepackInv
  <1> QED
    BY <1>9, <1>10, <1>11, <1>12, <1>13, <1>14, <1>15 DEF SepackInv

LEMMA ExtStatusKeeps ==
    ASSUME SepackInv, changed, ExtStatus,
           UNCHANGED <<helperVars, status, batch, inbox, outbox, asking, asked, mixed>>,
           \/ awake /\ UNCHANGED <<awake, dirty>>
           \/ batch = <<>> /\ dirty' = FALSE /\ awake' = TRUE
    PROVE  SepackInv'
  <1> USE DEF SepackInv
  <1>1. dirty' \in {dirty, FALSE} /\ awake' \in BOOLEAN /\ dirty' \in BOOLEAN
    BY DEF SepackTypes
  <1>2. changed' = FALSE
    BY DEF ExtStatus
  <1>3. status # "connect" => (Current # "idle" => link = "none")
    BY DEF Noticed
  <1>4. connected = TRUE /\ status # "connect" =>
           Current = "done" /\ link = "none" /\ status = "false" /\ ~coldplug
    <2> SUFFICES ASSUME connected = TRUE, status # "connect"
                 PROVE  Current = "done" /\ link = "none" /\ status = "false" /\ ~coldplug
      OBVIOUS
    <2>1. Current = "done"
      BY DEF Stages
    <2>2. link = "none" /\ status = "false"
      BY <1>3, <2>1 DEF Noticed
    <2>3. ~coldplug
      BY <2>1, CurrentThread DEF Roles
    <2> QED
      BY <2>1, <2>2, <2>3
  <1>5. Current = "idle" /\ status # "connect" =>
           /\ batch # <<>> \/ dirty' => ~awake'
           /\ dirty' => changed'
    <2> SUFFICES ASSUME Current = "idle", status # "connect" PROVE batch = <<>> /\ ~dirty'
      OBVIOUS
    <2>1. awake => batch = <<>> /\ ~dirty
      BY DEF Noticed
    <2> QED
      BY <2>1
  <1>6. CASE status = "connect"
    BY <1>1, <1>6, HeardConnect
  <1>7. CASE status = "true" \/ (coldplug /\ status # "connect")
    <2>1. UNCHANGED <<coldplug, connected, reply_chns, doing>>
      BY <1>7 DEF ExtStatus
    <2>2. connected # TRUE
      BY <1>4, <1>7
    <2> QED
      BY <1>1, <1>2, <1>5, <1>7, <2>1, <2>2, NothingHeard
  <1>8. CASE ~coldplug /\ status \in {"false", "coldplug-end"}
    <2>1. connected' = FALSE /\ coldplug' = coldplug
      BY <1>8 DEF ExtStatus
    <2>2. CASE status = "false" /\ connected = TRUE
      <3>1. OnDisconnect
        BY <1>8, <2>2 DEF ExtStatus
      <3> QED
        BY <1>1, <1>2, <2>1, <2>2, <3>1, DisconnectAnswers
    <2>3. CASE ~(status = "false" /\ connected = TRUE)
      <3>1. UNCHANGED <<coldplug, reply_chns, doing>>
        BY <1>8, <2>3 DEF ExtStatus
      <3>2. connected # TRUE
        BY <1>4, <1>8, <2>3
      <3> QED
        BY <1>1, <1>2, <1>5, <1>8, <2>1, <3>1, <3>2, NothingHeard
    <2> QED
      BY <2>2, <2>3
  <1> QED
    BY <1>6, <1>7, <1>8 DEF ExtStatus

LEMMA SepackPollKeeps == ASSUME SepackInv, SepackPoll PROVE SepackInv'
  <1> USE DEF SepackInv
  <1>1. awake /\ UNCHANGED <<helperVars, status, dirty, batch, inbox, outbox, asking, asked, mixed>>
    BY DEF SepackPoll
  <1>2. CASE changed /\ ExtStatus /\ UNCHANGED awake
    BY <1>1, <1>2, ExtStatusKeeps
  <1>3. CASE ~changed /\ inbox = <<>> /\ awake' = FALSE
    <2>1. UNCHANGED <<changed, coldplug, connected, reply_chns, doing>>
      BY <1>3 DEF SepackPoll, stateVars
    <2>2. Current = "idle" /\ status # "connect" => (dirty => changed)
      BY DEF Noticed
    <2> QED
      BY <1>1, <1>3, <2>1, <2>2, NothingHeard
  <1> QED
    BY <1>2, <1>3 DEF SepackPoll

LEMMA NotifyKeeps == ASSUME SepackInv, Notify PROVE SepackInv'
  <1> USE DEF SepackInv
  <1>1. /\ AllWait /\ dirty' = FALSE
        /\ UNCHANGED <<helperVars, status, batch, inbox, outbox, asking, asked, mixed>>
    BY DEF Notify
  <1>2. batch = <<>> /\ ~awake
    BY <1>1 DEF AllWait
  <1>3. CASE changed
    <2>1. ExtStatus /\ awake' = TRUE
      BY <1>3 DEF Notify
    <2> QED
      BY <1>1, <1>2, <1>3, <2>1, ExtStatusKeeps
  <1>4. CASE ~changed
    <2>1. UNCHANGED <<awake, changed, coldplug, connected, reply_chns, doing>>
      BY <1>4 DEF Notify, stateVars
    <2>2. ~(link = "none" /\ connected = TRUE)
      BY <1>4 DEF Stages
    <2>3. awake' \in BOOLEAN
      BY <2>1 DEF SepackTypes
    <2> QED
      BY <1>1, <1>2, <2>1, <2>2, <2>3, NothingHeard
  <1> QED
    BY <1>3, <1>4

LEMMA SepackStutters == ASSUME SepackInv, UNCHANGED vars PROVE SepackInv'
  <1> USE DEF SepackInv, vars, helperVars, statusVars, loopVars, stateVars, requestVars
  <1>1. Current' = Current /\ Coming' = Coming /\ Pipeline' = Pipeline /\ Under' = Under
    BY DEF Current, Coming, Pipeline, Under
  <1>2. SepackTypes'
    BY DEF SepackTypes
  <1>3. Roles' /\ Noticed' /\ Announced'
    BY <1>1 DEF Roles, Noticed, Announced
  <1>4. Stages' /\ Ordered'
    BY <1>1 DEF Stages, Ordered
  <1>5. Numbered' /\ Listed' /\ Unmixed'
    BY DEF Numbered, Listed, Unmixed, Waiting
  <1> QED
    BY <1>2, <1>3, <1>4, <1>5

\* No frame was torn yet, so that no input error comes.
LEMMA InputErrorKeeps == ASSUME SepackInv, InputError PROVE SepackInv'
  <1>1. batch \in Seq(AMessage) /\ batch # <<>>
    BY DEF SepackInv, SepackTypes, InputError
  <1>2. Head(batch) \in AMessage
    BY <1>1
  <1>3. Head(batch).kind # "torn"
    BY <1>2 DEF AMessage
  <1> QED
    BY <1>3 DEF InputError

Fault == LoseRequest \/ LoseReply \/ Tear

LEMMA SepackStep == ASSUME ~Unpluggable, SepackInv, [Next]_vars, ~Fault PROVE SepackInv'
  <1>1. ASSUME NEW u \in Users, Xchg(u) PROVE SepackInv'
    BY <1>1, XchgKeeps
  <1>2. ASSUME NEW k \in Enumerators, Enumerate(k) PROVE SepackInv'
    BY <1>2, EnumerateControlKeeps, EnumerateOtherKeeps, EnumerateDoneKeeps DEF Enumerate
  <1>3. CASE SepackLoop
    BY <1>3, SepackPacketKeeps, SepackPollKeeps, NotifyKeeps DEF SepackLoop
  <1>4. CASE SendOut \/ Launch \/ Accept \/ ReadBatch \/ HandleMessage \/ InputError
    BY <1>4, SendOutKeeps, LaunchKeeps, AcceptKeeps, ReadBatchKeeps, HandleMessageKeeps,
       InputErrorKeeps
  <1>5. CASE NoDevice \/ Plug \/ Reply \/ Data \/ Unplug
    BY <1>5, NoDeviceKeeps, PlugKeeps, ReplyKeeps, DataKeeps, UnplugKeeps
  <1>6. CASE UNCHANGED vars
    BY <1>6, SepackStutters
  <1> QED
    BY <1>1, <1>2, <1>3, <1>4, <1>5, <1>6 DEF Next, Fault

----------------------------------------------------------------------------
(* Faults: the invariant holds until the first one. *)

SafeUntilFault ==
    /\ lost \in Nat /\ torn \in Nat
    /\ Faultless => SepackInv

LEMMA OthersLoseNothing ==
    ASSUME [Next]_vars, ~Fault
    PROVE  UNCHANGED faultVars
  <1>1. ASSUME NEW u \in Users, Xchg(u) PROVE UNCHANGED faultVars
    BY <1>1 DEF Xchg
  <1>2. ASSUME NEW k \in Enumerators, Enumerate(k) PROVE UNCHANGED faultVars
    BY <1>2 DEF Enumerate, EnumerateControl, EnumerateOther, EnumerateDone
  <1>3. CASE SepackLoop
    BY <1>3 DEF SepackLoop, SepackPacket, SepackPoll, Notify
  <1>4. CASE SendOut \/ Launch \/ Accept \/ ReadBatch \/ HandleMessage \/ InputError
    BY <1>4 DEF SendOut, Launch, Accept, ReadBatch, HandleMessage, InputError
  <1>5. CASE NoDevice \/ Plug \/ Reply \/ Data \/ Unplug
    BY <1>5 DEF NoDevice, Plug, Reply, Data, Unplug
  <1>6. CASE UNCHANGED vars
    BY <1>6 DEF vars
  <1> QED
    BY <1>1, <1>2, <1>3, <1>4, <1>5, <1>6 DEF Next, Fault

LEMMA FaultsStay ==
    ASSUME lost \in Nat, torn \in Nat, [Next]_vars
    PROVE  /\ lost' \in Nat /\ torn' \in Nat
           /\ Fault => ~Faultless'
           /\ ~Fault => Faultless' = Faultless
  <1>1. CASE Fault
    BY <1>1 DEF Fault, LoseRequest, LoseReply, Tear, Faultless
  <1>2. CASE ~Fault
    BY <1>2, OthersLoseNothing DEF Faultless, faultVars
  <1> QED
    BY <1>1, <1>2

LEMMA SepackInvariance == ASSUME ~Unpluggable PROVE Spec => []SafeUntilFault
  <1>1. Init => SafeUntilFault
    BY SepackStart DEF Init, SafeUntilFault
  <1>2. SafeUntilFault /\ [Next]_vars => SafeUntilFault'
    <2> SUFFICES ASSUME SafeUntilFault, [Next]_vars PROVE SafeUntilFault'
      OBVIOUS
    <2>1. lost \in Nat /\ torn \in Nat
      BY DEF SafeUntilFault
    <2>2. CASE Faultless'
      <3>1. ~Fault /\ Faultless
        BY <2>1, <2>2, FaultsStay
      <3>2. SepackInv'
        BY <3>1, SepackStep DEF SafeUntilFault
      <3> QED
        BY <2>1, <3>2, FaultsStay DEF SafeUntilFault
    <2>3. CASE ~Faultless'
      BY <2>1, <2>3, FaultsStay DEF SafeUntilFault
    <2> QED
      BY <2>2, <2>3
  <1> QED
    BY <1>1, <1>2, PTL DEF Spec

----------------------------------------------------------------------------
(* The theorems. *)

\* A thread is given the reply to its own request, or the empty answer of a disconnect
\* (lualib/sepack.lua, control:_inbox_put, which knows of no numbers), if the device stays while
\* its channels are enumerated, and until a packet is lost or a frame torn.
THEOREM SepackRepliesMatch == ASSUME ~Unpluggable PROVE Spec => []RepliesMatch
  <1>1. SafeUntilFault => RepliesMatch
    BY DEF SafeUntilFault, SepackInv, Unmixed, RepliesMatch
  <1> QED
    BY <1>1, SepackInvariance, PTL

\* Nobody waits for a reply without being on the list of those who will be answered by the next
\* replies or by on_disconnect, and nobody is on it who does not wait.
LEMMA EveryoneListed == SepackInv => WaitersListed
  <1> SUFFICES ASSUME SepackInv PROVE WaitersListed
    OBVIOUS
  <1> DEFINE W == {asking[t] : t \in {t \in Threads : Waiting(t)}}
  <1>1. CASE reply_chns = Nil
    <2>1. \A t \in Threads : ~Waiting(t)
      BY <1>1 DEF SepackInv, Listed
    <2> QED
      BY <1>1, <2>1 DEF WaitersListed
  <1>2. CASE reply_chns # Nil
    <2>1. DOMAIN reply_chns = 1..Len(reply_chns)
      BY <1>2 DEF SepackInv, SepackTypes
    <2>2. /\ \A t \in Threads : Waiting(t) => \E i \in DOMAIN reply_chns : reply_chns[i] = asking[t]
          /\ \A i \in DOMAIN reply_chns : \E t \in Threads : Waiting(t) /\ reply_chns[i] = asking[t]
      BY <1>2, <2>1 DEF SepackInv, Listed
    <2>3. W = ToSet(reply_chns)
      <3> DEFINE V == {reply_chns[i] : i \in DOMAIN reply_chns}
      <3>1. ASSUME NEW x \in W PROVE x \in V
        <4>1. PICK t \in Threads : Waiting(t) /\ x = asking[t]
          OBVIOUS
        <4> QED
          BY <2>2, <4>1
      <3>2. ASSUME NEW x \in V PROVE x \in W
        <4>1. PICK i \in DOMAIN reply_chns : x = reply_chns[i]
          OBVIOUS
        <4>2. PICK t \in Threads : Waiting(t) /\ x = asking[t]
          BY <2>2, <4>1
        <4> QED
          BY <4>2
      <3> HIDE DEF W, V
      <3>3. W = V
        BY <3>1, <3>2
      <3> QED
        BY <3>3 DEF V, ToSet
    <2> QED
      BY <1>2, <2>3 DEF WaitersListed
  <1> QED
    BY <1>1, <1>2

\* The replies and requests under way between Sepack, the helper and the device are the requests
\* that wait, none lost or doubled and in the same order, as long as the connection lasts; and
\* everyone who waits is on the list.  All this until a packet is lost or a frame torn.
THEOREM SepackInOrder == ASSUME ~Unpluggable PROVE Spec => []InOrder
  <1>1. SafeUntilFault => InOrder
    <2> SUFFICES ASSUME SepackInv, link = "plugged", reply_chns # Nil
                 PROVE  Replies(inbox \o batch \o wire) \o device \o outbox = reply_chns
      BY EveryoneListed DEF InOrder, SafeUntilFault
    <2>1. inbox \in Seq(AMessage) /\ batch \in Seq(AMessage) /\ wire \in Seq(AMessage)
      BY DEF SepackInv, SepackTypes
    <2>2. (inbox \o batch) \o wire = inbox \o (batch \o wire)
      BY <2>1, ConcatAssociative
    <2>3. reply_chns = (Replies(inbox \o (batch \o wire)) \o device) \o outbox
      BY DEF SepackInv, Ordered, Under, Pipeline, Coming
    <2> QED
      BY <2>2, <2>3
  <1> QED
    BY <1>1, SepackInvariance, PTL

----------------------------------------------------------------------------
(* Requests and replies as an exchange. *)

\* What the callers see.
Exchanged == <<Calls, asked, connected = TRUE, mixed, ~Faultless>>

\* Who waits has made a request, and mixed has a truth value.
HasAsked ==
    /\ mixed = FALSE
    /\ \A t \in Threads : Waiting(t) => asking[t] # 0

LEMMA NobodyElse ==
    ASSUME HasAsked, Faultless' = Faultless, UNCHANGED <<asking, asked, connected, mixed>>,
           \A t \in Threads : Waiting(t)' <=> Waiting(t)
    PROVE  HasAsked' /\ UNCHANGED Exchanged
  <1>1. Calls' = Calls
    BY DEF Calls
  <1> QED
    BY <1>1 DEF HasAsked, Exchanged

LEMMA AskCalls ==
    ASSUME SepackTypes, HasAsked, NEW t \in Threads, ~Waiting(t),
           NEW w \in {"waiting", "naming", "setup"},
           asked' = asked + 1, asking' = [asking EXCEPT ![t] = asked + 1],
           doing' = [doing EXCEPT ![t] = w], UNCHANGED <<connected, mixed>>,
           Faultless' = Faultless
    PROVE  HasAsked' /\ Requests!Call(t)
  <1>1. /\ asked \in Nat /\ asked + 1 # 0
        /\ asking'[t] = asked + 1 /\ doing'[t] = w
        /\ \A u \in Threads : u # t => asking'[u] = asking[u] /\ doing'[u] = doing[u]
    BY DEF SepackTypes
  <1>2. Waiting(t)' /\ \A u \in Threads : u # t => (Waiting(u)' <=> Waiting(u))
    BY <1>1 DEF Waiting
  <1>3. HasAsked'
    BY <1>1, <1>2 DEF HasAsked
  <1>4. Calls[t] = 0
    BY DEF Calls
  <1>5. Calls' = [Calls EXCEPT ![t] = asked + 1]
    <2>1. \A u \in Threads : Calls'[u] = IF u = t THEN asked + 1 ELSE Calls[u]
      BY <1>1, <1>2 DEF Calls
    <2>2. /\ Calls = [u \in Threads |-> Calls[u]]
          /\ Calls' = [u \in Threads |-> Calls'[u]]
      BY DEF Calls
    <2> QED
      BY <2>1, <2>2
  <1> QED
    BY <1>3, <1>4, <1>5 DEF Requests!Call

LEMMA HeadAnswered ==
    ASSUME SepackInv, HasAsked, reply_chns # Nil, reply_chns # <<>>,
           TakeReply(Head(inbox).request), Unmixed',
           UNCHANGED <<asking, asked, connected, connection>>, Faultless' = Faultless
    PROVE  HasAsked' /\ \E t \in Threads : Requests!Answer(t)
  <1>0. PICK t : t = Waiter(Head(reply_chns))
    OBVIOUS
  <1>1. /\ reply_chns' = Tail(reply_chns) /\ doing' = [doing EXCEPT ![t] = After(t)]
        /\ mixed' = (mixed \/ Head(reply_chns) # Head(inbox).request)
    BY <1>0 DEF TakeReply
  <1>2. mixed' = FALSE
    BY <1>1, Zenon DEF Unmixed
  <1>3. t \in Threads /\ Waiting(t)
    BY <1>0, <1>1, FirstAnswered
  <1>4. reply_chns \in Seq(Nat) /\ Head(reply_chns) = reply_chns[1] /\ 1 \in 1..Len(reply_chns)
    <2>1. reply_chns \in Seq(Nat)
      BY DEF SepackInv, SepackTypes
    <2> QED
      BY <2>1, HeadIsFirst, LenProperties
  <1>5. asking[t] = reply_chns[1]
    <2>1. \E u \in Threads : Waiting(u) /\ asking[u] = Head(reply_chns)
      BY <1>4 DEF SepackInv, Listed
    <2> QED
      BY <1>0, <1>4, <2>1 DEF Waiter
  <1>6. /\ doing'[t] = After(t)
        /\ \A u \in Threads : u # t => doing'[u] = doing[u]
    BY <1>1, <1>3 DEF SepackInv, SepackTypes
  <1>7. ~Waiting(t)' /\ \A u \in Threads : u # t => (Waiting(u)' <=> Waiting(u))
    <2>1. After(t) \in {"idle", "named", "finishing"}
      BY <1>3 DEF Waiting, After
    <2> QED
      BY <1>6, <2>1 DEF Waiting
  <1>8. HasAsked'
    BY <1>2, <1>7 DEF HasAsked
  <1>9. Calls[t] # 0 /\ Calls[t] = asking[t]
    BY <1>3 DEF Calls, HasAsked
  <1>10. ASSUME NEW u \in Threads \ {t}, Calls[u] # 0 PROVE Calls[t] < Calls[u]
    <2>1. Waiting(u) /\ Calls[u] = asking[u]
      BY <1>10 DEF Calls
    <2>2. PICK i \in 1..Len(reply_chns) : reply_chns[i] = asking[u]
      BY <2>1 DEF SepackInv, Listed
    <2>3. i # 1
      BY <1>3, <1>5, <2>1, <2>2 DEF SepackInv, Numbered
    <2>4. 1 < i
      BY <2>3
    <2>5. reply_chns[1] < reply_chns[i]
      BY <1>4, <2>4 DEF SepackInv, Numbered
    <2> QED
      BY <1>5, <1>9, <2>1, <2>2, <2>5
  <1>11. Calls' = [Calls EXCEPT ![t] = 0]
    <2>1. \A u \in Threads : Calls'[u] = IF u = t THEN 0 ELSE Calls[u]
      BY <1>7 DEF Calls
    <2>2. /\ Calls = [u \in Threads |-> Calls[u]]
          /\ Calls' = [u \in Threads |-> Calls'[u]]
      BY DEF Calls
    <2> QED
      BY <2>1, <2>2
  <1>12. UNCHANGED <<asked, connected = TRUE, mixed>>
    BY <1>2 DEF HasAsked
  <1>13. Requests!Answer(t)
    BY <1>9, <1>10, <1>11, <1>12 DEF Requests!Answer
  <1> QED
    BY <1>3, <1>8, <1>13

LEMMA PacketExchanged ==
    ASSUME SepackInv, SepackInv', HasAsked, SepackPacket, Faultless' = Faultless
    PROVE  HasAsked' /\ [Requests!Next]_Exchanged
  <1>1. UNCHANGED <<asking, asked, connected, connection>>
    BY DEF SepackPacket, helperVars
  <1>2. CASE Head(inbox).kind = "reply" /\ reply_chns \notin {Nil, <<>>}
    <2>1. TakeReply(Head(inbox).request)
      BY <1>2 DEF SepackPacket
    <2>2. Unmixed'
      BY DEF SepackInv
    <2>3. HasAsked' /\ \E t \in Threads : Requests!Answer(t)
      BY <1>1, <1>2, <2>1, <2>2, HeadAnswered
    <2> QED
      BY <2>3 DEF Requests!Next
  <1>3. CASE ~(Head(inbox).kind = "reply" /\ reply_chns \notin {Nil, <<>>})
    <2>1. UNCHANGED <<doing, mixed>>
      BY <1>3 DEF SepackPacket, TakeReply
    <2>2. \A t \in Threads : Waiting(t)' <=> Waiting(t)
      BY <2>1 DEF Waiting
    <2> QED
      BY <1>1, <2>1, <2>2, NobodyElse
  <1> QED
    BY <1>2, <1>3

\* connected falls only at the disconnect of a device that was enumerated.
LEMMA StatusExchanged ==
    ASSUME SepackInv, HasAsked, changed, ExtStatus,
           UNCHANGED <<asking, asked, connection, mixed>>, Faultless' = Faultless
    PROVE  HasAsked' /\ [Requests!Next]_Exchanged
  <1> USE DEF SepackInv
  <1>1. CASE status = "connect"
    <2>1. doing' = [doing EXCEPT ![connection] = "starting"] /\ connected' = connected
      BY <1>1 DEF ExtStatus
    <2>2. link \notin {"none", "started", "connected"}
      BY <1>1 DEF Noticed
    <2>3. connection \in Threads /\ doing[connection] = "idle"
      <3>1. Current = "idle"
        BY <1>1, <2>2 DEF Noticed
      <3>2. connection # 0
        BY <2>2 DEF Roles, SepackTypes
      <3> QED
        BY <3>1, <3>2, CurrentThread
    <2>4. \A t \in Threads : Waiting(t)' <=> Waiting(t)
      BY <2>1, <2>3 DEF Waiting, SepackTypes
    <2> QED
      BY <2>1, <2>4, NobodyElse
  <1>2. CASE status = "true" \/ (coldplug /\ status # "connect")
    <2>1. UNCHANGED <<connected, doing>>
      BY <1>2 DEF ExtStatus
    <2>2. \A t \in Threads : Waiting(t)' <=> Waiting(t)
      BY <2>1 DEF Waiting
    <2> QED
      BY <2>1, <2>2, NobodyElse
  <1>3. CASE ~coldplug /\ status \in {"false", "coldplug-end"} /\ connected # TRUE
    <2>1. doing' = doing /\ connected' # TRUE
      BY <1>3 DEF ExtStatus
    <2>2. Calls' = Calls /\ (connected = TRUE)' = (connected = TRUE)
      BY <1>3, <2>1 DEF Calls, Waiting
    <2>3. HasAsked'
      BY <2>1 DEF HasAsked, Waiting
    <2> QED
      BY <2>2, <2>3 DEF Exchanged
  <1>4. CASE ~coldplug /\ status \in {"false", "coldplug-end"} /\ connected = TRUE
    <2>1. Current = "done" /\ reply_chns # Nil
      BY <1>4 DEF Stages
    <2>2. status = "false"
      BY <1>4, <2>1 DEF Noticed
    <2>3. OnDisconnect /\ connected' = FALSE
      BY <1>4, <2>2 DEF ExtStatus
    <2>4. ASSUME NEW t \in Threads PROVE ~Waiting(t)'
      <3>1. doing'[t] = IF Waiting(t) /\ asking[t] \in ToSet(reply_chns) THEN After(t)
                        ELSE doing[t]
        BY <2>3 DEF OnDisconnect
      <3>2. CASE Waiting(t)
        <4>1. PICK i \in 1..Len(reply_chns) : reply_chns[i] = asking[t]
          BY <3>2 DEF Listed
        <4>2. reply_chns \in Seq(Nat)
          BY <2>1 DEF SepackTypes
        <4>3. i \in DOMAIN reply_chns
          BY <4>1, <4>2
        <4>4. asking[t] \in ToSet(reply_chns)
          BY <4>1, <4>3, Zenon DEF ToSet
        <4>5. After(t) \in {"idle", "named", "finishing"}
          BY <3>2 DEF Waiting, After
        <4> QED
          BY <3>1, <3>2, <4>4, <4>5 DEF Waiting
      <3>3. CASE ~Waiting(t)
        BY <3>1, <3>3 DEF Waiting
      <3> QED
        BY <3>2, <3>3
    <2>5. Calls' = [t \in Threads |-> 0]
      BY <2>4 DEF Calls
    <2>6. HasAsked'
      BY <2>4 DEF HasAsked
    <2>7. Requests!Disconnect
      BY <1>4, <2>3, <2>5 DEF Requests!Disconnect
    <2> QED
      BY <2>6, <2>7 DEF Requests!Next
  <1> QED
    BY <1>1, <1>2, <1>3, <1>4 DEF ExtStatus

LEMMA LoopExchanged ==
    ASSUME SepackInv, SepackInv', HasAsked, SepackLoop, Faultless' = Faultless
    PROVE  HasAsked' /\ [Requests!Next]_Exchanged
  <1>1. CASE SepackPacket
    BY <1>1, PacketExchanged
  <1>2. CASE SepackPoll \/ Notify
    <2>1. UNCHANGED <<asking, asked, connection, mixed>>
      BY <1>2 DEF SepackPoll, Notify, helperVars
    <2>2. CASE changed /\ ExtStatus
      BY <2>1, <2>2, StatusExchanged
    <2>3. CASE ~(changed /\ ExtStatus)
      <3>1. UNCHANGED <<connected, doing>>
        BY <1>2, <2>3 DEF SepackPoll, Notify, stateVars
      <3>2. \A t \in Threads : Waiting(t)' <=> Waiting(t)
        BY <3>1 DEF Waiting
      <3> QED
        BY <2>1, <3>1, <3>2, NobodyElse
    <2> QED
      BY <2>2, <2>3
  <1> QED
    BY <1>1, <1>2 DEF SepackLoop

LEMMA EnumerationExchanged ==
    ASSUME SepackInv, HasAsked, NEW k \in Enumerators, Enumerate(k), Faultless' = Faultless
    PROVE  HasAsked' /\ [Requests!Next]_Exchanged
  <1> USE DEF SepackInv
  <1>1. /\ k \in Threads /\ ~Waiting(k) /\ doing[k] \in {"starting", "named", "finishing"}
        /\ mixed' = mixed
    BY CurrentThread DEF Enumerate, EnumerateControl, EnumerateOther, EnumerateDone, Waiting
  <1>2. ASSUME NEW w \in {"named", "finishing", "done"}, doing' \in {doing, [doing EXCEPT ![k] = w]}
        PROVE  \A t \in Threads : Waiting(t)' <=> Waiting(t)
    BY <1>1, <1>2 DEF Waiting, SepackTypes
  <1>3. CASE EnumerateControl(k) /\ control = "none"
    <2>1. /\ asked' = asked + 1 /\ asking' = [asking EXCEPT ![k] = asked + 1]
          /\ doing' = [doing EXCEPT ![k] = "naming"] /\ connected' = connected
      BY <1>3 DEF EnumerateControl
    <2>2. HasAsked' /\ Requests!Call(k)
      BY <1>1, <2>1, AskCalls
    <2> QED
      BY <1>1, <2>2 DEF Requests!Next
  <1>4. CASE EnumerateControl(k) /\ control # "none"
    <2>1. /\ doing' \in {doing, [doing EXCEPT ![k] = "named"]}
          /\ UNCHANGED <<asking, asked, connected>>
      BY <1>4 DEF EnumerateControl
    <2> QED
      BY <1>1, <1>2, <2>1, NobodyElse
  <1>5. CASE EnumerateOther(k) /\ reply_chns # Nil
    <2>1. /\ asked' = asked + 1 /\ asking' = [asking EXCEPT ![k] = asked + 1]
          /\ doing' = [doing EXCEPT ![k] = "setup"] /\ connected' = connected
      BY <1>5 DEF EnumerateOther, Ask, stateVars
    <2>2. HasAsked' /\ Requests!Call(k)
      BY <1>1, <2>1, AskCalls
    <2> QED
      BY <1>1, <2>2 DEF Requests!Next
  <1>6. CASE EnumerateOther(k) /\ reply_chns = Nil
    <2>1. /\ doing' = [doing EXCEPT ![k] = "finishing"]
          /\ UNCHANGED <<asking, asked, connected>>
      BY <1>6 DEF EnumerateOther, Ask, stateVars
    <2> QED
      BY <1>1, <1>2, <2>1, NobodyElse
  <1>7. CASE EnumerateDone(k)
    <2>1. /\ doing[k] = "finishing" /\ doing' = [doing EXCEPT ![k] = "done"]
          /\ connected' = TRUE /\ UNCHANGED <<asking, asked>>
      BY <1>7 DEF EnumerateDone
    <2>2. connected # TRUE
      BY <2>1, CurrentThread DEF Stages
    <2>3. \A t \in Threads : Waiting(t)' <=> Waiting(t)
      BY <1>2, <2>1
    <2>4. Calls' = Calls
      BY <2>1, <2>3 DEF Calls
    <2>5. HasAsked'
      BY <1>1, <2>1, <2>3 DEF HasAsked
    <2>6. Requests!Connect
      BY <1>1, <2>1, <2>2, <2>4 DEF Requests!Connect
    <2> QED
      BY <2>5, <2>6 DEF Requests!Next
  <1> QED
    BY <1>3, <1>4, <1>5, <1>6, <1>7 DEF Enumerate

\* The helper, the device and the transport are invisible.
LEMMA RestExchanged ==
    ASSUME HasAsked, Faultless' = Faultless,
           \/ SendOut \/ Launch \/ Accept \/ ReadBatch \/ HandleMessage \/ InputError
           \/ NoDevice \/ Plug \/ Reply \/ Data \/ Unplug \/ UNCHANGED vars
    PROVE  HasAsked' /\ UNCHANGED Exchanged
  <1>1. UNCHANGED <<doing, asking, asked, connected, mixed>>
    BY DEF SendOut, Launch, Accept, ReadBatch, HandleMessage, InputError, NoDevice, Plug, Reply,
           Data, Unplug, Sends, vars, stateVars, requestVars
  <1>2. \A t \in Threads : Waiting(t)' <=> Waiting(t)
    BY <1>1 DEF Waiting
  <1> QED
    BY <1>1, <1>2, NobodyElse

LEMMA ExchangeStep ==
    ASSUME SepackInv, SepackInv', HasAsked, [Next]_vars, ~Fault, Faultless' = Faultless
    PROVE  HasAsked' /\ [Requests!Next]_Exchanged
  <1>1. ASSUME NEW u \in Users, Xchg(u) PROVE HasAsked' /\ [Requests!Next]_Exchanged
    <2>1. /\ asked' = asked + 1 /\ asking' = [asking EXCEPT ![u] = asked + 1]
          /\ doing' = [doing EXCEPT ![u] = "waiting"] /\ UNCHANGED <<connected, mixed>>
      BY <1>1 DEF Xchg, Ask, stateVars
    <2>2. u \in Threads /\ ~Waiting(u)
      BY <1>1 DEF Xchg, Waiting, Threads
    <2>3. HasAsked' /\ Requests!Call(u)
      BY <2>1, <2>2, AskCalls DEF SepackInv
    <2> QED
      BY <2>2, <2>3 DEF Requests!Next
  <1>2. ASSUME NEW k \in Enumerators, Enumerate(k) PROVE HasAsked' /\ [Requests!Next]_Exchanged
    BY <1>2, EnumerationExchanged
  <1>3. CASE SepackLoop
    BY <1>3, LoopExchanged
  <1>4. CASE \/ SendOut \/ Launch \/ Accept \/ ReadBatch \/ HandleMessage \/ InputError
             \/ NoDevice \/ Plug \/ Reply \/ Data \/ Unplug \/ UNCHANGED vars
    BY <1>4, RestExchanged
  <1> QED
    BY <1>1, <1>2, <1>3, <1>4 DEF Next, Fault

\* A fault changes nothing for the callers but what they are promised.
LEMMA FaultExchanged ==
    ASSUME Fault, ~Faultless'
    PROVE  Requests!Break
  <1>1. UNCHANGED <<doing, asking, asked, connected, mixed>>
    BY DEF Fault, LoseRequest, LoseReply, Tear, Sends, stateVars, requestVars
  <1>2. Calls' = Calls
    BY <1>1 DEF Calls, Waiting
  <1> QED
    BY <1>1, <1>2 DEF Requests!Break

AskedUntilFault == Faultless => HasAsked

LEMMA ExchangeOrFault ==
    ASSUME SafeUntilFault, SafeUntilFault', AskedUntilFault, [Next]_vars
    PROVE  AskedUntilFault' /\ [Requests!Next]_Exchanged
  <1>1. /\ Fault => ~Faultless'
        /\ ~Fault => Faultless' = Faultless
    BY FaultsStay DEF SafeUntilFault
  <1>2. CASE Fault
    BY <1>1, <1>2, FaultExchanged DEF AskedUntilFault, Requests!Next
  <1>3. CASE ~Fault /\ Faultless
    <2>1. SepackInv /\ SepackInv' /\ HasAsked /\ Faultless' = Faultless
      BY <1>1, <1>3 DEF SafeUntilFault, AskedUntilFault
    <2>2. HasAsked' /\ [Requests!Next]_Exchanged
      BY <1>3, <2>1, ExchangeStep
    <2> QED
      BY <2>2 DEF AskedUntilFault
  <1>4. CASE ~Fault /\ ~Faultless
    <2>1. Requests!AfterBreak
      BY <1>1, <1>4 DEF Requests!AfterBreak
    <2> QED
      BY <1>1, <1>4, <2>1 DEF AskedUntilFault, Requests!Next
  <1> QED
    BY <1>2, <1>3, <1>4

LEMMA ExchangeStart == Init => HasAsked /\ Requests!Init
  <1> SUFFICES ASSUME Init PROVE HasAsked /\ Requests!Init
    OBVIOUS
  <1>1. \A t \in Threads : ~Waiting(t)
    BY DEF Init, Waiting
  <1>2. Calls = [t \in Threads |-> 0]
    BY <1>1 DEF Calls
  <1>3. connected # TRUE
    BY NilIsNone DEF Init
  <1>4. Faultless
    BY DEF Init, Faultless
  <1> QED
    BY <1>1, <1>2, <1>3, <1>4 DEF Init, HasAsked, Requests!Init

\* What the threads see of the control channel is an exchange of requests and replies, through
\* every end and restart of the helper process: each is answered alone and in its turn, or with
\* all the others when connected falls, if the device stays while it is enumerated, and until a
\* packet is lost or a frame torn.
THEOREM ImplementsExchange == ASSUME ~Unpluggable PROVE Spec => RequestsAreExchanges
  <1>1. Init => AskedUntilFault /\ Requests!Init
    BY ExchangeStart DEF AskedUntilFault
  <1>2. SafeUntilFault /\ SafeUntilFault' /\ AskedUntilFault /\ [Next]_vars
           => AskedUntilFault' /\ [Requests!Next]_Exchanged
    BY ExchangeOrFault
  <1> QED
    BY <1>1, <1>2, SepackInvariance, PTL
       DEF Spec, RequestsAreExchanges, Requests!Spec, Exchanged
===============================================================================
