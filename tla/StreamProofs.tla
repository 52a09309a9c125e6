------------------------------ MODULE StreamProofs ------------------------------
(****************************************************************************)
(* One writer and a socket: whatever the messages, the capacity of the      *)
(* stream and the pieces in which bytes are sent and received, Stream.tla   *)
(* delivers what it accepts.                                                *)
(****************************************************************************)
EXTENDS Stream, SequenceTheorems, WellFoundedInduction, TLAPS

----------------------------------------------------------------------------
(* Cutting sequences *)

\* A name for it, so that it can be instantiated.
Regrouped(s, t, u) == (s \o t) \o u = s \o (t \o u)

LEMMA Associative ==
    ASSUME NEW S, NEW s \in Seq(S), NEW t \in Seq(S), NEW u \in Seq(S)
    PROVE  Regrouped(s, t, u)
  <1> DEFINE a == (s \o t) \o u
             b == s \o (t \o u)
  <1>1. a \in Seq(S) /\ b \in Seq(S) /\ Len(a) = Len(b)
    OBVIOUS
  <1>2. \A i \in 1..Len(a) : a[i] = b[i]
    OBVIOUS
  <1> HIDE DEF a, b
  <1>3. a = b
    BY <1>1, <1>2, SeqEqual
  <1> QED
    BY <1>3 DEF a, b, Regrouped

LEMMA CancelLeft ==
    ASSUME NEW S, NEW s \in Seq(S), NEW t \in Seq(S), NEW u \in Seq(S), s \o t = s \o u
    PROVE  t = u
  BY ConcatSimplifications, Zenon

LEMMA CancelRight ==
    ASSUME NEW S, NEW s \in Seq(S), NEW t \in Seq(S), NEW u \in Seq(S), s \o u = t \o u
    PROVE  s = t
  BY ConcatSimplifications, Zenon

LEMMA CutAt ==
    ASSUME NEW S, NEW s \in Seq(S), NEW k \in 0..Len(s)
    PROVE  /\ SubSeq(s, 1, k) \in Seq(S) /\ SubSeq(s, k + 1, Len(s)) \in Seq(S)
           /\ Len(SubSeq(s, 1, k)) = k /\ Len(SubSeq(s, k + 1, Len(s))) = Len(s) - k
           /\ \A i \in 1..k : SubSeq(s, 1, k)[i] = s[i]
           /\ SubSeq(s, 1, k) \o SubSeq(s, k + 1, Len(s)) = s
  <1>1. Len(s) \in Nat /\ k \in Nat /\ k <= Len(s) /\ \A i \in 1..Len(s) : s[i] \in S
    BY LenProperties, ElementOfSeq
  <1>2. \A i \in 1..k : s[i] \in S
    BY <1>1
  <1>3. /\ SubSeq(s, 1, k) \in Seq(S)
        /\ Len(SubSeq(s, 1, k)) = IF 1 <= k THEN k - 1 + 1 ELSE 0
        /\ \A i \in 1..(k - 1 + 1) : SubSeq(s, 1, k)[i] = s[1 + i - 1]
    BY <1>1, <1>2, SubSeqProperties
  <1>4. \A i \in (k + 1)..Len(s) : s[i] \in S
    BY <1>1
  <1>5. /\ SubSeq(s, k + 1, Len(s)) \in Seq(S)
        /\ Len(SubSeq(s, k + 1, Len(s))) = IF k + 1 <= Len(s) THEN Len(s) - (k + 1) + 1 ELSE 0
    BY <1>1, <1>4, SubSeqProperties
  <1>6. SubSeq(s, 1, k) \o SubSeq(s, k + 1, Len(s)) = s
    <2>1. 1 \in 1..(Len(s) + 1) /\ k \in (1 - 1)..Len(s) /\ Len(s) \in k..Len(s)
      BY <1>1
    <2> QED
      BY <2>1, ConcatAdjacentSubSeq, SubSeqFull
  <1>7. Len(SubSeq(s, 1, k)) = k /\ \A i \in 1..k : SubSeq(s, 1, k)[i] = s[i]
    BY <1>1, <1>3
  <1>8. Len(SubSeq(s, k + 1, Len(s))) = Len(s) - k
    BY <1>1, <1>5
  <1> QED
    BY <1>3, <1>5, <1>6, <1>7, <1>8

\* c is the front of a, and e what remains of it with b behind.
Cuts(S, a, b, c, e) ==
    /\ SubSeq(a, 1, Len(c)) = c /\ SubSeq(a, Len(c) + 1, Len(a)) \in Seq(S)
    /\ SubSeq(a, Len(c) + 1, Len(a)) \o b = e

\* What two ways to cut the same sequence have in common.
LEMMA CutFront ==
    ASSUME NEW S, NEW a \in Seq(S), NEW b \in Seq(S), NEW c \in Seq(S), NEW e \in Seq(S),
           Len(c) <= Len(a)
    PROVE  a \o b = c \o e => Cuts(S, a, b, c, e)
  <1> DEFINE front == SubSeq(a, 1, Len(c))
             rest == SubSeq(a, Len(c) + 1, Len(a))
  <1>1. Len(a) \in Nat /\ Len(c) \in Nat /\ Len(b) \in Nat /\ Len(e) \in Nat
        /\ Len(c) \in 0..Len(a)
    BY LenProperties
  <1>2. /\ front \in Seq(S) /\ rest \in Seq(S) /\ Len(front) = Len(c)
        /\ \A i \in 1..Len(c) : front[i] = a[i]
        /\ front \o rest = a
    <2> DEFINE k == Len(c)
    <2>1. k \in 0..Len(a)
      BY <1>1
    <2> HIDE DEF k
    <2>2. /\ SubSeq(a, 1, k) \in Seq(S) /\ SubSeq(a, k + 1, Len(a)) \in Seq(S)
          /\ Len(SubSeq(a, 1, k)) = k
          /\ \A i \in 1..k : SubSeq(a, 1, k)[i] = a[i]
          /\ SubSeq(a, 1, k) \o SubSeq(a, k + 1, Len(a)) = a
      BY <2>1, CutAt
    <2> QED
      BY <2>2 DEF k
  <1> HIDE DEF front, rest
  <1>3. (c \o rest) \o b = c \o (rest \o b)
    <2>1. rest \in Seq(S)
      BY <1>2
    <2> QED
      <3>1. Regrouped(c, rest, b)
        BY <2>1, Associative, Zenon
      <3> QED
        BY <3>1 DEF Regrouped
  <1>4. rest \o b \in Seq(S)
    BY <1>2, ConcatProperties
  <1>5. ASSUME a \o b = c \o e, NEW i \in 1..Len(c) PROVE a[i] = c[i]
    <2>1. i \in 1..(Len(a) + Len(b)) /\ i \in 1..(Len(c) + Len(e)) /\ i <= Len(c) /\ i <= Len(a)
      BY <1>1
    <2>2. (a \o b)[i] = a[i] /\ (c \o e)[i] = c[i]
      BY <2>1, ConcatProperties
    <2> QED
      BY <1>5, <2>2
  <1>6. ASSUME a \o b = c \o e PROVE front = c /\ rest \o b = e
    <2>1. front = c
      BY <1>2, <1>5, <1>6, SeqEqual
    <2>2. c \o (rest \o b) = c \o e
      BY <1>2, <1>3, <1>6, <2>1, Zenon
    <2>3. rest \o b = e
      BY <1>4, <2>2, CancelLeft, Zenon
    <2> QED
      BY <2>1, <2>3
  <1> QED
    BY <1>2, <1>6 DEF front, rest, Cuts

----------------------------------------------------------------------------
(* FlattenSeq, by induction over the natural numbers: the least number principle of *)
(* WellFoundedInduction, for the set of the numbers for which something does not hold. *)

LEMMA NatSetInduction ==
    ASSUME NEW T, 0 \in T, \A n \in Nat : n \in T => n + 1 \in T
    PROVE  \A n \in Nat : n \in T
  <1> DEFINE U == Nat \ T
  <1> SUFFICES ASSUME U # {} PROVE FALSE
    OBVIOUS
  <1>1. PICK n \in U : \A k \in U : ~ (<<k, n>> \in OpToRel(<, Nat))
    <2>1. U \subseteq Nat
      OBVIOUS
    <2> HIDE DEF U
    <2> QED
      BY <2>1, WFMin, NatLessThanWellFounded, Zenon
  <1>2. n # 0 /\ n - 1 \in Nat /\ n \in Nat /\ n - 1 < n /\ n = (n - 1) + 1
    BY SMT
  <1>3. <<n - 1, n>> \in OpToRel(<, Nat)
    BY <1>2, SMT DEF OpToRel
  <1>4. n - 1 \in T
    BY <1>1, <1>2, <1>3, Zenon
  <1> QED
    BY <1>2, <1>4

\* g[i] is the first i of the sequences fs, one after the other.
Upto(fs, n, g) == g = [i \in 1..n |-> IF i = 1 THEN fs[i] ELSE g[i - 1] \o fs[i]]

LEMMA UptoExists ==
    ASSUME NEW S, NEW fs \in Seq(Seq(S))
    PROVE  \E g \in [1..Len(fs) -> Seq(S)] : Upto(fs, Len(fs), g)
  <1> DEFINE T == {n \in Nat : n <= Len(fs) => \E g \in [1..n -> Seq(S)] : Upto(fs, n, g)}
  <1>1. Len(fs) \in Nat /\ \A i \in 1..Len(fs) : fs[i] \in Seq(S)
    BY LenProperties, ElementOfSeq
  <1>2. 0 \in T
    <2> DEFINE g == [i \in 1..0 |-> <<>>]
    <2>1. 1..0 = {}
      OBVIOUS
    <2>2. g \in [1..0 -> Seq(S)] /\ Upto(fs, 0, g)
      BY <2>1 DEF Upto
    <2> QED
      BY <2>2
  <1>3. ASSUME NEW n \in Nat, n \in T PROVE n + 1 \in T
    <2> SUFFICES ASSUME n + 1 <= Len(fs)
                 PROVE  \E g \in [1..(n + 1) -> Seq(S)] : Upto(fs, n + 1, g)
      OBVIOUS
    <2>1. n <= Len(fs) /\ n + 1 \in 1..Len(fs)
      BY <1>1
    <2>2. PICK g \in [1..n -> Seq(S)] : Upto(fs, n, g)
      BY <1>3, <2>1
    <2> DEFINE new == IF n = 0 THEN fs[1] ELSE g[n] \o fs[n + 1]
               h == [i \in 1..(n + 1) |-> IF i = n + 1 THEN new ELSE g[i]]
    <2>3. new \in Seq(S)
      <3>1. n # 0 => n \in 1..n
        OBVIOUS
      <3> QED
        BY <1>1, <2>1, <2>2, <3>1, ConcatProperties
    <2>4. \A i \in 1..n : g[i] = IF i = 1 THEN fs[i] ELSE g[i - 1] \o fs[i]
      BY <2>2 DEF Upto
    <2>5. \A i \in 1..(n + 1) : i # n + 1 => i \in 1..n
      OBVIOUS
    <2>6. h \in [1..(n + 1) -> Seq(S)]
      <3> HIDE DEF new
      <3> QED
        BY <2>2, <2>3, <2>5
    <2>7. \A i \in 1..(n + 1) : (IF i = n + 1 THEN new ELSE g[i])
                                = IF i = 1 THEN fs[i] ELSE h[i - 1] \o fs[i]
      <3> TAKE i \in 1..(n + 1)
      <3>1. i # 1 => i - 1 \in 1..(n + 1) /\ i - 1 # n + 1
        OBVIOUS
      <3>2. i # 1 => h[i - 1] = g[i - 1]
        BY <3>1
      <3>3. CASE i = n + 1
        <4>1. (i = 1) = (n = 0) /\ i - 1 = n
          BY <3>3
        <4> HIDE DEF h
        <4> QED
          BY <3>2, <3>3, <4>1
      <3>4. CASE i # n + 1
        <4> HIDE DEF h, new
        <4> QED
          BY <2>4, <2>5, <3>2, <3>4
      <3> QED
        BY <3>3, <3>4
    <2>8. Upto(fs, n + 1, h)
      <3> HIDE DEF new
      <3>1. h = [i \in 1..(n + 1) |-> IF i = 1 THEN fs[i] ELSE h[i - 1] \o fs[i]]
        BY <2>7, Zenon
      <3> QED
        BY <3>1 DEF Upto
    <2> QED
      BY <2>6, <2>8
  <1>4. \A n \in Nat : n \in T
    <2> HIDE DEF T
    <2> QED
      BY <1>2, <1>3, NatSetInduction
  <1> QED
    BY <1>1, <1>4

LEMMA UptoUnique ==
    ASSUME NEW fs, NEW n \in Nat, NEW g, NEW h, Upto(fs, n, g), Upto(fs, n, h)
    PROVE  g = h
  <1> DEFINE T == {k \in Nat : k \in 1..n => g[k] = h[k]}
  <1>1. \A i \in 1..n : /\ g[i] = IF i = 1 THEN fs[i] ELSE g[i - 1] \o fs[i]
                        /\ h[i] = IF i = 1 THEN fs[i] ELSE h[i - 1] \o fs[i]
    BY DEF Upto
  <1>2. 0 \in T
    OBVIOUS
  <1>3. ASSUME NEW k \in Nat, k \in T PROVE k + 1 \in T
    <2> SUFFICES ASSUME k + 1 \in 1..n PROVE g[k + 1] = h[k + 1]
      OBVIOUS
    <2>1. k + 1 = 1 \/ (k + 1 # 1 /\ k \in 1..n /\ (k + 1) - 1 = k)
      OBVIOUS
    <2> QED
      BY <1>1, <1>3, <2>1
  <1>4. \A k \in Nat : k \in T
    <2> HIDE DEF T
    <2> QED
      BY <1>2, <1>3, NatSetInduction
  <1>5. \A k \in 1..n : g[k] = h[k]
    BY <1>4
  <1>6. /\ g = [i \in 1..n |-> IF i = 1 THEN fs[i] ELSE g[i - 1] \o fs[i]]
        /\ h = [i \in 1..n |-> IF i = 1 THEN fs[i] ELSE h[i - 1] \o fs[i]]
    BY DEF Upto
  <1>7. g = [i \in 1..n |-> g[i]] /\ h = [i \in 1..n |-> h[i]]
    BY <1>6
  <1>8. [i \in 1..n |-> g[i]] = [i \in 1..n |-> h[i]]
    BY <1>5
  <1> QED
    BY <1>7, <1>8

LEMMA FlattenIs ==
    ASSUME NEW S, NEW fs \in Seq(S), fs # <<>>, NEW h, Upto(fs, Len(fs), h)
    PROVE  FlattenSeq(fs) = h[Len(fs)]
  <1>1. Len(fs) \in Nat /\ Len(fs) # 0
    BY EmptySeq
  <1>2. h = [i \in 1..Len(fs) |-> IF i = 1 THEN fs[i] ELSE h[i - 1] \o fs[i]]
    BY DEF Upto
  <1>3. ASSUME NEW g, g = [i \in 1..Len(fs) |-> IF i = 1 THEN fs[i] ELSE g[i - 1] \o fs[i]]
        PROVE  g = h
    <2>1. Upto(fs, Len(fs), g)
      BY <1>3, Zenon DEF Upto
    <2> QED
      BY <1>1, <2>1, UptoUnique, Zenon
  <1> QED
    BY <1>1, <1>2, <1>3 DEF FlattenSeq

LEMMA FlattenNone == FlattenSeq(<<>>) = <<>>
  BY EmptySeq DEF FlattenSeq

LEMMA FlattenType ==
    ASSUME NEW S, NEW fs \in Seq(Seq(S))
    PROVE  FlattenSeq(fs) \in Seq(S)
  <1>1. CASE fs = <<>>
    BY <1>1, FlattenNone, EmptySeq
  <1>2. CASE fs # <<>>
    <2>1. PICK g \in [1..Len(fs) -> Seq(S)] : Upto(fs, Len(fs), g)
      BY UptoExists
    <2>2. Len(fs) \in 1..Len(fs)
      BY <1>2, EmptySeq
    <2>3. FlattenSeq(fs) = g[Len(fs)]
      BY <1>2, <2>1, FlattenIs, Zenon
    <2> QED
      BY <2>1, <2>2, <2>3
  <1> QED
    BY <1>1, <1>2

LEMMA FlattenLast ==
    ASSUME NEW S, NEW fs \in Seq(Seq(S)), NEW f \in Seq(S)
    PROVE  FlattenSeq(Append(fs, f)) = FlattenSeq(fs) \o f
  <1> DEFINE n == Len(fs)
             t == Append(fs, f)
             flat == FlattenSeq(fs)
  <1>1. PICK h \in [1..n -> Seq(S)] : Upto(fs, n, h)
    BY UptoExists
  <1>2. /\ t \in Seq(Seq(S)) /\ t # <<>> /\ n \in Nat /\ Len(t) = n + 1 /\ t[n + 1] = f
        /\ \A i \in 1..n : t[i] = fs[i]
    BY AppendProperties, LenProperties
  <1>3. (n # 0 => flat = h[n]) /\ (n = 0 => flat \o f = f)
    <2>1. n # 0 => flat = h[n]
      BY <1>1, <1>2, EmptySeq, FlattenIs
    <2>2. n = 0 => flat = <<>>
      BY EmptySeq, FlattenNone
    <2> QED
      BY <2>1, <2>2, ConcatEmptySeq
  <1> HIDE DEF flat, n, t
  <1> DEFINE k == [i \in 1..(n + 1) |-> IF i = n + 1 THEN flat \o f ELSE h[i]]
  <1>4. \A i \in 1..(n + 1) : (IF i = n + 1 THEN flat \o f ELSE h[i])
                              = IF i = 1 THEN t[i] ELSE k[i - 1] \o t[i]
    <2> TAKE i \in 1..(n + 1)
    <2>1. i # 1 => i - 1 \in 1..(n + 1) /\ i - 1 # n + 1
      BY <1>2
    <2>2. i # 1 => k[i - 1] = h[i - 1]
      BY <2>1
    <2> HIDE DEF k
    <2>3. CASE i = n + 1
      <3>1. (i = 1) = (n = 0) /\ i - 1 = n
        BY <1>2, <2>3
      <3> QED
        BY <1>2, <1>3, <2>2, <2>3, <3>1
    <2>4. CASE i # n + 1
      <3>1. i \in 1..n
        BY <1>2, <2>4
      <3>2. h[i] = IF i = 1 THEN fs[i] ELSE h[i - 1] \o fs[i]
        BY <1>1, <3>1 DEF Upto
      <3> QED
        BY <1>2, <2>2, <2>4, <3>1, <3>2
    <2> QED
      BY <2>3, <2>4
  <1>5. Upto(t, n + 1, k)
    <2>1. k = [i \in 1..(n + 1) |-> IF i = 1 THEN t[i] ELSE k[i - 1] \o t[i]]
      BY <1>4, Zenon
    <2> QED
      BY <2>1 DEF Upto
  <1>6. k[n + 1] = flat \o f
    BY <1>2
  <1> HIDE DEF k
  <1>7. FlattenSeq(t) = k[n + 1]
    BY <1>2, <1>5, FlattenIs
  <1> QED
    BY <1>6, <1>7 DEF flat, t

LEMMA FlattenFirst ==
    ASSUME NEW S, NEW fs \in Seq(Seq(S)), NEW f \in Seq(S)
    PROVE  FlattenSeq(<<f>> \o fs) = f \o FlattenSeq(fs)
  <1> DEFINE n == Len(fs)
             t == <<f>> \o fs
             flat == FlattenSeq(fs)
  <1>1. PICK h \in [1..n -> Seq(S)] : Upto(fs, n, h)
    BY UptoExists
  <1>2. /\ t \in Seq(Seq(S)) /\ t # <<>> /\ n \in Nat /\ Len(t) = n + 1 /\ t[1] = f
        /\ \A i \in 2..(n + 1) : t[i] = fs[i - 1]
    OBVIOUS
  <1>3. (n # 0 => flat = h[n]) /\ (n = 0 => f \o flat = f)
    <2>1. n # 0 => flat = h[n]
      BY <1>1, <1>2, EmptySeq, FlattenIs
    <2>2. n = 0 => flat = <<>>
      BY EmptySeq, FlattenNone
    <2> QED
      BY <2>1, <2>2, ConcatEmptySeq
  <1>4. \A i \in 1..n : /\ h[i] = IF i = 1 THEN fs[i] ELSE h[i - 1] \o fs[i]
                        /\ h[i] \in Seq(S) /\ fs[i] \in Seq(S)
    BY <1>1, ElementOfSeq DEF Upto
  <1> HIDE DEF flat, n, t
  <1> DEFINE k == [i \in 1..(n + 1) |-> IF i = 1 THEN f ELSE f \o h[i - 1]]
  <1>5. \A i \in 1..(n + 1) : (IF i = 1 THEN f ELSE f \o h[i - 1])
                              = IF i = 1 THEN t[i] ELSE k[i - 1] \o t[i]
    <2> TAKE i \in 1..(n + 1)
    <2>1. CASE i = 1
      BY <1>2, <2>1
    <2>2. CASE i # 1
      <3>1. /\ i \in 2..(n + 1) /\ i - 1 \in 1..n /\ i - 1 \in 1..(n + 1)
            /\ (i - 1 # 1 => (i - 1) - 1 \in 1..n)
        BY <1>2, <2>2
      <3>2. t[i] = fs[i - 1] /\ k[i - 1] = IF i - 1 = 1 THEN f ELSE f \o h[(i - 1) - 1]
        BY <1>2, <3>1
      <3> HIDE DEF k
      <3>3. CASE i - 1 = 1
        BY <1>4, <2>2, <3>1, <3>2, <3>3
      <3>4. CASE i - 1 # 1
        <4>1. /\ h[i - 1] = h[(i - 1) - 1] \o fs[i - 1]
              /\ h[(i - 1) - 1] \in Seq(S) /\ fs[i - 1] \in Seq(S)
          BY <1>4, <3>1, <3>4
        <4>2. (f \o h[(i - 1) - 1]) \o fs[i - 1] = f \o (h[(i - 1) - 1] \o fs[i - 1])
          <5> DEFINE x == h[(i - 1) - 1]
                     y == fs[i - 1]
          <5>1. x \in Seq(S) /\ y \in Seq(S)
            BY <4>1
          <5> HIDE DEF x, y
          <5>2. (f \o x) \o y = f \o (x \o y)
            <6>1. Regrouped(f, x, y)
              BY <5>1, Associative, Zenon
            <6> QED
              BY <6>1 DEF Regrouped
          <5> QED
            BY <5>2 DEF x, y
        <4> QED
          BY <2>2, <3>2, <3>4, <4>1, <4>2
      <3> QED
        BY <3>3, <3>4
    <2> QED
      BY <2>1, <2>2
  <1>6. Upto(t, n + 1, k)
    <2>1. k = [i \in 1..(n + 1) |-> IF i = 1 THEN t[i] ELSE k[i - 1] \o t[i]]
      BY <1>5, Zenon
    <2> QED
      BY <2>1 DEF Upto
  <1>7. k[n + 1] = f \o flat
    <2>1. n + 1 \in 1..(n + 1) /\ (n + 1) - 1 = n /\ (n + 1 = 1 <=> n = 0)
      BY <1>2
    <2>2. k[n + 1] = IF n = 0 THEN f ELSE f \o h[n]
      BY <2>1
    <2> QED
      BY <1>3, <2>2
  <1> HIDE DEF k
  <1>8. FlattenSeq(t) = k[n + 1]
    BY <1>2, <1>6, FlattenIs
  <1> QED
    BY <1>7, <1>8 DEF flat, t

----------------------------------------------------------------------------
(* The inductive invariant *)

Byte == {Newline, Other} \cup {Digit(n) : n \in 0..9}
Datum == {d \in Seq({Newline, Other}) : Len(d) < 10}

Frames(ds) == [i \in 1..Len(ds) |-> Frame(ds[i])]
Flat(ds) == FlattenSeq(Frames(ds))

\* The messages that were accepted and not received.
Left == SubSeq(accepted, Len(received) + 1, Len(accepted))

\* What is to come of the messages ds for a reader in the state s.
Ahead(s, ds) ==
    IF s = "line" THEN Flat(ds)
    ELSE (IF s = "data" THEN Head(ds) \o <<Newline>> ELSE <<Newline>>) \o Flat(Tail(ds))

\* What is left to write.
Unsent == IF stack = <<>> THEN <<>> ELSE SubSeq(Top.bytes, Top.start, Len(Top.bytes))

StreamTypes ==
    /\ next \in Nat \ {0}
    /\ accepted \in Seq(Datum) /\ received \in Seq(Datum)
    /\ stream \in Seq(Byte) /\ buffer \in Seq(Byte)
    /\ state \in {"line", "data", "newline"}
    /\ failed = FALSE

\* One call at most, with the frame of what was accepted last; its watcher waits, or it runs.
Writer ==
    \/ stack = <<>> /\ running = FALSE /\ armed = {}
    \/ \E n \in 1..Len(Frame(Last(accepted))) :
          /\ stack = <<[bytes |-> Frame(Last(accepted)), start |-> n]>>
          /\ accepted # <<>>
          /\ running => armed = {}

\* The reader knows of the first of them what it has read.
Reader ==
    /\ Len(received) <= Len(accepted) /\ received = SubSeq(accepted, 1, Len(received))
    /\ state # "line" => Left # <<>>
    /\ state = "data" => length = Len(Head(Left))
    /\ state = "newline" => data = Head(Left)

StreamInv ==
    /\ StreamTypes
    /\ Writer
    /\ Reader
    /\ buffer \o (stream \o Unsent) = Ahead(state, Left)

----------------------------------------------------------------------------
(* Lines and frames *)

\* The number of a line of one digit.
LEMMA OneDigit ==
    ASSUME NEW b, b[2] \in Nat
    PROVE  FoldLeft(LAMBDA n, byte : 10 * n + byte[2], 0, <<b>>) = b[2]
  <1> DEFINE Fold(f) == f = [s \in SUBSET {1} |->
                                IF s = {} THEN 0
                                ELSE 10 * f[s \ {Max(s)}] + <<b>>[Max(s)][2]]
             Iter == CHOOSE f : Fold(f)
             g == [s \in SUBSET {1} |-> IF s = {} THEN 0 ELSE b[2]]
  <1>1. Max({1}) = 1
    BY DEF Max
  <1>2. SUBSET {1} = {{}, {1}} /\ {1} \ {1} = {} /\ {1} # {}
    OBVIOUS
  <1>3. Fold(g)
    <2>1. g[{}] = 0 /\ <<b>>[1][2] = b[2] /\ 10 * 0 + b[2] = b[2]
      OBVIOUS
    <2>2. \A s \in SUBSET {1} : (IF s = {} THEN 0 ELSE b[2])
                                = IF s = {} THEN 0
                                  ELSE 10 * g[s \ {Max(s)}] + <<b>>[Max(s)][2]
      <3>1. g[{1} \ {1}] = 0
        BY <1>2, <2>1
      <3>2. b[2] = 10 * g[{1} \ {Max({1})}] + <<b>>[Max({1})][2]
        <4> HIDE DEF g
        <4> QED
          BY <1>1, <2>1, <3>1
      <3> HIDE DEF g
      <3> QED
        BY <1>2, <3>2
    <2> QED
      BY <2>2
  <1>4. Fold(Iter)
    <2> HIDE DEF Fold, g
    <2> QED
      BY <1>3
  <1>5. Iter[{1}] = b[2]
    <2> HIDE DEF Iter
    <2>1. Iter[{}] = 0
      BY <1>2, <1>4
    <2>2. Iter[{1}] = 10 * Iter[{1} \ {1}] + <<b>>[1][2]
      BY <1>1, <1>2, <1>4
    <2>3. Iter[{1} \ {1}] = 0 /\ <<b>>[1][2] = b[2]
      BY <1>2, <2>1
    <2> HIDE DEF Fold
    <2> QED
      BY <2>2, <2>3
  <1>6. DOMAIN <<b>> = {1}
    OBVIOUS
  <1>7. FoldLeft(LAMBDA n, byte : 10 * n + byte[2], 0, <<b>>) = Iter[{1}]
    BY <1>6 DEF FoldLeft, MapThenFoldSet
  <1> QED
    BY <1>5, <1>7

LEMMA Bytes ==
    /\ Newline \in Byte /\ {Newline, Other} \subseteq Byte
    /\ \A n \in 0..9 : Digit(n) \in Byte
    /\ \A n : Digit(n) # Newline /\ Digit(n)[1] = "digit" /\ Digit(n)[2] = n
  <1>1. \A n : Digit(n)[1] = "digit" /\ Digit(n)[2] = n
    BY DEF Digit
  <1>2. Newline[1] = "newline" /\ "newline" # "digit"
    BY DEF Newline
  <1>3. \A n : Digit(n) # Newline
    BY <1>1, <1>2
  <1> QED
    BY <1>1, <1>3 DEF Byte

LEMMA FrameIs ==
    ASSUME NEW d \in Datum
    PROVE  /\ Len(d) \in 0..9 /\ d \in Seq(Byte)
           /\ <<Newline>> \in Seq(Byte) /\ d \o <<Newline>> \in Seq(Byte)
           /\ <<Digit(Len(d)), Newline>> \in Seq(Byte)
           /\ Frame(d) \in Seq(Byte) /\ Len(Frame(d)) = Len(d) + 3
           /\ Len(d \o <<Newline>>) = Len(d) + 1
           /\ Frame(d) = <<Digit(Len(d)), Newline>> \o (d \o <<Newline>>)
  <1> DEFINE h == <<Digit(Len(d)), Newline>>
             e == <<Newline>>
  <1>1. d \in Seq({Newline, Other}) /\ Len(d) < 10 /\ Len(d) \in Nat
    BY LenProperties DEF Datum
  <1>2. Len(d) \in 0..9
    <2>1. \A n \in Nat : n < 10 => n \in 0..9
      OBVIOUS
    <2> QED
      BY <1>1, <2>1, Zenon
  <1>3. d \in Seq(Byte)
    BY <1>1, Bytes, SeqMonotonic
  <1>4. h \in Seq(Byte) /\ e \in Seq(Byte) /\ Len(h) = 2 /\ Len(e) = 1
    <2>1. Digit(Len(d)) \in Byte /\ Newline \in Byte
      BY <1>2, Bytes
    <2> QED
      BY <2>1
  <1>5. Frame(d) = (h \o d) \o e
    BY DEF Frame
  <1> HIDE DEF h, e
  <1>6. (h \o d) \o e = h \o (d \o e)
    <2>1. Regrouped(h, d, e)
      BY <1>3, <1>4, Associative, Zenon
    <2> QED
      BY <2>1 DEF Regrouped
  <1>7. d \o e \in Seq(Byte) /\ Len(d \o e) = Len(d) + 1
    <2>1. d \o e \in Seq(Byte) /\ Len(d \o e) = Len(d) + Len(e)
      BY <1>3, <1>4, ConcatProperties, Zenon
    <2> QED
      BY <1>4, <2>1
  <1>8. h \o (d \o e) \in Seq(Byte) /\ Len(h \o (d \o e)) = Len(d) + 3
    <2> DEFINE f == d \o e
    <2>1. f \in Seq(Byte) /\ Len(f) = Len(d) + 1
      BY <1>7
    <2> HIDE DEF f
    <2>2. h \o f \in Seq(Byte) /\ Len(h \o f) = Len(h) + Len(f)
      BY <1>4, <2>1, ConcatProperties, Zenon
    <2>3. Len(h) + Len(f) = Len(d) + 3
      BY <1>1, <1>4, <2>1
    <2> QED
      BY <2>2, <2>3, Zenon DEF f
  <1> QED
    BY <1>2, <1>3, <1>4, <1>5, <1>6, <1>7, <1>8 DEF h, e

LEMMA FramesType == ASSUME NEW ds \in Seq(Datum) PROVE Frames(ds) \in Seq(Seq(Byte)) /\ Len(Frames(ds)) = Len(ds)
  <1>1. Len(ds) \in Nat /\ \A i \in 1..Len(ds) : ds[i] \in Datum
    BY LenProperties, ElementOfSeq
  <1>2. \A i \in 1..Len(ds) : Frame(ds[i]) \in Seq(Byte)
    BY <1>1, FrameIs
  <1> QED
    BY <1>1, <1>2 DEF Frames

LEMMA FlatType == ASSUME NEW ds \in Seq(Datum) PROVE Flat(ds) \in Seq(Byte)
  BY FramesType, FlattenType DEF Flat

LEMMA FlatLast ==
    ASSUME NEW ds \in Seq(Datum), NEW d \in Datum
    PROVE  Flat(Append(ds, d)) = Flat(ds) \o Frame(d)
  <1>1. Frame(d) \in Seq(Byte) /\ Frames(ds) \in Seq(Seq(Byte)) /\ Len(Frames(ds)) = Len(ds)
    BY FrameIs, FramesType
  <1>2. Frames(Append(ds, d)) = Append(Frames(ds), Frame(d))
    <2> DEFINE a == Frames(Append(ds, d))
               b == Append(Frames(ds), Frame(d))
    <2>1. /\ Append(ds, d) \in Seq(Datum) /\ Len(Append(ds, d)) = Len(ds) + 1 /\ Len(ds) \in Nat
          /\ \A i \in 1..Len(ds) : Append(ds, d)[i] = ds[i]
          /\ Append(ds, d)[Len(ds) + 1] = d
      BY AppendProperties, LenProperties
    <2>2. a \in Seq(Seq(Byte)) /\ Len(a) = Len(ds) + 1
      BY <2>1, FramesType
    <2>3. /\ b \in Seq(Seq(Byte)) /\ Len(b) = Len(ds) + 1
          /\ \A i \in 1..Len(ds) : b[i] = Frames(ds)[i]
          /\ b[Len(ds) + 1] = Frame(d)
      BY <1>1, AppendProperties
    <2>4. \A i \in 1..(Len(ds) + 1) : a[i] = Frame(Append(ds, d)[i])
      BY <2>1 DEF Frames
    <2>5. \A i \in 1..Len(ds) : Frames(ds)[i] = Frame(ds[i])
      BY DEF Frames
    <2> HIDE DEF a, b
    <2>6. ASSUME NEW i \in 1..(Len(ds) + 1) PROVE a[i] = b[i]
      <3>1. CASE i \in 1..Len(ds)
        BY <2>1, <2>3, <2>4, <2>5, <3>1
      <3>2. CASE i = Len(ds) + 1
        BY <2>1, <2>3, <2>4, <3>2
      <3>3. i \in 1..Len(ds) \/ i = Len(ds) + 1
        BY <2>1
      <3> QED
        BY <3>1, <3>2, <3>3
    <2>7. a = b
      BY <2>2, <2>3, <2>6, SeqEqual
    <2> QED
      BY <2>7 DEF a, b
  <1> QED
    BY <1>1, <1>2, FlattenLast DEF Flat

LEMMA OneFirst ==
    ASSUME NEW S, NEW x \in S, NEW s \in Seq(S)
    PROVE  /\ <<x>> \o s \in Seq(S) /\ Len(<<x>> \o s) = Len(s) + 1 /\ (<<x>> \o s)[1] = x
           /\ \A i \in 2..(Len(s) + 1) : (<<x>> \o s)[i] = s[i - 1]
  OBVIOUS

LEMMA FlatFirst ==
    ASSUME NEW ds \in Seq(Datum), ds # <<>>
    PROVE  Flat(ds) = Frame(Head(ds)) \o Flat(Tail(ds))
  <1>1. /\ Len(ds) \in Nat /\ Len(ds) > 0 /\ Head(ds) = ds[1] /\ Head(ds) \in Datum
        /\ Tail(ds) \in Seq(Datum) /\ Len(Tail(ds)) = Len(ds) - 1
        /\ \A i \in 1..(Len(ds) - 1) : Tail(ds)[i] = ds[i + 1]
    BY EmptySeq, HeadTailProperties
  <1>2. /\ Frame(Head(ds)) \in Seq(Byte) /\ Frames(ds) \in Seq(Seq(Byte)) /\ Len(Frames(ds)) = Len(ds)
        /\ Frames(Tail(ds)) \in Seq(Seq(Byte)) /\ Len(Frames(Tail(ds))) = Len(ds) - 1
    BY <1>1, FrameIs, FramesType
  <1>3. Frames(ds) = <<Frame(Head(ds))>> \o Frames(Tail(ds))
    <2> DEFINE a == Frames(ds)
               t == Frames(Tail(ds))
               b == <<Frame(Head(ds))>> \o t
    <2>1. \A i \in 1..Len(ds) : a[i] = Frame(ds[i])
      BY DEF Frames
    <2>2. \A i \in 1..(Len(ds) - 1) : t[i] = Frame(ds[i + 1])
      BY <1>1 DEF Frames
    <2>3. t \in Seq(Seq(Byte)) /\ Len(t) = Len(ds) - 1 /\ a \in Seq(Seq(Byte)) /\ Len(a) = Len(ds)
      BY <1>2
    <2> HIDE DEF a, t
    <2>4. /\ b \in Seq(Seq(Byte)) /\ Len(b) = Len(t) + 1 /\ b[1] = Frame(Head(ds))
          /\ \A i \in 2..(Len(t) + 1) : b[i] = t[i - 1]
      <3> DEFINE x == Frame(Head(ds))
      <3>1. x \in Seq(Byte) /\ t \in Seq(Seq(Byte))
        BY <1>2, <2>3
      <3> HIDE DEF x
      <3>2. /\ <<x>> \o t \in Seq(Seq(Byte)) /\ Len(<<x>> \o t) = Len(t) + 1 /\ (<<x>> \o t)[1] = x
            /\ \A i \in 2..(Len(t) + 1) : (<<x>> \o t)[i] = t[i - 1]
        BY ONLY <3>1
      <3> QED
        BY <3>2 DEF x
    <2> HIDE DEF b
    <2>5. Len(t) + 1 = Len(ds)
      BY <1>1, <2>3
    <2>6. ASSUME NEW i \in 1..Len(ds) PROVE a[i] = b[i]
      <3>1. CASE i = 1
        BY <1>1, <2>1, <2>4, <3>1
      <3>2. CASE i # 1
        <4>1. i - 1 \in 1..(Len(ds) - 1) /\ (i - 1) + 1 = i /\ i \in 2..(Len(t) + 1)
          BY <1>1, <2>5, <3>2
        <4> QED
          BY <2>1, <2>2, <2>4, <4>1
      <3> QED
        BY <3>1, <3>2
    <2>7. b \in Seq(Seq(Byte)) /\ Len(a) = Len(b)
      BY <2>3, <2>4, <2>5
    <2>8. \A i \in 1..Len(a) : a[i] = b[i]
      BY <2>3, <2>6
    <2>9. a = b
      BY <2>3, <2>7, <2>8, SeqEqual, Zenon
    <2> QED
      BY <2>9 DEF a, b, t
  <1> QED
    BY <1>2, <1>3, FlattenFirst DEF Flat

LEMMA FlatNone == Flat(<<>>) = <<>>
  <1>1. Frames(<<>>) = <<>>
    <2>1. Frames(<<>>) \in Seq(Seq(Byte)) /\ Len(Frames(<<>>)) = 0
      BY FramesType, EmptySeq
    <2> QED
      BY <2>1, EmptySeq
  <1> QED
    BY <1>1, FlattenNone DEF Flat

LEMMA LeftAppend ==
    ASSUME NEW S, NEW s \in Seq(S), NEW x \in S, NEW k \in 0..Len(s)
    PROVE  /\ SubSeq(Append(s, x), k + 1, Len(Append(s, x))) = Append(SubSeq(s, k + 1, Len(s)), x)
           /\ SubSeq(Append(s, x), 1, k) = SubSeq(s, 1, k)
  <1>1. Len(s) \in Nat /\ k \in Nat /\ k <= Len(s)
    BY LenProperties
  <1>2. /\ Append(s, x) \in Seq(S) /\ Len(Append(s, x)) = Len(s) + 1
        /\ \A i \in 1..Len(s) : Append(s, x)[i] = s[i]
        /\ Append(s, x)[Len(s) + 1] = x
    BY AppendProperties
  <1> DEFINE t == Append(s, x)
             a == SubSeq(t, k + 1, Len(t))
             c == SubSeq(s, k + 1, Len(s))
             b == Append(c, x)
  <1>3. c \in Seq(S) /\ Len(c) = Len(s) - k /\ \A i \in 1..(Len(s) - k) : c[i] = s[k + i]
    BY <1>1
  <1>4. /\ b \in Seq(S) /\ Len(b) = Len(s) - k + 1
        /\ \A i \in 1..(Len(s) - k) : b[i] = s[k + i]
        /\ b[Len(s) - k + 1] = x
    <2> HIDE DEF c
    <2> QED
      BY <1>1, <1>3, AppendProperties
  <1>5. t \in Seq(S) /\ Len(t) = Len(s) + 1
    BY <1>2
  <1>6. a \in Seq(S) /\ Len(a) = Len(s) - k + 1 /\ \A i \in 1..(Len(s) - k + 1) : a[i] = t[k + i]
    <2> HIDE DEF t
    <2> QED
      BY <1>1, <1>5
  <1>7. \A i \in 1..Len(a) : a[i] = b[i]
    <2> HIDE DEF a, b, c
    <2> TAKE i \in 1..Len(a)
    <2>1. CASE i <= Len(s) - k
      <3>1. i \in 1..(Len(s) - k) /\ k + i \in 1..Len(s) /\ i \in 1..(Len(s) - k + 1)
        BY <1>1, <1>6, <2>1
      <3> QED
        BY <1>2, <1>4, <1>6, <3>1
    <2>2. CASE i = Len(s) - k + 1
      <3>1. i \in 1..(Len(s) - k + 1) /\ k + i = Len(s) + 1
        BY <1>1, <1>6, <2>2
      <3> QED
        BY <1>2, <1>4, <1>6, <2>2, <3>1
    <2>3. i <= Len(s) - k \/ i = Len(s) - k + 1
      <3>1. i \in 1..(Len(s) - k + 1)
        BY <1>6
      <3>2. \A j \in Int : i \in 1..(j + 1) => i <= j \/ i = j + 1
        OBVIOUS
      <3>3. Len(s) - k \in Int
        BY <1>1
      <3> QED
        BY <3>1, <3>2, <3>3
    <2> QED
      BY <2>1, <2>2, <2>3
  <1>8. a = b
    <2> HIDE DEF a, b
    <2> QED
      BY <1>4, <1>6, <1>7, SeqEqual
  <1>9. SubSeq(t, 1, k) = SubSeq(s, 1, k)
    <2> DEFINE u == SubSeq(t, 1, k)
               v == SubSeq(s, 1, k)
    <2>1. k \in 0..Len(t)
      BY <1>1, <1>5
    <2>2. v \in Seq(S) /\ Len(v) = k /\ \A i \in 1..k : v[i] = s[i]
      BY CutAt
    <2>3. u \in Seq(S) /\ Len(u) = k /\ \A i \in 1..k : u[i] = t[i]
      <3> HIDE DEF t
      <3> QED
        BY <1>5, <2>1, CutAt
    <2>4. \A i \in 1..k : u[i] = v[i]
      <3> HIDE DEF u, v
      <3> QED
        BY <1>1, <1>2, <2>2, <2>3
    <2> HIDE DEF u, v
    <2>5. u = v
      BY <2>2, <2>3, <2>4, SeqEqual
    <2> QED
      BY <2>5 DEF u, v
  <1> QED
    BY <1>8, <1>9

LEMMA LeftTail ==
    ASSUME NEW S, NEW s \in Seq(S), NEW k \in Nat, k < Len(s)
    PROVE  /\ SubSeq(s, k + 1, Len(s)) # <<>> /\ Head(SubSeq(s, k + 1, Len(s))) = s[k + 1]
           /\ SubSeq(s, (k + 1) + 1, Len(s)) = Tail(SubSeq(s, k + 1, Len(s)))
           /\ SubSeq(s, 1, k + 1) = Append(SubSeq(s, 1, k), s[k + 1])
  <1>1. Len(s) \in Nat /\ k \in 0..Len(s) /\ k + 1 \in 1..Len(s) /\ s[k + 1] \in S
    BY LenProperties, ElementOfSeq
  <1> DEFINE c == SubSeq(s, k + 1, Len(s))
             a == SubSeq(s, (k + 1) + 1, Len(s))
             u == SubSeq(s, 1, k)
             v == SubSeq(s, 1, k + 1)
  <1>2. c \in Seq(S) /\ Len(c) = Len(s) - k /\ \A i \in 1..(Len(s) - k) : c[i] = s[k + i]
    BY <1>1
  <1>3. a \in Seq(S) /\ Len(a) = Len(s) - k - 1 /\ \A i \in 1..(Len(s) - k - 1) : a[i] = s[(k + 1) + i]
    BY <1>1
  <1>4. u \in Seq(S) /\ Len(u) = k /\ \A i \in 1..k : u[i] = s[i]
    BY <1>1, CutAt
  <1>5. v \in Seq(S) /\ Len(v) = k + 1 /\ \A i \in 1..(k + 1) : v[i] = s[i]
    BY <1>1, CutAt
  <1> HIDE DEF a, c, u, v
  <1>6. c # <<>> /\ Head(c) = s[k + 1]
    <2>1. Len(c) # 0 /\ 1 \in 1..(Len(s) - k)
      BY <1>1, <1>2
    <2>2. c # <<>>
      BY <1>2, <2>1, EmptySeq
    <2>3. Head(c) = c[1]
      BY <1>2, <2>2
    <2> QED
      BY <1>2, <2>1, <2>2, <2>3
  <1>7. a = Tail(c)
    <2>1. /\ Tail(c) \in Seq(S) /\ Len(Tail(c)) = Len(c) - 1
          /\ \A i \in 1..(Len(c) - 1) : Tail(c)[i] = c[i + 1]
      BY <1>2, <1>6, HeadTailProperties
    <2>2. Len(a) = Len(Tail(c))
      BY <1>1, <1>2, <1>3, <2>1
    <2>3. ASSUME NEW i \in 1..Len(a) PROVE a[i] = Tail(c)[i]
      <3>1. /\ i \in 1..(Len(s) - k - 1) /\ i \in 1..(Len(c) - 1)
            /\ i + 1 \in 1..(Len(s) - k) /\ k + (i + 1) = (k + 1) + i
        BY <1>1, <1>2, <1>3
      <3> QED
        BY <1>2, <1>3, <2>1, <3>1
    <2> QED
      BY <1>3, <2>1, <2>2, <2>3, SeqEqual
  <1>8. v = Append(u, s[k + 1])
    <2> DEFINE x == s[k + 1]
               w == Append(u, x)
    <2>1. /\ w \in Seq(S) /\ Len(w) = k + 1 /\ \A i \in 1..k : w[i] = u[i]
          /\ w[k + 1] = x
      BY <1>1, <1>4, AppendProperties
    <2> HIDE DEF w
    <2>2. ASSUME NEW i \in 1..(k + 1) PROVE v[i] = w[i]
      <3>1. i \in 1..k \/ i = k + 1
        OBVIOUS
      <3> QED
        BY <1>4, <1>5, <2>1, <3>1
    <2>3. v = w
      BY <1>5, <2>1, <2>2, SeqEqual
    <2> QED
      BY <2>3 DEF w
  <1> QED
    BY <1>6, <1>7, <1>8 DEF a, c, u, v

\* A piece of the rest, and what remains.
LEMMA Sent ==
    ASSUME NEW S, NEW s \in Seq(S), NEW k \in 1..Len(s), NEW n \in 0..(Len(s) - k + 1)
    PROVE  /\ SubSeq(s, k, k + n - 1) \in Seq(S) /\ SubSeq(s, k + n, Len(s)) \in Seq(S)
           /\ SubSeq(s, k, Len(s)) \in Seq(S)
           /\ SubSeq(s, k, k + n - 1) \o SubSeq(s, k + n, Len(s)) = SubSeq(s, k, Len(s))
  <1> DEFINE l == Len(s)
             m == k + n - 1
  <1>1. l \in Nat /\ k \in Nat /\ n \in Nat /\ k >= 1 /\ k <= l /\ k + n <= l + 1
    BY LenProperties
  <1>2. m \in Int /\ m <= l /\ m >= k - 1 /\ m + 1 = k + n
    BY <1>1
  <1>3. \A i \in 1..l : s[i] \in S
    BY ElementOfSeq
  <1> HIDE DEF l, m
  <1>4. /\ \A i \in k..m : s[i] \in S
        /\ \A i \in (m + 1)..l : s[i] \in S
        /\ \A i \in k..l : s[i] \in S
    BY <1>1, <1>2, <1>3
  <1>5. m + 1 \in Int /\ k \in Int /\ l \in Int
    BY <1>1, <1>2
  <1>6. SubSeq(s, k, m) \in Seq(S)
    BY <1>2, <1>4, <1>5, SubSeqProperties
  <1>7. SubSeq(s, m + 1, l) \in Seq(S)
    BY <1>4, <1>5, SubSeqProperties
  <1>8. SubSeq(s, k, l) \in Seq(S)
    BY <1>4, <1>5, SubSeqProperties
  <1>9. SubSeq(s, k, m) \o SubSeq(s, m + 1, l) = SubSeq(s, k, l)
    <2>1. k \in 1..(l + 1) /\ m \in (k - 1)..l /\ l \in m..l
      BY <1>1, <1>2
    <2> QED
      BY <2>1, ConcatAdjacentSubSeq DEF l
  <1>10. SubSeq(s, k + n, l) = SubSeq(s, m + 1, l)
    BY <1>2
  <1> QED
    BY <1>6, <1>7, <1>8, <1>9, <1>10 DEF l, m

LEMMA FrontIs ==
    ASSUME NEW S, NEW s \in Seq(S), s # <<>>
    PROVE  /\ Front(s) \in Seq(S) /\ Len(Front(s)) = Len(s) - 1 /\ Last(s) \in S
           /\ s = Append(Front(s), Last(s))
  <1>1. Len(s) \in Nat /\ Len(s) >= 1 /\ Len(s) - 1 \in Nat /\ Len(s) - 1 < Len(s)
    <2>1. Len(s) \in Nat /\ Len(s) # 0
      BY EmptySeq, LenProperties
    <2> QED
      BY <2>1
  <1> DEFINE k == Len(s) - 1
             f == SubSeq(s, 1, k)
  <1>2. k \in Nat /\ k < Len(s) /\ k \in 0..Len(s) /\ k + 1 = Len(s) /\ Len(s) \in 1..Len(s)
    BY <1>1
  <1>3. f \in Seq(S) /\ Len(f) = k
    BY <1>2, CutAt
  <1>4. s[Len(s)] \in S
    BY <1>2, ElementOfSeq
  <1>5. SubSeq(s, 1, k + 1) = Append(SubSeq(s, 1, k), s[k + 1])
    <2> HIDE DEF k, f
    <2> QED
      BY <1>2, LeftTail
  <1>6. SubSeq(s, 1, Len(s)) = s
    <2> DEFINE t == SubSeq(s, 1, Len(s))
    <2>1. Len(s) \in 0..Len(s)
      BY <1>1
    <2>2. t \in Seq(S) /\ Len(t) = Len(s) /\ \A i \in 1..Len(s) : t[i] = s[i]
      BY <2>1, CutAt
    <2> HIDE DEF t
    <2>3. t = s
      BY <2>2, SeqEqual
    <2> QED
      BY <2>3 DEF t
  <1>7. Front(s) = f /\ Last(s) = s[Len(s)]
    BY DEF Front, Last
  <1>8. s = Append(f, s[Len(s)])
    BY <1>2, <1>5, <1>6
  <1> QED
    BY <1>2, <1>3, <1>4, <1>7, <1>8

LEMMA LastOf ==
    ASSUME NEW S, NEW s \in Seq(S), NEW x \in S
    PROVE  Append(s, x) # <<>> /\ Last(Append(s, x)) = x /\ Front(Append(s, x)) = s
  <1>1. /\ Append(s, x) \in Seq(S) /\ Append(s, x) # <<>> /\ Len(Append(s, x)) = Len(s) + 1
        /\ Append(s, x)[Len(s) + 1] = x
    BY AppendProperties
  <1>2. Last(Append(s, x)) = x
    BY <1>1 DEF Last
  <1> DEFINE t == Append(s, x)
             u == Front(t)
  <1>3. u \in Seq(S) /\ t = Append(u, x)
    <2> HIDE DEF t, u
    <2>1. t \in Seq(S) /\ t # <<>> /\ Last(t) = x
      BY <1>1, <1>2 DEF t
    <2> QED
      BY <2>1, FrontIs DEF u
  <1>4. s = u
    <2> HIDE DEF u
    <2> QED
      BY <1>3, AppendInjective
  <1> QED
    BY <1>1, <1>2, <1>4

----------------------------------------------------------------------------
(* What is to come *)

LEMMA AheadType ==
    ASSUME NEW s, NEW ds \in Seq(Datum), s # "line" => ds # <<>>
    PROVE  Ahead(s, ds) \in Seq(Byte)
  <1>1. CASE s = "line"
    BY <1>1, FlatType DEF Ahead
  <1>2. CASE s # "line"
    <2>1. Head(ds) \in Datum /\ Tail(ds) \in Seq(Datum)
      BY <1>2, HeadTailProperties
    <2>2. /\ Flat(Tail(ds)) \in Seq(Byte) /\ <<Newline>> \in Seq(Byte)
          /\ Head(ds) \o <<Newline>> \in Seq(Byte)
      BY <2>1, FlatType, FrameIs
    <2> DEFINE r == IF s = "data" THEN Head(ds) \o <<Newline>> ELSE <<Newline>>
               f == Flat(Tail(ds))
    <2>3. r \in Seq(Byte) /\ f \in Seq(Byte)
      BY <2>2
    <2>4. Ahead(s, ds) = r \o f
      BY <1>2 DEF Ahead
    <2> HIDE DEF r, f
    <2> QED
      BY <2>3, <2>4, ConcatProperties
  <1> QED
    BY <1>1, <1>2

LEMMA AheadAppend ==
    ASSUME NEW s, NEW ds \in Seq(Datum), s # "line" => ds # <<>>, NEW d \in Datum
    PROVE  Ahead(s, Append(ds, d)) = Ahead(s, ds) \o Frame(d)
  <1>1. CASE s = "line"
    BY <1>1, FlatLast DEF Ahead
  <1>2. CASE s # "line"
    <2>1. ds # <<>> /\ Head(ds) \in Datum /\ Tail(ds) \in Seq(Datum)
      BY <1>2, HeadTailProperties
    <2>2. Head(Append(ds, d)) = Head(ds) /\ Tail(Append(ds, d)) = Append(Tail(ds), d)
      BY <2>1
    <2> DEFINE r == IF s = "data" THEN Head(ds) \o <<Newline>> ELSE <<Newline>>
               f == Flat(Tail(ds))
               e == Frame(d)
    <2>3. r \in Seq(Byte) /\ f \in Seq(Byte) /\ e \in Seq(Byte)
      BY <2>1, FlatType, FrameIs
    <2>4. Ahead(s, ds) = r \o f
      BY <1>2 DEF Ahead
    <2>5. Ahead(s, Append(ds, d)) = r \o (f \o e)
      BY <1>2, <2>1, <2>2, FlatLast DEF Ahead
    <2> HIDE DEF r, f, e
    <2>6. (r \o f) \o e = r \o (f \o e)
      <3>1. Regrouped(r, f, e)
        BY <2>3, Associative, Zenon
      <3> QED
        BY <3>1 DEF Regrouped
    <2> QED
      BY <2>4, <2>5, <2>6 DEF e
  <1> QED
    BY <1>1, <1>2

LEMMA Pieces ==
    ASSUME NEW S
    PROVE  \A s, t \in Seq(S) : s \o t \in Seq(S) /\ Len(s \o t) = Len(s) + Len(t)
  BY ConcatProperties

\* While a frame is not sent at all the reader has not begun with it.
LEMMA NotBegun ==
    ASSUME NEW s, NEW ds \in Seq(Datum), s # "line" => ds # <<>>,
           NEW d \in Datum, ds # <<>> => Last(ds) = d,
           NEW b \in Seq(Byte), b \o Frame(d) = Ahead(s, ds)
    PROVE  ds # <<>> /\ (s # "line" => Front(ds) # <<>>)
  <1>1. Len(b) \in Nat /\ Len(d) \in Nat /\ Len(b \o Frame(d)) = Len(b) + (Len(d) + 3)
    <2>1. Len(b) \in Nat /\ Len(d) \in Nat /\ Frame(d) \in Seq(Byte) /\ Len(Frame(d)) = Len(d) + 3
      BY FrameIs, LenProperties
    <2>2. Len(b \o Frame(d)) = Len(b) + Len(Frame(d))
      BY <2>1, ConcatProperties, Zenon
    <2> QED
      BY <2>1, <2>2
  <1>2. ds # <<>>
    <2> SUFFICES ASSUME ds = <<>> PROVE FALSE
      OBVIOUS
    <2>1. Ahead(s, ds) = <<>>
      BY FlatNone DEF Ahead
    <2>2. Len(Ahead(s, ds)) = 0
      BY <2>1
    <2> QED
      BY <1>1, <2>2
  <1>3. ASSUME s # "line", Front(ds) = <<>> PROVE FALSE
    <2>1. Len(ds) = 1 /\ Head(ds) = d /\ Tail(ds) = <<>>
      <3>1. Len(ds) \in Nat /\ Len(ds) # 0 /\ Len(Front(ds)) = Len(ds) - 1
        BY <1>2, EmptySeq, FrontIs, LenProperties
      <3>2. Len(ds) = 1
        BY <1>3, <3>1
      <3>3. Last(ds) = ds[1]
        BY <3>2 DEF Last
      <3>4. Head(ds) = ds[1]
        BY <1>2
      <3>5. Tail(ds) \in Seq(Datum) /\ Len(Tail(ds)) = 0
        BY <1>2, <3>2, HeadTailProperties
      <3>6. Tail(ds) = <<>>
        BY <3>5, EmptySeq
      <3> QED
        BY <1>2, <3>2, <3>3, <3>4, <3>6
    <2> DEFINE r == IF s = "data" THEN d \o <<Newline>> ELSE <<Newline>>
    <2>2. r \in Seq(Byte) /\ (Len(r) = Len(d) + 1 \/ Len(r) = 1)
      BY FrameIs
    <2>3. Ahead(s, ds) = r \o <<>>
      BY <1>3, <2>1, FlatNone DEF Ahead
    <2> HIDE DEF r
    <2>4. Ahead(s, ds) = r
      BY <2>2, <2>3, ConcatEmptySeq
    <2>5. Len(r) = Len(b) + (Len(d) + 3)
      BY <1>1, <2>4
    <2> QED
      BY <1>1, <2>2, <2>5
  <1> QED
    BY <1>2, <1>3

LEMMA LeftIs ==
    ASSUME StreamTypes, Reader
    PROVE  /\ Len(accepted) \in Nat /\ Len(received) \in Nat /\ Len(received) \in 0..Len(accepted)
           /\ Left \in Seq(Datum) /\ Len(Left) = Len(accepted) - Len(received)
  <1>1. accepted \in Seq(Datum) /\ received \in Seq(Datum) /\ Len(received) <= Len(accepted)
    BY DEF StreamTypes, Reader
  <1>2. Len(accepted) \in Nat /\ Len(received) \in Nat /\ Len(received) \in 0..Len(accepted)
    BY <1>1, LenProperties
  <1> QED
    BY <1>1, <1>2, CutAt DEF Left

----------------------------------------------------------------------------
(* Writing *)

\* A conjunct of the invariant with its definitions: what is to come, and of which type.
LEMMA InvFacts ==
    ASSUME StreamInv
    PROVE  /\ Unsent \in Seq(Byte) /\ stream \o Unsent \in Seq(Byte) /\ buffer \o stream \in Seq(Byte)
           /\ Ahead(state, Left) \in Seq(Byte)
           /\ accepted # <<>> => /\ Last(accepted) \in Datum
                                 /\ Frame(Last(accepted)) \in Seq(Byte)
  <1>1. accepted # <<>> => Last(accepted) \in Datum /\ Frame(Last(accepted)) \in Seq(Byte)
    <2>1. accepted # <<>> => Last(accepted) \in Datum
      BY FrontIs DEF StreamInv, StreamTypes
    <2> QED
      BY <2>1, FrameIs
  <1>2. Unsent \in Seq(Byte)
    <2>1. CASE stack = <<>>
      BY <2>1, EmptySeq DEF Unsent
    <2>2. CASE stack # <<>>
      <3> DEFINE f == Frame(Last(accepted))
      <3>1. PICK n \in 1..Len(f) : stack = <<[bytes |-> f, start |-> n]>> /\ accepted # <<>>
        BY <2>2 DEF StreamInv, Writer
      <3>2. Top.bytes = f /\ Top.start = n
        BY <3>1 DEF Top, Last
      <3>3. f \in Seq(Byte)
        BY <1>1, <3>1
      <3> HIDE DEF f
      <3>4. Len(f) \in Nat /\ 0 \in 0..(Len(f) - n + 1)
        BY <3>1, <3>3, LenProperties
      <3>5. SubSeq(f, n, Len(f)) \in Seq(Byte)
        BY <3>1, <3>3, <3>4, Sent
      <3> QED
        BY <2>2, <3>2, <3>5 DEF Unsent
    <2> QED
      BY <2>1, <2>2
  <1>3. stream \in Seq(Byte) /\ buffer \in Seq(Byte)
    BY DEF StreamInv, StreamTypes
  <1>4. stream \o Unsent \in Seq(Byte) /\ buffer \o stream \in Seq(Byte)
    BY <1>2, <1>3, Pieces
  <1>5. Ahead(state, Left) \in Seq(Byte)
    <2>1. Left \in Seq(Datum) /\ (state # "line" => Left # <<>>)
      BY LeftIs DEF StreamInv, Reader
    <2> QED
      BY <2>1, AheadType
  <1> QED
    BY <1>1, <1>2, <1>4, <1>5

\* A message more does not change what the reader knows.
LEMMA ReaderGains ==
    ASSUME StreamTypes, Reader, NEW m \in Datum,
           accepted' = Append(accepted, m), UNCHANGED readerVars
    PROVE  /\ Reader' /\ Left' = Append(Left, m)
           /\ accepted' \in Seq(Datum) /\ accepted' # <<>> /\ Last(accepted') = m
  <1> USE DEF readerVars
  <1>1. /\ Len(accepted) \in Nat /\ Len(received) \in Nat /\ Len(received) \in 0..Len(accepted)
        /\ Left \in Seq(Datum)
    BY LeftIs
  <1>2. accepted \in Seq(Datum)
    BY DEF StreamTypes
  <1>3. /\ accepted' \in Seq(Datum) /\ Len(accepted') = Len(accepted) + 1
        /\ accepted'[Len(accepted) + 1] = m
    BY <1>2, AppendProperties
  <1>4. accepted' # <<>> /\ Last(accepted') = m
    <2>1. Len(accepted') # 0
      BY <1>1, <1>3
    <2> QED
      BY <1>3, <2>1, EmptySeq DEF Last
  <1>5. /\ Left' = Append(Left, m)
        /\ SubSeq(accepted', 1, Len(received)) = SubSeq(accepted, 1, Len(received))
    BY <1>1, <1>2, LeftAppend DEF Left
  <1>6. Left # <<>> => Left' # <<>> /\ Head(Left') = Head(Left)
    BY <1>1, <1>5
  <1>7. Len(received) <= Len(accepted')
    BY <1>1, <1>3
  <1> QED
    BY <1>3, <1>4, <1>5, <1>6, <1>7 DEF Reader

LEMMA WriteKeeps ==
    ASSUME ~InMain, StreamInv, Write
    PROVE  StreamInv'
  <1> DEFINE m == Messages[next]
             f == Frame(m)
  <1>1. m \in Datum
    <2>1. next \in 1..Len(Messages)
      <3>1. next \in Nat \ {0} /\ next <= Len(Messages) /\ Len(Messages) \in Nat
        BY StreamParameters, LenProperties DEF StreamInv, StreamTypes, Write
      <3> QED
        BY <3>1
    <2>2. Messages[next] \in Seq({Newline, Other}) /\ Len(Messages[next]) < 10
      BY <2>1, StreamParameters, ElementOfSeq
    <2> QED
      BY <2>2 DEF Datum
  <1>2. stack = <<>> /\ armed = {}
    BY DEF Write, StreamInv, Writer
  <1>3. /\ stack' = <<[bytes |-> f, start |-> 1]>> /\ accepted' = Append(accepted, m)
        /\ next' = next + 1 /\ armed' = {}
    BY <1>2 DEF Write
  <1>4. UNCHANGED <<buffer, state, length, data, received, failed, stream>>
    BY DEF Write, readerVars
  <1> HIDE DEF m
  <1>5. f \in Seq(Byte) /\ Len(f) \in Nat /\ 1 \in 1..Len(f)
    <2>1. f \in Seq(Byte) /\ Len(f) = Len(m) + 3 /\ Len(m) \in 0..9
      BY <1>1, FrameIs, Zenon
    <2> HIDE DEF f
    <2> QED
      BY <2>1
  <1> HIDE DEF f
  <1>6. /\ Reader' /\ Left' = Append(Left, m)
        /\ accepted' \in Seq(Datum) /\ accepted' # <<>> /\ Last(accepted') = m
    BY <1>1, <1>3, <1>4, ReaderGains DEF StreamInv, readerVars
  <1>7. StreamTypes'
    BY <1>3, <1>4, <1>6 DEF StreamInv, StreamTypes
  <1>8. Writer'
    BY <1>3, <1>5, <1>6 DEF Writer, f
  <1>9. Unsent = <<>> /\ Unsent' = f
    <2>1. Unsent = <<>>
      BY <1>2 DEF Unsent
    <2>2. Unsent' = SubSeq(f, 1, Len(f))
      BY <1>3 DEF Unsent, Top, Last
    <2>3. SubSeq(f, 1, Len(f)) = f
      BY <1>5
    <2> QED
      BY <2>1, <2>2, <2>3
  <1>10. buffer \o stream = Ahead(state, Left)
    <2>1. stream \in Seq(Byte) /\ buffer \o (stream \o <<>>) = Ahead(state, Left)
      BY <1>9 DEF StreamInv, StreamTypes
    <2>2. stream \o <<>> = stream
      BY <2>1, ConcatEmptySeq
    <2> QED
      BY <2>1, <2>2
  <1>11. Ahead(state, Append(Left, m)) = Ahead(state, Left) \o f
    <2>1. Left \in Seq(Datum) /\ (state # "line" => Left # <<>>)
      BY LeftIs DEF StreamInv, Reader
    <2> QED
      BY <1>1, <2>1, AheadAppend DEF f
  <1>12. (buffer \o stream) \o f = buffer \o (stream \o f)
    <2>1. buffer \in Seq(Byte) /\ stream \in Seq(Byte)
      BY DEF StreamInv, StreamTypes
    <2> QED
      <3>1. Regrouped(buffer, stream, f)
        BY <1>5, <2>1, Associative, Zenon
      <3> QED
        BY <3>1 DEF Regrouped
  <1>13. (buffer \o (stream \o Unsent))' = Ahead(state, Left)'
    BY <1>4, <1>6, <1>9, <1>10, <1>11, <1>12
  <1> QED
    BY <1>6, <1>7, <1>8, <1>13 DEF StreamInv

\* A piece of the rest is written: nothing of what is to come changes.
LEMMA PieceWritten ==
    ASSUME NEW b \in Seq(Byte), NEW w \in Seq(Byte), NEW f \in Seq(Byte),
           NEW k \in 1..Len(f), NEW n \in 0..(Len(f) - k + 1)
    PROVE  /\ w \o SubSeq(f, k, k + n - 1) \in Seq(Byte)
           /\ b \o ((w \o SubSeq(f, k, k + n - 1)) \o SubSeq(f, k + n, Len(f)))
                = b \o (w \o SubSeq(f, k, Len(f)))
  <1> DEFINE piece == SubSeq(f, k, k + n - 1)
             rest == SubSeq(f, k + n, Len(f))
  <1>1. piece \in Seq(Byte) /\ rest \in Seq(Byte) /\ piece \o rest = SubSeq(f, k, Len(f))
    BY Sent
  <1> HIDE DEF piece, rest
  <1>2. (w \o piece) \o rest = w \o (piece \o rest)
    <2>1. Regrouped(w, piece, rest)
      BY <1>1, Associative, Zenon
    <2> QED
      BY <2>1 DEF Regrouped
  <1>3. w \o piece \in Seq(Byte)
    BY <1>1, Pieces
  <1>4. b \o ((w \o piece) \o rest) = b \o (w \o SubSeq(f, k, Len(f)))
    BY <1>1, <1>2
  <1> QED
    BY <1>3, <1>4 DEF piece, rest

\* The message of a call that gives up is the last of them, and the reader has not begun
\* with it.
LEMMA ReaderLoses ==
    ASSUME StreamInv, accepted # <<>>, Unsent = Frame(Last(accepted)),
           accepted' = Front(accepted), stream' = stream, Unsent' = <<>>,
           UNCHANGED readerVars
    PROVE  /\ Reader' /\ accepted' \in Seq(Datum)
           /\ (buffer \o (stream \o Unsent))' = Ahead(state, Left)'
  <1> USE DEF readerVars
  <1> DEFINE d == Last(accepted)
             f == Frame(d)
             a == Front(accepted)
             k == Len(received)
             l == SubSeq(a, k + 1, Len(a))
             b == buffer \o stream
  <1>1. /\ accepted \in Seq(Datum) /\ buffer \in Seq(Byte) /\ stream \in Seq(Byte)
        /\ d \in Datum /\ f \in Seq(Byte) /\ b \in Seq(Byte)
    BY InvFacts DEF StreamInv, StreamTypes
  <1>2. a \in Seq(Datum) /\ Len(a) = Len(accepted) - 1 /\ accepted = Append(a, d)
    BY <1>1, FrontIs
  <1>3. /\ Len(accepted) \in Nat /\ k \in Nat /\ k \in 0..Len(accepted)
        /\ Left \in Seq(Datum) /\ Len(Left) = Len(accepted) - k
    BY LeftIs DEF StreamInv
  <1>4. state # "line" => Left # <<>>
    BY DEF StreamInv, Reader
  <1>5. Left # <<>> => /\ k \in 0..Len(a) /\ l \in Seq(Datum) /\ Left = Append(l, d)
                       /\ SubSeq(accepted, 1, k) = SubSeq(a, 1, k)
    <2> SUFFICES ASSUME Left # <<>>
                 PROVE  /\ k \in 0..Len(a) /\ l \in Seq(Datum) /\ Left = Append(l, d)
                        /\ SubSeq(accepted, 1, k) = SubSeq(a, 1, k)
      OBVIOUS
    <2>1. Len(Left) # 0
      BY <1>3, EmptySeq
    <2>2. k \in 0..Len(a)
      BY <1>2, <1>3, <2>1
    <2> HIDE DEF a, d, k
    <2>3. /\ SubSeq(Append(a, d), k + 1, Len(Append(a, d))) = Append(l, d)
          /\ SubSeq(Append(a, d), 1, k) = SubSeq(a, 1, k)
      BY <1>1, <1>2, <2>2, LeftAppend
    <2>4. l \in Seq(Datum)
      BY <1>2, <2>2, CutAt
    <2>5. Left = SubSeq(accepted, k + 1, Len(accepted))
      BY DEF Left, k
    <2> QED
      BY <1>2, <2>2, <2>3, <2>4, <2>5
  <1>6. b \o f = Ahead(state, Left)
    <2>1. (buffer \o stream) \o f = buffer \o (stream \o f)
      <3> HIDE DEF f
      <3> QED
        <4>1. Regrouped(buffer, stream, f)
          BY <1>1, Associative, Zenon
        <4> QED
          BY <4>1 DEF Regrouped
    <2> QED
      BY <2>1 DEF StreamInv
  <1>7. Left # <<>> => Last(Left) = d /\ Front(Left) = l
    <2> HIDE DEF l, d
    <2> QED
      BY <1>1, <1>5, LastOf
  <1>8. Left # <<>> /\ (state # "line" => l # <<>>)
    <2>1. Left # <<>> /\ (state # "line" => Front(Left) # <<>>)
      <3> HIDE DEF l, d, b
      <3> QED
        BY <1>1, <1>3, <1>4, <1>6, <1>7, NotBegun DEF f
    <2> QED
      BY <1>7, <2>1
  <1>9. b = Ahead(state, l)
    <2>1. Ahead(state, Left) = Ahead(state, l) \o f
      <3> HIDE DEF l, d
      <3> QED
        BY <1>1, <1>5, <1>8, AheadAppend DEF f
    <2>2. Ahead(state, l) \in Seq(Byte)
      <3> HIDE DEF l
      <3> QED
        BY <1>5, <1>8, AheadType
    <2>3. b \o f = Ahead(state, l) \o f
      BY <1>6, <2>1
    <2> HIDE DEF b, f, l
    <2> QED
      BY <1>1, <2>2, <2>3, CancelRight
  <1>10. Left' = l
    BY DEF Left
  <1>11. Reader'
    <2>1. received = SubSeq(a, 1, k)
      BY <1>5, <1>8 DEF StreamInv, Reader
    <2>2. state # "line" => Head(l) = Head(Left)
      <3> HIDE DEF l, d
      <3> QED
        BY <1>1, <1>5, <1>8
    <2>3. Len(received) <= Len(a)
      BY <1>2, <1>3, <1>5, <1>8
    <2> HIDE DEF l, a
    <2>4. accepted' = a /\ received' = received /\ state' = state /\ length' = length /\ data' = data
      BY DEF a
    <2> QED
      BY <1>8, <1>10, <2>1, <2>2, <2>3, <2>4 DEF StreamInv, Reader
  <1>12. (buffer \o (stream \o Unsent))' = Ahead(state, Left)'
    <2>1. stream \o <<>> = stream
      BY <1>1, ConcatEmptySeq
    <2>2. (buffer \o (stream \o Unsent))' = b
      BY <2>1
    <2>3. Ahead(state, Left)' = Ahead(state, l)
      BY <1>10
    <2> QED
      BY <1>9, <2>2, <2>3
  <1> QED
    BY <1>2, <1>11, <1>12

LEMMA SendSomeKeeps ==
    ASSUME ~Raw, StreamInv, SendSome
    PROVE  StreamInv'
  <1> DEFINE f == Frame(Last(accepted))
  <1>1. PICK k \in 1..Len(f) : stack = <<[bytes |-> f, start |-> k]>> /\ accepted # <<>>
    BY DEF SendSome, StreamInv, Writer
  <1>2. Top.bytes = f /\ Top.start = k /\ Len(stack) = 1 /\ stack # <<>> /\ armed = {}
    BY <1>1 DEF Top, Last, SendSome, StreamInv, Writer
  <1>3. f \in Seq(Byte)
    BY <1>1, InvFacts
  <1> HIDE DEF f
  <1>4. Len(f) \in Nat /\ k \in Nat /\ k >= 1 /\ k <= Len(f)
    BY <1>1, <1>3, LenProperties
  <1>5. PICK n \in Taken :
           /\ stream' = stream \o SubSeq(f, k, k + n - 1)
           /\ \/ /\ k - 1 + n = 0
                 /\ stack' = Front(stack)
                 /\ running' = FALSE /\ armed' = armed
                 /\ accepted' = Front(accepted)
              \/ /\ k - 1 + n \in 1..(Len(f) - 1)
                 /\ stack' = [stack EXCEPT ![1].start = (k - 1 + n) + 1]
                 /\ running' = FALSE
                 /\ accepted' = accepted
              \/ /\ k - 1 + n = Len(f)
                 /\ stack' = Front(stack)
                 /\ running' = FALSE /\ armed' = armed
                 /\ accepted' = accepted
    BY <1>2 DEF SendSome, Return, Wait, Index
  <1>6. n \in 0..(Len(f) - k + 1)
    <2>1. stream \in Seq(Byte) /\ Len(stream) \in Nat /\ Capacity \in Nat
      BY StreamParameters, LenProperties DEF StreamInv, StreamTypes
    <2>2. n \in LET rest == Len(f) - k + 1
                    room == Capacity - Len(stream)
                IN IF room = 0 THEN {0} ELSE 1..(IF rest < room THEN rest ELSE room)
      BY <1>2 DEF Taken
    <2> QED
      BY <1>4, <2>1, <2>2
  <1>7. n \in Nat /\ k + n \in Nat /\ k + n >= 1 /\ k + n <= Len(f) + 1
    BY <1>4, <1>6
  <1>8. UNCHANGED <<next, readerVars>> /\ UNCHANGED readerVars
    BY DEF SendSome
  <1>9. UNCHANGED <<next, buffer, state, length, data, received, failed>>
    BY <1>8 DEF readerVars
  <1>10. stream \in Seq(Byte) /\ buffer \in Seq(Byte) /\ accepted \in Seq(Datum)
    BY DEF StreamInv, StreamTypes
  <1>11. /\ stream' \in Seq(Byte)
         /\ buffer \o (stream' \o SubSeq(f, k + n, Len(f))) = buffer \o (stream \o SubSeq(f, k, Len(f)))
    <2>1. /\ stream \o SubSeq(f, k, k + n - 1) \in Seq(Byte)
          /\ buffer \o ((stream \o SubSeq(f, k, k + n - 1)) \o SubSeq(f, k + n, Len(f)))
                = buffer \o (stream \o SubSeq(f, k, Len(f)))
      BY <1>1, <1>3, <1>6, <1>10, PieceWritten
    <2> QED
      BY <1>5, <2>1
  <1>12. Unsent = SubSeq(f, k, Len(f))
    BY <1>2 DEF Unsent
  <1>13. Front(stack) = <<>>
    BY <1>1 DEF Front
  <1>14. CASE accepted' = accepted
    <2>1. StreamTypes'
      BY <1>9, <1>11, <1>14 DEF StreamInv, StreamTypes
    <2>2. Reader' /\ Left' = Left
      BY <1>9, <1>14 DEF StreamInv, Reader, Left
    <2>3. Unsent' = SubSeq(f, k + n, Len(f)) /\ Writer'
      <3>1. CASE /\ k - 1 + n \in 1..(Len(f) - 1)
                 /\ stack' = [stack EXCEPT ![1].start = (k - 1 + n) + 1]
                 /\ running' = FALSE
        <4>1. (k - 1 + n) + 1 = k + n /\ k + n \in 1..Len(f)
          BY <1>4, <1>7, <3>1
        <4>2. stack' = <<[bytes |-> f, start |-> k + n]>>
          BY <1>1, <3>1, <4>1
        <4>3. Unsent' = SubSeq(f, k + n, Len(f))
          BY <4>2 DEF Unsent, Top, Last
        <4>4. Writer'
          BY <1>1, <1>14, <3>1, <4>1, <4>2 DEF Writer, f
        <4> QED
          BY <4>3, <4>4
      <3>2. CASE stack' = Front(stack) /\ running' = FALSE /\ armed' = armed /\ k + n = Len(f) + 1
        <4>1. SubSeq(f, k + n, Len(f)) = <<>>
          BY <1>3, <1>4, <3>2
        <4>2. Unsent' = <<>> /\ Writer'
          BY <1>2, <1>13, <3>2 DEF Unsent, Writer
        <4> QED
          BY <4>1, <4>2
      <3>3. Len(accepted) - 1 # Len(accepted) /\ Len(Front(accepted)) = Len(accepted) - 1
        <4>1. Len(accepted) \in Nat
          BY <1>10, LenProperties
        <4>2. \A j \in Nat : j - 1 # j
          OBVIOUS
        <4>3. Len(Front(accepted)) = Len(accepted) - 1
          BY <1>1, <1>10, FrontIs, Zenon
        <4> QED
          BY <4>1, <4>2, <4>3
      <3>4. accepted # Front(accepted)
        BY <3>3
      <3>5. k - 1 + n = Len(f) => k + n = Len(f) + 1
        BY <1>4, <1>7
      <3> QED
        BY <1>5, <1>14, <3>1, <3>2, <3>4, <3>5
    <2>4. (buffer \o (stream \o Unsent))' = Ahead(state, Left)'
      <3>1. buffer \o (stream \o Unsent) = Ahead(state, Left)
        BY DEF StreamInv
      <3> QED
        BY <1>9, <1>11, <1>12, <2>2, <2>3, <3>1
    <2> QED
      BY <2>1, <2>2, <2>3, <2>4 DEF StreamInv
  <1>15. CASE /\ k - 1 + n = 0
              /\ stack' = Front(stack)
              /\ running' = FALSE /\ armed' = armed
              /\ accepted' = Front(accepted)
    <2>1. k = 1 /\ n = 0 /\ k + n - 1 = 0
      BY <1>4, <1>7, <1>15
    <2>2. SubSeq(f, k, k + n - 1) = <<>>
      BY <1>3, <2>1
    <2>3. stream' = stream
      BY <1>5, <1>10, <2>2, ConcatEmptySeq
    <2>4. Unsent = f
      <3>1. SubSeq(f, 1, Len(f)) = f
        BY <1>3
      <3> QED
        BY <1>12, <2>1, <3>1
    <2>5. Unsent' = <<>> /\ Writer'
      BY <1>2, <1>13, <1>15 DEF Unsent, Writer
    <2>6. /\ Reader' /\ accepted' \in Seq(Datum)
          /\ (buffer \o (stream \o Unsent))' = Ahead(state, Left)'
      BY <1>1, <1>8, <1>15, <2>3, <2>4, <2>5, ReaderLoses DEF f
    <2>7. StreamTypes'
      BY <1>9, <1>10, <2>3, <2>6 DEF StreamInv, StreamTypes
    <2> QED
      BY <2>5, <2>6, <2>7 DEF StreamInv
  <1> QED
    BY <1>5, <1>14, <1>15

LEMMA WriteableKeeps ==
    ASSUME StreamInv, Writeable
    PROVE  StreamInv'
  <1>1. UNCHANGED <<next, stack, accepted, stream, buffer, state, length, data, received, failed>>
    BY DEF Writeable, readerVars
  <1>2. armed' = {} /\ running' = TRUE /\ armed # {}
    BY DEF Writeable
  <1>3. Writer'
    BY <1>1, <1>2 DEF StreamInv, Writer
  <1>4. Reader' /\ StreamTypes' /\ Left' = Left
    BY <1>1 DEF StreamInv, StreamTypes, Reader, Left
  <1>5. Unsent' = Unsent
    BY <1>1 DEF Unsent, Top
  <1> QED
    BY <1>1, <1>3, <1>4, <1>5 DEF StreamInv

----------------------------------------------------------------------------
(* Reading *)

\* The writer does not see what the reader does.
LEMMA WriterStays ==
    ASSUME Writer, UNCHANGED writerVars
    PROVE  Writer' /\ Unsent' = Unsent
  BY DEF Writer, writerVars, Unsent, Top

LEMMA ReadKeeps ==
    ASSUME StreamInv, Read
    PROVE  StreamInv'
  <1>1. PICK n \in 1..Len(stream) : /\ buffer' = buffer \o SubSeq(stream, 1, n)
                                    /\ stream' = SubSeq(stream, n + 1, Len(stream))
    BY DEF Read
  <1>2. UNCHANGED <<next, accepted, state, length, data, received, failed>> /\ UNCHANGED writerVars
    BY DEF Read, writerVars
  <1>3. Writer' /\ Unsent' = Unsent
    BY <1>2, WriterStays DEF StreamInv
  <1>4. Reader' /\ Left' = Left
    BY <1>2 DEF StreamInv, Reader, Left
  <1>5. stream \in Seq(Byte) /\ buffer \in Seq(Byte) /\ Unsent \in Seq(Byte)
    BY InvFacts DEF StreamInv, StreamTypes
  <1> DEFINE a == SubSeq(stream, 1, n)
             b == SubSeq(stream, n + 1, Len(stream))
             u == Unsent
  <1>6. a \in Seq(Byte) /\ b \in Seq(Byte)
    <2>1. n \in 0..Len(stream)
      BY <1>5, LenProperties
    <2> QED
      BY <1>5, <2>1, CutAt
  <1>7. a \o b = stream
    <2>1. n \in 0..Len(stream)
      BY <1>5, LenProperties
    <2> QED
      BY <1>5, <2>1, CutAt
  <1> HIDE DEF a, b, u
  <1>8. buffer \o a \in Seq(Byte) /\ b \o u \in Seq(Byte)
    BY <1>5, <1>6, Pieces DEF u
  <1>9. (buffer \o a) \o (b \o u) = buffer \o ((a \o b) \o u)
    <2>1. u \in Seq(Byte)
      BY <1>5 DEF u
    <2> DEFINE v == b \o u
    <2>2. v \in Seq(Byte)
      BY <1>8
    <2>3. (a \o b) \o u = a \o v
      <3>1. Regrouped(a, b, u)
        BY <1>6, <2>1, Associative, Zenon
      <3> QED
        BY <3>1 DEF Regrouped
    <2> HIDE DEF v
    <2>4. (buffer \o a) \o v = buffer \o (a \o v)
      <3>1. Regrouped(buffer, a, v)
        BY <1>5, <1>6, <2>2, Associative, Zenon
      <3> QED
        BY <3>1 DEF Regrouped
    <2>5. (buffer \o a) \o v = buffer \o ((a \o b) \o u)
      BY <2>3, <2>4
    <2> QED
      BY <2>5 DEF v
  <1>10. (buffer \o (stream \o Unsent))' = Ahead(state, Left)'
    <2>1. buffer \o (stream \o Unsent) = Ahead(state, Left)
      BY DEF StreamInv
    <2>2. buffer' = buffer \o a /\ stream' = b
      BY <1>1 DEF a, b
    <2>3. buffer' \o (stream' \o Unsent') = (buffer \o a) \o (b \o u)
      BY <1>3, <2>2 DEF u
    <2>4. (buffer \o a) \o (b \o u) = buffer \o (stream \o Unsent)
      BY <1>7, <1>9 DEF u
    <2> QED
      BY <1>2, <1>4, <2>1, <2>3, <2>4
  <1>11. StreamTypes'
    BY <1>1, <1>2, <1>6, <1>8 DEF StreamInv, StreamTypes, a, b
  <1> QED
    BY <1>3, <1>4, <1>10, <1>11 DEF StreamInv

\* The reader takes what it asked for from the buffer, and the rest stays to come.
LEMMA Takes ==
    ASSUME StreamInv, NEW c \in Seq(Byte), NEW e \in Seq(Byte), Len(c) <= Len(buffer),
           Ahead(state, Left) = c \o e
    PROVE  /\ SubSeq(buffer, 1, Len(c)) = c
           /\ SubSeq(buffer, Len(c) + 1, Len(buffer)) \in Seq(Byte)
           /\ SubSeq(buffer, Len(c) + 1, Len(buffer)) \o (stream \o Unsent) = e
  <1> DEFINE b == stream \o Unsent
  <1>1. b \in Seq(Byte) /\ buffer \in Seq(Byte)
    BY InvFacts DEF StreamInv, StreamTypes
  <1>2. buffer \o b = c \o e
    BY DEF StreamInv
  <1> HIDE DEF b
  <1>3. Cuts(Byte, buffer, b, c, e)
    BY <1>1, <1>2, CutFront, Zenon
  <1> QED
    BY <1>3 DEF b, Cuts

\* The first message that is left, when something of it is in the buffer.
LEMMA FirstLeft ==
    ASSUME StreamInv, buffer # <<>>
    PROVE  /\ Left # <<>> /\ Head(Left) \in Datum /\ Tail(Left) \in Seq(Datum)
           /\ Flat(Tail(Left)) \in Seq(Byte) /\ Left \in Seq(Datum)
  <1>1. Left \in Seq(Datum) /\ (state # "line" => Left # <<>>)
    BY LeftIs DEF StreamInv, Reader
  <1>2. Left # <<>>
    <2> SUFFICES ASSUME Left = <<>> PROVE FALSE
      OBVIOUS
    <2>1. Ahead(state, Left) = <<>>
      BY <1>1, FlatNone DEF Ahead
    <2> DEFINE b == stream \o Unsent
    <2>2. b \in Seq(Byte) /\ buffer \in Seq(Byte)
      BY InvFacts DEF StreamInv, StreamTypes
    <2>3. buffer \o b = <<>>
      BY <2>1 DEF StreamInv
    <2> HIDE DEF b
    <2>4. buffer \o b = <<>> => buffer = <<>>
      BY <2>2, ConcatEmptySeq
    <2> QED
      BY <2>3, <2>4
  <1>3. Head(Left) \in Datum /\ Tail(Left) \in Seq(Datum)
    BY <1>1, <1>2, HeadTailProperties
  <1> QED
    BY <1>1, <1>2, <1>3, FlatType

SameFirst(a, c) == a[1] = c[1]

LEMMA FirstOf ==
    ASSUME NEW S, NEW a \in Seq(S), NEW b \in Seq(S), NEW c \in Seq(S), NEW e \in Seq(S),
           NEW w, w = a \o b, w = c \o e, a # <<>>, c # <<>>
    PROVE  SameFirst(a, c)
  <1>1. Len(a) \in Nat /\ Len(b) \in Nat /\ Len(c) \in Nat /\ Len(e) \in Nat
        /\ Len(a) # 0 /\ Len(c) # 0
    BY EmptySeq, LenProperties
  <1>2. \A i \in 1..(Len(a) + Len(b)) : (a \o b)[i] = IF i <= Len(a) THEN a[i] ELSE b[i - Len(a)]
    BY ConcatProperties, Zenon
  <1>3. \A i \in 1..(Len(c) + Len(e)) : (c \o e)[i] = IF i <= Len(c) THEN c[i] ELSE e[i - Len(c)]
    BY ConcatProperties, Zenon
  <1>4. \A m, n \in Nat : m # 0 => 1 \in 1..(m + n) /\ 1 <= m
    OBVIOUS
  <1>5. (a \o b)[1] = a[1]
    BY <1>1, <1>2, <1>4, Zenon
  <1>6. (c \o e)[1] = c[1]
    BY <1>1, <1>3, <1>4, Zenon
  <1> QED
    BY <1>5, <1>6 DEF SameFirst

LEMMA ReadLineKeeps ==
    ASSUME StreamInv, ReadLine
    PROVE  StreamInv'
  <1> DEFINE h == Head(Left)
             c == <<Digit(Len(h)), Newline>>
             m == h \o <<Newline>>
             f == Flat(Tail(Left))
  <1>1. state = "line" /\ buffer \in Seq(Byte) /\ \E i \in 1..Len(buffer) : buffer[i] = Newline
    BY DEF ReadLine, Ready, StreamInv, StreamTypes
  <1>2. Len(buffer) \in Nat /\ Len(buffer) # 0 /\ buffer # <<>>
    <2>1. Len(buffer) \in Nat
      BY <1>1, LenProperties
    <2>2. Len(buffer) # 0
      BY <1>1, <2>1
    <2> QED
      BY <2>1, <2>2
  <1>3. Left # <<>> /\ h \in Datum /\ f \in Seq(Byte) /\ Left \in Seq(Datum)
    BY <1>2, FirstLeft
  <1> HIDE DEF h, f
  <1>4. Len(h) \in 0..9 /\ c \in Seq(Byte) /\ m \in Seq(Byte) /\ Frame(h) = c \o m
    BY <1>3, FrameIs
  <1>5. Len(c) = 2 /\ c[1] = Digit(Len(h)) /\ c[2] = Newline /\ c # <<>>
    OBVIOUS
  <1> HIDE DEF c, m
  <1>6. Ahead(state, Left) = c \o (m \o f)
    <2>1. Ahead(state, Left) = Frame(h) \o f
      BY <1>1, <1>3, FlatFirst DEF Ahead, h, f
    <2>2. (c \o m) \o f = c \o (m \o f)
      <3>1. Regrouped(c, m, f)
        BY <1>3, <1>4, Associative, Zenon
      <3> QED
        BY <3>1 DEF Regrouped
    <2> QED
      BY <1>4, <2>1, <2>2
  <1>7. m \o f \in Seq(Byte)
    BY <1>3, <1>4, Pieces
  <1>8. buffer[1] = Digit(Len(h)) /\ buffer[1] # Newline
    <2> DEFINE b == stream \o Unsent
               e == m \o f
    <2>1. b \in Seq(Byte) /\ e \in Seq(Byte)
      BY <1>7, InvFacts
    <2>2. Ahead(state, Left) = buffer \o b /\ Ahead(state, Left) = c \o e
      BY <1>6 DEF StreamInv
    <2> HIDE DEF b, e
    <2>3. buffer \in Seq(Byte) /\ c \in Seq(Byte) /\ buffer # <<>> /\ c # <<>>
      BY <1>1, <1>2, <1>4, <1>5
    <2>4. SameFirst(buffer, c)
      BY <2>1, <2>2, <2>3, FirstOf, Zenon
    <2> QED
      BY <1>5, <2>4, Bytes DEF SameFirst
  <1>9. 2 <= Len(buffer)
    BY <1>1, <1>2, <1>8
  <1>10. /\ SubSeq(buffer, 1, 2) = c
         /\ SubSeq(buffer, 3, Len(buffer)) \in Seq(Byte)
         /\ SubSeq(buffer, 3, Len(buffer)) \o (stream \o Unsent) = m \o f
    <2> DEFINE e == m \o f
    <2>1. e \in Seq(Byte) /\ Ahead(state, Left) = c \o e /\ Len(c) <= Len(buffer)
      BY <1>5, <1>6, <1>7, <1>9
    <2> HIDE DEF e
    <2>2. /\ SubSeq(buffer, 1, Len(c)) = c
          /\ SubSeq(buffer, Len(c) + 1, Len(buffer)) \in Seq(Byte)
          /\ SubSeq(buffer, Len(c) + 1, Len(buffer)) \o (stream \o Unsent) = e
      BY <1>4, <2>1, Takes, Zenon
    <2>3. Len(c) + 1 = 3
      BY <1>5
    <2> QED
      BY <1>5, <2>2, <2>3 DEF e
  <1>11. buffer[2] = Newline
    <2>1. 2 \in 0..Len(buffer) /\ 2 \in 1..2
      BY <1>2, <1>9
    <2>2. \A i \in 1..2 : SubSeq(buffer, 1, 2)[i] = buffer[i]
      BY <1>1, <2>1, CutAt
    <2> QED
      BY <1>5, <1>10, <2>1, <2>2
  <1>12. FirstNewline = 2
    <2>1. 2 \in 1..Len(buffer) /\ \A j \in 1..(2 - 1) : j = 1
      BY <1>2, <1>9
    <2>2. \A i \in 1..Len(buffer) :
             buffer[i] = Newline /\ (\A j \in 1..(i - 1) : buffer[j] # Newline) => i = 2
      <3> TAKE i \in 1..Len(buffer)
      <3> HAVE buffer[i] = Newline /\ \A j \in 1..(i - 1) : buffer[j] # Newline
      <3>1. i # 1
        BY <1>8
      <3>2. ~(2 \in 1..(i - 1))
        BY <1>11
      <3> QED
        BY <3>1, <3>2
    <2> QED
      BY <1>8, <1>11, <2>1, <2>2 DEF FirstNewline
  <1>13. Line = <<Digit(Len(h))>>
    <2> DEFINE b == Digit(Len(h))
               l == SubSeq(buffer, 1, 1)
    <2>1. b \in Byte
      BY <1>4, Bytes
    <2>2. 1 \in 0..Len(buffer) /\ 1 \in 1..1
      BY <1>2
    <2>3. l \in Seq(Byte) /\ Len(l) = 1 /\ l[1] = buffer[1]
      BY <1>1, <2>2, CutAt
    <2>4. Line = l
      BY <1>12 DEF Line
    <2> HIDE DEF b, l
    <2>5. l = <<b>>
      BY <1>8, <2>1, <2>3 DEF b
    <2> QED
      BY <2>4, <2>5 DEF b
  <1>14. IsLength /\ ToNumber = Len(h) /\ Line # <<>>
    <2> DEFINE b == Digit(Len(h))
    <2>1. b[1] = "digit" /\ b[2] = Len(h) /\ b[2] \in Nat
      BY <1>4, Bytes
    <2> HIDE DEF b
    <2>2. Line = <<b>> /\ <<b>> # <<>> /\ \A i \in 1..Len(<<b>>) : <<b>>[i] = b
      BY <1>13 DEF b
    <2>3. IsLength
      BY <2>1, <2>2 DEF IsLength
    <2>4. ToNumber = Len(h)
      BY <2>1, <2>2, OneDigit DEF ToNumber
    <2> QED
      BY <2>2, <2>3, <2>4
  <1>15. /\ buffer' = SubSeq(buffer, 3, Len(buffer)) /\ state' = "data" /\ length' = Len(h)
         /\ failed' = FALSE
    <2>1. buffer' = SubSeq(buffer, 2 + 1, Len(buffer)) /\ 2 + 1 = 3
      BY <1>12 DEF ReadLine, Drop
    <2>2. state' = "data" /\ length' = Len(h) /\ failed' = FALSE
      BY <1>14 DEF ReadLine
    <2> QED
      BY <2>1, <2>2
  <1>16. UNCHANGED writerVars /\ UNCHANGED <<next, accepted, received, stream>>
    BY DEF ReadLine, writerVars
  <1>17. Writer' /\ Unsent' = Unsent
    BY <1>16, WriterStays DEF StreamInv
  <1>18. Left' = Left
    BY <1>16 DEF Left
  <1>19. StreamTypes'
    BY <1>10, <1>15, <1>16 DEF StreamInv, StreamTypes
  <1>20. Reader'
    BY <1>3, <1>15, <1>16, <1>18 DEF StreamInv, Reader, h
  <1>21. (buffer \o (stream \o Unsent))' = Ahead(state, Left)'
    <2>1. Ahead("data", Left) = m \o f
      BY DEF Ahead, m, h, f
    <2>2. Ahead(state, Left)' = m \o f
      BY <1>15, <1>18, <2>1
    <2> QED
      BY <1>10, <1>15, <1>16, <1>17, <2>2
  <1> QED
    BY <1>17, <1>19, <1>20, <1>21 DEF StreamInv

LEMMA ReadDataKeeps ==
    ASSUME StreamInv, ReadData
    PROVE  StreamInv'
  <1> DEFINE h == Head(Left)
             e == <<Newline>>
             f == Flat(Tail(Left))
  <1>1. state = "data" /\ buffer # <<>> /\ Len(h) <= Len(buffer) /\ length = Len(h)
    BY DEF ReadData, Ready, StreamInv, Reader
  <1>2. Left # <<>> /\ h \in Datum /\ f \in Seq(Byte)
    BY <1>1, FirstLeft
  <1>3. buffer \in Seq(Byte)
    BY DEF StreamInv, StreamTypes
  <1> HIDE DEF h, f
  <1>4. h \in Seq(Byte) /\ e \in Seq(Byte)
    BY <1>2, FrameIs
  <1> HIDE DEF e
  <1>5. e \o f \in Seq(Byte)
    BY <1>2, <1>4, Pieces
  <1>6. Ahead(state, Left) = h \o (e \o f)
    <2>1. Ahead(state, Left) = (h \o e) \o f
      BY <1>1 DEF Ahead, h, e, f
    <2>2. (h \o e) \o f = h \o (e \o f)
      <3>1. Regrouped(h, e, f)
        BY <1>2, <1>4, Associative, Zenon
      <3> QED
        BY <3>1 DEF Regrouped
    <2> QED
      BY <2>1, <2>2
  <1>7. /\ SubSeq(buffer, 1, Len(h)) = h
        /\ SubSeq(buffer, Len(h) + 1, Len(buffer)) \in Seq(Byte)
        /\ SubSeq(buffer, Len(h) + 1, Len(buffer)) \o (stream \o Unsent) = e \o f
    <2> DEFINE r == e \o f
    <2>1. r \in Seq(Byte) /\ Ahead(state, Left) = h \o r
      BY <1>5, <1>6
    <2> HIDE DEF r
    <2>2. /\ SubSeq(buffer, 1, Len(h)) = h
          /\ SubSeq(buffer, Len(h) + 1, Len(buffer)) \in Seq(Byte)
          /\ SubSeq(buffer, Len(h) + 1, Len(buffer)) \o (stream \o Unsent) = r
      BY <1>1, <1>4, <2>1, Takes, Zenon
    <2> QED
      BY <2>2 DEF r
  <1>8. /\ data' = h /\ buffer' = SubSeq(buffer, Len(h) + 1, Len(buffer)) /\ state' = "newline"
        /\ failed' = failed
    BY <1>1, <1>7 DEF ReadData, Drop
  <1>9. UNCHANGED writerVars /\ UNCHANGED <<next, accepted, received, stream>>
    BY DEF ReadData, writerVars
  <1>10. Writer' /\ Unsent' = Unsent
    BY <1>9, WriterStays DEF StreamInv
  <1>11. Left' = Left
    BY <1>9 DEF Left
  <1>12. StreamTypes'
    BY <1>7, <1>8, <1>9 DEF StreamInv, StreamTypes
  <1>13. Reader'
    BY <1>2, <1>8, <1>9, <1>11 DEF StreamInv, Reader, h
  <1>14. (buffer \o (stream \o Unsent))' = Ahead(state, Left)'
    <2>1. Ahead("newline", Left) = e \o f
      BY DEF Ahead, e, f
    <2>2. Ahead(state, Left)' = e \o f
      BY <1>8, <1>11, <2>1
    <2> QED
      BY <1>7, <1>8, <1>9, <1>10, <2>2
  <1> QED
    BY <1>10, <1>12, <1>13, <1>14 DEF StreamInv

LEMMA ReadNewlineKeeps ==
    ASSUME StreamInv, ReadNewline
    PROVE  StreamInv'
  <1> DEFINE h == Head(Left)
             e == <<Newline>>
             f == Flat(Tail(Left))
             k == Len(received)
  <1>1. state = "newline" /\ buffer # <<>> /\ data = h
    BY DEF ReadNewline, Ready, StreamInv, Reader
  <1>2. Left # <<>> /\ h \in Datum /\ f \in Seq(Byte)
    BY <1>1, FirstLeft
  <1>3. buffer \in Seq(Byte) /\ Len(buffer) \in Nat /\ Len(buffer) >= 1
    <2>1. buffer \in Seq(Byte)
      BY DEF StreamInv, StreamTypes
    <2>2. Len(buffer) \in Nat /\ Len(buffer) # 0
      BY <1>1, <2>1, EmptySeq, LenProperties
    <2> QED
      BY <2>1, <2>2
  <1> HIDE DEF h, f
  <1>4. e \in Seq(Byte) /\ Len(e) = 1 /\ e[1] = Newline
    BY <1>2, FrameIs
  <1> HIDE DEF e
  <1>5. Ahead(state, Left) = e \o f
    BY <1>1 DEF Ahead, e, f
  <1>6. /\ SubSeq(buffer, 1, 1) = e
        /\ SubSeq(buffer, 2, Len(buffer)) \in Seq(Byte)
        /\ SubSeq(buffer, 2, Len(buffer)) \o (stream \o Unsent) = f
    <2>1. Len(e) <= Len(buffer) /\ Len(e) + 1 = 2
      BY <1>3, <1>4
    <2>2. /\ SubSeq(buffer, 1, Len(e)) = e
          /\ SubSeq(buffer, Len(e) + 1, Len(buffer)) \in Seq(Byte)
          /\ SubSeq(buffer, Len(e) + 1, Len(buffer)) \o (stream \o Unsent) = f
      BY <1>2, <1>4, <1>5, <2>1, Takes, Zenon
    <2> QED
      BY <1>4, <2>1, <2>2
  <1>7. Head(buffer) = Newline
    <2>1. 1 \in 0..Len(buffer) /\ 1 \in 1..1
      BY <1>3
    <2>2. SubSeq(buffer, 1, 1)[1] = buffer[1]
      BY <1>3, <2>1, CutAt
    <2>3. Head(buffer) = buffer[1]
      BY <1>1, <1>3
    <2> QED
      BY <1>4, <1>6, <2>2, <2>3
  <1>8. /\ buffer' = SubSeq(buffer, 2, Len(buffer)) /\ received' = Append(received, h)
        /\ state' = "line" /\ failed' = failed
    <2>1. 1 + 1 = 2
      OBVIOUS
    <2> QED
      BY <1>1, <1>7, <2>1 DEF ReadNewline, Drop
  <1>9. UNCHANGED writerVars /\ UNCHANGED <<next, accepted, stream>>
    BY DEF ReadNewline, writerVars
  <1>10. Writer' /\ Unsent' = Unsent
    BY <1>9, WriterStays DEF StreamInv
  <1>11. /\ accepted \in Seq(Datum) /\ received \in Seq(Datum) /\ received = SubSeq(accepted, 1, k)
         /\ Len(accepted) \in Nat /\ k \in Nat /\ k < Len(accepted)
    <2>1. /\ Len(accepted) \in Nat /\ k \in Nat
          /\ Left \in Seq(Datum) /\ Len(Left) = Len(accepted) - k
      BY LeftIs DEF StreamInv
    <2>2. Len(Left) # 0 /\ Len(Left) \in Nat
      BY <1>2, <2>1, EmptySeq, LenProperties
    <2>3. k < Len(accepted)
      BY <2>1, <2>2
    <2> QED
      BY <2>1, <2>3 DEF StreamInv, StreamTypes, Reader
  <1>12. received' \in Seq(Datum) /\ Len(received') = k + 1
    BY <1>2, <1>8, <1>11, AppendProperties
  <1>13. /\ h = accepted[k + 1]
         /\ SubSeq(accepted, (k + 1) + 1, Len(accepted)) = Tail(Left)
         /\ SubSeq(accepted, 1, k + 1) = Append(SubSeq(accepted, 1, k), accepted[k + 1])
    <2>1. Left = SubSeq(accepted, k + 1, Len(accepted))
      BY DEF Left
    <2> HIDE DEF k
    <2> QED
      BY <1>11, <2>1, LeftTail DEF h
  <1>14. Left' = Tail(Left) /\ received' = SubSeq(accepted', 1, Len(received'))
    <2> HIDE DEF k
    <2>1. Left' = SubSeq(accepted, (k + 1) + 1, Len(accepted))
      BY <1>9, <1>12 DEF Left
    <2> QED
      BY <1>8, <1>9, <1>11, <1>12, <1>13, <2>1
  <1>15. Reader'
    <2>1. Len(received') <= Len(accepted')
      BY <1>9, <1>11, <1>12
    <2> QED
      BY <1>8, <1>14, <2>1 DEF Reader
  <1>16. StreamTypes'
    BY <1>6, <1>8, <1>9, <1>12 DEF StreamInv, StreamTypes
  <1>17. (buffer \o (stream \o Unsent))' = Ahead(state, Left)'
    <2>1. Ahead(state, Left)' = f
      BY <1>8, <1>14 DEF Ahead, f
    <2> QED
      BY <1>6, <1>8, <1>9, <1>10, <2>1
  <1> QED
    BY <1>10, <1>15, <1>16, <1>17 DEF StreamInv

----------------------------------------------------------------------------
(* The invariant *)

LEMMA StreamStarts ==
    ASSUME Init
    PROVE  StreamInv
  <1>1. /\ next = 1 /\ stack = <<>> /\ running = FALSE /\ armed = {} /\ accepted = <<>>
        /\ stream = <<>> /\ buffer = <<>> /\ state = "line" /\ received = <<>> /\ failed = FALSE
    BY DEF Init
  <1>2. \A S : <<>> \in Seq(S)
    BY EmptySeq
  <1>3. StreamTypes
    BY <1>1, <1>2 DEF StreamTypes
  <1>4. Writer
    BY <1>1 DEF Writer
  <1>5. Left = <<>> /\ received = SubSeq(accepted, 1, Len(received)) /\ Len(received) <= Len(accepted)
    <2>1. SubSeq(<<>>, 1, 0) = <<>> /\ Len(<<>>) = 0
      OBVIOUS
    <2> QED
      BY <1>1, <2>1 DEF Left
  <1>6. Reader
    BY <1>1, <1>5 DEF Reader
  <1>7. buffer \o (stream \o Unsent) = Ahead(state, Left)
    <2>1. <<>> \o (<<>> \o <<>>) = <<>>
      BY <1>2, ConcatEmptySeq
    <2>2. Unsent = <<>>
      BY <1>1 DEF Unsent
    <2>3. Ahead(state, Left) = <<>>
      BY <1>1, <1>5, FlatNone DEF Ahead
    <2> QED
      BY <1>1, <2>1, <2>2, <2>3
  <1> QED
    BY <1>3, <1>4, <1>6, <1>7 DEF StreamInv

LEMMA StreamKeeps ==
    ASSUME ~InMain, ~Raw, StreamInv, [Next]_vars
    PROVE  StreamInv'
  <1>1. CASE Write
    BY <1>1, WriteKeeps
  <1>2. CASE SendSome
    BY <1>2, SendSomeKeeps
  <1>3. CASE Writeable
    BY <1>3, WriteableKeeps
  <1>4. CASE Read
    BY <1>4, ReadKeeps
  <1>5. CASE ReadLine
    BY <1>5, ReadLineKeeps
  <1>6. CASE ReadData
    BY <1>6, ReadDataKeeps
  <1>7. CASE ReadNewline
    BY <1>7, ReadNewlineKeeps
  <1>8. CASE UNCHANGED vars
    <2>1. UNCHANGED <<next, stack, running, armed, accepted, stream,
                      buffer, state, length, data, received, failed>>
      BY <1>8 DEF vars, writerVars, readerVars
    <2>2. StreamTypes' /\ Writer' /\ Reader'
      BY <2>1 DEF StreamInv, StreamTypes, Writer, Reader, Left
    <2>3. Unsent' = Unsent /\ Left' = Left
      BY <2>1 DEF Unsent, Top, Left
    <2> QED
      BY <2>1, <2>2, <2>3 DEF StreamInv
  <1> QED
    BY <1>1, <1>2, <1>3, <1>4, <1>5, <1>6, <1>7, <1>8 DEF Next, ReadMessage

LEMMA RestType ==
    ASSUME state \in {"line", "data", "newline"}, NEW d \in Datum
    PROVE  /\ Rest(d) \in Seq(Byte)
           /\ state = "line" => Rest(d) = Frame(d)
           /\ state # "line" => Rest(d) = IF state = "data" THEN d \o <<Newline>> ELSE <<Newline>>
  BY FrameIs DEF Rest

\* What is to come is the frames that are left, of which the first has been begun.
LEMMA AheadIs ==
    ASSUME StreamTypes, Reader
    PROVE  Ahead(state, Left) = FlattenSeq([i \in 1..Len(Left) |-> IF i = 1 THEN Rest(Left[i])
                                                                   ELSE Frame(Left[i])])
  <1> DEFINE fs == [i \in 1..Len(Left) |-> IF i = 1 THEN Rest(Left[i]) ELSE Frame(Left[i])]
  <1>1. /\ Left \in Seq(Datum) /\ Len(Left) \in Nat /\ state \in {"line", "data", "newline"}
        /\ (state # "line" => Left # <<>>)
    BY LeftIs, LenProperties DEF StreamTypes, Reader
  <1>2. CASE Left = <<>>
    <2>1. fs \in Seq(Seq(Byte)) /\ Len(fs) = 0
      BY <1>2
    <2>2. fs = <<>>
      BY <2>1, EmptySeq
    <2>3. Ahead(state, Left) = <<>>
      BY <1>1, <1>2, FlatNone DEF Ahead
    <2> QED
      BY <2>2, <2>3, FlattenNone
  <1>3. CASE Left # <<>>
    <2> DEFINE h == Head(Left)
               t == Tail(Left)
               r == Rest(h)
               gs == Frames(t)
               b == <<r>> \o gs
    <2>1. /\ h \in Datum /\ t \in Seq(Datum) /\ Len(t) = Len(Left) - 1 /\ Left[1] = h
          /\ Len(Left) >= 1
          /\ \A i \in 1..(Len(Left) - 1) : t[i] = Left[i + 1]
      BY <1>1, <1>3, EmptySeq, HeadTailProperties
    <2>2. /\ r \in Seq(Byte)
          /\ Ahead(state, Left) = r \o Flat(t)
      <3>1. /\ r \in Seq(Byte)
            /\ state = "line" => r = Frame(h)
            /\ state # "line" => r = IF state = "data" THEN h \o <<Newline>> ELSE <<Newline>>
        BY <1>1, <2>1, RestType
      <3>2. Flat(Left) = Frame(h) \o Flat(t)
        BY <1>1, <1>3, FlatFirst
      <3> HIDE DEF r
      <3> QED
        BY <3>1, <3>2 DEF Ahead
    <2>3. gs \in Seq(Seq(Byte)) /\ Len(gs) = Len(Left) - 1
      BY <2>1, FramesType
    <2>4. \A i \in 1..Len(t) : gs[i] = Frame(t[i])
      BY DEF Frames
    <2>5. \A i \in 1..Len(Left) : Left[i] \in Datum
      BY <1>1, ElementOfSeq
    <2>6. fs \in Seq(Seq(Byte)) /\ Len(fs) = Len(Left)
      <3>1. \A i \in 1..Len(Left) : Frame(Left[i]) \in Seq(Byte) /\ Rest(Left[i]) \in Seq(Byte)
        BY <1>1, <2>5, FrameIs, RestType
      <3> QED
        BY <1>1, <3>1
    <2>7. \A i \in 1..Len(Left) : fs[i] = IF i = 1 THEN r ELSE Frame(Left[i])
      BY <2>1
    <2> HIDE DEF fs, h, t, r, gs
    <2>8. /\ b \in Seq(Seq(Byte)) /\ Len(b) = Len(gs) + 1 /\ b[1] = r
          /\ \A i \in 2..(Len(gs) + 1) : b[i] = gs[i - 1]
      BY <2>2, <2>3, OneFirst
    <2> HIDE DEF b
    <2>9. ASSUME NEW i \in 1..Len(fs) PROVE fs[i] = b[i]
      <3>1. CASE i = 1
        BY <2>6, <2>7, <2>8, <3>1
      <3>2. CASE i # 1
        <4>1. /\ i - 1 \in 1..(Len(Left) - 1) /\ i - 1 \in 1..Len(t) /\ (i - 1) + 1 = i
              /\ i \in 2..(Len(gs) + 1) /\ i \in 1..Len(Left)
          BY <1>1, <2>1, <2>3, <2>6, <3>2
        <4>2. fs[i] = Frame(Left[i]) /\ b[i] = gs[i - 1]
          BY <2>7, <2>8, <3>2, <4>1
        <4>3. gs[i - 1] = Frame(t[i - 1]) /\ t[i - 1] = Left[(i - 1) + 1]
          BY <2>1, <2>4, <4>1
        <4> QED
          BY <4>1, <4>2, <4>3
      <3> QED
        BY <3>1, <3>2
    <2>10. Len(fs) = Len(b)
      BY <1>1, <2>3, <2>6, <2>8
    <2>11. fs = b
      BY <2>6, <2>8, <2>9, <2>10, SeqEqual, Zenon
    <2>12. FlattenSeq(fs) = r \o Flat(t)
      BY <2>2, <2>3, <2>11, FlattenFirst DEF b, gs, Flat
    <2> QED
      BY <2>2, <2>12 DEF fs
  <1> QED
    BY <1>2, <1>3

LEMMA InvIntact ==
    ASSUME StreamInv
    PROVE  Intact /\ NoFramingError
  <1>1. NoFramingError
    BY DEF StreamInv, StreamTypes, NoFramingError
  <1>2. buffer \in Seq(Byte) /\ stream \in Seq(Byte) /\ Unsent \in Seq(Byte)
    BY InvFacts DEF StreamInv, StreamTypes
  <1>3. UnderWay = buffer \o (stream \o Unsent)
    <2> DEFINE u == Unsent
    <2>1. UnderWay = (buffer \o stream) \o u
      BY DEF UnderWay, Unsent
    <2>2. u \in Seq(Byte)
      BY <1>2
    <2> HIDE DEF u
    <2>3. (buffer \o stream) \o u = buffer \o (stream \o u)
      <3>1. Regrouped(buffer, stream, u)
        BY <1>2, <2>2, Associative, Zenon
      <3> QED
        BY <3>1 DEF Regrouped
    <2> QED
      BY <2>1, <2>3 DEF u
  <1>4. UnderWay = FlattenSeq([i \in 1..Len(Left) |-> IF i = 1 THEN Rest(Left[i])
                                                       ELSE Frame(Left[i])])
    BY <1>3, AheadIs DEF StreamInv
  <1>5. received = SubSeq(accepted, 1, Len(received)) /\ (state = "newline" => data = Head(Left))
    BY DEF StreamInv, Reader
  <1>6. Intact
    BY <1>4, <1>5 DEF Intact, Left
  <1> QED
    BY <1>1, <1>6

\* One writer (ExtProc._out_loop) and a socket: whatever the messages, the room in the stream
\* and the pieces in which the bytes are sent and received, what the reader gets is what
\* loop.write accepted, in order, and what is under way is exactly the frames that remain.
THEOREM NothingTorn ==
    ASSUME ~InMain, ~Raw
    PROVE  Spec => []Intact
  <1>1. Init => StreamInv
    BY StreamStarts
  <1>2. StreamInv /\ [Next]_vars => StreamInv'
    BY StreamKeeps
  <1>3. StreamInv => Intact
    BY InvIntact
  <1> QED
    BY <1>1, <1>2, <1>3, PTL DEF Spec

\* Under the same conditions read_message never meets a line or an ending that is not one.
THEOREM FramesRead ==
    ASSUME ~InMain, ~Raw
    PROVE  Spec => []NoFramingError
  <1>1. Init => StreamInv
    BY StreamStarts
  <1>2. StreamInv /\ [Next]_vars => StreamInv'
    BY StreamKeeps
  <1>3. StreamInv => NoFramingError
    BY InvIntact
  <1> QED
    BY <1>1, <1>2, <1>3, PTL DEF Spec
=================================================================================
