------------------------------- MODULE KvoProofs -------------------------------
(****************************************************************************)
(* Observables, for any number of them, of watchers, threads and writes: no *)
(* waiting thread is left behind, no change is unheard and no computed value *)
(* stays stale.                                                              *)
(****************************************************************************)
EXTENDS Kvo, SequenceTheorems, FiniteSetTheorems, TLAPS

----------------------------------------------------------------------------
(* The inductive invariant. *)

ANotification == [ob : Observables, new : Values \cup {Nil}]

AFrame == [kind : {"list"}, todo : Seq(ANotification)]
          \cup [kind : {"watchers"}, ob : Observables, new : Values, i : Nat \ {0}]
          \cup [kind : {"threads"}, ob : Observables, new : Values, todo : SUBSET Threads]
          \cup [kind : {"update"}, c : Computed]

KvoTypes ==
    /\ current \in Actors \cup {Tramp}
    /\ callbacks \in Seq(ANotification) /\ frames \in Seq(AFrame)
    /\ value \in [Observables -> Values] /\ version \in [Observables -> Nat]
    /\ dirty \subseteq Observables
    /\ observers \in [Observables -> Seq(Computed \cup Watchers)]
    /\ seen \in [Observables -> [Threads -> Nat \cup {Nil}]]
    /\ waiting \in [Observables -> SUBSET Threads]
    /\ list \in [Computed -> [Observables -> Colours \cup {Nil}]]
    /\ color \in [Computed -> Colours]
    /\ marked \subseteq Computed /\ nice \subseteq Computed
    /\ unheard \subseteq Watchers

\* Threads queue notifications, and the main context goes on when none is left.
NothingLeft == current = Main => callbacks = <<>> /\ busy = {}

\* What c's function may read, and reads whatever the values are.
MayRead(c) == {o \in Observables : \E v \in [Observables -> Values] : o \in Reads(c, v)}
MustRead(c) == {o \in Observables : \A v \in [Observables -> Values] : o \in Reads(c, v)}

\* What a computed observable reads only sometimes has no other observer.  Otherwise unwatch
\* moves the later observers of a list that a notification goes through by position, and it
\* passes one over (the run of MCKvoRemoved.cfg).
SometimesReadAlone ==
    \A c \in Computed : \A o \in MayRead(c) \ MustRead(c) :
       Watching(o) = {} /\ \A d \in Computed \ {c} : o \notin MayRead(d)

\* What a frame is yet to do.
Holds(f, o) == f.kind = "list" /\ \E n \in ToSet(f.todo) : n.ob = o
CallsFrom(f, o, fun) ==
    /\ f.kind = "watchers" /\ f.ob = o
    /\ \E j \in f.i..Len(observers[o]) : observers[o][j] = fun
LooksAt(f, o, t) ==
    \/ f.kind = "watchers" /\ f.ob = o
    \/ f.kind = "threads" /\ f.ob = o /\ t \in f.todo

Waits(o) == (\E n \in ToSet(callbacks) : n.ob = o) \/ \E f \in ToSet(frames) : Holds(f, o)
ToLookAt(o, t) == Waits(o) \/ \E f \in ToSet(frames) : LooksAt(f, o, t)

\* Without the condition on what is watched nothing is said of calls.
ToCall(o, fun) ==
    SometimesReadAlone => Waits(o) \/ \E f \in ToSet(frames) : CallsFrom(f, o, fun)

\* An observable is dirty only while its notification waits.
DirtyWaits == \A o \in dirty : Waits(o)

\* Every thread that waits knows the version, or is going to be looked at.
Told == \A o \in Observables : \A t \in waiting[o] : seen[o][t] = version[o] \/ ToLookAt(o, t)

\* The observers of o, each once: what watches it, and the marks of what has it on its list.
Observed ==
    \A o \in Observables :
       /\ IsInjective(observers[o])
       /\ ToSet(observers[o]) = Watching(o) \cup {c \in Computed : list[c][o] # Nil}

KvoControl == KvoTypes /\ NothingLeft /\ DirtyWaits /\ Told /\ Observed

\* Each watcher not called since a change is going to be.
Heard == \A w \in unheard : ToCall(Watched[w], w)

\* The list of c holds what c may read, and what it must read has the colour of the last
\* update; after a mark an update is queued.
Lists ==
    \A c \in Computed :
       /\ \A o \in Observables : list[c][o] # Nil => o \in MayRead(c)
       /\ \A o \in MustRead(c) : list[c][o] = color[c]
       /\ c \in marked => c \in nice

\* The value of c is that of its function and what the function reads has the colour of the
\* last update, or an update is queued, or one of those observables will mark c.
UpToDate(c) ==
    \/ /\ value[c] = Result(c, value)
       /\ \A o \in Reads(c, value) : list[c][o] = color[c]
    \/ c \in nice
    \/ \E o \in Observables : list[c][o] = color[c] /\ ToCall(o, c)

KvoInv == KvoControl /\ Heard /\ Lists /\ \A c \in Computed : UpToDate(c)

----------------------------------------------------------------------------
(* Sequences. *)

\* A sequence and a further element.
LEMMA MembersOfAppend ==
    ASSUME NEW S
    PROVE  \A s \in Seq(S), x \in S :
              Append(s, x) \in Seq(S) /\ ToSet(Append(s, x)) = ToSet(s) \cup {x}
<1> SUFFICES ASSUME NEW s \in Seq(S), NEW x \in S
             PROVE  Append(s, x) \in Seq(S) /\ ToSet(Append(s, x)) = ToSet(s) \cup {x}
  OBVIOUS
<1> DEFINE t == Append(s, x)
<1>1. /\ t \in Seq(S) /\ Len(s) \in Nat /\ DOMAIN s = 1..Len(s)
      /\ Len(t) = Len(s) + 1 /\ DOMAIN t = 1..(Len(s) + 1)
      /\ \A i \in 1..Len(s) : t[i] = s[i]
      /\ t[Len(s) + 1] = x
  BY AppendProperties, LenProperties
<1> HIDE DEF t
<1>2. ASSUME NEW y \in ToSet(t) PROVE y \in ToSet(s) \cup {x}
  <2>1. PICK i \in 1..(Len(s) + 1) : y = t[i]
    BY <1>1, <1>2, Zenon DEF ToSet
  <2>2. CASE i \in 1..Len(s)
    BY <2>1, <2>2, <1>1, Zenon DEF ToSet
  <2>3. CASE i = Len(s) + 1
    BY <2>1, <2>3, <1>1
  <2> QED BY <2>1, <2>2, <2>3, <1>1, SMT
<1>3. ASSUME NEW y \in ToSet(s) PROVE y \in ToSet(t)
  <2>1. PICK i \in 1..Len(s) : y = s[i]
    BY <1>1, <1>3, Zenon DEF ToSet
  <2>2. i \in 1..(Len(s) + 1)
    BY <2>1, <1>1, SMT
  <2> QED BY <2>1, <2>2, <1>1, Zenon DEF ToSet
<1>4. x \in ToSet(t)
  <2>1. Len(s) + 1 \in 1..(Len(s) + 1)
    BY <1>1, SMT
  <2> QED BY <2>1, <1>1, Zenon DEF ToSet
<1> QED BY <1>1, <1>2, <1>3, <1>4 DEF t

\* A sequence is its front and its last element.
LEMMA MembersOfFront ==
    ASSUME NEW S
    PROVE  \A s \in Seq(S) : s # <<>> =>
              /\ Front(s) \in Seq(S) /\ Last(s) \in S
              /\ ToSet(s) = ToSet(Front(s)) \cup {Last(s)}
<1> SUFFICES ASSUME NEW s \in Seq(S), s # <<>>
             PROVE  /\ Front(s) \in Seq(S) /\ Last(s) \in S
                    /\ ToSet(s) = ToSet(Front(s)) \cup {Last(s)}
  OBVIOUS
<1>1. PICK n \in Nat : Len(s) = n + 1
  <2>1. Len(s) \in Nat /\ Len(s) # 0
    BY EmptySeq
  <2> QED BY <2>1, SMT
<1>2. /\ Front(s) = SubSeq(s, 1, n) /\ Last(s) = s[n + 1] /\ n + 1 \in 1..Len(s)
  BY <1>1 DEF Front, Last
<1>3. Front(s) \in Seq(S) /\ Last(s) \in S
  BY <1>1, <1>2
<1>4. Append(Front(s), Last(s)) = s
  <2> DEFINE t == Append(Front(s), Last(s))
  <2>1. Len(Front(s)) = n /\ \A i \in 1..n : Front(s)[i] = s[i]
    BY <1>1, <1>2
  <2>2. t \in Seq(S) /\ Len(t) = n + 1 /\ t[n + 1] = s[n + 1] /\ \A i \in 1..n : t[i] = s[i]
    BY <1>2, <1>3, <2>1, AppendProperties
  <2>3. \A i \in 1..(n + 1) : t[i] = s[i]
    BY <2>2
  <2> HIDE DEF t
  <2>4. t = s
    BY <2>2, <2>3, <1>1, SeqEqual
  <2> QED BY <2>4 DEF t
<1>5. ToSet(Append(Front(s), Last(s))) = ToSet(Front(s)) \cup {Last(s)}
  BY <1>3, MembersOfAppend
<1> QED BY <1>3, <1>4, <1>5

\* A sequence is its head and its tail.
LEMMA MembersOfTail ==
    ASSUME NEW S
    PROVE  \A s \in Seq(S) : s # <<>> =>
              /\ Tail(s) \in Seq(S) /\ Head(s) \in S
              /\ ToSet(s) = ToSet(Tail(s)) \cup {Head(s)}
<1> SUFFICES ASSUME NEW s \in Seq(S), s # <<>>
             PROVE  /\ Tail(s) \in Seq(S) /\ Head(s) \in S
                    /\ ToSet(s) = ToSet(Tail(s)) \cup {Head(s)}
  OBVIOUS
<1>1. PICK n \in Nat : Len(s) = n + 1
  <2>1. Len(s) \in Nat /\ Len(s) # 0
    BY EmptySeq
  <2> QED BY <2>1, SMT
<1> DEFINE t == Tail(s)
<1>2. /\ t \in Seq(S) /\ Head(s) \in S /\ Head(s) = s[1]
      /\ Len(t) = n /\ DOMAIN t = 1..n /\ DOMAIN s = 1..(n + 1)
      /\ \A i \in 1..n : t[i] = s[i + 1]
  BY <1>1
<1> HIDE DEF t
<1>3. ASSUME NEW y \in ToSet(s) PROVE y \in ToSet(t) \cup {Head(s)}
  <2>1. PICK i \in 1..(n + 1) : y = s[i]
    BY <1>2, <1>3, Zenon DEF ToSet
  <2>2. CASE i = 1
    BY <2>1, <2>2, <1>2
  <2>3. CASE i # 1
    <3>1. i - 1 \in 1..n /\ (i - 1) + 1 = i
      BY <2>1, <2>3, SMT
    <3> QED BY <3>1, <2>1, <1>2, Zenon DEF ToSet
  <2> QED BY <2>2, <2>3
<1>4. ASSUME NEW y \in ToSet(t) PROVE y \in ToSet(s)
  <2>1. PICK i \in 1..n : y = t[i]
    BY <1>2, <1>4, Zenon DEF ToSet
  <2>2. i + 1 \in 1..(n + 1)
    BY <2>1, SMT
  <2> QED BY <2>1, <2>2, <1>2, Zenon DEF ToSet
<1>5. Head(s) \in ToSet(s)
  <2>1. 1 \in 1..(n + 1)
    BY SMT
  <2> QED BY <2>1, <1>2, Zenon DEF ToSet
<1> QED BY <1>2, <1>3, <1>4, <1>5 DEF t

\* A new element keeps the elements of a sequence different.
LEMMA InjectiveAppend ==
    ASSUME NEW S
    PROVE  \A s \in Seq(S), x \in S :
              IsInjective(s) /\ x \notin ToSet(s) => IsInjective(Append(s, x))
<1> SUFFICES ASSUME NEW s \in Seq(S), NEW x \in S, IsInjective(s), x \notin ToSet(s)
             PROVE  IsInjective(Append(s, x))
  OBVIOUS
<1> DEFINE t == Append(s, x)
<1>1. /\ Len(s) \in Nat /\ DOMAIN s = 1..Len(s) /\ DOMAIN t = 1..(Len(s) + 1)
      /\ \A i \in 1..Len(s) : t[i] = s[i]
      /\ t[Len(s) + 1] = x
  BY AppendProperties, LenProperties
<1> HIDE DEF t
<1>2. \A i \in 1..Len(s) : s[i] # x
  BY <1>1, Zenon DEF ToSet
<1>3. \A i, j \in 1..Len(s) : s[i] = s[j] => i = j
  BY <1>1, Zenon DEF IsInjective
<1>4. ASSUME NEW i \in 1..(Len(s) + 1), NEW j \in 1..(Len(s) + 1), t[i] = t[j] PROVE i = j
  <2>1. CASE i = Len(s) + 1 /\ j = Len(s) + 1
    BY <2>1
  <2>2. CASE i = Len(s) + 1 /\ j \in 1..Len(s)
    BY <2>2, <1>1, <1>2, <1>4
  <2>3. CASE j = Len(s) + 1 /\ i \in 1..Len(s)
    BY <2>3, <1>1, <1>2, <1>4
  <2>4. CASE i \in 1..Len(s) /\ j \in 1..Len(s)
    BY <2>4, <1>1, <1>3, <1>4
  <2> QED BY <2>1, <2>2, <2>3, <2>4, <1>1, SMT
<1>5. IsInjective(t)
  BY <1>1, <1>4, Zenon DEF IsInjective
<1> QED BY <1>5 DEF t

\* RemoveFirst takes an element that is there once out, and leaves the others.
LEMMA RemoveFirstOnce ==
    ASSUME NEW S
    PROVE  \A s \in Seq(S), x \in S :
              IsInjective(s) =>
                 /\ RemoveFirst(s, x) \in Seq(S) /\ IsInjective(RemoveFirst(s, x))
                 /\ ToSet(RemoveFirst(s, x)) = ToSet(s) \ {x}
<1> SUFFICES ASSUME NEW s \in Seq(S), NEW x \in S, IsInjective(s)
             PROVE  /\ RemoveFirst(s, x) \in Seq(S) /\ IsInjective(RemoveFirst(s, x))
                    /\ ToSet(RemoveFirst(s, x)) = ToSet(s) \ {x}
  OBVIOUS
<1>1. /\ Len(s) \in Nat /\ DOMAIN s = 1..Len(s)
      /\ \A i \in 1..Len(s) : s[i] \in S
      /\ \A i, j \in 1..Len(s) : s[i] = s[j] => i = j
  BY LenProperties DEF IsInjective
<1>2. CASE ~ \E i \in 1..Len(s) : s[i] = x
  <2>1. RemoveFirst(s, x) = s
    BY <1>2 DEF RemoveFirst
  <2>2. x \notin ToSet(s)
    BY <1>1, <1>2, Zenon DEF ToSet
  <2> QED BY <2>1, <2>2
<1>3. CASE \E i \in 1..Len(s) : s[i] = x
  <2>1. PICK k \in 1..Len(s) : s[k] = x
    BY <1>3
  <2>2. SelectInSeq(s, LAMBDA v : v = x) = k
    <3>1. {i \in 1..Len(s) : s[i] = x} = {k}
      BY <2>1, <1>1
    <3> QED BY <3>1 DEF SelectInSeq, Min
  <2>3. RemoveFirst(s, x) = SubSeq(s, 1, k - 1) \o SubSeq(s, k + 1, Len(s))
    BY <1>3, <2>2 DEF RemoveFirst, RemoveAt
  <2>3a. PICK n \in Nat : Len(s) = n + 1
    <3>1. Len(s) - 1 \in Nat /\ Len(s) = (Len(s) - 1) + 1
      BY <1>1, <2>1, SMT
    <3> QED BY <3>1, Zenon
  <2> DEFINE r == RemoveFirst(s, x)
  <2>4. /\ r \in Seq(S) /\ Len(r) = n
        /\ \A i \in 1..n : r[i] = IF i < k THEN s[i] ELSE s[i + 1]
    <3> DEFINE p == SubSeq(s, 1, k - 1)
               q == SubSeq(s, k + 1, Len(s))
    <3>1. p \in Seq(S) /\ Len(p) = k - 1 /\ \A i \in 1..(k - 1) : p[i] = s[i]
      BY <2>1, <2>3a
    <3>2. q \in Seq(S) /\ Len(q) = n + 1 - k /\ \A i \in 1..(n + 1 - k) : q[i] = s[i + k]
      BY <2>1, <2>3a
    <3> HIDE DEF p, q
    <3>3. /\ p \o q \in Seq(S) /\ Len(p \o q) = n
          /\ \A i \in 1..n : (p \o q)[i] = IF i <= k - 1 THEN p[i] ELSE q[i - (k - 1)]
      BY <3>1, <3>2, <2>1, <2>3a
    <3>4. \A i \in 1..n : (p \o q)[i] = IF i < k THEN s[i] ELSE s[i + 1]
      BY <3>1, <3>2, <3>3, <2>1, <2>3a
    <3> QED BY <3>3, <3>4, <2>3 DEF p, q
  <2>5. DOMAIN r = 1..n
    BY <2>4, LenProperties
  <2> HIDE DEF r
  <2>6. IsInjective(r)
    <3>1. \A i, j \in 1..n : r[i] = r[j] => i = j
      BY <2>4, <2>1, <2>3a, <1>1
    <3> QED BY <3>1, <2>5, Zenon DEF IsInjective
  <2>7. ASSUME NEW y \in ToSet(r) PROVE y \in ToSet(s) \ {x}
    <3>1. PICK i \in 1..n : y = r[i]
      BY <2>5, <2>7, Zenon DEF ToSet
    <3>2. PICK j \in 1..Len(s) : y = s[j] /\ j # k
      BY <3>1, <2>4, <2>1, <2>3a
    <3>3. y # x
      BY <3>2, <2>1, <1>1
    <3> QED BY <3>2, <3>3, <1>1, Zenon DEF ToSet
  <2>8. ASSUME NEW y \in ToSet(s) \ {x} PROVE y \in ToSet(r)
    <3>1. PICK j \in 1..Len(s) : y = s[j]
      BY <1>1, <2>8, Zenon DEF ToSet
    <3>2. j # k
      BY <3>1, <2>1, <2>8
    <3>3. \E i \in 1..n : y = r[i]
      <4>1. CASE j < k
        <5>1. j \in 1..n /\ r[j] = s[j]
          BY <4>1, <3>1, <2>1, <2>3a, <2>4
        <5> QED BY <5>1, <3>1
      <4>2. CASE j > k
        <5>1. j - 1 \in 1..n /\ r[j - 1] = s[j]
          BY <4>2, <3>1, <2>1, <2>3a, <2>4
        <5> QED BY <5>1, <3>1
      <4> QED BY <4>1, <4>2, <3>1, <3>2, <2>1, SMT
    <3> QED BY <3>3, <2>5, Zenon DEF ToSet
  <2> QED BY <2>4, <2>6, <2>7, <2>8 DEF r
<1> QED BY <1>2, <1>3

\* SetToSeq orders a finite set.
LEMMA SetInSequence ==
    ASSUME NEW S, IsFiniteSet(S)
    PROVE  /\ SetToSeq(S) \in Seq(S) /\ IsInjective(SetToSeq(S))
           /\ ToSet(SetToSeq(S)) = S
<1> DEFINE n == Cardinality(S)
           t == SetToSeq(S)
<1>1. n \in Nat /\ ExistsBijection(1..n, S)
  BY FS_CardinalityType
<1>2. \E f \in [1..n -> S] : IsInjective(f)
  BY <1>1, Zenon DEF ExistsBijection, Bijection, Injection
<1>3. t \in [1..n -> S] /\ IsInjective(t)
  BY <1>2, Zenon DEF SetToSeq
<1>4. t \in Surjection(1..n, S)
  <2>1. t \in Injection(1..n, S)
    BY <1>3, Zenon DEF Injection
  <2>2. Cardinality(1..n) = n
    BY <1>1, FS_Interval
  <2> QED BY <2>1, <2>2, FS_Injection
<1> HIDE DEF n, t
<1>5. DOMAIN t = 1..n /\ t \in Seq(S)
  BY <1>1, <1>3
<1>6. ToSet(t) = S
  <2>1. ASSUME NEW x \in ToSet(t) PROVE x \in S
    <3>1. PICK i \in 1..n : x = t[i]
      BY <1>5, <2>1, Zenon DEF ToSet
    <3> QED BY <3>1, <1>3
  <2>2. ASSUME NEW x \in S PROVE x \in ToSet(t)
    <3>1. PICK i \in 1..n : t[i] = x
      BY <1>4, Zenon DEF Surjection
    <3> QED BY <3>1, <1>5, Zenon DEF ToSet
  <2> QED BY <2>1, <2>2
<1> QED BY <1>3, <1>5, <1>6 DEF t

\* Two sequences of different elements.
LEMMA InjectiveConcat ==
    ASSUME NEW S
    PROVE  \A s, t \in Seq(S) :
              /\ s \o t \in Seq(S)
              /\ ToSet(s \o t) = ToSet(s) \cup ToSet(t)
              /\ IsInjective(s) /\ IsInjective(t) /\ ToSet(s) \cap ToSet(t) = {} =>
                    IsInjective(s \o t)
<1> SUFFICES ASSUME NEW s \in Seq(S), NEW t \in Seq(S)
             PROVE  /\ s \o t \in Seq(S)
                    /\ ToSet(s \o t) = ToSet(s) \cup ToSet(t)
                    /\ IsInjective(s) /\ IsInjective(t) /\ ToSet(s) \cap ToSet(t) = {} =>
                          IsInjective(s \o t)
  OBVIOUS
<1> DEFINE r == s \o t
           m == Len(s)
           n == Len(t)
<1>1. /\ r \in Seq(S) /\ m \in Nat /\ n \in Nat
      /\ DOMAIN s = 1..m /\ DOMAIN t = 1..n /\ DOMAIN r = 1..(m + n)
      /\ \A i \in 1..m : r[i] = s[i]
      /\ \A i \in 1..n : r[i + m] = t[i]
  BY ConcatProperties, LenProperties
<1> HIDE DEF r, m, n
<1>2. \A i \in 1..(m + n) : i \in 1..m \/ \E j \in 1..n : i = j + m
  <2> SUFFICES ASSUME NEW i \in 1..(m + n), i \notin 1..m PROVE \E j \in 1..n : i = j + m
    OBVIOUS
  <2>1. i - m \in 1..n /\ i = (i - m) + m
    BY <1>1, SMT
  <2> QED BY <2>1
<1>3. /\ \A i \in 1..m : i \in 1..(m + n)
      /\ \A j \in 1..n : j + m \in 1..(m + n)
  BY <1>1, SMT
<1>4. ASSUME NEW y \in ToSet(r) PROVE y \in ToSet(s) \cup ToSet(t)
  <2>1. PICK i \in 1..(m + n) : y = r[i]
    BY <1>1, <1>4, Zenon DEF ToSet
  <2>2. CASE i \in 1..m
    BY <2>1, <2>2, <1>1, Zenon DEF ToSet
  <2>3. CASE \E j \in 1..n : i = j + m
    BY <2>1, <2>3, <1>1, Zenon DEF ToSet
  <2> QED BY <2>1, <2>2, <2>3, <1>2
<1>5. ASSUME NEW y \in ToSet(s) PROVE y \in ToSet(r)
  <2>1. PICK i \in 1..m : y = s[i]
    BY <1>1, <1>5, Zenon DEF ToSet
  <2> QED BY <2>1, <1>1, <1>3, Zenon DEF ToSet
<1>6. ASSUME NEW y \in ToSet(t) PROVE y \in ToSet(r)
  <2>1. PICK i \in 1..n : y = t[i]
    BY <1>1, <1>6, Zenon DEF ToSet
  <2> QED BY <2>1, <1>1, <1>3, Zenon DEF ToSet
<1>7. ASSUME IsInjective(s), IsInjective(t), ToSet(s) \cap ToSet(t) = {} PROVE IsInjective(r)
  <2>1. /\ \A i, j \in 1..m : s[i] = s[j] => i = j
        /\ \A i, j \in 1..n : t[i] = t[j] => i = j
    BY <1>1, <1>7, Zenon DEF IsInjective
  <2>2. \A i \in 1..m, j \in 1..n : s[i] # t[j]
    <3> SUFFICES ASSUME NEW i \in 1..m, NEW j \in 1..n PROVE s[i] # t[j]
      OBVIOUS
    <3>1. s[i] \in ToSet(s) /\ t[j] \in ToSet(t)
      BY <1>1, Zenon DEF ToSet
    <3> QED BY <3>1, <1>7
  <2>3. ASSUME NEW i \in 1..(m + n), NEW j \in 1..(m + n), r[i] = r[j] PROVE i = j
    <3>1. CASE i \in 1..m /\ j \in 1..m
      BY <3>1, <2>1, <2>3, <1>1, Zenon
    <3>2. CASE i \in 1..m /\ \E k \in 1..n : j = k + m
      <4>1. PICK k \in 1..n : j = k + m
        BY <3>2
      <4>2. r[j] = t[k] /\ r[i] = s[i]
        BY <4>1, <3>2, <1>1
      <4> QED BY <4>2, <3>2, <2>2, <2>3
    <3>3. CASE j \in 1..m /\ \E k \in 1..n : i = k + m
      <4>1. PICK k \in 1..n : i = k + m
        BY <3>3
      <4>2. r[i] = t[k] /\ r[j] = s[j]
        BY <4>1, <3>3, <1>1
      <4> QED BY <4>2, <3>3, <2>2, <2>3
    <3>4. CASE (\E k \in 1..n : i = k + m) /\ \E k \in 1..n : j = k + m
      <4>1. PICK k \in 1..n : i = k + m
        BY <3>4
      <4>2. PICK l \in 1..n : j = l + m
        BY <3>4
      <4>3. r[i] = t[k] /\ r[j] = t[l]
        BY <4>1, <4>2, <1>1
      <4> QED BY <4>1, <4>2, <4>3, <2>1, <2>3
    <3> QED BY <3>1, <3>2, <3>3, <3>4, <1>2, Zenon
  <2> QED BY <2>3, <1>1, Zenon DEF IsInjective
<1> QED BY <1>1, <1>4, <1>5, <1>6, <1>7 DEF r

----------------------------------------------------------------------------
(* Frames. *)

\* What each kind of frame is made of.
LEMMA FrameParts ==
    \A f \in AFrame :
       /\ f.kind = "list" => f.todo \in Seq(ANotification)
       /\ f.kind = "watchers" =>
             /\ f.ob \in Observables /\ f.new \in Values /\ f.i \in Nat \ {0}
             /\ [f EXCEPT !.i = @ + 1] = [kind |-> "watchers", ob |-> f.ob, new |-> f.new,
                                          i |-> f.i + 1]
       /\ f.kind = "threads" =>
             /\ f.ob \in Observables /\ f.new \in Values /\ f.todo \in SUBSET Threads
             /\ \A t : [f EXCEPT !.todo = @ \ {t}] = ToThreads(f.ob, f.new, f.todo \ {t})
       /\ f.kind = "update" => f.c \in Computed
<1> SUFFICES ASSUME NEW f \in AFrame
             PROVE  /\ f.kind = "list" => f.todo \in Seq(ANotification)
                    /\ f.kind = "watchers" =>
                          /\ f.ob \in Observables /\ f.new \in Values /\ f.i \in Nat \ {0}
                          /\ [f EXCEPT !.i = @ + 1]
                                = [kind |-> "watchers", ob |-> f.ob, new |-> f.new,
                                   i |-> f.i + 1]
                    /\ f.kind = "threads" =>
                          /\ f.ob \in Observables /\ f.new \in Values
                          /\ f.todo \in SUBSET Threads
                          /\ \A t : [f EXCEPT !.todo = @ \ {t}]
                                       = ToThreads(f.ob, f.new, f.todo \ {t})
                    /\ f.kind = "update" => f.c \in Computed
  OBVIOUS
<1>1. CASE f \in [kind : {"list"}, todo : Seq(ANotification)]
  BY <1>1
<1>2. CASE f \in [kind : {"watchers"}, ob : Observables, new : Values, i : Nat \ {0}]
  BY <1>2
<1>3. CASE f \in [kind : {"threads"}, ob : Observables, new : Values, todo : SUBSET Threads]
  <2>1. f.kind = "threads" /\ f.ob \in Observables /\ f.new \in Values /\ f.todo \in SUBSET Threads
    BY <1>3
  <2>2. \A t : [f EXCEPT !.todo = @ \ {t}] = ToThreads(f.ob, f.new, f.todo \ {t})
    <3> TAKE t
    <3>1. PICK ob \in Observables, new \in Values, todo \in SUBSET Threads :
             f = [kind |-> "threads", ob |-> ob, new |-> new, todo |-> todo]
      BY <1>3
    <3> QED BY <3>1 DEF ToThreads
  <2> QED BY <2>1, <2>2
<1>4. CASE f \in [kind : {"update"}, c : Computed]
  BY <1>4
<1> QED BY <1>1, <1>2, <1>3, <1>4 DEF AFrame

\* The frames the actions make.
LEMMA FramesMade ==
    /\ \A todo \in Seq(ANotification) : CallbackList(todo) \in AFrame
    /\ \A o \in Observables, v \in Values :
          /\ ToWatchers(o, v) \in AFrame
          /\ \A i \in Nat \ {0} : [kind |-> "watchers", ob |-> o, new |-> v, i |-> i] \in AFrame
          /\ \A S \in SUBSET Threads : ToThreads(o, v, S) \in AFrame
    /\ \A c \in Computed : Updating(c) \in AFrame
BY DEF AFrame, CallbackList, ToWatchers, ToThreads, Updating

\* The top of the stack and what is under it.
LEMMA TopParts ==
    ASSUME KvoTypes, frames # <<>>
    PROVE  /\ Top \in AFrame /\ Under \in Seq(AFrame)
           /\ ToSet(frames) = ToSet(Under) \cup {Top}
BY MembersOfFront DEF KvoTypes, Top, Under

\* The properties count positions where the invariant speaks of members.
LEMMA SameQuestions ==
    ASSUME KvoTypes
    PROVE  \A o : /\ Queued(o) <=> Waits(o)
                  /\ SometimesReadAlone => \A fun : WillCall(o, fun) <=> ToCall(o, fun)
                  /\ \A t : WillWake(o, t) <=> ToLookAt(o, t)
<1>1. /\ DOMAIN callbacks = 1..Len(callbacks) /\ DOMAIN frames = 1..Len(frames)
      /\ \A i \in 1..Len(frames) : frames[i] \in AFrame
  BY LenProperties DEF KvoTypes
<1>2. \A f \in AFrame : f.kind = "list" => DOMAIN f.todo = 1..Len(f.todo)
  BY FrameParts, LenProperties
<1>3. /\ ToSet(callbacks) = {callbacks[i] : i \in 1..Len(callbacks)}
      /\ ToSet(frames) = {frames[i] : i \in 1..Len(frames)}
      /\ \A f \in AFrame : f.kind = "list" =>
            ToSet(f.todo) = {f.todo[i] : i \in 1..Len(f.todo)}
  BY <1>1, <1>2, Zenon DEF ToSet
<1>4. \A o : Queued(o) <=> Waits(o)
  <2> TAKE o
  <2>1. (\E n \in ToSet(callbacks) : n.ob = o)
           <=> \E i \in 1..Len(callbacks) : callbacks[i].ob = o
    BY <1>3, Zenon
  <2>2. \A f \in AFrame : f.kind = "list" =>
           ((\E n \in ToSet(f.todo) : n.ob = o) <=> \E j \in 1..Len(f.todo) : f.todo[j].ob = o)
    <3> TAKE f \in AFrame
    <3> HAVE f.kind = "list"
    <3>1. ToSet(f.todo) = {f.todo[i] : i \in 1..Len(f.todo)}
      BY <1>3
    <3> QED BY <3>1, Zenon
  <2>3. (\E f \in ToSet(frames) : Holds(f, o))
           <=> \E i \in 1..Len(frames) : Holds(frames[i], o)
    BY <1>3, Zenon
  <2>4. \A i \in 1..Len(frames) :
           Holds(frames[i], o) <=>
              /\ frames[i].kind = "list"
              /\ \E j \in 1..Len(frames[i].todo) : frames[i].todo[j].ob = o
    BY <1>1, <2>2, Zenon DEF Holds
  <2> QED BY <2>1, <2>3, <2>4, Zenon DEF Queued, Waits
<1>5. SometimesReadAlone => \A o, fun : WillCall(o, fun) <=> ToCall(o, fun)
  BY <1>1, <1>3, <1>4 DEF WillCall, ToCall, CallsFrom
<1>6. \A o, t : WillWake(o, t) <=> ToLookAt(o, t)
  BY <1>1, <1>3, <1>4 DEF WillWake, ToLookAt, LooksAt
<1> QED BY <1>4, <1>5, <1>6

----------------------------------------------------------------------------
(* Changing an observable. *)

\* Whoever changes o, a notification of it is in what follows.
LEMMA Changed ==
    ASSUME KvoTypes, NEW c \in Actors, NEW o \in Observables, NEW v \in Values,
           NEW rest \in Seq(AFrame), Change(c, o, v, rest)
    PROVE  /\ value' \in [Observables -> Values] /\ version' \in [Observables -> Nat]
           /\ dirty' \subseteq Observables /\ callbacks' \in Seq(ANotification)
           /\ frames' \in Seq(AFrame) /\ ToSet(rest) \subseteq ToSet(frames')
           /\ ToSet(callbacks) \subseteq ToSet(callbacks')
           /\ c = Main => UNCHANGED <<dirty, callbacks>>
           /\ \A p \in dirty' : p \in dirty \/ \E n \in ToSet(callbacks') : n.ob = p
           /\ \A p \in Observables : version'[p] # version[p] => p = o /\ o \notin dirty
           /\ \A p \in Observables \ {o} : value'[p] = value[p]
           /\ value'[o] = v
           /\ \/ o \in dirty
              \/ \E n \in ToSet(callbacks') : n.ob = o
              \/ ToWatchers(o, v) \in ToSet(frames')
<1>1. /\ value' = [value EXCEPT ![o] = v]
      /\ version' = IF o \in dirty THEN version ELSE [version EXCEPT ![o] = @ + 1]
      /\ frames' = IF c = Main /\ o \notin dirty THEN Append(rest, ToWatchers(o, v)) ELSE rest
      /\ \/ (c = Main \/ o \in dirty) /\ dirty' = dirty /\ callbacks' = callbacks
         \/ /\ c # Main /\ o \notin dirty
            /\ dirty' = NowDirty(o)
            /\ callbacks' = Append(callbacks,
                                   Notification(o, IF o \in Coalescing THEN Nil ELSE v))
  BY DEF Change
<1>2. value' \in [Observables -> Values] /\ version' \in [Observables -> Nat]
  BY <1>1 DEF KvoTypes
<1>3. /\ \A p \in Observables : version'[p] # version[p] => p = o /\ o \notin dirty
      /\ \A p \in Observables \ {o} : value'[p] = value[p]
      /\ value'[o] = v
  BY <1>1 DEF KvoTypes
<1>4. /\ frames' \in Seq(AFrame) /\ ToSet(rest) \subseteq ToSet(frames')
      /\ c = Main /\ o \notin dirty => ToWatchers(o, v) \in ToSet(frames')
  BY <1>1, MembersOfAppend, FramesMade
<1> DEFINE n == Notification(o, IF o \in Coalescing THEN Nil ELSE v)
<1>5. n \in ANotification /\ n.ob = o
  BY DEF Notification, ANotification
<1> HIDE DEF n
<1>6. CASE (c = Main \/ o \in dirty) /\ dirty' = dirty /\ callbacks' = callbacks
  BY <1>2, <1>3, <1>4, <1>6, Zenon DEF KvoTypes
<1>7. CASE /\ c # Main /\ o \notin dirty
           /\ dirty' = NowDirty(o)
           /\ callbacks' = Append(callbacks, n)
  <2>1. callbacks' \in Seq(ANotification) /\ ToSet(callbacks') = ToSet(callbacks) \cup {n}
    BY <1>5, <1>7, MembersOfAppend DEF KvoTypes
  <2>2. dirty' \subseteq dirty \cup {o} /\ dirty' \subseteq Observables
    BY <1>7 DEF NowDirty, KvoTypes
  <2>3. \E m \in ToSet(callbacks') : m.ob = o
    BY <2>1, <1>5
  <2>4. \A p \in dirty' : p \in dirty \/ \E m \in ToSet(callbacks') : m.ob = p
    BY <2>2, <2>3
  <2> QED BY <1>2, <1>3, <1>4, <1>7, <2>1, <2>2, <2>3, <2>4
<1> QED BY <1>1, <1>6, <1>7 DEF n

\* The same for a value that may be the old one.
LEMMA SetOrNot ==
    ASSUME KvoTypes, NEW o \in Observables, NEW v \in Values,
           NEW rest \in Seq(AFrame), SetTo(o, v, rest)
    PROVE  /\ value' \in [Observables -> Values] /\ version' \in [Observables -> Nat]
           /\ frames' \in Seq(AFrame) /\ ToSet(rest) \subseteq ToSet(frames')
           /\ UNCHANGED <<dirty, callbacks>>
           /\ \A p \in Observables : version'[p] # version[p] => p = o /\ o \notin dirty
           /\ \A p \in Observables \ {o} : value'[p] = value[p]
           /\ value'[o] = v
           /\ v # value[o] =>
                 \/ o \in dirty
                 \/ \E n \in ToSet(callbacks') : n.ob = o
                 \/ ToWatchers(o, v) \in ToSet(frames')
           /\ v = value[o] => version' = version
<1>1. CASE v # value[o] /\ Change(Main, o, v, rest)
  <2>1. Main \in Actors
    BY DEF Actors
  <2> QED BY <1>1, <2>1, Changed
<1>2. CASE v = value[o] /\ frames' = rest /\ UNCHANGED <<valueVars, informed>>
  BY <1>2 DEF valueVars, KvoTypes
<1> QED BY <1>1, <1>2 DEF SetTo

\* What is in dirty, on callback_list or given to the watchers is a notification to come.
LEMMA ChangeIsToCome ==
    ASSUME KvoTypes', KvoControl, NEW o \in Observables, NEW v,
           \A p \in Observables : Waits(p) => Waits(p)',
           \/ o \in dirty
           \/ \E n \in ToSet(callbacks') : n.ob = o
           \/ ToWatchers(o, v) \in ToSet(frames')
    PROVE  /\ \A t : ToLookAt(o, t)'
           /\ \A fun \in ToSet(observers'[o]) : ToCall(o, fun)'
<1>1. CASE Waits(o)'
  BY <1>1 DEF ToLookAt, ToCall
<1>2. CASE ToWatchers(o, v) \in ToSet(frames')
  <2>1. \A t : LooksAt(ToWatchers(o, v), o, t)
    BY DEF LooksAt, ToWatchers
  <2>2. \A fun \in ToSet(observers'[o]) : CallsFrom(ToWatchers(o, v), o, fun)'
    <3>1. DOMAIN observers'[o] = 1..Len(observers'[o])
      BY LenProperties DEF KvoTypes
    <3>2. \A fun \in ToSet(observers'[o]) : \E j \in 1..Len(observers'[o]) : observers'[o][j] = fun
      BY <3>1, Zenon DEF ToSet
    <3> QED BY <3>2 DEF CallsFrom, ToWatchers
  <2> QED BY <1>2, <2>1, <2>2 DEF ToLookAt, ToCall
<1> QED BY <1>1, <1>2 DEF KvoControl, DirtyWaits, Waits

----------------------------------------------------------------------------
(* What the actions keep. *)

\* The rest of the invariant, when a step leaves the values and the lists alone and every
\* observer that was to be called still is.
LEMMA RestKept ==
    ASSUME KvoInv, KvoControl',
           UNCHANGED <<value, list, color, nice, marked, unheard>>,
           \A o \in Observables : \A fun \in ToSet(observers[o]) : ToCall(o, fun) => ToCall(o, fun)'
    PROVE  KvoInv'
<1> USE DEF KvoInv, KvoControl
<1>1. Heard'
  <2> SUFFICES ASSUME NEW w \in unheard PROVE ToCall(Watched[w], w)'
    BY DEF Heard
  <2>1. w \in Watchers /\ Watched[w] \in Observables
    BY KvoParameters DEF KvoTypes
  <2>2. w \in ToSet(observers[Watched[w]])
    BY <2>1 DEF Observed, Watching
  <2> QED BY <2>1, <2>2 DEF Heard
<1>2. Lists'
  BY DEF Lists
<1>3. ASSUME NEW c \in Computed PROVE UpToDate(c)'
  <2>1. UpToDate(c)
    OBVIOUS
  <2>2. ASSUME NEW o \in Observables, list[c][o] = color[c], ToCall(o, c) PROVE ToCall(o, c)'
    <3>1. list[c][o] # Nil
      BY <2>2, KvoParameters DEF KvoTypes
    <3>2. c \in ToSet(observers[o])
      BY <3>1 DEF Observed
    <3> QED BY <3>2, <2>2
  <2> QED BY <2>1, <2>2 DEF UpToDate
<1> QED BY <1>1, <1>2, <1>3

\* The threads come and go: notifications are left alone.
LEMMA ControlLeft ==
    ASSUME KvoInv, UNCHANGED controlVars, KvoTypes', NothingLeft', Told' PROVE KvoInv'
<1>1. \A o : /\ Waits(o)' <=> Waits(o)
             /\ \A fun : ToCall(o, fun)' <=> ToCall(o, fun)
             /\ \A t : ToLookAt(o, t)' <=> ToLookAt(o, t)
  BY DEF controlVars, valueVars, computedVars, Waits, ToCall, ToLookAt, CallsFrom
<1>2. DirtyWaits' /\ Observed'
  BY <1>1 DEF KvoInv, KvoControl, DirtyWaits, Observed, controlVars, valueVars, computedVars
<1>3. KvoControl'
  BY <1>2 DEF KvoControl
<1>4. UNCHANGED <<value, list, color, nice, marked, unheard>>
  BY DEF controlVars, valueVars, computedVars
<1> QED BY <1>1, <1>3, <1>4, RestKept

\* The same when no thread learns or waits either.
LEMMA ThreadsLeft ==
    ASSUME KvoInv, UNCHANGED controlVars, UNCHANGED threadVars,
           current' \in Actors \cup {Tramp}, NothingLeft'
    PROVE  KvoInv'
<1>1. KvoTypes'
  BY DEF KvoInv, KvoControl, KvoTypes, controlVars, threadVars, valueVars, computedVars
<1>2. Told'
  BY DEF KvoInv, KvoControl, Told, ToLookAt, Waits, controlVars, threadVars, valueVars
<1> QED BY <1>1, <1>2, ControlLeft

LEMMA ParkKeeps == ASSUME KvoInv, NEW t \in Threads, Park(t) PROVE KvoInv'
<1>1. current' = Tramp /\ UNCHANGED controlVars /\ UNCHANGED threadVars
  BY DEF Park
<1>2. NothingLeft'
  BY <1>1, KvoParameters DEF NothingLeft, Actors
<1> QED BY <1>1, <1>2, ThreadsLeft

LEMMA UnparkKeeps ==
    ASSUME KvoInv, NEW c \in Actors, NEW t \in Threads, Unpark(c, t) PROVE KvoInv'
<1>1. current' = t /\ UNCHANGED controlVars /\ UNCHANGED threadVars
  BY DEF Unpark
<1>2. NothingLeft' /\ current' \in Actors
  BY <1>1, KvoParameters DEF NothingLeft, Actors
<1> QED BY <1>1, <1>2, ThreadsLeft

LEMMA RunBusyKeeps == ASSUME KvoInv, NEW t \in Threads, RunBusy(t) PROVE KvoInv'
<1>1. current' = t /\ UNCHANGED controlVars /\ UNCHANGED threadVars
  BY DEF RunBusy
<1>2. NothingLeft' /\ current' \in Actors
  BY <1>1, KvoParameters DEF NothingLeft, Actors
<1> QED BY <1>1, <1>2, ThreadsLeft

LEMMA TrampolineReturnsKeeps == ASSUME KvoInv, TrampolineReturns PROVE KvoInv'
<1>1. /\ current' = Main /\ busy = {} /\ callbacks = <<>> /\ busy' = busy
      /\ UNCHANGED controlVars /\ UNCHANGED threadVars
  BY DEF TrampolineReturns
<1>2. callbacks' = callbacks
  BY <1>1 DEF controlVars, valueVars
<1>3. NothingLeft' /\ current' \in Actors
  BY <1>1, <1>2 DEF NothingLeft, Actors
<1> QED BY <1>1, <1>3, ThreadsLeft

\* A thread that reads an observable knows its version afterwards.
LEMMA Noted ==
    ASSUME KvoTypes, NEW t \in Threads, NEW o \in Observables, Note(t, o)
    PROVE  /\ seen' \in [Observables -> [Threads -> Nat \cup {Nil}]]
           /\ \A p \in Observables, u \in Threads :
                 seen'[p][u] = seen[p][u] \/ (p = o /\ u = t /\ seen'[p][u] = version[p])
BY DEF KvoTypes, Note

LEMMA ReadKeeps ==
    ASSUME KvoInv, NEW t \in Threads, NEW o \in Observables, Read(t, o) PROVE KvoInv'
<1>1. /\ Note(t, o) /\ UNCHANGED trampVars /\ waiting' = waiting /\ UNCHANGED controlVars
      /\ KvoTypes
  BY DEF Read, KvoInv, KvoControl
<1>2. current' = current /\ busy' = busy /\ callbacks' = callbacks /\ version' = version
  BY <1>1 DEF trampVars, controlVars, valueVars
<1>3. KvoTypes'
  BY <1>1, Noted DEF KvoTypes, trampVars, controlVars, valueVars, computedVars
<1>4. NothingLeft'
  BY <1>2 DEF NothingLeft, KvoInv, KvoControl
<1>5. Told'
  <2> SUFFICES ASSUME NEW p \in Observables, NEW u \in waiting[p]
               PROVE  seen'[p][u] = version'[p] \/ ToLookAt(p, u)'
    BY <1>1 DEF Told
  <2>1. seen[p][u] = version[p] \/ ToLookAt(p, u)
    BY DEF Told, KvoInv, KvoControl
  <2>2. u \in Threads
    BY <1>1 DEF KvoTypes
  <2>3. ToLookAt(p, u)' <=> ToLookAt(p, u)
    BY <1>1 DEF ToLookAt, Waits, controlVars, valueVars
  <2> QED BY <2>1, <2>2, <2>3, <1>1, <1>2, Noted
<1> QED BY <1>1, <1>3, <1>4, <1>5, ControlLeft

\* A thread waits only for observables of which it knows the version.
LEMMA RecvKeeps == ASSUME KvoInv, NEW t \in Threads, Recv(t) PROVE KvoInv'
<1> DEFINE S == Listens[t]
<1>1. /\ UNCHANGED <<busy, parked>> /\ UNCHANGED controlVars /\ KvoTypes /\ Runs(t)
      /\ S \subseteq Observables
  BY KvoParameters DEF Recv, KvoInv, KvoControl
<1>2. version' = version /\ callbacks' = callbacks
  BY <1>1 DEF controlVars, valueVars
<1>3. \A p, u : ToLookAt(p, u)' <=> ToLookAt(p, u)
  BY <1>1 DEF ToLookAt, Waits, controlVars, valueVars
<1>4. \/ \E o \in S : seen[o][t] # version[o] /\ Note(t, o) /\ UNCHANGED <<current, waiting>>
      \/ /\ \A o \in S : seen[o][t] = version[o]
         /\ waiting' = [o \in Observables |->
                           IF o \in S THEN waiting[o] \cup {t} ELSE waiting[o]]
         /\ current' = Tramp
         /\ UNCHANGED <<seen, informed>>
  BY DEF Recv
<1>5. CASE \E o \in S : seen[o][t] # version[o] /\ Note(t, o) /\ UNCHANGED <<current, waiting>>
  <2>1. PICK o \in S : Note(t, o) /\ UNCHANGED <<current, waiting>>
    BY <1>5
  <2>2. o \in Observables
    BY <1>1, <2>1
  <2>3. KvoTypes'
    BY <1>1, <2>1, <2>2, Noted DEF KvoTypes, controlVars, valueVars, computedVars
  <2>4. NothingLeft'
    BY <1>1, <1>2, <2>1 DEF NothingLeft, KvoInv, KvoControl
  <2>5. Told'
    <3> SUFFICES ASSUME NEW p \in Observables, NEW u \in waiting[p]
                 PROVE  seen'[p][u] = version'[p] \/ ToLookAt(p, u)'
      BY <2>1 DEF Told
    <3>1. seen[p][u] = version[p] \/ ToLookAt(p, u)
      BY DEF Told, KvoInv, KvoControl
    <3>2. u \in Threads
      BY <1>1 DEF KvoTypes
    <3> QED BY <3>1, <3>2, <1>1, <1>2, <1>3, <2>1, <2>2, Noted
  <2> QED BY <1>1, <2>3, <2>4, <2>5, ControlLeft
<1>6. CASE /\ \A o \in S : seen[o][t] = version[o]
           /\ waiting' = [o \in Observables |->
                             IF o \in S THEN waiting[o] \cup {t} ELSE waiting[o]]
           /\ current' = Tramp
           /\ UNCHANGED <<seen, informed>>
  <2>1. KvoTypes'
    <3>1. waiting' \in [Observables -> SUBSET Threads]
      BY <1>1, <1>6 DEF KvoTypes
    <3> QED BY <1>1, <1>6, <3>1 DEF KvoTypes, controlVars, valueVars, computedVars
  <2>2. NothingLeft'
    BY <1>6, KvoParameters DEF NothingLeft, Actors
  <2>3. Told'
    <3> SUFFICES ASSUME NEW p \in Observables, NEW u \in waiting'[p]
                 PROVE  seen'[p][u] = version'[p] \/ ToLookAt(p, u)'
      BY DEF Told
    <3>1. CASE u \in waiting[p]
      BY <3>1, <1>2, <1>3, <1>6 DEF Told, KvoInv, KvoControl
    <3>2. CASE u \notin waiting[p]
      BY <3>2, <1>2, <1>6 DEF KvoTypes
    <3> QED BY <3>1, <3>2
  <2> QED BY <1>1, <2>1, <2>2, <2>3, ControlLeft
<1> QED BY <1>4, <1>5, <1>6

\* The main context goes on with its frames: it calls and wakes those it was to.
LEMMA FramesMove ==
    ASSUME KvoInv, KvoTypes', NothingLeft',
           UNCHANGED <<value, version, list, color, nice, marked, unheard, observers>>,
           \A o \in dirty' : Waits(o)',
           \A o \in Observables : \A t \in waiting'[o] :
              \/ seen'[o][t] = version[o]
              \/ t \in waiting[o] /\ seen'[o][t] = seen[o][t] /\ (ToLookAt(o, t) => ToLookAt(o, t)'),
           \A o \in Observables : \A fun \in ToSet(observers[o]) : ToCall(o, fun) => ToCall(o, fun)'
    PROVE  KvoInv'
<1>1. Told'
  BY DEF Told, KvoInv, KvoControl
<1>2. Observed'
  BY DEF Observed, KvoInv, KvoControl
<1>3. KvoControl'
  BY <1>1, <1>2 DEF KvoControl, DirtyWaits
<1>4. UNCHANGED <<value, list, color, nice, marked, unheard>>
  OBVIOUS
<1> QED BY <1>3, <1>4, RestKept

\* What an action finds at the top of the stack.
LEMMA InTheMiddle ==
    ASSUME KvoInv, NEW kind, Doing(kind)
    PROVE  /\ current = Main /\ callbacks = <<>> /\ busy = {} /\ KvoTypes /\ frames # <<>>
           /\ Top \in AFrame /\ Top.kind = kind /\ Under \in Seq(AFrame)
           /\ ToSet(frames) = ToSet(Under) \cup {Top}
BY TopParts DEF KvoInv, KvoControl, Doing, Runs, NothingLeft

\* The first notification of a list becomes a frame that will call and look at everybody.
LEMMA StartNotificationKeeps == ASSUME KvoInv, StartNotification PROVE KvoInv'
<1> DEFINE n == Head(Top.todo)
           new == IF n.new = Nil THEN value[n.ob] ELSE n.new
           y == CallbackList(Tail(Top.todo))
           z == ToWatchers(n.ob, new)
<1>1. /\ Doing("list") /\ Top.todo # <<>>
      /\ dirty' = dirty \ {n.ob}
      /\ frames' = Append(Append(Under, y), z)
      /\ UNCHANGED <<trampVars, callbacks, nice, value, version, threadVars, computedVars,
                     marked, writes, historyVars>>
  BY DEF StartNotification
<1>2. /\ current = Main /\ callbacks = <<>> /\ busy = {} /\ KvoTypes
      /\ Top \in AFrame /\ Top.kind = "list" /\ Under \in Seq(AFrame)
      /\ ToSet(frames) = ToSet(Under) \cup {Top}
  BY <1>1, InTheMiddle
<1>3. /\ Top.todo \in Seq(ANotification) /\ Tail(Top.todo) \in Seq(ANotification)
      /\ n \in ANotification /\ ToSet(Top.todo) = ToSet(Tail(Top.todo)) \cup {n}
  <2>1. Top.todo \in Seq(ANotification)
    BY <1>2, FrameParts
  <2> QED BY <1>1, <2>1, MembersOfTail
<1>4. n.ob \in Observables /\ new \in Values
  BY <1>2, <1>3 DEF KvoTypes, ANotification
<1> HIDE DEF n, new
<1>5. y \in AFrame /\ z \in AFrame
  BY <1>3, <1>4, FramesMade
<1>6. frames' \in Seq(AFrame) /\ ToSet(frames') = ToSet(Under) \cup {y, z}
  <2>1. Append(Under, y) \in Seq(AFrame) /\ ToSet(Append(Under, y)) = ToSet(Under) \cup {y}
    BY <1>2, <1>5, MembersOfAppend
  <2> DEFINE u == Append(Under, y)
  <2> HIDE DEF u
  <2>2. u \in Seq(AFrame) /\ ToSet(u) = ToSet(Under) \cup {y} /\ frames' = Append(u, z)
    BY <2>1, <1>1 DEF u
  <2> QED BY <2>2, <1>5, MembersOfAppend
<1>7. /\ \A o : Holds(Top, o) => Holds(y, o) \/ o = n.ob
      /\ \A t : LooksAt(z, n.ob, t) /\ ~ \E o : LooksAt(Top, o, t)
  BY <1>2, <1>3 DEF Holds, LooksAt, CallbackList, ToWatchers
<1>8. \A fun \in ToSet(observers[n.ob]) : CallsFrom(z, n.ob, fun)
  <2>1. DOMAIN observers[n.ob] = 1..Len(observers[n.ob])
    BY <1>2, <1>4, LenProperties DEF KvoTypes
  <2>2. \A fun \in ToSet(observers[n.ob]) :
           \E j \in 1..Len(observers[n.ob]) : observers[n.ob][j] = fun
    BY <2>1, Zenon DEF ToSet
  <2> QED BY <2>2 DEF CallsFrom, ToWatchers
<1>9. \A o, fun : ~CallsFrom(Top, o, fun)
  BY <1>2 DEF CallsFrom
<1>10. callbacks' = callbacks /\ observers' = observers
  BY <1>1 DEF computedVars
<1>11. \A o : Waits(o) => Waits(o)' \/ o = n.ob
  BY <1>2, <1>6, <1>7, <1>10 DEF Waits
<1>12. \A o, t : ToLookAt(o, t) => ToLookAt(o, t)'
  BY <1>2, <1>6, <1>7, <1>10, <1>11 DEF ToLookAt
<1>13. \A o \in Observables : \A fun \in ToSet(observers[o]) : ToCall(o, fun) => ToCall(o, fun)'
  <2> TAKE o \in Observables
  <2> TAKE fun \in ToSet(observers[o])
  <2>1. \A f : CallsFrom(f, o, fun)' <=> CallsFrom(f, o, fun)
    BY <1>10 DEF CallsFrom
  <2> QED BY <2>1, <1>2, <1>6, <1>8, <1>9, <1>11 DEF ToCall
<1>14. \A o \in dirty' : Waits(o)'
  BY <1>1, <1>11 DEF KvoInv, KvoControl, DirtyWaits
<1>15. KvoTypes'
  BY <1>1, <1>2, <1>6 DEF KvoTypes, trampVars, threadVars, computedVars, historyVars
<1>16. NothingLeft'
  BY <1>1, <1>2 DEF NothingLeft, trampVars
<1>17. /\ UNCHANGED <<value, version, list, color, nice, marked, unheard, observers>>
       /\ UNCHANGED <<seen, waiting>>
  BY <1>1 DEF threadVars, computedVars, historyVars
<1> QED BY <1>12, <1>13, <1>14, <1>15, <1>16, <1>17, FramesMove

\* The swapped list is what was queued.
LEMMA RunCallbacksKeeps == ASSUME KvoInv, RunCallbacks PROVE KvoInv'
<1> DEFINE y == CallbackList(callbacks)
<1>1. /\ busy = {} /\ frames' = Append(frames, y) /\ callbacks' = <<>> /\ current' = Main
      /\ UNCHANGED <<busy, parked, nice, value, version, dirty, threadVars,
                     computedVars, marked, writes, historyVars>>
      /\ KvoTypes
  BY DEF RunCallbacks, KvoInv, KvoControl
<1>2. y \in AFrame
  BY <1>1, FramesMade DEF KvoTypes
<1>3. frames' \in Seq(AFrame) /\ ToSet(frames') = ToSet(frames) \cup {y}
  BY <1>1, <1>2, MembersOfAppend DEF KvoTypes
<1>4. \A o : (\E n \in ToSet(callbacks) : n.ob = o) => Holds(y, o)
  BY DEF Holds, CallbackList
<1>5. observers' = observers
  BY <1>1 DEF computedVars
<1>6. \A o : Waits(o) => Waits(o)'
  BY <1>3, <1>4 DEF Waits
<1>7. \A o, t : ToLookAt(o, t) => ToLookAt(o, t)'
  BY <1>3, <1>6 DEF ToLookAt
<1>8. \A o, fun : ToCall(o, fun) => ToCall(o, fun)'
  <2> TAKE o, fun
  <2>1. \A f : CallsFrom(f, o, fun)' <=> CallsFrom(f, o, fun)
    BY <1>5 DEF CallsFrom
  <2> QED BY <2>1, <1>3, <1>6 DEF ToCall
<1>9. \A o \in dirty' : Waits(o)'
  BY <1>1, <1>6 DEF KvoInv, KvoControl, DirtyWaits
<1>10. KvoTypes'
  <2>1. callbacks' \in Seq(ANotification)
    BY <1>1, EmptySeq
  <2> QED BY <1>1, <1>3, <2>1 DEF KvoTypes, threadVars, computedVars, historyVars, Actors
<1>11. NothingLeft'
  BY <1>1 DEF NothingLeft
<1>12. /\ UNCHANGED <<value, version, list, color, nice, marked, unheard, observers>>
       /\ UNCHANGED <<seen, waiting>>
  BY <1>1 DEF threadVars, computedVars, historyVars
<1> QED BY <1>7, <1>8, <1>9, <1>10, <1>11, <1>12, FramesMove

\* A frame that is done leaves what is under it.
LEMMA FrameDone ==
    ASSUME KvoInv, NEW kind, Doing(kind), frames' = Under,
           \A o : ~Holds(Top, o),
           \A o, t : ~LooksAt(Top, o, t),
           \A o, fun : ~CallsFrom(Top, o, fun),
           UNCHANGED <<callbacks, observers>>
    PROVE  /\ frames' \in Seq(AFrame)
           /\ \A o : /\ Waits(o) => Waits(o)'
                     /\ \A t : ToLookAt(o, t) => ToLookAt(o, t)'
                     /\ \A fun : ToCall(o, fun) => ToCall(o, fun)'
<1>1. Under \in Seq(AFrame) /\ ToSet(frames) = ToSet(Under) \cup {Top}
  BY InTheMiddle
<1>2. \A o : Waits(o) => Waits(o)'
  BY <1>1 DEF Waits
<1>3. \A o, t : ToLookAt(o, t) => ToLookAt(o, t)'
  BY <1>1, <1>2 DEF ToLookAt
<1>4. \A o, fun : ToCall(o, fun) => ToCall(o, fun)'
  <2> TAKE o, fun
  <2>1. \A f : CallsFrom(f, o, fun)' <=> CallsFrom(f, o, fun)
    BY DEF CallsFrom
  <2> QED BY <2>1, <1>1, <1>2 DEF ToCall
<1> QED BY <1>1, <1>2, <1>3, <1>4

LEMMA CallbacksDoneKeeps == ASSUME KvoInv, CallbacksDone PROVE KvoInv'
<1>1. /\ Doing("list") /\ Top.todo = <<>> /\ frames' = Under /\ current' = Tramp
      /\ UNCHANGED <<busy, parked, nice, valueVars, threadVars, computedVars, marked, writes,
                     historyVars>>
  BY DEF CallbacksDone
<1>2. KvoTypes /\ Top.kind = "list"
  BY <1>1, InTheMiddle
<1>3. ToSet(Top.todo) = {}
  <2>1. DOMAIN Top.todo = {}
    BY <1>1
  <2> QED BY <2>1, Zenon DEF ToSet
<1>4. /\ \A o : ~Holds(Top, o)
      /\ \A o, t : ~LooksAt(Top, o, t)
      /\ \A o, fun : ~CallsFrom(Top, o, fun)
  BY <1>2, <1>3 DEF Holds, LooksAt, CallsFrom
<1>5. /\ UNCHANGED <<value, version, list, color, nice, marked, unheard, observers>>
      /\ UNCHANGED <<seen, waiting, callbacks, dirty>>
  BY <1>1 DEF valueVars, threadVars, computedVars, historyVars
<1>6. /\ frames' \in Seq(AFrame)
      /\ \A o : /\ Waits(o) => Waits(o)'
                /\ \A t : ToLookAt(o, t) => ToLookAt(o, t)'
                /\ \A fun : ToCall(o, fun) => ToCall(o, fun)'
  BY <1>1, <1>4, <1>5, FrameDone
<1>7. KvoTypes' /\ NothingLeft'
  BY <1>1, <1>2, <1>5, <1>6, KvoParameters DEF KvoTypes, NothingLeft, Actors
<1>8. \A o \in dirty' : Waits(o)'
  BY <1>5, <1>6 DEF KvoInv, KvoControl, DirtyWaits
<1> QED BY <1>5, <1>6, <1>7, <1>8, FramesMove

LEMMA NotificationDoneKeeps == ASSUME KvoInv, NotificationDone PROVE KvoInv'
<1>1. /\ Doing("threads") /\ Top.todo = {} /\ frames' = Under
      /\ UNCHANGED <<trampVars, nice, valueVars, threadVars, computedVars, marked, writes,
                     historyVars>>
  BY DEF NotificationDone
<1>2. KvoTypes /\ Top.kind = "threads" /\ current = Main /\ callbacks = <<>> /\ busy = {}
  BY <1>1, InTheMiddle
<1>4. /\ \A o : ~Holds(Top, o)
      /\ \A o, t : ~LooksAt(Top, o, t)
      /\ \A o, fun : ~CallsFrom(Top, o, fun)
  BY <1>1, <1>2 DEF Holds, LooksAt, CallsFrom
<1>5. /\ UNCHANGED <<value, version, list, color, nice, marked, unheard, observers>>
      /\ UNCHANGED <<seen, waiting, callbacks, dirty, current, busy>>
  BY <1>1 DEF trampVars, valueVars, threadVars, computedVars, historyVars
<1>6. /\ frames' \in Seq(AFrame)
      /\ \A o : /\ Waits(o) => Waits(o)'
                /\ \A t : ToLookAt(o, t) => ToLookAt(o, t)'
                /\ \A fun : ToCall(o, fun) => ToCall(o, fun)'
  BY <1>1, <1>4, <1>5, FrameDone
<1>7. KvoTypes' /\ NothingLeft'
  BY <1>1, <1>2, <1>5, <1>6 DEF KvoTypes, NothingLeft
<1>8. \A o \in dirty' : Waits(o)'
  BY <1>5, <1>6 DEF KvoInv, KvoControl, DirtyWaits
<1> QED BY <1>5, <1>6, <1>7, <1>8, FramesMove

\* After the watchers, the threads that wait now are looked at.
LEMMA WatchersDoneKeeps == ASSUME KvoInv, WatchersDone PROVE KvoInv'
<1> DEFINE y == ToThreads(Top.ob, Top.new, waiting[Top.ob])
<1>1. /\ Doing("watchers") /\ Top.i > Len(observers[Top.ob])
      /\ frames' = Append(Under, y)
      /\ UNCHANGED <<trampVars, nice, valueVars, threadVars, computedVars, marked, writes,
                     historyVars>>
  BY DEF WatchersDone
<1>2. /\ current = Main /\ callbacks = <<>> /\ busy = {} /\ KvoTypes
      /\ Top \in AFrame /\ Top.kind = "watchers" /\ Under \in Seq(AFrame)
      /\ ToSet(frames) = ToSet(Under) \cup {Top}
  BY <1>1, InTheMiddle
<1>3. Top.ob \in Observables /\ Top.new \in Values /\ Top.i \in Nat \ {0}
  BY <1>2, FrameParts
<1>4. y \in AFrame
  <2>1. waiting[Top.ob] \in SUBSET Threads
    BY <1>2, <1>3 DEF KvoTypes
  <2> QED BY <1>3, <2>1, FramesMade
<1>5. frames' \in Seq(AFrame) /\ ToSet(frames') = ToSet(Under) \cup {y}
  BY <1>1, <1>2, <1>4, MembersOfAppend
<1>6. /\ UNCHANGED <<value, version, list, color, nice, marked, unheard, observers>>
      /\ UNCHANGED <<seen, waiting, callbacks, dirty, current, busy>>
  BY <1>1 DEF trampVars, valueVars, threadVars, computedVars, historyVars
<1>7. /\ \A o : ~Holds(Top, o)
      /\ \A o, fun : ~CallsFrom(Top, o, fun)
      /\ \A o : \A t \in waiting[o] : LooksAt(Top, o, t) => LooksAt(y, o, t)
  <2>1. \A o : ~Holds(Top, o)
    BY <1>2 DEF Holds
  <2>2. \A o, fun : ~CallsFrom(Top, o, fun)
    <3>1. Len(observers[Top.ob]) \in Nat
      BY <1>2, <1>3, LenProperties DEF KvoTypes
    <3>2. ~ \E j \in Top.i..Len(observers[Top.ob]) : TRUE
      BY <1>1, <1>3, <3>1
    <3> QED BY <3>2 DEF CallsFrom
  <2>3. \A o : \A t \in waiting[o] : LooksAt(Top, o, t) => LooksAt(y, o, t)
    BY <1>2 DEF LooksAt, ToThreads
  <2> QED BY <2>1, <2>2, <2>3
<1>8. \A o : Waits(o) => Waits(o)'
  BY <1>2, <1>5, <1>6, <1>7 DEF Waits
<1>9. \A o \in Observables : \A t \in waiting[o] : ToLookAt(o, t) => ToLookAt(o, t)'
  BY <1>2, <1>5, <1>7, <1>8 DEF ToLookAt
<1>10. \A o, fun : ToCall(o, fun) => ToCall(o, fun)'
  <2> TAKE o, fun
  <2>1. \A f : CallsFrom(f, o, fun)' <=> CallsFrom(f, o, fun)
    BY <1>6 DEF CallsFrom
  <2> QED BY <2>1, <1>2, <1>5, <1>7, <1>8 DEF ToCall
<1>11. KvoTypes' /\ NothingLeft'
  BY <1>2, <1>5, <1>6 DEF KvoTypes, NothingLeft
<1>12. \A o \in dirty' : Waits(o)'
  BY <1>6, <1>8 DEF KvoInv, KvoControl, DirtyWaits
<1> QED BY <1>6, <1>9, <1>10, <1>11, <1>12, FramesMove

\* A thread that is looked at knows the version, or is resumed and waits no more.
LEMMA WakeWaiterKeeps == ASSUME KvoInv, NEW t \in Threads, WakeWaiter(t) PROVE KvoInv'
<1> DEFINE o == Top.ob
           y == [Top EXCEPT !.todo = @ \ {t}]
<1>1. /\ Doing("threads") /\ t \in Top.todo
      /\ frames' = Append(Under, y)
      /\ \/ /\ t \in waiting[o] /\ seen[o][t] # version[o]
            /\ seen' = [seen EXCEPT ![o][t] = version[o]]
            /\ waiting' = [p \in Observables |-> waiting[p] \ {t}]
            /\ current' = t
         \/ /\ t \notin waiting[o] \/ seen[o][t] = version[o]
            /\ UNCHANGED <<current, threadVars>>
      /\ UNCHANGED <<busy, parked, nice, valueVars, computedVars, marked, writes, unheard>>
  BY DEF WakeWaiter
<1>2. /\ current = Main /\ callbacks = <<>> /\ busy = {} /\ KvoTypes
      /\ Top \in AFrame /\ Top.kind = "threads" /\ Under \in Seq(AFrame)
      /\ ToSet(frames) = ToSet(Under) \cup {Top}
  BY <1>1, InTheMiddle
<1>3. /\ o \in Observables /\ Top.new \in Values /\ Top.todo \in SUBSET Threads
      /\ y = ToThreads(o, Top.new, Top.todo \ {t})
  BY <1>2, FrameParts
<1>4. y \in AFrame
  BY <1>3, FramesMade
<1>5. /\ \A p : ~Holds(Top, p)
      /\ \A p, fun : ~CallsFrom(Top, p, fun)
      /\ \A p, u : LooksAt(Top, p, u) => LooksAt(y, p, u) \/ (p = o /\ u = t)
  BY <1>2, <1>3 DEF Holds, CallsFrom, LooksAt, ToThreads
<1> HIDE DEF y
<1>6. frames' \in Seq(AFrame) /\ ToSet(frames') = ToSet(Under) \cup {y}
  BY <1>1, <1>2, <1>4, MembersOfAppend
<1>7. /\ UNCHANGED <<value, version, list, color, nice, marked, unheard, observers>>
      /\ UNCHANGED <<callbacks, dirty, busy>>
  BY <1>1 DEF valueVars, computedVars
<1>8. \A p : Waits(p) => Waits(p)'
  BY <1>2, <1>6, <1>7, <1>5 DEF Waits
<1>9. \A p, u : ToLookAt(p, u) => ToLookAt(p, u)' \/ (p = o /\ u = t)
  BY <1>2, <1>5, <1>6, <1>8 DEF ToLookAt
<1>10. \A p, fun : ToCall(p, fun) => ToCall(p, fun)'
  <2> TAKE p, fun
  <2>1. \A f : CallsFrom(f, p, fun)' <=> CallsFrom(f, p, fun)
    BY <1>7 DEF CallsFrom
  <2> QED BY <2>1, <1>2, <1>5, <1>6, <1>8 DEF ToCall
<1>11. \A p \in dirty' : Waits(p)'
  BY <1>7, <1>8 DEF KvoInv, KvoControl, DirtyWaits
<1>12. /\ seen' \in [Observables -> [Threads -> Nat \cup {Nil}]]
       /\ waiting' \in [Observables -> SUBSET Threads]
       /\ current' \in Actors /\ (current' = Main => current = Main)
  <2>1. CASE /\ seen' = [seen EXCEPT ![o][t] = version[o]]
             /\ waiting' = [p \in Observables |-> waiting[p] \ {t}]
             /\ current' = t
    <3>1. current' \in Actors /\ current' # Main
      BY <2>1, KvoParameters DEF Actors
    <3> QED BY <2>1, <3>1, <1>2, <1>3 DEF KvoTypes
  <2>2. CASE UNCHANGED <<current, threadVars>>
    BY <2>2, <1>2 DEF threadVars, KvoTypes, Actors
  <2> QED BY <2>1, <2>2, <1>1
<1>13. KvoTypes' /\ NothingLeft'
  BY <1>2, <1>6, <1>7, <1>12 DEF KvoTypes, NothingLeft
<1>14. ASSUME NEW p \in Observables, NEW u \in waiting'[p]
       PROVE  \/ seen'[p][u] = version[p]
              \/ u \in waiting[p] /\ seen'[p][u] = seen[p][u] /\ (ToLookAt(p, u) => ToLookAt(p, u)')
  <2>1. u \in Threads
    BY <1>13 DEF KvoTypes
  <2>2. CASE /\ seen' = [seen EXCEPT ![o][t] = version[o]]
             /\ waiting' = [q \in Observables |-> waiting[q] \ {t}]
    <3>1. u \in waiting[p] /\ u # t
      BY <2>2, <1>14
    <3>2. seen'[p][u] = seen[p][u]
      BY <2>1, <2>2, <3>1, <1>2, <1>3 DEF KvoTypes
    <3> QED BY <3>1, <3>2, <1>9
  <2>3. CASE /\ t \notin waiting[o] \/ seen[o][t] = version[o]
             /\ UNCHANGED threadVars
    BY <2>3, <1>9, <1>14 DEF threadVars
  <2> QED BY <2>2, <2>3, <1>1
<1> QED BY <1>7, <1>10, <1>11, <1>13, <1>14, FramesMove

----------------------------------------------------------------------------
(* What the actions that change a value keep. *)

\* A computed observable d stays up to date when o changes: d's function does not read o, or
\* o's notification is to mark d.
LEMMA ValueMoves ==
    ASSUME KvoInv, KvoTypes', NEW o \in Observables, NEW v \in Values, NEW d \in Computed,
           value'[o] = v, \A p \in Observables \ {o} : value'[p] = value[p],
           o = d => v = Result(o, value),
           list'[d] = list[d], color'[d] = color[d], d \in nice => d \in nice',
           \A p \in Observables : d \in ToSet(observers[p]) /\ ToCall(p, d) => ToCall(p, d)' \/ d \in nice',
           v # value[o] /\ d \in ToSet(observers[o]) => ToCall(o, d)'
    PROVE  UpToDate(d)'
<1>1. /\ KvoTypes /\ d \in Observables
      /\ \A p \in Observables : list[d][p] = color[d] => d \in ToSet(observers[p])
  <2>1. KvoTypes /\ d \in Observables
    BY DEF KvoInv, KvoControl, Observables
  <2>2. ASSUME NEW p \in Observables, list[d][p] = color[d] PROVE d \in ToSet(observers[p])
    <3>1. list[d][p] # Nil
      BY <2>1, <2>2, KvoParameters DEF KvoTypes
    <3> QED BY <3>1 DEF KvoInv, KvoControl, Observed
  <2> QED BY <2>1, <2>2
<1>2. CASE d \in nice
  BY <1>2 DEF UpToDate
<1>3. CASE \E p \in Observables : list[d][p] = color[d] /\ ToCall(p, d)
  BY <1>1, <1>3 DEF UpToDate
<1>4. CASE value[d] = Result(d, value) /\ \A p \in Reads(d, value) : list[d][p] = color[d]
  <2>1. value \in [Observables -> Values] /\ value' \in [Observables -> Values]
    BY <1>1 DEF KvoTypes
  <2>2. CASE v = value[o]
    <3>1. value' = value
      BY <2>1, <2>2
    <3> QED BY <3>1, <1>4 DEF UpToDate
  <2>3. CASE v # value[o] /\ o \in Reads(d, value)
    BY <2>3, <1>1, <1>4 DEF UpToDate
  <2>4. CASE v # value[o] /\ o \notin Reads(d, value)
    <3>1. Reads(d, value) \subseteq Observables
      BY <2>1, KvoFunctions
    <3>2. \A p \in Reads(d, value) : value'[p] = value[p]
      BY <3>1, <2>4
    <3>3. Result(d, value') = Result(d, value) /\ Reads(d, value') = Reads(d, value)
      BY <2>1, <3>2, KvoFunctions
    <3>4. d # o
      BY <1>4, <2>4
    <3>5. value'[d] = value[d]
      BY <3>4, <1>1
    <3> QED BY <3>3, <3>5, <1>4 DEF UpToDate
  <2> QED BY <2>2, <2>3, <2>4
<1> QED BY <1>2, <1>3, <1>4 DEF KvoInv, UpToDate

\* The threads that wait for what changes are going to be looked at.
LEMMA VersionMoves ==
    ASSUME KvoInv, NEW o \in Observables, UNCHANGED <<seen, waiting>>,
           \A p \in Observables : version'[p] # version[p] => p = o /\ \A t : ToLookAt(o, t)',
           \A p \in Observables, t \in Threads : ToLookAt(p, t) => ToLookAt(p, t)'
    PROVE  Told'
<1> SUFFICES ASSUME NEW p \in Observables, NEW t \in waiting[p]
             PROVE  seen[p][t] = version'[p] \/ ToLookAt(p, t)'
  BY DEF Told
<1>1. t \in Threads
  BY DEF KvoInv, KvoControl, KvoTypes
<1>2. seen[p][t] = version[p] \/ ToLookAt(p, t)
  BY DEF KvoInv, KvoControl, Told
<1> QED BY <1>1, <1>2

\* A thread or an event handler sets an observable.
LEMMA WriteKeeps ==
    ASSUME KvoInv, NEW c \in Actors, NEW o \in Observables, NEW v \in Values, Write(c, o, v)
    PROVE  KvoInv'
<1>1. /\ InCode(c) /\ v # value[o]
      /\ o \in Computed => v = Result(o, value)
      /\ Change(c, o, v, frames)
      /\ unheard' = unheard \cup Watching(o)
      /\ UNCHANGED <<trampVars, nice, threadVars, computedVars, marked>>
      /\ KvoTypes /\ frames \in Seq(AFrame)
  BY DEF Write, KvoInv, KvoControl, KvoTypes
<1>2. /\ value' \in [Observables -> Values] /\ version' \in [Observables -> Nat]
      /\ dirty' \subseteq Observables /\ callbacks' \in Seq(ANotification)
      /\ frames' \in Seq(AFrame) /\ ToSet(frames) \subseteq ToSet(frames')
      /\ ToSet(callbacks) \subseteq ToSet(callbacks')
      /\ c = Main => UNCHANGED <<dirty, callbacks>>
      /\ \A p \in dirty' : p \in dirty \/ \E n \in ToSet(callbacks') : n.ob = p
      /\ \A p \in Observables : version'[p] # version[p] => p = o /\ o \notin dirty
      /\ \A p \in Observables \ {o} : value'[p] = value[p]
      /\ value'[o] = v
      /\ \/ o \in dirty
         \/ \E n \in ToSet(callbacks') : n.ob = o
         \/ ToWatchers(o, v) \in ToSet(frames')
  BY <1>1, Changed
<1>3. UNCHANGED <<seen, waiting, observers, list, color, current, busy, nice, marked>>
  BY <1>1 DEF trampVars, threadVars, computedVars
<1>4. KvoTypes'
  BY <1>1, <1>2, <1>3 DEF KvoTypes, Watching
<1>5. \A p : Waits(p) => Waits(p)'
  BY <1>2 DEF Waits
<1>6. \A p, t : ToLookAt(p, t) => ToLookAt(p, t)'
  BY <1>2, <1>5 DEF ToLookAt
<1>7. \A p, fun : ToCall(p, fun) => ToCall(p, fun)'
  <2> TAKE p, fun
  <2>1. \A f : CallsFrom(f, p, fun)' <=> CallsFrom(f, p, fun)
    BY <1>3 DEF CallsFrom
  <2> QED BY <2>1, <1>2, <1>5 DEF ToCall
<1>8. (\A t : ToLookAt(o, t)') /\ \A fun \in ToSet(observers[o]) : ToCall(o, fun)'
  BY <1>2, <1>3, <1>4, <1>5, ChangeIsToCome DEF KvoInv
<1>9. NothingLeft'
  <2> SUFFICES ASSUME current' = Main PROVE callbacks' = <<>> /\ busy' = {}
    BY DEF NothingLeft
  <2>1. c = Main
    BY <1>1, <1>3 DEF InCode, Runs
  <2> QED BY <2>1, <1>2, <1>3 DEF NothingLeft, KvoInv, KvoControl
<1>10. DirtyWaits'
  <2> SUFFICES ASSUME NEW p \in dirty' PROVE Waits(p)'
    BY DEF DirtyWaits
  <2>1. CASE p \in dirty
    BY <2>1, <1>5 DEF DirtyWaits, KvoInv, KvoControl
  <2>2. CASE \E n \in ToSet(callbacks') : n.ob = p
    BY <2>2 DEF Waits
  <2> QED BY <2>1, <2>2, <1>2
<1>11. Told'
  <2>1. \A p \in Observables : version'[p] # version[p] => p = o /\ \A t : ToLookAt(o, t)'
    BY <1>2, <1>8
  <2> QED BY <2>1, <1>3, <1>6, VersionMoves
<1>12. Observed'
  BY <1>3 DEF Observed, KvoInv, KvoControl
<1>13. Heard'
  <2> SUFFICES ASSUME NEW w \in unheard' PROVE ToCall(Watched[w], w)'
    BY DEF Heard
  <2>1. CASE w \in unheard
    BY <2>1, <1>7 DEF Heard, KvoInv
  <2>2. CASE w \in Watching(o)
    <3>1. Watched[w] = o /\ w \in ToSet(observers[o])
      BY <2>2 DEF Watching, KvoInv, KvoControl, Observed
    <3> QED BY <3>1, <1>8
  <2> QED BY <2>1, <2>2, <1>1
<1>14. Lists'
  BY <1>3 DEF Lists, KvoInv
<1>15. ASSUME NEW d \in Computed PROVE UpToDate(d)'
  <2>1. o = d => v = Result(o, value)
    BY <1>1
  <2>2. /\ list'[d] = list[d] /\ color'[d] = color[d] /\ (d \in nice => d \in nice')
        /\ \A p \in Observables :
              d \in ToSet(observers[p]) /\ ToCall(p, d) => ToCall(p, d)' \/ d \in nice'
        /\ v # value[o] /\ d \in ToSet(observers[o]) => ToCall(o, d)'
    BY <1>3, <1>7, <1>8
  <2> QED BY <2>1, <2>2, <1>2, <1>4, ValueMoves
<1> QED BY <1>4, <1>9, <1>10, <1>11, <1>12, <1>13, <1>14, <1>15 DEF KvoInv, KvoControl

\* The frame of the watchers goes on: all but the one called are still to be called.
LEMMA NextWatcher ==
    ASSUME KvoInv, Doing("watchers"), Top.i <= Len(observers[Top.ob]),
           NEW y, y = [Top EXCEPT !.i = @ + 1]
    PROVE  LET w == observers[Top.ob][Top.i] IN
           /\ w \in Computed \cup Watchers /\ w \in ToSet(observers[Top.ob])
           /\ y \in AFrame /\ Top.ob \in Observables /\ Top.new \in Values
           /\ Append(Under, y) \in Seq(AFrame)
           /\ ToSet(Append(Under, y)) = ToSet(Under) \cup {y}
           /\ \A p : ~Holds(Top, p)
           /\ \A p, t : LooksAt(Top, p, t) => LooksAt(y, p, t)
           /\ \A p, fun : CallsFrom(Top, p, fun) => CallsFrom(y, p, fun) \/ fun = w
<1> DEFINE w == observers[Top.ob][Top.i]
<1>1. KvoTypes /\ Top \in AFrame /\ Top.kind = "watchers" /\ Under \in Seq(AFrame)
  BY InTheMiddle
<1>2. /\ Top.ob \in Observables /\ Top.new \in Values /\ Top.i \in Nat \ {0}
      /\ y = [kind |-> "watchers", ob |-> Top.ob, new |-> Top.new, i |-> Top.i + 1]
  BY <1>1, FrameParts
<1>3. y \in AFrame
  <2>1. Top.i + 1 \in Nat \ {0}
    BY <1>2
  <2> QED BY <1>2, <2>1, FramesMade
<1>4. /\ observers[Top.ob] \in Seq(Computed \cup Watchers)
      /\ Len(observers[Top.ob]) \in Nat /\ DOMAIN observers[Top.ob] = 1..Len(observers[Top.ob])
      /\ Top.i \in 1..Len(observers[Top.ob])
  <2>1. observers[Top.ob] \in Seq(Computed \cup Watchers)
    BY <1>1, <1>2 DEF KvoTypes
  <2>2. /\ Len(observers[Top.ob]) \in Nat
        /\ DOMAIN observers[Top.ob] = 1..Len(observers[Top.ob])
    BY <2>1, LenProperties
  <2> QED BY <1>2, <2>1, <2>2
<1>5. w \in Computed \cup Watchers
  BY <1>4, ElementOfSeq
<1>6. w \in ToSet(observers[Top.ob])
  BY <1>4, Zenon DEF ToSet
<1>7. /\ Append(Under, y) \in Seq(AFrame)
      /\ ToSet(Append(Under, y)) = ToSet(Under) \cup {y}
  BY <1>1, <1>3, MembersOfAppend
<1>8. /\ \A p : ~Holds(Top, p)
      /\ \A p, t : LooksAt(Top, p, t) => LooksAt(y, p, t)
  BY <1>1, <1>2 DEF Holds, LooksAt
<1>9. ASSUME NEW p, NEW fun, CallsFrom(Top, p, fun) PROVE CallsFrom(y, p, fun) \/ fun = w
  <2>1. PICK j \in Top.i..Len(observers[p]) : observers[p][j] = fun
    BY <1>9 DEF CallsFrom
  <2>2. p = Top.ob
    BY <1>9 DEF CallsFrom
  <2>3. CASE j = Top.i
    BY <2>1, <2>2, <2>3
  <2>4. CASE j # Top.i
    <3>1. j \in (Top.i + 1)..Len(observers[p])
      BY <2>1, <2>2, <2>4, <1>2, <1>4
    <3> QED BY <3>1, <2>1, <2>2, <1>2 DEF CallsFrom
  <2> QED BY <2>3, <2>4
<1> QED BY <1>2, <1>3, <1>5, <1>6, <1>7, <1>8, <1>9

\* The next watcher marks, does something else, or sets another observable.
LEMMA CallWatcherKeeps == ASSUME KvoInv, CallWatcher PROVE KvoInv'
<1> DEFINE w == observers[Top.ob][Top.i]
           y == [Top EXCEPT !.i = @ + 1]
           rest == Append(Under, y)
           Mark == /\ w \in Computed
                   /\ marked' = marked \cup {w}
                   /\ nice' = nice \cup {w}
                   /\ frames' = rest
                   /\ UNCHANGED <<valueVars, historyVars>>
           Call == /\ w \in Watchers
                   /\ frames' = rest
                   /\ unheard' = unheard \ {w}
                   /\ UNCHANGED <<valueVars, informed>>
                   /\ UNCHANGED <<marked, nice>>
           Pass == /\ w \in Watchers /\ Sets[w] # Nil
                   /\ SetTo(Sets[w], Top.new, rest)
                   /\ unheard' = (unheard \ {w})
                        \cup IF Top.new # value[Sets[w]] THEN Watching(Sets[w]) ELSE {}
                   /\ UNCHANGED <<marked, nice>>
<1>1. /\ Doing("watchers") /\ Top.i <= Len(observers[Top.ob])
      /\ Mark \/ Call \/ Pass
      /\ UNCHANGED <<trampVars, threadVars, computedVars, writes>>
  BY DEF CallWatcher
<1>2. /\ current = Main /\ callbacks = <<>> /\ busy = {} /\ KvoTypes
      /\ ToSet(frames) = ToSet(Under) \cup {Top}
  BY <1>1, InTheMiddle
<1>3. /\ w \in Computed \cup Watchers /\ w \in ToSet(observers[Top.ob])
      /\ y \in AFrame /\ Top.ob \in Observables /\ Top.new \in Values
      /\ rest \in Seq(AFrame) /\ ToSet(rest) = ToSet(Under) \cup {y}
      /\ \A p : ~Holds(Top, p)
      /\ \A p, t : LooksAt(Top, p, t) => LooksAt(y, p, t)
      /\ \A p, fun : CallsFrom(Top, p, fun) => CallsFrom(y, p, fun) \/ fun = w
  BY <1>1, NextWatcher
<1> HIDE DEF y, rest
<1>4. /\ UNCHANGED <<current, busy, seen, waiting, observers, list, color>>
  BY <1>1 DEF trampVars, threadVars, computedVars
<1>5. PICK o, new : o = Sets[w] /\ new = Top.new
  OBVIOUS
<1>5a. /\ new \in Values
       /\ Pass => /\ o \in Observables /\ o \notin Computed
                  /\ SetTo(o, new, rest)
                  /\ unheard' = (unheard \ {w})
                        \cup IF new # value[o] THEN Watching(o) ELSE {}
  BY <1>3, <1>5, KvoParameters DEF Observables
<1>6. /\ frames' \in Seq(AFrame) /\ ToSet(rest) \subseteq ToSet(frames')
      /\ callbacks' = callbacks /\ dirty' = dirty
      /\ value' \in [Observables -> Values] /\ version' \in [Observables -> Nat]
  <2>1. CASE Mark \/ Call
    BY <2>1, <1>2, <1>3 DEF valueVars, KvoTypes
  <2>2. CASE Pass
    BY <2>2, <1>2, <1>3, <1>5a, SetOrNot
  <2> QED BY <1>1, <2>1, <2>2
<1>7. unheard' \subseteq Watchers /\ marked' \subseteq Computed /\ nice' \subseteq Computed
  BY <1>1, <1>2 DEF KvoTypes, historyVars, Watching
<1>8. KvoTypes' /\ NothingLeft'
  BY <1>2, <1>4, <1>6, <1>7 DEF KvoTypes, NothingLeft
<1>9. \A p : Waits(p) => Waits(p)'
  BY <1>2, <1>3, <1>6 DEF Waits
<1>10. \A p, t : ToLookAt(p, t) => ToLookAt(p, t)'
  BY <1>2, <1>3, <1>6, <1>9 DEF ToLookAt
<1>11. \A p, fun : ToCall(p, fun) => ToCall(p, fun)' \/ fun = w
  <2> TAKE p, fun
  <2>1. \A f : CallsFrom(f, p, fun)' <=> CallsFrom(f, p, fun)
    BY <1>4 DEF CallsFrom
  <2> QED BY <2>1, <1>2, <1>3, <1>6, <1>9 DEF ToCall
<1>12. DirtyWaits' /\ Observed'
  BY <1>4, <1>6, <1>9 DEF DirtyWaits, Observed, KvoInv, KvoControl
<1>13. ASSUME Pass
       PROVE  /\ \A p \in Observables : version'[p] # version[p] =>
                    p = o /\ \A t : ToLookAt(o, t)'
              /\ \A p \in Observables \ {o} : value'[p] = value[p]
              /\ value'[o] = new
              /\ new # value[o] =>
                    \A fun \in ToSet(observers[o]) : ToCall(o, fun)'
  <2>1. /\ \A p \in Observables \ {o} : value'[p] = value[p]
        /\ value'[o] = new
        /\ \A p \in Observables : version'[p] # version[p] => p = o
        /\ new = value[o] => version' = version
        /\ new # value[o] =>
              \/ o \in dirty
              \/ \E n \in ToSet(callbacks') : n.ob = o
              \/ ToWatchers(o, new) \in ToSet(frames')
    BY <1>13, <1>2, <1>3, <1>5a, SetOrNot
  <2>2. new # value[o] =>
           /\ \A t : ToLookAt(o, t)'
           /\ \A fun \in ToSet(observers'[o]) : ToCall(o, fun)'
    BY <2>1, <1>5a, <1>8, <1>9, <1>13, ChangeIsToCome DEF KvoInv
  <2> QED BY <2>1, <2>2, <1>4
<1>14. Told'
  <2>1. CASE Mark \/ Call
    <3>1. version' = version
      BY <2>1 DEF valueVars
    <3> QED BY <3>1, <1>3, <1>4, <1>10, VersionMoves
  <2>2. CASE Pass
    BY <2>2, <1>4, <1>5a, <1>10, <1>13, VersionMoves
  <2> QED BY <1>1, <2>1, <2>2
<1>15. Heard'
  <2> SUFFICES ASSUME NEW u \in unheard' PROVE ToCall(Watched[u], u)'
    BY DEF Heard
  <2>1. CASE u \in unheard /\ u # w
    BY <2>1, <1>11 DEF Heard, KvoInv
  <2>2. CASE Pass /\ new # value[o] /\ u \in Watching(o)
    <3>1. Watched[u] = o /\ u \in ToSet(observers[o])
      BY <2>2, <1>5a DEF Watching, KvoInv, KvoControl, Observed
    <3> QED BY <3>1, <2>2, <1>13
  <2>3. CASE Mark /\ u \in unheard
    <3>1. u # w
      BY <2>3, <1>2, KvoParameters DEF KvoTypes
    <3> QED BY <3>1, <2>1, <2>3
  <2> QED BY <1>1, <1>5a, <2>1, <2>2, <2>3 DEF historyVars
<1>16. /\ \A c \in Computed : c \in nice => c \in nice'
       /\ w \in Computed => w \in nice'
       /\ \A c \in Computed : c \in marked' => c \in marked \/ c = w
  <2>1. w \in Computed => Mark
    BY <1>1, KvoParameters
  <2> QED BY <2>1, <1>1
<1>17. Lists'
  BY <1>4, <1>16 DEF Lists, KvoInv
<1>18. ASSUME NEW d \in Computed PROVE UpToDate(d)'
  <2>1. \A p \in Observables :
           d \in ToSet(observers[p]) /\ ToCall(p, d) => ToCall(p, d)' \/ d \in nice'
    BY <1>11, <1>16
  <2>2. list'[d] = list[d] /\ color'[d] = color[d] /\ (d \in nice => d \in nice')
    BY <1>4, <1>16
  <2>3. CASE Pass
    <3>1. o \in Observables /\ o # d
      BY <2>3, <1>5a
    <3> QED BY <2>1, <2>2, <2>3, <3>1, <1>5a, <1>8, <1>13, ValueMoves
  <2>4. CASE Mark \/ Call
    <3>1. value' = value /\ value[Top.ob] \in Values
      BY <2>4, <1>2, <1>3 DEF valueVars, KvoTypes
    <3>2. CASE d \in nice \/ d = w
      BY <3>2, <1>16 DEF UpToDate
    <3>3. CASE \E p \in Observables : list[d][p] = color[d] /\ ToCall(p, d)
      BY <3>3, <1>11, <1>16, <2>2 DEF UpToDate
    <3>4. CASE value[d] = Result(d, value) /\ \A p \in Reads(d, value) : list[d][p] = color[d]
      BY <3>4, <3>1, <2>2 DEF UpToDate
    <3> QED BY <3>2, <3>3, <3>4 DEF UpToDate, KvoInv
  <2> QED BY <1>1, <2>3, <2>4
<1> QED BY <1>8, <1>12, <1>14, <1>15, <1>17, <1>18 DEF KvoInv, KvoControl

----------------------------------------------------------------------------
(* Updates. *)

\* c watches what its function reads now, once.
LEMMA WatchesMore ==
    ASSUME KvoControl, NEW c \in Computed, NEW o \in Observables,
           NEW more, more = IF o \in NewReads(c) THEN Append(observers[o], c) ELSE observers[o]
    PROVE  /\ more \in Seq(Computed \cup Watchers) /\ IsInjective(more)
           /\ ToSet(more) = ToSet(observers[o]) \cup {d \in {c} : o \in Reads(c, value)}
           /\ Len(observers[o]) \in Nat /\ Len(more) \in Nat /\ Len(observers[o]) <= Len(more)
           /\ \A j \in 1..Len(observers[o]) : more[j] = observers[o][j]
<1>1. /\ observers[o] \in Seq(Computed \cup Watchers) /\ IsInjective(observers[o])
      /\ ToSet(observers[o]) = Watching(o) \cup {d \in Computed : list[d][o] # Nil}
  BY DEF KvoControl, KvoTypes, Observed
<1>2. CASE o \in NewReads(c)
  <2>1. c \notin ToSet(observers[o])
    BY <1>1, <1>2, KvoParameters DEF NewReads, Watching
  <2>2. c \in Computed \cup Watchers
    OBVIOUS
  <2>3. more \in Seq(Computed \cup Watchers) /\ ToSet(more) = ToSet(observers[o]) \cup {c}
    BY <1>1, <1>2, <2>2, MembersOfAppend
  <2>4. IsInjective(more)
    BY <1>1, <1>2, <2>1, <2>2, InjectiveAppend
  <2>5. /\ Len(observers[o]) \in Nat /\ Len(more) = Len(observers[o]) + 1
        /\ \A j \in 1..Len(observers[o]) : more[j] = observers[o][j]
    BY <1>1, <1>2, <2>2, AppendProperties, LenProperties
  <2>6. o \in Reads(c, value)
    BY <1>2 DEF NewReads
  <2> QED BY <2>3, <2>4, <2>5, <2>6
<1>3. CASE o \notin NewReads(c)
  <2>1. more = observers[o] /\ Len(observers[o]) \in Nat
    BY <1>1, <1>3, LenProperties
  <2>2. o \in Reads(c, value) => c \in ToSet(observers[o])
    BY <1>1, <1>3, KvoFunctions DEF NewReads, KvoControl, KvoTypes
  <2> QED BY <2>1, <2>2, <1>1
<1> QED BY <1>2, <1>3

\* An update makes c what its function returns and gives what it reads the other colour.
LEMMA RunUpdateKeeps == ASSUME KvoInv, NEW c \in Computed, RunUpdate(c) PROVE KvoInv'
<1> DEFINE R == Reads(c, value)
           v == Result(c, value)
           new == CHOOSE k \in Colours : k # color[c]
           rest == Append(frames, Updating(c))
<1>1. /\ busy = {} /\ callbacks = <<>> /\ busy' = busy /\ current' = Main
      /\ UNCHANGED threadVars
      /\ marked' = marked \ {c} /\ nice' = nice \ {c}
      /\ color' = [color EXCEPT ![c] = new]
      /\ list' = [list EXCEPT ![c] = [o \in Observables |-> IF o \in R THEN new ELSE @[o]]]
      /\ observers' = [o \in Observables |->
                          IF o \in NewReads(c) THEN Append(observers[o], c) ELSE observers[o]]
      /\ SetTo(c, v, rest)
      /\ unheard' = IF v # value[c] THEN unheard \cup Watching(c) ELSE unheard
      /\ KvoTypes /\ KvoControl
  BY DEF RunUpdate, Update, KvoInv, KvoControl
<1>2. /\ value \in [Observables -> Values] /\ frames \in Seq(AFrame)
      /\ list \in [Computed -> [Observables -> Colours \cup {Nil}]]
      /\ color \in [Computed -> Colours]
  BY <1>1 DEF KvoTypes
<1>3. v \in Values /\ R \subseteq Observables /\ c \in Observables
  BY <1>2, KvoFunctions DEF Observables
<1>4. new \in Colours /\ new # Nil
  <2>1. \E k \in Colours : k # color[c]
    BY DEF Colours
  <2>2. new \in Colours
    BY <2>1
  <2> QED BY <2>2, KvoParameters
<1> HIDE DEF R, v, new
<1>5. rest \in Seq(AFrame) /\ ToSet(frames) \subseteq ToSet(rest)
  BY <1>2, FramesMade, MembersOfAppend
<1> HIDE DEF rest
<1>6. /\ value' \in [Observables -> Values] /\ version' \in [Observables -> Nat]
      /\ frames' \in Seq(AFrame) /\ ToSet(rest) \subseteq ToSet(frames')
      /\ UNCHANGED <<dirty, callbacks>>
      /\ \A p \in Observables : version'[p] # version[p] => p = c /\ c \notin dirty
      /\ \A p \in Observables \ {c} : value'[p] = value[p]
      /\ value'[c] = v
      /\ v # value[c] =>
            \/ c \in dirty
            \/ \E n \in ToSet(callbacks') : n.ob = c
            \/ ToWatchers(c, v) \in ToSet(frames')
      /\ v = value[c] => version' = version
  BY <1>1, <1>3, <1>5, SetOrNot
<1>7. \A o \in Observables :
         /\ observers'[o] \in Seq(Computed \cup Watchers) /\ IsInjective(observers'[o])
         /\ ToSet(observers'[o]) = ToSet(observers[o]) \cup {d \in {c} : o \in R}
         /\ Len(observers[o]) \in Nat /\ Len(observers'[o]) \in Nat
         /\ Len(observers[o]) <= Len(observers'[o])
         /\ \A j \in 1..Len(observers[o]) : observers'[o][j] = observers[o][j]
  <2> TAKE o \in Observables
  <2>1. observers'[o] = IF o \in NewReads(c) THEN Append(observers[o], c) ELSE observers[o]
    BY <1>1
  <2> QED BY <2>1, <1>1, WatchesMore DEF R
<1>8. /\ list' \in [Computed -> [Observables -> Colours \cup {Nil}]]
      /\ color' \in [Computed -> Colours]
      /\ \A d \in Computed \ {c} : list'[d] = list[d] /\ color'[d] = color[d]
      /\ color'[c] = new
      /\ \A o \in Observables : list'[c][o] = IF o \in R THEN new ELSE list[c][o]
  <2>1. [o \in Observables |-> IF o \in R THEN new ELSE list[c][o]]
           \in [Observables -> Colours \cup {Nil}]
    BY <1>2, <1>4
  <2> DEFINE l == [o \in Observables |-> IF o \in R THEN new ELSE list[c][o]]
  <2>2. list' = [list EXCEPT ![c] = l]
    BY <1>1
  <2>3. \A o \in Observables : l[o] = IF o \in R THEN new ELSE list[c][o]
    OBVIOUS
  <2> HIDE DEF l
  <2>4. list'[c] = l /\ \A d \in Computed \ {c} : list'[d] = list[d]
    BY <1>2, <2>2
  <2>5. list' \in [Computed -> [Observables -> Colours \cup {Nil}]]
    BY <1>2, <2>1, <2>2 DEF l
  <2> QED BY <1>1, <1>2, <1>4, <2>3, <2>4, <2>5
<1>9. KvoTypes'
  <2>1. observers' \in [Observables -> Seq(Computed \cup Watchers)]
    BY <1>1, <1>7
  <2>2. unheard' \subseteq Watchers /\ marked' \subseteq Computed /\ nice' \subseteq Computed
    BY <1>1 DEF KvoTypes, Watching
  <2> QED BY <2>1, <2>2, <1>1, <1>6, <1>8 DEF KvoTypes, threadVars, Actors
<1>10. NothingLeft'
  BY <1>1, <1>6 DEF NothingLeft
<1>11. \A p : Waits(p) => Waits(p)'
  BY <1>5, <1>6 DEF Waits
<1>12. \A p, t : ToLookAt(p, t) => ToLookAt(p, t)'
  BY <1>5, <1>6, <1>11 DEF ToLookAt
<1>13. \A p \in Observables : \A fun : ToCall(p, fun) => ToCall(p, fun)'
  <2> TAKE p \in Observables
  <2> TAKE fun
  <2>1. ASSUME NEW f \in ToSet(frames), CallsFrom(f, p, fun) PROVE CallsFrom(f, p, fun)'
    <3>1. f \in AFrame
      <4>1. DOMAIN frames = 1..Len(frames) /\ \A i \in 1..Len(frames) : frames[i] \in AFrame
        BY <1>2, LenProperties, ElementOfSeq
      <4> QED BY <4>1, Zenon DEF ToSet
    <3>2. f.i \in Nat \ {0}
      BY <3>1, <2>1, FrameParts DEF CallsFrom
    <3>3. PICK j \in f.i..Len(observers[p]) : observers[p][j] = fun
      BY <2>1 DEF CallsFrom
    <3>4. j \in 1..Len(observers[p]) /\ j \in f.i..Len(observers'[p])
      BY <3>2, <3>3, <1>7
    <3>5. observers'[p][j] = fun
      BY <3>3, <3>4, <1>7
    <3> QED BY <3>4, <3>5, <2>1 DEF CallsFrom
  <2> QED BY <2>1, <1>5, <1>6, <1>11 DEF ToCall
<1>14. v # value[c] => /\ \A t : ToLookAt(c, t)'
                      /\ \A fun \in ToSet(observers'[c]) : ToCall(c, fun)'
  BY <1>1, <1>3, <1>6, <1>9, <1>11, ChangeIsToCome
<1>15. DirtyWaits'
  BY <1>6, <1>11 DEF DirtyWaits, KvoInv, KvoControl
<1>16. Told'
  <2>1. \A p \in Observables : version'[p] # version[p] => p = c /\ \A t : ToLookAt(c, t)'
    BY <1>6, <1>14
  <2>2. UNCHANGED <<seen, waiting>>
    BY <1>1 DEF threadVars
  <2> QED BY <2>1, <2>2, <1>3, <1>12, VersionMoves
<1>17. Observed'
  <2> SUFFICES ASSUME NEW o \in Observables
               PROVE  /\ IsInjective(observers'[o])
                      /\ ToSet(observers'[o])
                            = Watching(o) \cup {d \in Computed : list'[d][o] # Nil}
    BY DEF Observed, Watching
  <2>1. ToSet(observers[o]) = Watching(o) \cup {d \in Computed : list[d][o] # Nil}
    BY DEF KvoInv, KvoControl, Observed
  <2>2. \A d \in Computed : list'[d][o] # Nil <=> list[d][o] # Nil \/ (d = c /\ o \in R)
    BY <1>4, <1>8
  <2> QED BY <2>1, <2>2, <1>7
<1>18. Heard'
  <2> SUFFICES ASSUME NEW u \in unheard' PROVE ToCall(Watched[u], u)'
    BY DEF Heard
  <2>1. CASE u \in unheard
    <3>1. Watched[u] \in Observables
      BY <2>1, <1>1, KvoParameters DEF KvoTypes
    <3> QED BY <2>1, <3>1, <1>13 DEF Heard, KvoInv
  <2>2. CASE v # value[c] /\ u \in Watching(c)
    <3>1. Watched[u] = c /\ u \in ToSet(observers'[c])
      BY <2>2, <1>3, <1>7 DEF Watching, KvoInv, KvoControl, Observed
    <3> QED BY <3>1, <2>2, <1>14
  <2> QED BY <2>1, <2>2, <1>1
<1>19. Lists'
  <2> SUFFICES ASSUME NEW d \in Computed
               PROVE  /\ \A o \in Observables : list'[d][o] # Nil => o \in MayRead(d)
                      /\ \A o \in MustRead(d) : list'[d][o] = color'[d]
                      /\ d \in marked' => d \in nice'
    BY DEF Lists
  <2>1. /\ \A o \in Observables : list[d][o] # Nil => o \in MayRead(d)
        /\ \A o \in MustRead(d) : list[d][o] = color[d]
        /\ d \in marked => d \in nice
    BY DEF Lists, KvoInv
  <2>2. CASE d # c
    BY <2>1, <2>2, <1>1, <1>8
  <2>3. CASE d = c
    <3>1. R \subseteq MayRead(c) /\ MustRead(c) \subseteq R /\ MustRead(c) \subseteq Observables
      BY <1>2, <1>3 DEF R, MayRead, MustRead
    <3> QED BY <2>1, <2>3, <3>1, <1>1, <1>8
  <2> QED BY <2>2, <2>3
<1>20. ASSUME NEW d \in Computed PROVE UpToDate(d)'
  <2>1. CASE d # c
    <3>1. list'[d] = list[d] /\ color'[d] = color[d] /\ (d \in nice => d \in nice')
      BY <2>1, <1>1, <1>8
    <3>2. v # value[c] /\ d \in ToSet(observers[c]) => ToCall(c, d)'
      BY <1>3, <1>7, <1>14
    <3>3. \A p \in Observables :
             d \in ToSet(observers[p]) /\ ToCall(p, d) => ToCall(p, d)' \/ d \in nice'
      BY <1>13
    <3> QED BY <2>1, <3>1, <3>2, <3>3, <1>3, <1>6, <1>9, ValueMoves
  <2>2. CASE d = c /\ v = value[c]
    <3>1. value' = value
      BY <2>2, <1>2, <1>6
    <3>2. value'[c] = Result(c, value') /\ \A o \in Reads(c, value') : list'[c][o] = color'[c]
      BY <3>1, <1>3, <1>6, <1>8 DEF v, R
    <3> QED BY <3>2, <2>2 DEF UpToDate
  <2>3. CASE d = c /\ v # value[c] /\ c \in R
    <3>1. list'[c][c] = color'[c] /\ c \in ToSet(observers'[c])
      BY <2>3, <1>3, <1>7, <1>8
    <3> QED BY <3>1, <2>3, <1>3, <1>14 DEF UpToDate
  <2>4. CASE d = c /\ c \notin R
    <3>1. \A o \in R : value'[o] = value[o]
      BY <2>4, <1>3, <1>6
    <3>2. Result(c, value') = v /\ Reads(c, value') = R
      BY <3>1, <1>2, <1>6, KvoFunctions DEF v, R
    <3>3. value'[c] = Result(c, value') /\ \A o \in Reads(c, value') : list'[c][o] = color'[c]
      BY <3>2, <1>3, <1>6, <1>8
    <3> QED BY <3>3, <2>4 DEF UpToDate
  <2> QED BY <2>1, <2>2, <2>3, <2>4
<1> QED BY <1>9, <1>10, <1>15, <1>16, <1>17, <1>18, <1>19, <1>20 DEF KvoInv, KvoControl

\* What c may read only sometimes is watched by nobody else: no other observer is moved.
LEMMA StaleAlone ==
    ASSUME KvoInv, SometimesReadAlone, NEW c \in Computed, NEW o \in Stale(c)
    PROVE  /\ \A w \in Watchers : Watched[w] # o
           /\ \A d \in Computed \ {c} : list[d][o] = Nil
<1>1. o \in Observables /\ list[c][o] # Nil /\ list[c][o] # color[c]
  BY DEF Stale
<1>2. o \in MayRead(c) \ MustRead(c)
  BY <1>1 DEF KvoInv, Lists
<1>3. Watching(o) = {} /\ \A d \in Computed \ {c} : o \notin MayRead(d)
  BY <1>2 DEF SometimesReadAlone
<1> QED BY <1>1, <1>3 DEF Watching, KvoInv, Lists

\* The end of an update takes c off the lists it is no longer to be on.
LEMMA UpdateDoneKeeps == ASSUME KvoInv, UpdateDone PROVE KvoInv'
<1> DEFINE c == Top.c
<1>1. /\ Doing("update")
      /\ observers' = [o \in Observables |->
                          IF o \in Stale(c) THEN RemoveFirst(observers[o], c) ELSE observers[o]]
      /\ list' = [list EXCEPT ![c] = [o \in Observables |-> IF o \in Stale(c) THEN Nil ELSE @[o]]]
      /\ nice' = IF c \in marked THEN nice \cup {c} ELSE nice
      /\ frames' = Under
      /\ current' = Tramp
      /\ UNCHANGED <<busy, parked, valueVars, threadVars, color, marked, writes, historyVars>>
  BY DEF UpdateDone
<1>2. KvoTypes /\ Top \in AFrame /\ Top.kind = "update" /\ Under \in Seq(AFrame)
      /\ ToSet(frames) = ToSet(Under) \cup {Top}
  BY <1>1, InTheMiddle
<1>3. c \in Computed
  BY <1>2, FrameParts
<1> HIDE DEF c
<1>4. /\ list \in [Computed -> [Observables -> Colours \cup {Nil}]]
      /\ color \in [Computed -> Colours]
  BY <1>2 DEF KvoTypes
<1>5. /\ UNCHANGED <<value, version, dirty, callbacks, seen, waiting, color, marked, unheard>>
      /\ busy' = busy
  BY <1>1 DEF valueVars, threadVars, historyVars
<1>6. \A o \in Observables :
         /\ observers'[o] \in Seq(Computed \cup Watchers) /\ IsInjective(observers'[o])
         /\ o \in Stale(c) => ToSet(observers'[o]) = ToSet(observers[o]) \ {c}
         /\ o \notin Stale(c) => observers'[o] = observers[o]
  <2> TAKE o \in Observables
  <2>1. observers[o] \in Seq(Computed \cup Watchers) /\ IsInjective(observers[o])
    BY <1>2 DEF KvoTypes, KvoInv, KvoControl, Observed
  <2>2. observers'[o] = IF o \in Stale(c) THEN RemoveFirst(observers[o], c) ELSE observers[o]
    BY <1>1
  <2>3. c \in Computed \cup Watchers
    BY <1>3
  <2>4. /\ RemoveFirst(observers[o], c) \in Seq(Computed \cup Watchers)
        /\ IsInjective(RemoveFirst(observers[o], c))
        /\ ToSet(RemoveFirst(observers[o], c)) = ToSet(observers[o]) \ {c}
    BY <2>1, <2>3, RemoveFirstOnce
  <2> QED BY <2>1, <2>2, <2>4
<1>7. /\ list' \in [Computed -> [Observables -> Colours \cup {Nil}]]
      /\ \A d \in Computed \ {c} : list'[d] = list[d]
      /\ \A o \in Observables : list'[c][o] = IF o \in Stale(c) THEN Nil ELSE list[c][o]
  <2> DEFINE l == [o \in Observables |-> IF o \in Stale(c) THEN Nil ELSE list[c][o]]
  <2>1. l \in [Observables -> Colours \cup {Nil}]
    BY <1>3, <1>4
  <2>2. list' = [list EXCEPT ![c] = l]
    BY <1>1
  <2>3. \A o \in Observables : l[o] = IF o \in Stale(c) THEN Nil ELSE list[c][o]
    OBVIOUS
  <2> HIDE DEF l
  <2>4. list'[c] = l /\ \A d \in Computed \ {c} : list'[d] = list[d]
    BY <1>3, <1>4, <2>2
  <2>5. list' \in [Computed -> [Observables -> Colours \cup {Nil}]]
    BY <1>3, <1>4, <2>1, <2>2
  <2> QED BY <2>3, <2>4, <2>5
<1>8. KvoTypes'
  <2>1. observers' \in [Observables -> Seq(Computed \cup Watchers)]
    BY <1>1, <1>6
  <2>2. nice' \subseteq Computed
    BY <1>1, <1>2, <1>3 DEF KvoTypes
  <2> QED BY <2>1, <2>2, <1>1, <1>2, <1>5, <1>7 DEF KvoTypes
<1>9. NothingLeft'
  BY <1>1, KvoParameters DEF NothingLeft, Actors
<1>10. /\ \A p : ~Holds(Top, p)
       /\ \A p, t : ~LooksAt(Top, p, t)
       /\ \A p, fun : ~CallsFrom(Top, p, fun)
  BY <1>2 DEF Holds, LooksAt, CallsFrom
<1>11. \A p : Waits(p) => Waits(p)'
  BY <1>1, <1>2, <1>5, <1>10 DEF Waits
<1>12. \A p, t : ToLookAt(p, t) => ToLookAt(p, t)'
  BY <1>1, <1>2, <1>10, <1>11 DEF ToLookAt
<1>13. \A p \in Observables \ Stale(c) : \A fun : ToCall(p, fun) => ToCall(p, fun)'
  <2> TAKE p \in Observables \ Stale(c)
  <2> TAKE fun
  <2>1. \A f : CallsFrom(f, p, fun)' <=> CallsFrom(f, p, fun)
    BY <1>6 DEF CallsFrom
  <2> QED BY <2>1, <1>1, <1>2, <1>10, <1>11 DEF ToCall
<1>14. DirtyWaits'
  BY <1>5, <1>11 DEF DirtyWaits, KvoInv, KvoControl
<1>15. Told'
  BY <1>5, <1>12 DEF Told, KvoInv, KvoControl
<1>16. Observed'
  <2> SUFFICES ASSUME NEW o \in Observables
               PROVE  /\ IsInjective(observers'[o])
                      /\ ToSet(observers'[o])
                            = Watching(o) \cup {d \in Computed : list'[d][o] # Nil}
    BY DEF Observed, Watching
  <2>1. ToSet(observers[o]) = Watching(o) \cup {d \in Computed : list[d][o] # Nil}
    BY DEF KvoInv, KvoControl, Observed
  <2>2. CASE o \in Stale(c)
    <3>1. c \notin Watching(o)
      BY <1>3, KvoParameters DEF Watching
    <3>2. \A d \in Computed : list'[d][o] # Nil <=> list[d][o] # Nil /\ d # c
      BY <2>2, <1>7
    <3> QED BY <2>1, <2>2, <3>1, <3>2, <1>6
  <2>3. CASE o \notin Stale(c)
    <3>1. \A d \in Computed : list'[d][o] = list[d][o]
      BY <2>3, <1>7
    <3> QED BY <2>1, <2>3, <3>1, <1>6
  <2> QED BY <2>2, <2>3
<1>17. Heard'
  <2> SUFFICES ASSUME NEW w \in unheard PROVE ToCall(Watched[w], w)'
    BY <1>5 DEF Heard
  <2>1. w \in Watchers /\ Watched[w] \in Observables
    BY <1>2, KvoParameters DEF KvoTypes
  <2>2. CASE SometimesReadAlone
    <3>1. Watched[w] \notin Stale(c)
      BY <2>1, <2>2, <1>3, StaleAlone
    <3> QED BY <2>1, <3>1, <1>13 DEF Heard, KvoInv
  <2>3. CASE ~SometimesReadAlone
    BY <2>3 DEF ToCall
  <2> QED BY <2>2, <2>3
<1>18. Lists'
  <2> SUFFICES ASSUME NEW d \in Computed
               PROVE  /\ \A o \in Observables : list'[d][o] # Nil => o \in MayRead(d)
                      /\ \A o \in MustRead(d) : list'[d][o] = color[d]
                      /\ d \in marked => d \in nice'
    BY <1>5 DEF Lists
  <2>1. /\ \A o \in Observables : list[d][o] # Nil => o \in MayRead(d)
        /\ \A o \in MustRead(d) : list[d][o] = color[d]
        /\ d \in marked => d \in nice'
    BY <1>1 DEF Lists, KvoInv
  <2>2. CASE d # c
    BY <2>1, <2>2, <1>7
  <2>3. CASE d = c
    <3>1. \A o \in Observables : list[c][o] = color[c] => o \notin Stale(c)
      BY DEF Stale
    <3> QED BY <2>1, <2>3, <3>1, <1>7 DEF MustRead
  <2> QED BY <2>2, <2>3
<1>19. ASSUME NEW d \in Computed PROVE UpToDate(d)'
  <2>1. \A o \in Observables : list[d][o] = color[d] => list'[d][o] = color'[d]
    <3> TAKE o \in Observables
    <3> HAVE list[d][o] = color[d]
    <3>1. CASE d # c
      BY <3>1, <1>5, <1>7
    <3>2. CASE d = c
      <4>1. o \notin Stale(c)
        BY <3>2 DEF Stale
      <4> QED BY <4>1, <3>2, <1>5, <1>7
    <3> QED BY <3>1, <3>2
  <2>2. CASE d \in nice
    BY <2>2, <1>1 DEF UpToDate
  <2>3. CASE value[d] = Result(d, value) /\ \A o \in Reads(d, value) : list[d][o] = color[d]
    <3>1. Reads(d, value) \subseteq Observables
      BY <1>2, KvoFunctions DEF KvoTypes
    <3> QED BY <2>1, <2>3, <3>1, <1>5 DEF UpToDate
  <2>4. CASE \E o \in Observables : list[d][o] = color[d] /\ ToCall(o, d)
    <3>1. PICK o \in Observables : list[d][o] = color[d] /\ ToCall(o, d)
      BY <2>4
    <3>2. ToCall(o, d)'
      <4>1. CASE o \notin Stale(c)
        BY <3>1, <4>1, <1>13
      <4>2. CASE o \in Stale(c) /\ SometimesReadAlone
        <5>1. d # c
          BY <3>1, <4>2 DEF Stale
        <5>2. list[d][o] = Nil
          BY <4>2, <5>1, <1>3, StaleAlone
        <5> QED BY <5>2, <3>1, <1>4, KvoParameters
      <4>3. CASE ~SometimesReadAlone
        BY <4>3 DEF ToCall
      <4> QED BY <4>1, <4>2, <4>3
    <3> QED BY <2>1, <3>1, <3>2 DEF UpToDate
  <2> QED BY <2>2, <2>3, <2>4 DEF UpToDate, KvoInv
<1> QED BY <1>8, <1>9, <1>14, <1>15, <1>16, <1>17, <1>18, <1>19 DEF KvoInv, KvoControl

----------------------------------------------------------------------------
(* The beginning. *)

LEMMA KvoStart == Init => KvoInv
<1> SUFFICES ASSUME Init PROVE KvoInv
  OBVIOUS
<1>1. /\ current = Main /\ busy = {} /\ callbacks = <<>> /\ nice = {} /\ frames = <<>>
      /\ version = [o \in Observables |-> 0] /\ dirty = {}
      /\ seen = [o \in Observables |-> [t \in Threads |-> Nil]]
      /\ waiting = [o \in Observables |-> {}]
      /\ list = [c \in Computed |-> [o \in Observables |->
                    IF o \in Reads(c, value) THEN "black" ELSE Nil]]
      /\ color = [c \in Computed |-> "black"]
      /\ marked = {} /\ unheard = {}
  BY DEF Init
<1>2. value \in [Observables -> Values] /\ \A c \in Computed : value[c] = Result(c, value)
  BY DEF Init
<1>3. PICK order \in [Observables -> {TRUE, FALSE}] :
         observers = [o \in Observables |->
            LET marks == SetToSeq({c \in Computed : o \in Reads(c, value)})
                others == SetToSeq({w \in Watchers : Watched[w] = o})
            IN IF order[o] THEN marks \o others ELSE others \o marks]
  BY DEF Init
<1>4. \A o \in Observables :
         /\ observers[o] \in Seq(Computed \cup Watchers) /\ IsInjective(observers[o])
         /\ ToSet(observers[o]) = Watching(o) \cup {c \in Computed : o \in Reads(c, value)}
  <2> TAKE o \in Observables
  <2> DEFINE M == {c \in Computed : o \in Reads(c, value)}
             W == {w \in Watchers : Watched[w] = o}
  <2>1. IsFiniteSet(M) /\ IsFiniteSet(W)
    BY KvoParameters, FS_Subset
  <2>2. /\ SetToSeq(M) \in Seq(M) /\ IsInjective(SetToSeq(M)) /\ ToSet(SetToSeq(M)) = M
        /\ SetToSeq(W) \in Seq(W) /\ IsInjective(SetToSeq(W)) /\ ToSet(SetToSeq(W)) = W
    BY <2>1, SetInSequence
  <2>3. /\ observers[o] = IF order[o] THEN SetToSeq(M) \o SetToSeq(W)
                                      ELSE SetToSeq(W) \o SetToSeq(M)
        /\ W = Watching(o)
    BY <1>3 DEF Watching
  <2>4. M \subseteq Computed /\ W \subseteq Watchers /\ M \cap W = {}
    BY KvoParameters
  <2> HIDE DEF M, W
  <2> DEFINE m == SetToSeq(M)
             w == SetToSeq(W)
  <2>5. m \in Seq(Computed \cup Watchers) /\ w \in Seq(Computed \cup Watchers)
    BY <2>2, <2>4
  <2>6. /\ IsInjective(m) /\ IsInjective(w) /\ ToSet(m) = M /\ ToSet(w) = W
        /\ observers[o] = IF order[o] THEN m \o w ELSE w \o m
    BY <2>2, <2>3
  <2> HIDE DEF m, w
  <2>7. /\ observers[o] \in Seq(Computed \cup Watchers) /\ IsInjective(observers[o])
        /\ ToSet(observers[o]) = M \cup W
    <3>1. CASE order[o]
      BY <3>1, <2>4, <2>5, <2>6, InjectiveConcat
    <3>2. CASE ~order[o]
      BY <3>2, <2>4, <2>5, <2>6, InjectiveConcat
    <3> QED BY <3>1, <3>2
  <2> QED BY <2>3, <2>7 DEF M
<1>5. \A c \in Computed :
         /\ color[c] = "black"
         /\ \A o \in Observables : list[c][o] = IF o \in Reads(c, value) THEN "black" ELSE Nil
  BY <1>1
<1>6. "black" \in Colours /\ Nil # "black"
  BY KvoParameters DEF Colours
<1>7. KvoTypes
  <2>1. observers \in [Observables -> Seq(Computed \cup Watchers)]
    BY <1>3, <1>4
  <2>2. callbacks \in Seq(ANotification) /\ frames \in Seq(AFrame)
    BY <1>1, EmptySeq
  <2>3. /\ list \in [Computed -> [Observables -> Colours \cup {Nil}]]
        /\ color \in [Computed -> Colours]
    BY <1>1, <1>6
  <2> QED BY <1>1, <1>2, <2>1, <2>2, <2>3 DEF KvoTypes, Actors
<1>8. Observed
  BY <1>4, <1>5, <1>6 DEF Observed, Watching
<1>9. KvoControl
  BY <1>1, <1>7, <1>8 DEF KvoControl, NothingLeft, DirtyWaits, Told
<1>10. Lists
  BY <1>1, <1>2, <1>5 DEF Lists, MayRead, MustRead
<1>11. \A c \in Computed : UpToDate(c)
  <2> TAKE c \in Computed
  <2>1. Reads(c, value) \subseteq Observables
    BY <1>2, KvoFunctions
  <2> QED BY <2>1, <1>2, <1>5 DEF UpToDate
<1> QED BY <1>1, <1>9, <1>10, <1>11 DEF KvoInv, Heard

----------------------------------------------------------------------------
(* The theorems. *)

LEMMA KvoStutters == ASSUME KvoInv, UNCHANGED vars PROVE KvoInv'
<1>1. /\ UNCHANGED controlVars /\ UNCHANGED threadVars /\ UNCHANGED <<current, busy, callbacks>>
  BY DEF vars, trampVars, controlVars, valueVars, threadVars, computedVars, historyVars
<1>2. current' \in Actors \cup {Tramp} /\ NothingLeft'
  BY <1>1 DEF KvoInv, KvoControl, KvoTypes, NothingLeft
<1> QED BY <1>1, <1>2, ThreadsLeft

LEMMA KvoStep == ASSUME KvoInv, [Next]_vars PROVE KvoInv'
<1>1. CASE UNCHANGED vars
  BY <1>1, KvoStutters
<1>2. CASE Next
  <2>1. CASE \E c \in Actors, o \in Observables, v \in Values : Write(c, o, v)
    BY <2>1, WriteKeeps
  <2>2. CASE \E t \in Threads : Recv(t) \/ \E o \in Listens[t] : Read(t, o)
    <3>1. PICK t \in Threads : Recv(t) \/ \E o \in Listens[t] : Read(t, o)
      BY <2>2
    <3>2. Listens[t] \subseteq Observables
      BY KvoParameters
    <3> QED BY <3>1, <3>2, RecvKeeps, ReadKeeps
  <2>3. CASE \E t \in Threads : Park(t) \/ \E c \in Actors : Unpark(c, t)
    BY <2>3, ParkKeeps, UnparkKeeps
  <2>4. CASE StartNotification \/ CallWatcher \/ WatchersDone \/ NotificationDone
    BY <2>4, StartNotificationKeeps, CallWatcherKeeps, WatchersDoneKeeps, NotificationDoneKeeps
  <2>5. CASE \E t \in Threads : WakeWaiter(t) \/ RunBusy(t)
    BY <2>5, WakeWaiterKeeps, RunBusyKeeps
  <2>6. CASE \E c \in Computed : RunUpdate(c)
    BY <2>6, RunUpdateKeeps
  <2>7. CASE UpdateDone \/ RunCallbacks \/ CallbacksDone \/ TrampolineReturns
    BY <2>7, UpdateDoneKeeps, RunCallbacksKeeps, CallbacksDoneKeeps, TrampolineReturnsKeeps
  <2> QED BY <1>2, <2>1, <2>2, <2>3, <2>4, <2>5, <2>6, <2>7 DEF Next
<1> QED BY <1>1, <1>2

LEMMA KvoInvariance == Spec => []KvoInv
<1>1. Init => KvoInv
  BY KvoStart
<1>2. KvoInv /\ [Next]_vars => KvoInv'
  BY KvoStep
<1> QED BY <1>1, <1>2, PTL DEF Spec

\* Whenever a thread waits for an observable of which it does not know the version, a
\* notification is on its way that will look at this thread (kvo.lua:225-236), for any number
\* of observables, threads, watchers and nested notifications.
THEOREM WaitersAreLookedAt == Spec => []NoStaleWaiter
<1>1. KvoInv => NoStaleWaiter
  BY SameQuestions DEF KvoInv, KvoControl, Told, NoStaleWaiter
<1> QED BY <1>1, KvoInvariance, PTL

\* When the main context is back in the event loop no notification is pending, no observable
\* is dirty and no thread is left to run (thread.lua:146-170 under kvo.lua:207-238).  Updates of
\* computed observables that an event handler's write asked for may be left on nice_list.
THEOREM LoopIsQuiet == Spec => []QuietLoop
<1>1. KvoInv => QuietLoop
  <2> SUFFICES ASSUME KvoInv, current = Main, frames = <<>>
               PROVE  callbacks = <<>> /\ dirty = {} /\ busy = {}
    BY DEF QuietLoop
  <2>1. callbacks = <<>> /\ busy = {}
    BY DEF KvoInv, KvoControl, NothingLeft
  <2>2. ToSet(callbacks) = {} /\ ToSet(frames) = {}
    <3>1. DOMAIN callbacks = {} /\ DOMAIN frames = {}
      BY <2>1
    <3> QED BY <3>1, Zenon DEF ToSet
  <2>3. dirty = {}
    BY <2>2 DEF KvoInv, KvoControl, DirtyWaits, Waits
  <2> QED BY <2>1, <2>3
<1> QED BY <1>1, KvoInvariance, PTL

\* A watcher was called after the last change of what it watches, or a notification is to
\* call it (kvo.lua:207-224), when what is read only sometimes has no other observer.
THEOREM ChangesAreHeard == ASSUME SometimesReadAlone PROVE Spec => []EveryChangeHeard
<1>1. KvoInv => EveryChangeHeard
  BY SameQuestions DEF KvoInv, KvoControl, Heard, EveryChangeHeard
<1> QED BY <1>1, KvoInvariance, PTL

\* A computed observable has the value its function would return now, or an update to come,
\* however updates and notifications nest and whatever its function comes to read
\* (kvo.lua:117-146).
THEOREM ComputedValues == ASSUME SometimesReadAlone PROVE Spec => []ComputedFresh
<1>1. KvoInv => ComputedFresh
  <2> SUFFICES ASSUME KvoInv, NEW c \in Computed, value[c] # Result(c, value)
               PROVE  UpdateToCome(c)
    BY DEF ComputedFresh
  <2>1. KvoTypes /\ UpToDate(c)
    BY DEF KvoInv, KvoControl
  <2>2. CASE c \in nice
    BY <2>2 DEF UpdateToCome
  <2>3. CASE \E o \in Observables : list[c][o] = color[c] /\ ToCall(o, c)
    <3>1. PICK o \in Observables : list[c][o] = color[c] /\ ToCall(o, c)
      BY <2>3
    <3>2. list[c][o] # Nil
      BY <2>1, <3>1, KvoParameters DEF KvoTypes
    <3> QED BY <3>1, <3>2, <2>1, SameQuestions DEF UpdateToCome
  <2> QED BY <2>1, <2>2, <2>3 DEF UpToDate
<1> QED BY <1>1, KvoInvariance, PTL

\* A computed observable has one mark on each observable of its list and none elsewhere, and
\* all that its function reads now is on the list, or an update goes on or is to come
\* (kvo.lua:122-127, 138-143).
THEOREM ListsAreWatched == ASSUME SometimesReadAlone PROVE Spec => []WatchesWhatItReads
<1>1. KvoInv => WatchesWhatItReads
  <2> SUFFICES ASSUME KvoInv, NEW c \in Computed
               PROVE  /\ \A o \in Observables :
                            Cardinality({i \in 1..Len(observers[o]) : observers[o][i] = c})
                               = IF list[c][o] # Nil THEN 1 ELSE 0
                      /\ \/ Reads(c, value) \subseteq {o \in Observables : list[c][o] # Nil}
                         \/ UpdateToCome(c)
    BY DEF WatchesWhatItReads
  <2>1. KvoTypes /\ UpToDate(c)
    BY DEF KvoInv, KvoControl
  <2>2. ASSUME NEW o \in Observables
        PROVE  Cardinality({i \in 1..Len(observers[o]) : observers[o][i] = c})
                  = IF list[c][o] # Nil THEN 1 ELSE 0
    <3> DEFINE I == {i \in 1..Len(observers[o]) : observers[o][i] = c}
    <3>1. /\ DOMAIN observers[o] = 1..Len(observers[o]) /\ IsInjective(observers[o])
          /\ ToSet(observers[o]) = Watching(o) \cup {d \in Computed : list[d][o] # Nil}
      BY <2>1, LenProperties DEF KvoTypes, KvoInv, KvoControl, Observed
    <3>2. c \notin Watching(o)
      BY KvoParameters DEF Watching
    <3>3. CASE list[c][o] # Nil
      <4>1. PICK i \in 1..Len(observers[o]) : observers[o][i] = c
        <5>1. c \in ToSet(observers[o])
          BY <3>1, <3>3
        <5> QED BY <5>1, <3>1, Zenon DEF ToSet
      <4>2. I = {i}
        <5>1. \A j \in 1..Len(observers[o]) : observers[o][j] = observers[o][i] => j = i
          BY <3>1, Zenon DEF IsInjective
        <5> QED BY <4>1, <5>1
      <4> QED BY <4>2, <3>3, FS_Singleton
    <3>4. CASE list[c][o] = Nil
      <4>1. c \notin ToSet(observers[o])
        BY <3>1, <3>2, <3>4
      <4>2. I = {}
        BY <3>1, <4>1, Zenon DEF ToSet
      <4> QED BY <4>2, <3>4, FS_EmptySet
    <3> QED BY <3>3, <3>4
  <2>3. Reads(c, value) \subseteq Observables
    BY <2>1, KvoFunctions DEF KvoTypes
  <2>4. \A o \in Observables : list[c][o] = color[c] => list[c][o] # Nil
    BY <2>1, KvoParameters DEF KvoTypes
  <2>5. CASE c \in nice
    BY <2>2, <2>5 DEF UpdateToCome
  <2>6. CASE \E o \in Observables : list[c][o] = color[c] /\ ToCall(o, c)
    BY <2>1, <2>2, <2>4, <2>6, SameQuestions DEF UpdateToCome
  <2>7. CASE \A o \in Reads(c, value) : list[c][o] = color[c]
    BY <2>2, <2>3, <2>4, <2>7
  <2> QED BY <2>1, <2>5, <2>6, <2>7 DEF UpToDate
<1> QED BY <1>1, KvoInvariance, PTL

===============================================================================
