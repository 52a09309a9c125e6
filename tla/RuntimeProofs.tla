------------------------------ MODULE RuntimeProofs ------------------------------
(****************************************************************************)
(* What the C code of the program does around Lua.  Registry.tla implements *)
(* Proxies.tla, for every set of objects and pointers and however deep the  *)
(* stack is; Process.tla hears interrupts and leaves the terminal as it was *)
(* found, for any number of interrupts; communicate of Subprocess.tla       *)
(* returns all that a program wrote, however long it is; the mappings and   *)
(* serial lines of Devices.tla are as they were asked for, for every size   *)
(* of a page and every rate; and Text.tla decodes every sequence of bytes   *)
(* as UTF-8 is defined.                                                     *)
(****************************************************************************)
EXTENDS Registry, Process, Subprocess, Devices, Text, SequenceTheorems, TLAPS

----------------------------------------------------------------------------
(* The registry *)

\* What may be on the stack while a function of LM.c runs, and a state of Lua.
Slots == Objects \cup Pointers \cup {Nil, MainThread} \cup Keys
LuaState == [stack : Seq(Slots), tables : [Keys -> [Names -> Slots]]]

\* Append and the two ways to take from a sequence.
LEMMA AppendFacts ==
    ASSUME NEW S, NEW s \in Seq(S), NEW x \in S
    PROVE  /\ Append(s, x) \in Seq(S)
           /\ Len(s) \in Nat
           /\ Len(Append(s, x)) = Len(s) + 1
           /\ \A i \in 1..Len(s) : Append(s, x)[i] = s[i]
           /\ Append(s, x)[Len(s) + 1] = x
           /\ SubSeq(Append(s, x), 1, Len(s)) = s
  <1>1. /\ Append(s, x) \in Seq(S) /\ Len(s) \in Nat
        /\ Len(Append(s, x)) = Len(s) + 1
        /\ \A i \in 1..Len(s) : Append(s, x)[i] = s[i]
        /\ Append(s, x)[Len(s) + 1] = x
    BY AppendProperties
  <1> DEFINE t == SubSeq(Append(s, x), 1, Len(s))
  <1>2. /\ t \in Seq(S) /\ Len(t) = Len(s)
        /\ \A i \in 1..Len(s) : t[i] = Append(s, x)[i]
    <2>1. 1 \in Int /\ Len(s) \in Int /\ \A i \in 1..Len(s) : Append(s, x)[i] \in S
      BY <1>1, ElementOfSeq, SMT
    <2>2. /\ t \in Seq(S)
          /\ Len(t) = IF 1 <= Len(s) THEN Len(s) - 1 + 1 ELSE 0
          /\ \A i \in 1..(Len(s) - 1 + 1) : t[i] = Append(s, x)[1 + i - 1]
      BY <2>1, SubSeqProperties
    <2>3. Len(s) - 1 + 1 = Len(s) /\ \A i \in 1..Len(s) : 1 + i - 1 = i
      BY <1>1, SMT
    <2>4. (IF 1 <= Len(s) THEN Len(s) ELSE 0) = Len(s)
      BY <1>1, SMT
    <2> HIDE DEF t
    <2> QED
      BY <2>2, <2>3, <2>4
  <1> HIDE DEF t
  <1>3. t = s
    BY <1>1, <1>2, SeqEqual
  <1> QED
    BY <1>1, <1>3 DEF t

LEMMA TableSet ==
    ASSUME NEW L \in LuaState, NEW k \in Keys, NEW o \in Names, NEW v
    PROVE  [L EXCEPT !.tables[k][o] = v]
             = [stack |-> L.stack, tables |-> [L.tables EXCEPT ![k][o] = v]]
  <1>1. [L EXCEPT !.tables[k][o] = v] = [L EXCEPT !.tables = [L.tables EXCEPT ![k][o] = v]]
    OBVIOUS
  <1> DEFINE T == [L.tables EXCEPT ![k][o] = v]
  <1> HIDE DEF T
  <1>2. [L EXCEPT !.tables = T] = [stack |-> L.stack, tables |-> T]
    BY SMT DEF LuaState
  <1> QED
    BY <1>1, <1>2 DEF T

LEMMA StackReplaced ==
    ASSUME NEW L \in LuaState, NEW s
    PROVE  [L EXCEPT !.stack = s] = [stack |-> s, tables |-> L.tables]
  BY SMT DEF LuaState

\* A value pushed is on top, is popped again, and moves nothing else.
LEMMA PushFacts ==
    ASSUME NEW L \in LuaState, NEW v \in Slots
    PROVE  /\ push(L, v) \in LuaState
           /\ push(L, v).tables = L.tables
           /\ push(L, v).stack = Append(L.stack, v)
           /\ gettop(L) \in Nat /\ gettop(push(L, v)) = gettop(L) + 1
           /\ \A i \in 1..gettop(L) : push(L, v).stack[i] = L.stack[i]
           /\ push(L, v).stack[gettop(L) + 1] = v
           /\ index(push(L, v), -1) = v
           /\ pop(push(L, v), 1) = L
  <1>1. L.stack \in Seq(Slots) /\ L.tables \in [Keys -> [Names -> Slots]]
        /\ L = [stack |-> L.stack, tables |-> L.tables]
    BY DEF LuaState
  <1>2. push(L, v) = [stack |-> Append(L.stack, v), tables |-> L.tables]
    BY SMT DEF push, LuaState
  <1>3. /\ Append(L.stack, v) \in Seq(Slots)
        /\ Len(L.stack) \in Nat
        /\ Len(Append(L.stack, v)) = Len(L.stack) + 1
        /\ \A i \in 1..Len(L.stack) : Append(L.stack, v)[i] = L.stack[i]
        /\ Append(L.stack, v)[Len(L.stack) + 1] = v
        /\ SubSeq(Append(L.stack, v), 1, Len(L.stack)) = L.stack
    BY <1>1, AppendFacts
  <1>4. gettop(L) = Len(L.stack) /\ gettop(push(L, v)) = gettop(L) + 1
    BY <1>2, <1>3 DEF gettop
  <1>5. Slot(push(L, v), -1) = gettop(L) + 1
    BY <1>3, <1>4, SMT DEF Slot
  <1>6. gettop(push(L, v)) - 1 = Len(L.stack)
    BY <1>3, <1>4, SMT
  <1>7. pop(push(L, v), 1) = [stack |-> L.stack, tables |-> L.tables]
    <2> DEFINE M == push(L, v)
    <2>1. M = [stack |-> Append(L.stack, v), tables |-> L.tables]
      BY <1>2
    <2>2. pop(M, 1) = [M EXCEPT !.stack = SubSeq(M.stack, 1, gettop(M) - 1)]
      BY DEF pop
    <2>3. gettop(M) - 1 = Len(L.stack)
      BY <1>6
    <2> HIDE DEF M
    <2>4. SubSeq(M.stack, 1, gettop(M) - 1) = L.stack
      BY <1>3, <2>1, <2>3
    <2>5. M \in LuaState /\ M.tables = L.tables
      BY <1>1, <1>3, <2>1 DEF LuaState
    <2>6. pop(M, 1) = [stack |-> L.stack, tables |-> M.tables]
      BY <2>2, <2>4, <2>5, StackReplaced
    <2> QED
      BY <2>5, <2>6 DEF M
  <1> QED
    BY <1>1, <1>2, <1>3, <1>4, <1>5, <1>7 DEF LuaState, index

\* A table that was fetched is on the stack under its key.
LEMMA TableFetched ==
    ASSUME NEW L \in LuaState, NEW key \in Keys
    PROVE  registry_rawget(push(L, key)) = push(L, key)
  <1>1. key \in Slots
    BY DEF Slots
  <1> QED
    BY <1>1, PushFacts DEF registry_rawget, replaced

\* Three values are pushed, and the last two popped.
LEMMA ThreePushed ==
    ASSUME NEW L \in LuaState, NEW x \in Slots, NEW y \in Slots, NEW z \in Slots
    PROVE  LET a == push(push(push(L, x), y), z)
           IN /\ a \in LuaState /\ a.tables = L.tables
              /\ index(a, -3) = x /\ index(a, -2) = y /\ index(a, -1) = z
              /\ gettop(a) = gettop(L) + 3
              /\ pop(a, 2) = push(L, x)
  <1> DEFINE p1 == push(L, x)
             p2 == push(p1, y)
             p3 == push(p2, z)
  <1>1. /\ p1 \in LuaState /\ p1.tables = L.tables /\ gettop(L) \in Nat
        /\ gettop(p1) = gettop(L) + 1 /\ p1.stack[gettop(L) + 1] = x
    BY PushFacts
  <1> HIDE DEF p1
  <1>2. /\ p2 \in LuaState /\ p2.tables = p1.tables /\ gettop(p2) = gettop(p1) + 1
        /\ p2.stack[gettop(p1) + 1] = y
        /\ p2.stack = Append(p1.stack, y)
        /\ \A i \in 1..gettop(p1) : p2.stack[i] = p1.stack[i]
    BY <1>1, PushFacts
  <1> HIDE DEF p2
  <1>3. /\ p3 \in LuaState /\ p3.tables = p2.tables /\ gettop(p3) = gettop(p2) + 1
        /\ p3.stack[gettop(p2) + 1] = z
        /\ p3.stack = Append(p2.stack, z)
        /\ \A i \in 1..gettop(p2) : p3.stack[i] = p2.stack[i]
    BY <1>2, PushFacts
  <1> HIDE DEF p3
  <1>4. gettop(p1) = gettop(L) + 1 /\ gettop(p2) = gettop(L) + 2 /\ gettop(p3) = gettop(L) + 3
    BY <1>1, <1>2, <1>3, SMT
  <1>5. /\ gettop(L) + 1 \in 1..gettop(p1) /\ gettop(L) + 1 \in 1..gettop(p2)
        /\ gettop(L) + 2 \in 1..gettop(p2)
    BY <1>1, <1>4, SMT
  <1>6. /\ p3.stack[gettop(L) + 1] = x /\ p3.stack[gettop(L) + 2] = y
        /\ p3.stack[gettop(L) + 3] = z
    <2>1. p2.stack[gettop(L) + 1] = x
      BY <1>1, <1>2, <1>5
    <2>2. gettop(p1) + 1 = gettop(L) + 2 /\ gettop(p2) + 1 = gettop(L) + 3
      BY <1>1, <1>4, SMT
    <2> QED
      BY <1>2, <1>3, <1>5, <2>1, <2>2
  <1>7. Slot(p3, -3) = gettop(L) + 1 /\ Slot(p3, -2) = gettop(L) + 2
        /\ Slot(p3, -1) = gettop(L) + 3
    BY <1>1, <1>4, SMT DEF Slot
  <1>8. pop(p3, 2) = p1
    <2>1. p3.stack \in Seq(Slots) /\ p1.stack \in Seq(Slots)
          /\ p1 = [stack |-> p1.stack, tables |-> p1.tables]
          /\ p3 = [stack |-> p3.stack, tables |-> p3.tables]
      BY <1>1, <1>3 DEF LuaState
    <2>2. gettop(p3) - 2 = Len(p1.stack) /\ Len(p1.stack) \in Nat
          /\ Len(p3.stack) = Len(p1.stack) + 2
      BY <1>1, <1>4, SMT DEF gettop
    <2>3. \A i \in 1..Len(p1.stack) : p3.stack[i] = p1.stack[i]
      <3>1. \A i \in 1..gettop(p1) : i \in 1..gettop(p2)
        BY <1>1, <1>4, SMT
      <3> QED
        BY <1>2, <1>3, <3>1 DEF gettop
    <2> DEFINE t == SubSeq(p3.stack, 1, Len(p1.stack))
    <2>4. t \in Seq(Slots) /\ Len(t) = Len(p1.stack)
          /\ \A i \in 1..Len(p1.stack) : t[i] = p3.stack[i]
      <3>1. 1 \in Int /\ Len(p1.stack) \in Int
            /\ \A i \in 1..Len(p1.stack) : p3.stack[i] \in Slots
        BY <2>1, <2>2, <2>3, ElementOfSeq, SMT
      <3>2. /\ t \in Seq(Slots)
            /\ Len(t) = IF 1 <= Len(p1.stack) THEN Len(p1.stack) - 1 + 1 ELSE 0
            /\ \A i \in 1..(Len(p1.stack) - 1 + 1) : t[i] = p3.stack[1 + i - 1]
        BY <3>1, SubSeqProperties
      <3>3. Len(p1.stack) - 1 + 1 = Len(p1.stack)
            /\ \A i \in 1..Len(p1.stack) : 1 + i - 1 = i
        BY <2>2, SMT
      <3>4. (IF 1 <= Len(p1.stack) THEN Len(p1.stack) ELSE 0) = Len(p1.stack)
        BY <2>2, SMT
      <3> HIDE DEF t
      <3> QED
        BY <3>2, <3>3, <3>4
    <2> HIDE DEF t
    <2>5. t = p1.stack
      BY <2>1, <2>3, <2>4, SeqEqual
    <2>6. pop(p3, 2) = [stack |-> t, tables |-> p3.tables]
      <3>1. pop(p3, 2) = [p3 EXCEPT !.stack = SubSeq(p3.stack, 1, gettop(p3) - 2)]
        BY DEF pop
      <3>2. SubSeq(p3.stack, 1, gettop(p3) - 2) = t
        BY <2>2 DEF t
      <3> QED
        BY <1>3, <3>1, <3>2, StackReplaced
    <2> QED
      BY <1>2, <1>3, <2>1, <2>5, <2>6
  <1> QED
    BY <1>1, <1>2, <1>3, <1>4, <1>6, <1>7, <1>8 DEF p1, p2, p3, index

\* What a registration leaves: v under o in a table, and the stack.
SetIn(L, key, o, v) ==
    [stack |-> L.stack, tables |-> [L.tables EXCEPT ![key][o] = v]]

LEMMA SetInState ==
    ASSUME NEW L \in LuaState, NEW key \in Keys, NEW o, NEW v \in Slots
    PROVE  /\ SetIn(L, key, o, v) \in LuaState
           /\ gettop(SetIn(L, key, o, v)) = gettop(L)
           /\ \A x \in Slots : SetIn(push(L, x), key, o, v) = push(SetIn(L, key, o, v), x)
  <1>1. L.stack \in Seq(Slots) /\ L.tables \in [Keys -> [Names -> Slots]]
    BY DEF LuaState
  <1>2. [L.tables EXCEPT ![key][o] = v] \in [Keys -> [Names -> Slots]]
    BY <1>1
  <1>3. SetIn(L, key, o, v) \in LuaState /\ gettop(SetIn(L, key, o, v)) = gettop(L)
    BY <1>1, <1>2 DEF SetIn, LuaState, gettop
  <1>4. ASSUME NEW x \in Slots
        PROVE  SetIn(push(L, x), key, o, v) = push(SetIn(L, key, o, v), x)
    <2>1. push(L, x).stack = Append(L.stack, x) /\ push(L, x).tables = L.tables
      BY PushFacts
    <2>2. push(SetIn(L, key, o, v), x)
            = [stack |-> Append(L.stack, x), tables |-> [L.tables EXCEPT ![key][o] = v]]
      <3>1. push(SetIn(L, key, o, v), x)
              = [SetIn(L, key, o, v) EXCEPT !.stack = Append(SetIn(L, key, o, v).stack, x)]
        BY DEF push
      <3>2. SetIn(L, key, o, v).stack = L.stack
            /\ SetIn(L, key, o, v).tables = [L.tables EXCEPT ![key][o] = v]
        BY DEF SetIn
      <3> DEFINE M == SetIn(L, key, o, v)
                 T == [L.tables EXCEPT ![key][o] = v]
      <3>3. M \in LuaState /\ M.stack = L.stack /\ M.tables = T
        BY <1>3, <3>2
      <3>4. push(M, x) = [M EXCEPT !.stack = Append(M.stack, x)]
        BY <3>1
      <3> HIDE DEF M, T
      <3>5. push(M, x) = [stack |-> Append(M.stack, x), tables |-> M.tables]
        BY <3>3, <3>4, StackReplaced
      <3>6. push(M, x) = [stack |-> Append(L.stack, x), tables |-> T]
        BY <3>3, <3>5
      <3> QED
        BY <3>6 DEF M, T
    <2> QED
      BY <2>1, <2>2 DEF SetIn
  <1> QED
    BY <1>3, <1>4

\* A table, a key and a value are pushed, set and popped again.
LEMMA Registered ==
    ASSUME NEW L \in LuaState, NEW key \in Keys, NEW o \in Names, NEW v \in Slots
    PROVE  pop(rawset(push(push(push(L, key), o), v), -3), 1) = SetIn(L, key, o, v)
  <1> DEFINE a == push(push(push(L, key), o), v)
             T == [L.tables EXCEPT ![key][o] = v]
  <1>0. key \in Slots /\ o \in Slots
    BY DEF Slots, Names
  <1>1. /\ a \in LuaState /\ a.tables = L.tables
        /\ index(a, -3) = key /\ index(a, -2) = o /\ index(a, -1) = v
        /\ pop(a, 2) = push(L, key)
    BY <1>0, ThreePushed
  <1> HIDE DEF a
  <1>2. rawset(a, -3) = pop([a EXCEPT !.tables[key][o] = v], 2)
    BY <1>1 DEF rawset
  <1>3. [a EXCEPT !.tables[key][o] = v] = [stack |-> a.stack, tables |-> T]
    BY <1>1, TableSet
  <1>4. L.tables \in [Keys -> [Names -> Slots]] /\ T \in [Keys -> [Names -> Slots]]
    BY DEF LuaState
  <1> DEFINE b == [stack |-> a.stack, tables |-> T]
  <1>5. b \in LuaState /\ b.stack = a.stack /\ b.tables = T
    BY <1>1, <1>4 DEF LuaState
  <1> HIDE DEF b
  <1> HIDE DEF T
  <1>6. pop(b, 2) = [stack |-> pop(a, 2).stack, tables |-> T]
    <2>1. pop(b, 2) = [stack |-> SubSeq(a.stack, 1, gettop(a) - 2), tables |-> T]
      BY <1>5, StackReplaced DEF pop, gettop
    <2>2. pop(a, 2) = [stack |-> SubSeq(a.stack, 1, gettop(a) - 2), tables |-> a.tables]
      BY <1>1, StackReplaced DEF pop
    <2>3. pop(a, 2).stack = SubSeq(a.stack, 1, gettop(a) - 2)
      BY <2>2
    <2> QED
      BY <2>1, <2>3
  <1>7. push(L, key).tables = L.tables
    BY <1>0, PushFacts
  <1>8. pop(b, 2) = SetIn(push(L, key), key, o, v)
    BY <1>1, <1>6, <1>7 DEF SetIn, T
  <1>9. pop(b, 2) = push(SetIn(L, key, o, v), key) /\ SetIn(L, key, o, v) \in LuaState
    BY <1>0, <1>8, SetInState
  <1>10. pop(pop(b, 2), 1) = SetIn(L, key, o, v)
    BY <1>0, <1>9, PushFacts
  <1> QED
    BY <1>2, <1>3, <1>10 DEF a, b

\* An index counts from the bottom, or from the top.
AnIndex(L, i) == i \in 1..gettop(L) \/ \E k \in 1..gettop(L) : i = -k

LEMMA FromTheTop ==
    ASSUME NEW n \in Nat, NEW k \in 1..n
    PROVE  ~(-k > 0) /\ n + (-k) + 1 \in 1..n
  BY SMT

LEMMA SlotFacts ==
    ASSUME NEW L \in LuaState, NEW i, AnIndex(L, i)
    PROVE  /\ abs_index(L, i) = Slot(L, i) /\ Slot(L, i) \in 1..gettop(L)
           /\ index(L, i) = L.stack[Slot(L, i)] /\ index(L, i) \in Slots
  <1>1. L.stack \in Seq(Slots) /\ gettop(L) \in Nat /\ gettop(L) = Len(L.stack)
    BY DEF LuaState, gettop
  <1>2. CASE i \in 1..gettop(L)
    <2>1. Slot(L, i) \in 1..gettop(L)
      BY <1>1, <1>2, SMT DEF Slot
    <2> QED
      BY <1>1, <2>1, ElementOfSeq DEF Slot, abs_index, index
  <1>3. CASE \E k \in 1..gettop(L) : i = -k
    <2>0. PICK k \in 1..gettop(L) : i = -k
      BY <1>3
    <2>2. ~(-k > 0) /\ gettop(L) + (-k) + 1 \in 1..gettop(L)
      BY <1>1, FromTheTop
    <2>1. Slot(L, i) \in 1..gettop(L)
      BY <2>0, <2>2 DEF Slot
    <2> QED
      BY <1>1, <2>1, ElementOfSeq DEF Slot, abs_index, index
  <1> QED
    BY <1>2, <1>3 DEF AnIndex

\* What was at an index is still there after a push.
LEMMA KeptBelow ==
    ASSUME NEW L \in LuaState, NEW x \in Slots, NEW at \in 1..gettop(L)
    PROVE  /\ index(push(L, x), at) = L.stack[at]
           /\ at \in 1..gettop(push(L, x))
           /\ push(L, x).stack[at] = L.stack[at]
  <1>1. gettop(L) \in Nat /\ gettop(push(L, x)) = gettop(L) + 1
        /\ \A i \in 1..gettop(L) : push(L, x).stack[i] = L.stack[i]
    BY PushFacts
  <1>2. at > 0 /\ at \in 1..(gettop(L) + 1)
    BY <1>1, SMT
  <1> QED
    BY <1>1, <1>2 DEF index, Slot

\* The object at index i is registered, and the stack is as it was.
LEMMA RegisterProxyFact ==
    ASSUME NEW L \in LuaState, NEW key \in Keys, NEW o \in Names, NEW i, AnIndex(L, i)
    PROVE  _register_proxy(L, key, o, i) = SetIn(L, key, o, index(L, i))
  <1> DEFINE at == Slot(L, i)
             a == push(L, key)
             b == push(a, o)
  <1>0. key \in Slots /\ o \in Slots
    BY DEF Slots, Names
  <1>1. abs_index(L, i) = at /\ at \in 1..gettop(L)
        /\ index(L, i) = L.stack[at] /\ index(L, i) \in Slots
    BY SlotFacts
  <1>2. registry_rawget(push(L, key)) = a
    BY TableFetched
  <1>3. a \in LuaState /\ at \in 1..gettop(a) /\ a.stack[at] = L.stack[at]
    BY <1>0, <1>1, KeptBelow, PushFacts
  <1> HIDE DEF at
  <1>4. index(b, at) = L.stack[at]
    BY <1>0, <1>3, KeptBelow
  <1>5. pushvalue(b, at) = push(b, index(L, i))
    BY <1>1, <1>4 DEF pushvalue
  <1>6. _register_proxy(L, key, o, i) = pop(rawset(pushvalue(b, at), -3), 1)
    BY <1>1, <1>2 DEF _register_proxy
  <1> QED
    BY <1>1, <1>5, <1>6, Registered

\* The value above a table is kept and the table removed.
LEMMA Removed ==
    ASSUME NEW L \in LuaState, NEW x \in Slots, NEW v \in Slots
    PROVE  remove(push(push(L, x), v), gettop(L) + 1) = push(L, v)
  <1> DEFINE a == push(L, x)
             b == push(a, v)
             g == gettop(L)
  <1>1. /\ a \in LuaState /\ a.tables = L.tables /\ g \in Nat /\ gettop(a) = g + 1
        /\ a.stack = Append(L.stack, x)
        /\ \A i \in 1..g : a.stack[i] = L.stack[i]
    BY PushFacts
  <1> HIDE DEF a
  <1>2. /\ b \in LuaState /\ b.tables = a.tables /\ gettop(b) = g + 2
        /\ \A i \in 1..(g + 1) : b.stack[i] = a.stack[i]
        /\ b.stack[g + 2] = v
    <2>1. /\ b \in LuaState /\ b.tables = a.tables /\ gettop(b) = gettop(a) + 1
          /\ \A i \in 1..gettop(a) : b.stack[i] = a.stack[i]
          /\ b.stack[gettop(a) + 1] = v
      BY <1>1, PushFacts
    <2>2. (g + 1) + 1 = g + 2
      BY <1>1, SMT
    <2> QED
      BY <1>1, <2>1, <2>2
  <1> HIDE DEF b
  <1>3. /\ L.stack \in Seq(Slots) /\ Len(L.stack) = g
        /\ b.stack \in Seq(Slots) /\ Len(b.stack) = g + 2
    BY <1>2 DEF LuaState, gettop
  <1> HIDE DEF g
  <1> DEFINE s == SubSeq(b.stack, 1, g)
             t == SubSeq(b.stack, g + 2, g + 2)
  <1>4. \A i \in 1..(g + 2) : b.stack[i] \in Slots
    BY <1>3, ElementOfSeq
  <1>5. s \in Seq(Slots) /\ Len(s) = g /\ \A i \in 1..g : s[i] = L.stack[i]
    <2>1. 1 \in Int /\ g \in Int /\ \A i \in 1..g : b.stack[i] \in Slots
      BY <1>1, <1>4, SMT
    <2>2. /\ s \in Seq(Slots) /\ Len(s) = IF 1 <= g THEN g - 1 + 1 ELSE 0
          /\ \A i \in 1..(g - 1 + 1) : s[i] = b.stack[1 + i - 1]
      BY <2>1, SubSeqProperties
    <2>3. /\ g - 1 + 1 = g /\ (IF 1 <= g THEN g ELSE 0) = g
          /\ \A i \in 1..g : 1 + i - 1 = i /\ i \in 1..(g + 1)
      BY <1>1, SMT
    <2> HIDE DEF s
    <2>4. s \in Seq(Slots) /\ Len(s) = g /\ \A i \in 1..g : s[i] = b.stack[i]
      BY <2>2, <2>3
    <2> QED
      BY <1>1, <1>2, <2>3, <2>4
  <1>6. t \in Seq(Slots) /\ Len(t) = 1 /\ t[1] = v
    <2>1. g + 2 \in Int /\ \A i \in (g + 2)..(g + 2) : b.stack[i] \in Slots
      BY <1>1, <1>4, SMT
    <2>2. /\ t \in Seq(Slots)
          /\ Len(t) = IF g + 2 <= g + 2 THEN (g + 2) - (g + 2) + 1 ELSE 0
          /\ \A i \in 1..((g + 2) - (g + 2) + 1) : t[i] = b.stack[(g + 2) + i - 1]
      BY <2>1, SubSeqProperties
    <2>3. /\ (IF g + 2 <= g + 2 THEN (g + 2) - (g + 2) + 1 ELSE 0) = 1
          /\ 1 \in 1..((g + 2) - (g + 2) + 1) /\ (g + 2) + 1 - 1 = g + 2
      BY <1>1, SMT
    <2> HIDE DEF t
    <2> QED
      BY <1>2, <2>2, <2>3
  <1> HIDE DEF s, t
  <1>7. /\ s \o t \in Seq(Slots) /\ Len(s \o t) = g + 1
        /\ \A i \in 1..(g + 1) : (s \o t)[i] = IF i <= g THEN s[i] ELSE t[i - g]
    <2>1. /\ s \o t \in Seq(Slots) /\ Len(s \o t) = Len(s) + Len(t)
          /\ \A i \in 1..(Len(s) + Len(t)) :
                (s \o t)[i] = IF i <= Len(s) THEN s[i] ELSE t[i - Len(s)]
      BY <1>5, <1>6, ConcatProperties
    <2> QED
      BY <1>5, <1>6, <2>1
  <1>8. /\ Append(L.stack, v) \in Seq(Slots) /\ Len(Append(L.stack, v)) = g + 1
        /\ \A i \in 1..g : Append(L.stack, v)[i] = L.stack[i]
        /\ Append(L.stack, v)[g + 1] = v
    BY <1>3, AppendFacts
  <1>9. \A i \in 1..(g + 1) : (s \o t)[i] = Append(L.stack, v)[i]
    <2> TAKE i \in 1..(g + 1)
    <2>1. CASE i \in 1..g
      BY <1>1, <1>5, <1>7, <1>8, <2>1, SMT
    <2>2. CASE i = g + 1
      <3>1. ~(i <= g) /\ i - g = 1
        BY <1>1, <2>2, SMT
      <3> QED
        BY <1>6, <1>7, <1>8, <2>2, <3>1
    <2>3. i \in 1..g \/ i = g + 1
      BY <1>1, SMT
    <2> QED
      BY <2>1, <2>2, <2>3
  <1>10. s \o t = Append(L.stack, v)
    BY <1>7, <1>8, <1>9, SeqEqual
  <1>11. remove(b, g + 1) = [stack |-> s \o t, tables |-> b.tables]
    <2>1. remove(b, g + 1) = [b EXCEPT !.stack =
              SubSeq(b.stack, 1, (g + 1) - 1) \o SubSeq(b.stack, (g + 1) + 1, gettop(b))]
      BY DEF remove
    <2>2. (g + 1) - 1 = g /\ (g + 1) + 1 = g + 2
      BY <1>1, SMT
    <2> QED
      BY <1>2, <2>1, <2>2, StackReplaced DEF s, t
  <1>12. push(L, v) = [stack |-> Append(L.stack, v), tables |-> L.tables]
    BY StackReplaced DEF push
  <1> QED
    BY <1>1, <1>2, <1>10, <1>11, <1>12 DEF a, b, g

\* What a table has under a key, if it has anything, is pushed and counted.
PushResult(L, v) == IF v = Nil THEN [L |-> L, n |-> 0] ELSE [L |-> push(L, v), n |-> 1]

LEMMA LookedUp ==
    ASSUME NEW L \in LuaState, NEW key \in Keys, NEW o \in Names
    PROVE  LET a == push(push(L, key), o)
               v == L.tables[key][o]
           IN /\ rawget(a, gettop(L) + 1) = push(push(L, key), v)
              /\ rawget(a, -2) = push(push(L, key), v)
              /\ v \in Slots
  <1> DEFINE p1 == push(L, key)
             a == push(p1, o)
             v == L.tables[key][o]
  <1>0. key \in Slots /\ o \in Slots /\ v \in Slots
    BY DEF Slots, Names, LuaState
  <1>1. /\ p1 \in LuaState /\ p1.tables = L.tables /\ gettop(L) \in Nat
        /\ gettop(p1) = gettop(L) + 1 /\ p1.stack[gettop(L) + 1] = key
    BY <1>0, PushFacts
  <1> HIDE DEF p1
  <1>2. /\ a \in LuaState /\ a.tables = L.tables /\ index(a, -1) = o
        /\ gettop(a) = gettop(L) + 2 /\ pop(a, 1) = p1
        /\ \A i \in 1..gettop(p1) : a.stack[i] = p1.stack[i]
    <2>1. /\ a \in LuaState /\ a.tables = p1.tables /\ index(a, -1) = o
          /\ gettop(a) = gettop(p1) + 1 /\ pop(a, 1) = p1
          /\ \A i \in 1..gettop(p1) : a.stack[i] = p1.stack[i]
      BY <1>0, <1>1, PushFacts
    <2>2. gettop(a) = gettop(L) + 2
      BY <1>1, <2>1, SMT
    <2> QED
      BY <1>1, <2>1, <2>2
  <1> HIDE DEF a
  <1>3. Slot(a, gettop(L) + 1) = gettop(L) + 1 /\ Slot(a, -2) = gettop(L) + 1
        /\ gettop(L) + 1 \in 1..gettop(p1)
    BY <1>1, <1>2, SMT DEF Slot
  <1>4. index(a, gettop(L) + 1) = key /\ index(a, -2) = key
    BY <1>1, <1>2, <1>3 DEF index
  <1>5. replaced(a, v) = push(p1, v)
    BY <1>2 DEF replaced
  <1>6. rawget(a, gettop(L) + 1) = replaced(a, v) /\ rawget(a, -2) = replaced(a, v)
    BY <1>2, <1>4 DEF rawget
  <1> QED
    BY <1>0, <1>5, <1>6 DEF a, p1

LEMMA PushProxyFact ==
    ASSUME NEW L \in LuaState, NEW key \in Keys, NEW o \in Names
    PROVE  _push_proxy(L, key, o) = PushResult(L, L.tables[key][o])
  <1> DEFINE a == push(L, key)
             v == L.tables[key][o]
  <1>0. key \in Slots
    BY DEF Slots
  <1>1. registry_rawget(push(L, key)) = a /\ gettop(a) = gettop(L) + 1
    BY <1>0, TableFetched, PushFacts
  <1>2. rawget(push(a, o), gettop(L) + 1) = push(a, v) /\ v \in Slots
    BY LookedUp
  <1>3. remove(push(a, v), gettop(L) + 1) = push(L, v)
    BY <1>0, <1>2, Removed
  <1>4. index(push(L, v), -1) = v /\ pop(push(L, v), 1) = L
    BY <1>2, PushFacts
  <1> QED
    BY <1>1, <1>2, <1>3, <1>4 DEF _push_proxy, PushResult

LEMMA UnregisterFact ==
    ASSUME NEW L \in LuaState, NEW o \in Names
    PROVE  luaLM_unregister_strong_proxy(L, o) = SetIn(L, Strong, o, Nil)
  <1> DEFINE a == push(L, Nil)
  <1>0. Nil \in Slots /\ Strong \in Keys
    BY DEF Slots, Keys
  <1>1. a \in LuaState /\ index(a, -1) = Nil /\ AnIndex(a, -1)
    <2>1. a \in LuaState /\ index(a, -1) = Nil /\ gettop(L) \in Nat /\ gettop(a) = gettop(L) + 1
      BY <1>0, PushFacts
    <2>2. 1 \in 1..gettop(a)
      BY <2>1, SMT
    <2> QED
      BY <2>1, <2>2 DEF AnIndex
  <1>2. _register_proxy(a, Strong, o, -1) = SetIn(a, Strong, o, Nil)
    BY <1>0, <1>1, RegisterProxyFact
  <1>3. SetIn(a, Strong, o, Nil) = push(SetIn(L, Strong, o, Nil), Nil)
        /\ SetIn(L, Strong, o, Nil) \in LuaState
    BY <1>0, SetInState
  <1> QED
    BY <1>0, <1>2, <1>3, PushFacts DEF luaLM_unregister_strong_proxy

LEMMA LinkFact ==
    ASSUME NEW L \in LuaState, NEW key \in Keys, NEW i, AnIndex(L, i), NEW j, AnIndex(L, j),
           index(L, i) \in Names
    PROVE  luaP_register_link(L, key, i, j) = SetIn(L, key, index(L, i), index(L, j))
  <1> DEFINE ati == Slot(L, i)
             atj == Slot(L, j)
             a == push(L, key)
             b == push(a, index(L, i))
  <1>0. key \in Slots
    BY DEF Slots
  <1>1. /\ abs_index(L, i) = ati /\ ati \in 1..gettop(L)
        /\ index(L, i) = L.stack[ati] /\ index(L, i) \in Slots
        /\ abs_index(L, j) = atj /\ atj \in 1..gettop(L)
        /\ index(L, j) = L.stack[atj] /\ index(L, j) \in Slots
    BY SlotFacts
  <1>2. registry_rawget(push(L, key)) = a
    BY TableFetched
  <1>3. /\ a \in LuaState /\ index(a, ati) = L.stack[ati]
        /\ atj \in 1..gettop(a) /\ a.stack[atj] = L.stack[atj]
    BY <1>0, <1>1, KeptBelow, PushFacts
  <1> HIDE DEF ati, atj
  <1>4. pushvalue(a, ati) = b
    BY <1>1, <1>3 DEF pushvalue
  <1>5. index(b, atj) = L.stack[atj]
    BY <1>1, <1>3, KeptBelow
  <1>6. pushvalue(b, atj) = push(b, index(L, j))
    BY <1>1, <1>5 DEF pushvalue
  <1>7. luaP_register_link(L, key, i, j) = pop(rawset(pushvalue(b, atj), -3), 1)
    BY <1>1, <1>2, <1>4 DEF luaP_register_link
  <1> QED
    BY <1>1, <1>6, <1>7, Registered

\* An index from the bottom stays one when something is pushed.
LEMMA StillIndex ==
    ASSUME NEW L \in LuaState, NEW x \in Slots, NEW i, AnIndex(L, i)
    PROVE  /\ AnIndex(push(L, x), Slot(L, i)) /\ AnIndex(push(L, x), -1)
           /\ index(push(L, x), Slot(L, i)) = index(L, i)
           /\ index(push(L, x), -1) = x
  <1>1. Slot(L, i) \in 1..gettop(L) /\ index(L, i) = L.stack[Slot(L, i)]
    BY SlotFacts
  <1>2. gettop(L) \in Nat /\ gettop(push(L, x)) = gettop(L) + 1 /\ index(push(L, x), -1) = x
    BY PushFacts
  <1>3. 1 \in 1..gettop(push(L, x))
    BY <1>2, SMT
  <1> QED
    BY <1>1, <1>2, <1>3, KeptBelow DEF AnIndex

LEMMA UnlinkFact ==
    ASSUME NEW L \in LuaState, NEW key \in Keys, NEW i, AnIndex(L, i), index(L, i) \in Names
    PROVE  luaP_unregister_link(L, key, i) = SetIn(L, key, index(L, i), Nil)
  <1> DEFINE a == push(L, Nil)
  <1>0. Nil \in Slots
    BY DEF Slots
  <1>1. /\ AnIndex(a, Slot(L, i)) /\ AnIndex(a, -1) /\ a \in LuaState
        /\ index(a, Slot(L, i)) = index(L, i) /\ index(a, -1) = Nil
    BY <1>0, StillIndex, PushFacts
  <1> HIDE DEF a
  <1>2. luaP_register_link(a, key, Slot(L, i), -1) = SetIn(a, key, index(L, i), Nil)
    BY <1>1, LinkFact
  <1>3. SetIn(a, key, index(L, i), Nil) = push(SetIn(L, key, index(L, i), Nil), Nil)
        /\ SetIn(L, key, index(L, i), Nil) \in LuaState
    BY <1>0, SetInState DEF a
  <1>4. abs_index(L, i) = Slot(L, i)
    BY SlotFacts
  <1> QED
    BY <1>0, <1>2, <1>3, <1>4, PushFacts DEF luaP_unregister_link, a

LEMMA PushLinkFact ==
    ASSUME NEW L \in LuaState, NEW key \in Keys, NEW i, AnIndex(L, i), index(L, i) \in Names
    PROVE  luaP_push_link(L, key, i) = PushResult(L, L.tables[key][index(L, i)])
  <1> DEFINE at == Slot(L, i)
             o == index(L, i)
             v == L.tables[key][o]
             a == push(L, key)
             b == push(a, o)
  <1>0. key \in Slots /\ o \in Slots
    BY DEF Slots, Names
  <1>1. abs_index(L, i) = at /\ at \in 1..gettop(L) /\ o = L.stack[at]
    BY SlotFacts
  <1>2. registry_rawget(push(L, key)) = a /\ a \in LuaState /\ gettop(L) \in Nat
        /\ gettop(a) = gettop(L) + 1 /\ index(a, at) = L.stack[at]
    BY <1>0, <1>1, TableFetched, PushFacts, KeptBelow
  <1>3. pushvalue(a, at) = b
    BY <1>1, <1>2 DEF pushvalue
  <1>4. gettop(b) - 1 = gettop(L) + 1
    <2>1. gettop(b) = gettop(a) + 1
      BY <1>0, <1>2, PushFacts
    <2> QED
      BY <1>2, <2>1, SMT
  <1>5. rawget(b, -2) = push(a, v) /\ v \in Slots
    BY LookedUp
  <1>6. remove(push(a, v), gettop(L) + 1) = push(L, v)
    BY <1>0, <1>5, Removed
  <1>7. index(push(L, v), -1) = v /\ pop(push(L, v), 1) = L
    BY <1>5, PushFacts
  <1> HIDE DEF a, at
  <1>8. luaP_push_link(L, key, i) =
          LET c == remove(rawget(b, -2), gettop(b) - 1)
          IN IF index(c, -1) = Nil THEN [L |-> pop(c, 1), n |-> 0] ELSE [L |-> c, n |-> 1]
    BY <1>1, <1>2, <1>3 DEF luaP_push_link
  <1> QED
    BY <1>4, <1>5, <1>6, <1>7, <1>8 DEF PushResult

LEMMA LinkProxyFact ==
    ASSUME NEW L \in LuaState, NEW key \in Keys, NEW o \in Names, NEW i, AnIndex(L, i)
    PROVE  luaP_register_proxy(L, key, o, i) = push(SetIn(L, key, o, index(L, i)), o)
  <1> DEFINE a == push(L, o)
  <1>0. o \in Slots /\ index(L, i) \in Slots /\ abs_index(L, i) = Slot(L, i)
    BY SlotFacts DEF Slots, Names
  <1>1. /\ AnIndex(a, Slot(L, i)) /\ AnIndex(a, -1) /\ a \in LuaState
        /\ index(a, Slot(L, i)) = index(L, i) /\ index(a, -1) = o
    BY <1>0, StillIndex, PushFacts
  <1> HIDE DEF a
  <1>2. luaP_register_link(a, key, -1, Slot(L, i)) = SetIn(a, key, o, index(L, i))
    BY <1>1, LinkFact
  <1> QED
    BY <1>0, <1>2, SetInState DEF luaP_register_proxy, a

LEMMA UnlinkProxyFact ==
    ASSUME NEW L \in LuaState, NEW key \in Keys, NEW o \in Names
    PROVE  luaP_unregister_proxy(L, key, o) = push(SetIn(L, key, o, Nil), Nil)
  <1> DEFINE a == push(L, Nil)
  <1>0. Nil \in Slots /\ o \in Slots
    BY DEF Slots, Names
  <1>1. a \in LuaState /\ index(a, -1) = Nil /\ AnIndex(a, -1)
    <2>1. a \in LuaState /\ index(a, -1) = Nil /\ gettop(L) \in Nat /\ gettop(a) = gettop(L) + 1
      BY <1>0, PushFacts
    <2>2. 1 \in 1..gettop(a)
      BY <2>1, SMT
    <2> QED
      BY <2>1, <2>2 DEF AnIndex
  <1>2. luaP_register_proxy(a, key, o, -1) = push(SetIn(a, key, o, Nil), o)
    BY <1>1, LinkProxyFact
  <1>3. SetIn(a, key, o, Nil) = push(SetIn(L, key, o, Nil), Nil)
        /\ SetIn(a, key, o, Nil) \in LuaState
    BY <1>0, <1>1, SetInState
  <1> QED
    BY <1>0, <1>2, <1>3, PushFacts DEF luaP_unregister_proxy

----------------------------------------------------------------------------
(* Every call is a step of Proxies.tla.                                     *)

RegistryTypes == lua \in LuaState /\ held \subseteq Objects

\* What a call leaves on the stack and in the tables.
LEMMA PushedParts ==
    ASSUME NEW L \in LuaState, NEW key \in Keys, NEW o \in Names, NEW v \in Slots, NEW x \in Slots
    PROVE  /\ push(SetIn(L, key, o, v), x).stack = Append(L.stack, x)
           /\ push(SetIn(L, key, o, v), x).tables = [L.tables EXCEPT ![key][o] = v]
           /\ push(SetIn(L, key, o, v), x) \in LuaState
  <1> DEFINE M == SetIn(L, key, o, v)
             T == [L.tables EXCEPT ![key][o] = v]
  <1>1. M \in LuaState
    BY SetInState
  <1>2. M.stack = L.stack /\ M.tables = T
    BY DEF SetIn
  <1> HIDE DEF M, T
  <1>3. /\ push(M, x).stack = Append(M.stack, x) /\ push(M, x).tables = M.tables
        /\ push(M, x) \in LuaState
    BY <1>1, PushFacts
  <1> QED
    BY <1>2, <1>3 DEF M, T

LEMMA IndexMeaning ==
    ASSUME RegistryTypes, NEW i \in Indices, ObjectAt(i)
    PROVE  /\ AnIndex(lua, i) /\ index(lua, i) \in Objects
           /\ index(lua, i) = lua.stack[Mapping!At(i)]
           /\ i \in Mapping!Indices /\ Mapping!ObjectAt(i)
  <1>1. AnIndex(lua, i)
    BY DEF Indices, AnIndex
  <1> QED
    BY <1>1 DEF ObjectAt, index, Slot, gettop, Mapping!At, Mapping!Indices, Mapping!ObjectAt, Indices

LEMMA Kinds ==
    /\ Objects \subseteq Names /\ Pointers \subseteq Names
    /\ Objects \subseteq Slots /\ Pointers \subseteq Slots
    /\ Nil \in Slots /\ MainThread \in Slots
    /\ Weak \in Keys /\ Strong \in Keys /\ Links \in Keys
    /\ Keys = Mapping!Keys /\ Names = Mapping!Names
  BY DEF Names, Slots, Keys, Mapping!Keys, Mapping!Names

LEMMA RegisterProxyStep ==
    ASSUME RegistryTypes, NEW i \in Indices, ObjectAt(i), NEW p \in Pointers,
           NEW key \in {Weak, Strong}, RegisterProxy(key, p, i)
    PROVE  RegistryTypes' /\ Mapping!Register(key, p, i)
  <1>1. key \in Keys /\ p \in Names /\ index(lua, i) \in Slots
    BY Kinds, IndexMeaning
  <1>2. lua' = SetIn(lua, key, p, index(lua, i)) /\ lua \in LuaState
    BY <1>1, IndexMeaning, RegisterProxyFact DEF RegisterProxy, RegistryTypes
  <1>3. lua' \in LuaState
    BY <1>1, <1>2, SetInState
  <1>4. returned' = 0 /\ UNCHANGED <<alive, held>>
    BY DEF RegisterProxy, Quiet
  <1> QED
    BY <1>2, <1>3, <1>4, IndexMeaning
    DEF SetIn, RegistryTypes, Mapping!Register, Mapping!Registers, Mapping!Leaves

LEMMA ForgetStep ==
    ASSUME RegistryTypes, NEW p \in Pointers, UnregisterStrongProxy(p)
    PROVE  RegistryTypes' /\ Mapping!Forget(Strong, p)
  <1>1. lua' = SetIn(lua, Strong, p, Nil) /\ lua \in LuaState
    BY Kinds, UnregisterFact DEF UnregisterStrongProxy, RegistryTypes
  <1>2. lua' \in LuaState
    BY <1>1, Kinds, SetInState
  <1>3. returned' = 0 /\ UNCHANGED <<alive, held>>
    BY DEF UnregisterStrongProxy, Quiet
  <1> QED
    BY <1>1, <1>2, <1>3
    DEF SetIn, RegistryTypes, Mapping!Forget, Mapping!Registers, Mapping!Leaves

\* What is registered is pushed; when nothing is, the stack is as it was.
LEMMA PushStep ==
    ASSUME RegistryTypes, NEW key \in Keys, NEW o \in Names,
           lua' = PushResult(lua, lua.tables[key][o]).L,
           Quiet(PushResult(lua, lua.tables[key][o]).n)
    PROVE  RegistryTypes' /\ Mapping!Push(key, o)
  <1> DEFINE v == lua.tables[key][o]
  <1>1. v \in Slots
    BY DEF RegistryTypes, LuaState
  <1>2. UNCHANGED <<alive, held>>
    BY DEF Quiet
  <1>3. CASE v = Nil
    <2>1. lua' = lua /\ returned' = 0
      BY <1>3 DEF PushResult, Quiet
    <2> QED
      BY <1>2, <1>3, <2>1 DEF RegistryTypes, Mapping!Push, Mapping!Leaves
  <1>4. CASE v # Nil
    <2>1. lua' = push(lua, v) /\ returned' = 1
      BY <1>4 DEF PushResult, Quiet
    <2>2. lua' \in LuaState /\ lua'.stack = Append(lua.stack, v) /\ lua'.tables = lua.tables
      <3>1. lua \in LuaState
        BY DEF RegistryTypes
      <3> HIDE DEF v
      <3>2. /\ push(lua, v) \in LuaState /\ push(lua, v).stack = Append(lua.stack, v)
            /\ push(lua, v).tables = lua.tables
        BY <1>1, <3>1, PushFacts
      <3> QED
        BY <2>1, <3>2
    <2>3. RegistryTypes'
      BY <1>2, <2>2 DEF RegistryTypes
    <2>4. Mapping!Leaves(Append(lua.stack, v))
      BY <1>2, <2>2 DEF Mapping!Leaves
    <2> QED
      BY <1>4, <2>1, <2>2, <2>3, <2>4 DEF Mapping!Push
  <1> QED
    BY <1>3, <1>4

LEMMA PushProxyStep ==
    ASSUME RegistryTypes, NEW key \in Keys, NEW p \in Pointers, PushProxy(key, p)
    PROVE  RegistryTypes' /\ Mapping!Push(key, p)
  <1>1. p \in Names /\ _push_proxy(lua, key, p) = PushResult(lua, lua.tables[key][p])
    BY Kinds, PushProxyFact DEF RegistryTypes
  <1> QED
    BY <1>1, PushStep DEF PushProxy

LEMMA PushLinkStep ==
    ASSUME RegistryTypes, NEW i \in Indices, ObjectAt(i), PushLink(i)
    PROVE  RegistryTypes' /\ Mapping!Push(Links, lua.stack[Mapping!At(i)])
  <1>1. index(lua, i) \in Names /\ AnIndex(lua, i) /\ Links \in Keys
    BY IndexMeaning, Kinds
  <1>2. luaP_push_link(lua, Links, i) = PushResult(lua, lua.tables[Links][index(lua, i)])
    BY <1>1, PushLinkFact DEF RegistryTypes
  <1>3. RegistryTypes' /\ Mapping!Push(Links, index(lua, i))
    BY <1>1, <1>2, PushStep DEF PushLink
  <1> QED
    BY <1>3, IndexMeaning

LEMMA CreateStep ==
    ASSUME RegistryParameters, RegistryTypes, NEW o \in Objects, CreateUserdata(o)
    PROVE  RegistryTypes' /\ Mapping!Create(o)
  <1> DEFINE a == push(lua, o)
  <1>1. o \in Slots /\ AddressOf[o] \in Names /\ Weak \in Keys /\ lua \in LuaState
    BY Kinds DEF RegistryParameters, RegistryTypes
  <1>2. a \in LuaState /\ index(a, -1) = o /\ AnIndex(a, -1)
    <2>1. a \in LuaState /\ index(a, -1) = o /\ gettop(lua) \in Nat /\ gettop(a) = gettop(lua) + 1
      BY <1>1, PushFacts
    <2>2. 1 \in 1..gettop(a)
      BY <2>1, SMT
    <2> QED
      BY <2>1, <2>2 DEF AnIndex
  <1>3. luaLM_create_userdata(lua, o) = SetIn(a, Weak, AddressOf[o], o)
    BY <1>1, <1>2, RegisterProxyFact DEF luaLM_create_userdata
  <1>4. lua' = push(SetIn(lua, Weak, AddressOf[o], o), o)
    BY <1>1, <1>3, SetInState DEF CreateUserdata
  <1>5. /\ lua' \in LuaState /\ lua'.stack = Append(lua.stack, o)
        /\ lua'.tables = [lua.tables EXCEPT ![Weak][AddressOf[o]] = o]
    BY <1>1, <1>4, PushedParts
  <1> QED
    BY <1>5 DEF CreateUserdata, RegistryTypes, Mapping!Create, Mapping!Registers

LEMMA LinkStep ==
    ASSUME RegistryTypes, NEW i \in Indices, ObjectAt(i), NEW j \in Indices, ObjectAt(j),
           RegisterLink(i, j)
    PROVE  RegistryTypes' /\ Mapping!Link(i, j)
  <1>1. /\ Links \in Keys /\ index(lua, i) \in Names /\ index(lua, j) \in Slots
        /\ AnIndex(lua, i) /\ AnIndex(lua, j) /\ lua \in LuaState
    BY Kinds, IndexMeaning DEF RegistryTypes
  <1>2. lua' = SetIn(lua, Links, index(lua, i), index(lua, j))
    BY <1>1, LinkFact DEF RegisterLink
  <1>3. lua' \in LuaState
    BY <1>1, <1>2, SetInState
  <1>4. returned' = 0 /\ UNCHANGED <<alive, held>>
    BY DEF RegisterLink, Quiet
  <1>5. index(lua, i) = lua.stack[Mapping!At(i)] /\ index(lua, j) = lua.stack[Mapping!At(j)]
    BY IndexMeaning
  <1> QED
    BY <1>2, <1>3, <1>4, <1>5
    DEF SetIn, RegistryTypes, Mapping!Link, Mapping!Registers, Mapping!Leaves

LEMMA UnlinkStep ==
    ASSUME RegistryTypes, NEW i \in Indices, ObjectAt(i), UnregisterLink(i)
    PROVE  RegistryTypes' /\ Mapping!Unlink(i)
  <1>1. /\ Links \in Keys /\ index(lua, i) \in Names /\ Nil \in Slots
        /\ AnIndex(lua, i) /\ lua \in LuaState
    BY Kinds, IndexMeaning DEF RegistryTypes
  <1>2. lua' = SetIn(lua, Links, index(lua, i), Nil)
    BY <1>1, UnlinkFact DEF UnregisterLink
  <1>3. lua' \in LuaState
    BY <1>1, <1>2, SetInState
  <1>4. returned' = 0 /\ UNCHANGED <<alive, held>>
    BY DEF UnregisterLink, Quiet
  <1> QED
    BY <1>2, <1>3, <1>4, IndexMeaning
    DEF SetIn, RegistryTypes, Mapping!Unlink, Mapping!Registers, Mapping!Leaves

LEMMA LinkPointerStep ==
    ASSUME RegistryTypes, NEW p \in Pointers, NEW i \in Indices, ObjectAt(i), LinkProxy(p, i)
    PROVE  RegistryTypes' /\ Mapping!LinkPointer(p, i)
  <1>1. /\ Links \in Keys /\ p \in Names /\ p \in Slots /\ index(lua, i) \in Slots
        /\ AnIndex(lua, i) /\ lua \in LuaState
    BY Kinds, IndexMeaning DEF RegistryTypes
  <1> DEFINE v == index(lua, i)
  <1>2. lua' = push(SetIn(lua, Links, p, v), p)
    BY <1>1, LinkProxyFact DEF LinkProxy
  <1>3. /\ lua' \in LuaState /\ lua'.stack = Append(lua.stack, p)
        /\ lua'.tables = [lua.tables EXCEPT ![Links][p] = v]
    <2>1. Links \in Keys /\ p \in Names /\ p \in Slots /\ v \in Slots /\ lua \in LuaState
      BY <1>1
    <2> HIDE DEF v
    <2> DEFINE S == SetIn(lua, Links, p, v)
    <2>2. S \in LuaState
      BY <2>1, SetInState
    <2>3. S.stack = lua.stack /\ S.tables = [lua.tables EXCEPT ![Links][p] = v]
      BY DEF SetIn
    <2> HIDE DEF S
    <2>4. /\ push(S, p) \in LuaState /\ push(S, p).stack = Append(S.stack, p)
          /\ push(S, p).tables = S.tables
      BY <2>1, <2>2, PushFacts
    <2> QED
      BY <1>2, <2>3, <2>4 DEF S
  <1>4. returned' = 0 /\ UNCHANGED <<alive, held>>
    BY DEF LinkProxy, Quiet
  <1> QED
    BY <1>3, <1>4, IndexMeaning
    DEF RegistryTypes, Mapping!LinkPointer, Mapping!Registers, Mapping!Leaves

LEMMA UnlinkPointerStep ==
    ASSUME RegistryTypes, NEW p \in Pointers, UnlinkProxy(p)
    PROVE  RegistryTypes' /\ Mapping!UnlinkPointer(p)
  <1>1. Links \in Keys /\ p \in Names /\ Nil \in Slots /\ lua \in LuaState
    BY Kinds DEF RegistryTypes
  <1>2. lua' = push(SetIn(lua, Links, p, Nil), Nil)
    BY <1>1, UnlinkProxyFact DEF UnlinkProxy
  <1>3. /\ lua' \in LuaState /\ lua'.stack = Append(lua.stack, Nil)
        /\ lua'.tables = [lua.tables EXCEPT ![Links][p] = Nil]
    BY <1>1, <1>2, PushedParts
  <1>4. returned' = 0 /\ UNCHANGED <<alive, held>>
    BY DEF UnlinkProxy, Quiet
  <1> QED
    BY <1>3, <1>4
    DEF RegistryTypes, Mapping!UnlinkPointer, Mapping!Registers, Mapping!Leaves

LEMMA MainThreadSteps ==
    ASSUME RegistryTypes
    PROVE  /\ PushMainThread => RegistryTypes' /\ Mapping!PushThread
           /\ GetMainState => RegistryTypes' /\ Mapping!State
  <1>1. lua \in LuaState /\ MainThread \in Slots
    BY Kinds DEF RegistryTypes
  <1>2. LET L == push(lua, MainThread)
        IN /\ L \in LuaState /\ L.stack = Append(lua.stack, MainThread) /\ L.tables = lua.tables
           /\ index(L, -1) = MainThread /\ pop(L, 1) = lua
    BY <1>1, PushFacts
  <1>3. ASSUME PushMainThread PROVE RegistryTypes' /\ Mapping!PushThread
    BY <1>2, <1>3
    DEF PushMainThread, luaLM_push_main_thread, Quiet, RegistryTypes, Mapping!PushThread,
        Mapping!Leaves
  <1>4. ASSUME GetMainState PROVE RegistryTypes' /\ Mapping!State
    BY <1>1, <1>2, <1>4
    DEF GetMainState, luaLM_push_main_thread, Quiet, RegistryTypes, Mapping!State,
        Mapping!Leaves
  <1> QED
    BY <1>3, <1>4

LEMMA LuaSteps ==
    ASSUME RegistryTypes
    PROVE  /\ Enter => RegistryTypes' /\ Mapping!Enter
           /\ Return => RegistryTypes' /\ Mapping!Return
           /\ \A o \in Objects : Drop(o) => RegistryTypes' /\ Mapping!Drop(o)
  <1>1. lua \in LuaState /\ held \subseteq Objects /\ Objects \subseteq Slots
    BY Kinds DEF RegistryTypes
  <1>2. ASSUME Enter PROVE RegistryTypes' /\ Mapping!Enter
    <2>0. PICK n \in 1..MaxArgs :
             \E args \in [1..n -> held] : lua' = [lua EXCEPT !.stack = args]
      BY <1>2 DEF Enter
    <2>1. PICK args \in [1..n -> held] : lua' = [lua EXCEPT !.stack = args]
      BY <2>0
    <2>2. lua' = [stack |-> args, tables |-> lua.tables]
      BY <1>1, <2>1, StackReplaced
    <2>3. args \in Seq(held) /\ args \in Seq(Slots)
      BY <1>1, SeqDef
    <2> QED
      BY <1>1, <1>2, <2>2, <2>3 DEF Enter, RegistryTypes, LuaState, Mapping!Enter
  <1>3. ASSUME Return PROVE RegistryTypes' /\ Mapping!Return
    <2>1. lua' = [stack |-> <<>>, tables |-> lua.tables]
      BY <1>1, <1>3, StackReplaced DEF Return
    <2>2. <<>> \in Seq(Slots)
      OBVIOUS
    <2>3. lua' \in LuaState
      BY <1>1, <2>1, <2>2 DEF LuaState
    <2> QED
      BY <1>1, <1>3, <2>1, <2>3 DEF Return, OnStack, gettop, RegistryTypes, Mapping!Return
  <1>4. ASSUME NEW o \in Objects, Drop(o) PROVE RegistryTypes' /\ Mapping!Drop(o)
    BY <1>4 DEF Drop, RegistryTypes, Mapping!Drop
  <1> QED
    BY <1>2, <1>3, <1>4

LEMMA CollectStep ==
    ASSUME RegistryTypes, NEW o \in Objects, Collect(o)
    PROVE  RegistryTypes' /\ Mapping!Collect(o)
  <1> DEFINE row == [k \in Names |-> IF lua.tables[Weak][k] = o THEN Nil ELSE lua.tables[Weak][k]]
             T == [lua.tables EXCEPT ![Weak] = row]
  <1>1. lua \in LuaState /\ Weak \in Keys /\ Nil \in Slots /\ Names = Mapping!Names
        /\ lua.tables \in [Keys -> [Names -> Slots]] /\ lua.stack \in Seq(Slots)
    BY Kinds DEF RegistryTypes, LuaState
  <1>2. row \in [Names -> Slots]
    BY <1>1
  <1>3. lua' = [lua EXCEPT !.tables = T]
    BY <1>1 DEF Collect
  <1>4. T \in [Keys -> [Names -> Slots]]
    BY <1>1, <1>2
  <1>5. T = [lua.tables EXCEPT ![Weak] =
               [k \in Mapping!Names |-> IF @[k] = o THEN Nil ELSE @[k]]]
    BY <1>1
  <1> HIDE DEF T
  <1>6. lua' = [stack |-> lua.stack, tables |-> T]
    BY <1>1, <1>3, SMT DEF LuaState
  <1>7. lua' \in LuaState
    BY <1>1, <1>4, <1>6 DEF LuaState
  <1>8. o \in alive \ held /\ \A i \in 1..Len(lua.stack) : lua.stack[i] # o
    BY DEF Collect, Reachable, OnStack, gettop
  <1>9. /\ \A t \in Mapping!Keys \ {Weak}, k \in Mapping!Names : lua.tables[t][k] # o
        /\ lua.tables[Links][o] = Nil
    BY <1>1 DEF Collect, Reachable, Mapping!Keys
  <1>10. alive' = alive \ {o} /\ UNCHANGED <<held, returned>>
    BY DEF Collect
  <1> QED
    BY <1>5, <1>6, <1>7, <1>8, <1>9, <1>10 DEF RegistryTypes, Mapping!Collect

LEMMA RegistryStep ==
    ASSUME RegistryParameters, RegistryTypes, RegistryNext
    PROVE  RegistryTypes' /\ Mapping!Next
  <1>1. CASE Enter \/ Return \/ PushMainThread \/ GetMainState
    BY <1>1, LuaSteps, MainThreadSteps DEF Mapping!Next
  <1>2. ASSUME NEW o \in Objects, CreateUserdata(o) \/ Drop(o) \/ Collect(o)
        PROVE  RegistryTypes' /\ Mapping!Next
    BY <1>2, CreateStep, LuaSteps, CollectStep DEF Mapping!Next
  <1>3. ASSUME NEW i \in Indices, ObjectAt(i),
               \/ \E p \in Pointers, key \in {Weak, Strong} : RegisterProxy(key, p, i)
               \/ \E p \in Pointers : LinkProxy(p, i)
               \/ \E j \in Indices : ObjectAt(j) /\ RegisterLink(i, j)
               \/ UnregisterLink(i) \/ PushLink(i)
        PROVE  RegistryTypes' /\ Mapping!Next
    <2>1. i \in Mapping!Indices /\ Mapping!ObjectAt(i)
      BY <1>3, IndexMeaning
    <2>2. ASSUME NEW p \in Pointers, NEW key \in {Weak, Strong}, RegisterProxy(key, p, i)
          PROVE  RegistryTypes' /\ Mapping!Next
      BY <1>3, <2>1, <2>2, RegisterProxyStep DEF Mapping!Next
    <2>3. ASSUME NEW p \in Pointers, LinkProxy(p, i) PROVE RegistryTypes' /\ Mapping!Next
      BY <1>3, <2>1, <2>3, LinkPointerStep DEF Mapping!Next
    <2>4. ASSUME NEW j \in Indices, ObjectAt(j), RegisterLink(i, j)
          PROVE  RegistryTypes' /\ Mapping!Next
      <3>1. j \in Mapping!Indices /\ Mapping!ObjectAt(j)
        BY <2>4, IndexMeaning
      <3> QED
        BY <1>3, <2>1, <2>4, <3>1, LinkStep DEF Mapping!Next
    <2>5. CASE UnregisterLink(i)
      BY <1>3, <2>1, <2>5, UnlinkStep DEF Mapping!Next
    <2>6. CASE PushLink(i)
      BY <1>3, <2>1, <2>6, PushLinkStep DEF Mapping!Next
    <2> QED
      BY <1>3, <2>2, <2>3, <2>4, <2>5, <2>6
  <1>4. ASSUME NEW p \in Pointers, UnregisterStrongProxy(p) \/ UnlinkProxy(p)
        PROVE  RegistryTypes' /\ Mapping!Next
    BY <1>4, ForgetStep, UnlinkPointerStep DEF Mapping!Next
  <1>5. ASSUME NEW p \in Pointers, NEW key \in Keys, PushProxy(key, p)
        PROVE  RegistryTypes' /\ Mapping!Next
    BY <1>5, PushProxyStep, Kinds DEF Mapping!Next
  <1> QED
    BY <1>1, <1>2, <1>3, <1>4, <1>5 DEF RegistryNext

\* The tables of LM.c and luaP.c, reached through the stack, are those of Proxies.tla.
THEOREM ImplementsProxies ==
    ASSUME RegistryParameters
    PROVE  RegistrySpec => FindsWhatWasRegistered
  <1>1. RegistryInit => RegistryTypes /\ Mapping!Init
    <2> SUFFICES ASSUME RegistryInit PROVE RegistryTypes /\ Mapping!Init
      OBVIOUS
    <2>1. lua.stack = <<>> /\ lua.tables = [t \in Keys |-> [k \in Names |-> Nil]]
          /\ lua = [stack |-> lua.stack, tables |-> lua.tables]
      BY DEF RegistryInit
    <2>2. lua.tables \in [Keys -> [Names -> Slots]] /\ <<>> \in Seq(Slots)
      BY <2>1, Kinds
    <2>3. lua \in LuaState
      BY <2>1, <2>2 DEF LuaState
    <2> QED
      BY <2>1, <2>3, Kinds DEF RegistryInit, RegistryTypes, Mapping!Init
  <1>2. RegistryTypes /\ [RegistryNext]_registryVars
          => RegistryTypes' /\ [Mapping!Next]_<<lua.stack, lua.tables, alive, held, returned>>
    <2>1. CASE RegistryNext
      BY <2>1, RegistryStep
    <2>2. CASE UNCHANGED registryVars
      BY <2>2 DEF registryVars, RegistryTypes
    <2> QED
      BY <2>1, <2>2
  <1> QED
    BY <1>1, <1>2, PTL DEF RegistrySpec, FindsWhatWasRegistered, Mapping!Spec

----------------------------------------------------------------------------
(* The process *)

\* Nothing happens after the end.  An interrupt that had no effect yet has taken the handler
\* away.  What is restored at exit is what there was when immediate_stdin was called.
ProcessInv ==
    /\ ending # "" => where = "ended"
    /\ where = "main" => ignored = 0 /\ disposition = "default"
    /\ \/ ignored = 0
       \/ ignored = 1 /\ disposition = "default"
    /\ immediate = "once" => saved_stdin_attributes = Flags /\ reset_at_exit = TRUE
    /\ TerminalRestored

\* exit, and what an error may do instead.
LEMMA ExitRestores ==
    ASSUME ProcessInv, Raised
    PROVE  /\ TerminalRestored'
           /\ UNCHANGED <<saved_stdin_attributes, reset_at_exit, immediate>>
           /\ ending' # "" => where' = "ended"
           /\ where' \in {where, "ended"}
  <1>1. CASE UNCHANGED <<where, ending, ttyVars>>
    BY <1>1 DEF ProcessInv, TerminalRestored, ttyVars
  <1>2. CASE Exits
    BY <1>2 DEF Exits, ProcessInv, TerminalRestored
  <1> QED
    BY <1>1, <1>2 DEF Raised

LEMMA InterruptSteps ==
    ASSUME ProcessInv, Start \/ Exit \/ Sigint \/ lbreak \/ keyboard_interrupt_watcher_cb
    PROVE  ProcessInv'
  <1> USE DEF ProcessInv, ttyVars
  <1>1. CASE Start
    <2>1. UNCHANGED <<ending, ignored, tty, immediate, saved_stdin_attributes, reset_at_exit>>
      BY <1>1 DEF Start
    <2>2. where = "main" /\ where' = "lua" /\ ending = ""
      BY <1>1 DEF Start
    <2> QED
      BY <2>1, <2>2 DEF TerminalRestored
  <1>2. CASE Exit
    BY <1>2, ExitRestores DEF Exit, Exits, Raised
  <1>3. CASE Sigint
    <2>1. CASE keyboard_interrupt
      <3>1. /\ disposition = "handler" /\ disposition' = "default" /\ ignored' = ignored + 1
            /\ UNCHANGED <<where, ending, tty, saved_stdin_attributes, reset_at_exit, immediate>>
        BY <1>3, <2>1 DEF Sigint, keyboard_interrupt
      <3>2. ignored = 0 /\ where # "main"
        BY <3>1
      <3>3. ignored' = 1
        <4> HIDE DEF ProcessInv
        <4> QED
          BY <3>1, <3>2
      <3> QED
        BY <3>1, <3>2, <3>3 DEF TerminalRestored
    <2>2. CASE Killed
      BY <1>3, <2>2 DEF Sigint, Killed, TerminalRestored
    <2> QED
      BY <1>3, <2>1, <2>2 DEF Sigint
  <1>4. CASE lbreak
    BY <1>4, ExitRestores DEF lbreak
  <1>5. CASE keyboard_interrupt_watcher_cb
    <2>1. CASE Exits
      BY <1>5, <2>1, ExitRestores DEF keyboard_interrupt_watcher_cb, Raised, Exits
    <2>2. CASE where' = "lua" /\ UNCHANGED <<ending, ttyVars>>
      BY <1>5, <2>2 DEF keyboard_interrupt_watcher_cb, TerminalRestored
    <2> QED
      BY <1>5, <2>1, <2>2 DEF keyboard_interrupt_watcher_cb
  <1> QED
    BY <1>1, <1>2, <1>3, <1>4, <1>5

LEMMA LoopSteps == ASSUME ProcessInv, EnterLoop \/ Handler \/ Resumed PROVE ProcessInv'
  BY DEF EnterLoop, Handler, Resumed, ProcessInv, TerminalRestored, ttyVars

LEMMA TerminalSteps ==
    ASSUME ProcessInv, immediate_stdin \/ immediate_stdin_off \/ tty_noecho \/ tty_restore
    PROVE  ProcessInv'
  <1>1. where = "lua" /\ UNCHANGED interruptVars
    BY DEF immediate_stdin, immediate_stdin_off, tty_noecho, tty_restore, InLua
  <1>2. ending' = "" /\ TerminalRestored'
    BY <1>1 DEF ProcessInv, interruptVars, TerminalRestored
  <1>3. immediate' = "once" => saved_stdin_attributes' = Flags /\ reset_at_exit' = TRUE
    <2>1. CASE immediate_stdin
      <3>1. /\ saved_stdin_attributes' = tty /\ reset_at_exit' = TRUE
            /\ immediate' = "once" => tty = Flags
        BY <2>1 DEF immediate_stdin
      <3> QED
        BY <3>1
    <2>2. CASE immediate_stdin_off
      <3>1. /\ UNCHANGED <<saved_stdin_attributes, reset_at_exit>>
            /\ immediate' = "once" => immediate = "once"
        BY <2>2 DEF immediate_stdin_off
      <3> QED
        BY <3>1 DEF ProcessInv
    <2>3. CASE tty_noecho \/ tty_restore
      BY <2>3 DEF tty_noecho, tty_restore, ProcessInv
    <2> QED
      BY <2>1, <2>2, <2>3
  <1> QED
    BY <1>1, <1>2, <1>3 DEF ProcessInv, interruptVars

LEMMA ProcessStep == ProcessInv /\ [ProcessNext]_processVars => ProcessInv'
  <1> SUFFICES ASSUME ProcessInv, [ProcessNext]_processVars PROVE ProcessInv'
    OBVIOUS
  <1>1. CASE UNCHANGED processVars
    BY <1>1 DEF ProcessInv, TerminalRestored, processVars, interruptVars, ttyVars
  <1> QED
    BY <1>1, InterruptSteps, LoopSteps, TerminalSteps DEF ProcessNext

LEMMA ProcessInvariance == ProcessSpec => []ProcessInv
  <1>1. ProcessInit => ProcessInv
    BY DEF ProcessInit, ProcessInv, TerminalRestored
  <1> QED
    BY <1>1, ProcessStep, PTL DEF ProcessSpec

\* Two interrupts in a row never both remain without effect: the handler that notes the first
\* one gives the signal back its default, and only what hears it installs the handler again
\* (platform-posix.c, main.c:43), for any number of interrupts.
THEOREM EveryOtherInterruptHeard == ProcessSpec => []InterruptsHeard
  <1>1. ProcessInv => InterruptsHeard
    <2>1. ProcessInv => ignored \in {0, 1}
      BY DEF ProcessInv
    <2>2. ignored \in {0, 1} => ignored <= 1
      OBVIOUS
    <2> QED
      BY <2>1, <2>2 DEF InterruptsHeard
  <1> QED
    BY <1>1, ProcessInvariance, PTL

\* Whatever was done to the terminal after a first immediate_stdin, and whatever makes the
\* process exit, the attributes are those it was found with (platform-posix.c:192).
THEOREM TerminalLeftAsFound == ProcessSpec => []TerminalRestored
  <1>1. ProcessInv => TerminalRestored
    BY DEF ProcessInv
  <1> QED
    BY <1>1, ProcessInvariance, PTL

----------------------------------------------------------------------------
(* communicate *)

AllPipes == {"in"} \cup Outputs
AllEnds == Ours(AllPipes) \cup Theirs(AllPipes)

\* What no step of communicate puts out of its type.
PipesTyped ==
    /\ ends \subseteq AllEnds /\ other \subseteq AllEnds
    /\ pipes \in [AllPipes -> Nat] /\ got \in [Outputs -> Nat] /\ made \in [Outputs -> Nat]
    /\ reader \in [Outputs -> {"none", "reading", "done"}]

\* Before the program is started: the pipes are made or not, a whole pipe each, and what the
\* process keeps of them is not inherited.
NotStarted ==
    /\ doing = "" /\ program_ends = {} /\ other \subseteq ends
    /\ made = [p \in Outputs |-> 0] /\ reader = [p \in Outputs |-> "none"]
    /\ ends \ Theirs(AllPipes) \subseteq cloexec
    /\ \A p \in Outputs : WriteEnd(p) \in ends => ReadEnd(p) \in ends

\* After that the process has ends of its own only, which no program that it starts gets; and
\* where a reader is done, or was not needed, nothing is left and nobody can write.
Communicating ==
    /\ ends \subseteq Ours(AllPipes) \cap cloexec
    /\ \A p \in Outputs :
          /\ reader[p] # "none"
          /\ reader[p] = "done" =>
                ReadEnd(p) \notin ends /\ pipes[p] = 0 /\ ~Open(WriteEnd(p))

SubprocessInv ==
    /\ PipesTyped
    /\ \A p \in Outputs : got[p] + pipes[p] = made[p]
    /\ doing \in Outputs => WriteEnd(doing) \in program_ends
    /\ caller = "idle" => NotStarted
    /\ caller # "idle" => Communicating
    /\ caller \in {"out", "err", "returned"} => WriteEnd("in") \notin ends
    /\ caller \in {"err", "returned"} => reader["out"] = "done"
    /\ caller = "returned" => reader["err"] = "done"

\* An end is of one pipe and one way, and of the process or of the program.
LEMMA EndFacts ==
    /\ "out" \in Outputs /\ "err" \in Outputs /\ "in" \notin Outputs
    /\ Outputs \subseteq AllPipes /\ "in" \in AllPipes
    /\ \A p, q \in AllPipes :
          /\ ReadEnd(p) # WriteEnd(q)
          /\ ReadEnd(p) = ReadEnd(q) => p = q
          /\ WriteEnd(p) = WriteEnd(q) => p = q
    /\ \A p \in Outputs : WriteEnd(p) \in Theirs(AllPipes) /\ WriteEnd(p) \notin Ours(AllPipes)
    /\ Ours(AllPipes) \subseteq {WriteEnd("in"), ReadEnd("out"), ReadEnd("err")}
    /\ AllEnds \ Theirs(AllPipes) \subseteq Ours(AllPipes)
    /\ Theirs({"in"} \cup Outputs) = Theirs(AllPipes)
  BY DEF Outputs, AllPipes, AllEnds, ReadEnd, WriteEnd, Ours, Theirs

LEMMA MadePipes == ASSUME SubprocessInv, MakePipes PROVE SubprocessInv'
  <1> PICK ps \in {{"in", "out"}, {"in", "out", "err"}} :
          ends' = Ours(ps) \cup Theirs(ps) /\ cloexec' = cloexec \cup Ours(ps)
    BY DEF MakePipes, io_setinherit
  <1>0. /\ caller = "idle" /\ ends = {}
        /\ UNCHANGED <<caller, pipes, reader, got, other, made, program_ends, doing>>
    BY DEF MakePipes, programVars
  <1>1. ps \subseteq AllPipes
    BY DEF AllPipes, Outputs
  <1>2. Ours(ps) \cup Theirs(ps) \subseteq AllEnds /\ Theirs(ps) \subseteq Theirs(AllPipes)
    BY <1>1 DEF Ours, Theirs, AllEnds
  <1>3. \A p \in Outputs : WriteEnd(p) \in Ours(ps) \cup Theirs(ps) => ReadEnd(p) \in Ours(ps)
    BY DEF Ours, Theirs, ReadEnd, WriteEnd, Outputs
  <1>4. PipesTyped'
    BY <1>0, <1>2 DEF PipesTyped, SubprocessInv
  <1>5. NotStarted'
    BY <1>0, <1>2, <1>3 DEF NotStarted, SubprocessInv
  <1> QED
    BY <1>0, <1>4, <1>5 DEF SubprocessInv

LEMMA OtherStarted == ASSUME SubprocessInv, OtherStarts PROVE SubprocessInv'
  <1>0. /\ UNCHANGED <<caller, ends, cloexec, pipes, reader, got, made, program_ends, doing>>
        /\ other' \subseteq ends \ cloexec /\ other' # {}
    BY DEF OtherStarts, Inherited, programVars
  <1>1. caller = "idle"
    BY <1>0 DEF SubprocessInv, Communicating
  <1>2. PipesTyped' /\ NotStarted'
    BY <1>0, <1>1 DEF PipesTyped, NotStarted, SubprocessInv
  <1> QED
    BY <1>0, <1>1, <1>2 DEF SubprocessInv

LEMMA ProgramStarted == ASSUME SubprocessInv, Communicate PROVE SubprocessInv'
  <1>0. /\ caller = "idle" /\ caller' = "write" /\ doing' = "none"
        /\ UNCHANGED <<cloexec, pipes, got, other, made>>
        /\ ends' = ends \ Theirs(AllPipes)
        /\ program_ends' \subseteq ends
        /\ reader' = [p \in Outputs |-> IF Piped(p) THEN "reading" ELSE "done"]
    <2>1. ends' = ends \ (ends \cap Theirs(AllPipes))
      BY EndFacts DEF Communicate, Fork, io_raw_close
    <2>2. Inherited \subseteq ends
      BY DEF Inherited
    <2>3. program_ends' \subseteq ends
      BY <2>2, EndFacts DEF Communicate, Fork
    <2> QED
      BY <2>1, <2>3 DEF Communicate, Fork
  <1>1. /\ NotStarted /\ PipesTyped
        /\ \A p \in Outputs : got[p] + pipes[p] = made[p]
    BY <1>0 DEF SubprocessInv
  <1>2. PipesTyped'
    BY <1>0, <1>1 DEF PipesTyped
  <1>3. ends' \subseteq Ours(AllPipes) \cap cloexec'
    BY <1>0, <1>1, EndFacts DEF PipesTyped, NotStarted
  <1>4. ASSUME NEW p \in Outputs
        PROVE  /\ reader'[p] # "none"
               /\ reader'[p] = "done" =>
                     ReadEnd(p) \notin ends' /\ pipes'[p] = 0 /\ ~Open(WriteEnd(p))'
    <2>1. got[p] + pipes[p] = 0 /\ got[p] \in Nat /\ pipes[p] \in Nat
      BY <1>1, EndFacts DEF PipesTyped, NotStarted
    <2>2. pipes[p] = 0
      BY <2>1
    <2>3. reader'[p] # "none" /\ (reader'[p] = "done" => ~Piped(p))
      BY <1>0
    <2>4. ~Piped(p) => ReadEnd(p) \notin ends /\ WriteEnd(p) \notin ends
      BY <1>1 DEF Piped, NotStarted
    <2>5. ~Piped(p) => ~Open(WriteEnd(p))'
      BY <2>4, <1>0, <1>1 DEF NotStarted, Open
    <2> QED
      BY <2>2, <2>3, <2>4, <2>5, <1>0
  <1>5. Communicating'
    BY <1>3, <1>4 DEF Communicating
  <1> QED
    BY <1>0, <1>1, <1>2, <1>5 DEF SubprocessInv, Outputs

\* The input: an end of the process is closed, or the pipe of the input changes.
LEMMA InputWritten == ASSUME SubprocessInv, WriteNext PROVE SubprocessInv'
  <1>0. /\ caller # "idle" /\ caller' # "idle"
        /\ UNCHANGED <<cloexec, reader, got, other, made, program_ends, doing>>
        /\ ends' \subseteq ends
        /\ caller' \in {"out", "err", "returned"} => WriteEnd("in") \notin ends'
        /\ caller' \notin {"err", "returned"}
        /\ pipes' \in [AllPipes -> Nat] /\ \A p \in Outputs : pipes'[p] = pipes[p]
    <2>1. pipes \in [AllPipes -> Nat]
      BY DEF SubprocessInv, PipesTyped
    <2>2. CASE WriteSome
      <3>1. PICK n \in 1..rest : pipes' = [pipes EXCEPT !["in"] = @ + n]
        BY <2>2 DEF WriteSome
      <3>2. n \in Nat
        OBVIOUS
      <3>3. pipes["in"] + n \in Nat
        BY <2>1, <3>2, EndFacts
      <3>4. pipes' \in [AllPipes -> Nat] /\ \A p \in Outputs : pipes'[p] = pipes[p]
        BY <2>1, <3>1, <3>3, EndFacts
      <3> QED
        BY <3>4, <2>2 DEF WriteSome, programVars
    <2>3. CASE WriteEnds \/ BrokenPipe \/ Writeable
      BY <2>1, <2>3, EndFacts DEF WriteEnds, BrokenPipe, Writeable, InputDone, io_raw_close, programVars
    <2> QED
      BY <2>2, <2>3 DEF WriteNext
  <1>1. PipesTyped'
    BY <1>0 DEF PipesTyped, SubprocessInv
  <1>2. Communicating'
    BY <1>0 DEF Communicating, SubprocessInv, Open
  <1> QED
    BY <1>0, <1>1, <1>2 DEF SubprocessInv

LEMMA OutputRead ==
    ASSUME SubprocessInv, NEW p \in Outputs, ReadOutput(p) PROVE SubprocessInv'
  <1>0. /\ UNCHANGED <<caller, ends, cloexec, reader, other, made, program_ends, doing>>
        /\ reader[p] = "reading"
        /\ got' = [got EXCEPT ![p] = @ + pipes[p]]
        /\ pipes' = [pipes EXCEPT ![p] = 0]
    BY DEF ReadOutput, programVars
  <1>1. /\ pipes \in [AllPipes -> Nat] /\ got \in [Outputs -> Nat] /\ p \in AllPipes
        /\ made \in [Outputs -> Nat]
    BY EndFacts DEF SubprocessInv, PipesTyped
  <1>2. got[p] + pipes[p] \in Nat
    BY <1>1
  <1>3. got' \in [Outputs -> Nat] /\ pipes' \in [AllPipes -> Nat]
    BY <1>0, <1>1, <1>2
  <1>4. \A q \in Outputs : got'[q] + pipes'[q] = made[q]
    <2> SUFFICES ASSUME NEW q \in Outputs PROVE got'[q] + pipes'[q] = made[q]
      OBVIOUS
    <2>1. got[q] + pipes[q] = made[q] /\ q \in AllPipes
      BY EndFacts DEF SubprocessInv
    <2>2. CASE q = p
      <3>1. got'[q] = made[q] /\ pipes'[q] = 0 /\ made[q] \in Nat
        BY <1>0, <1>1, <2>1, <2>2
      <3> QED
        BY <3>1
    <2>3. CASE q # p
      BY <2>3, <1>0, <1>1, <2>1
    <2> QED
      BY <2>2, <2>3
  <1>5. caller # "idle"
    BY <1>0 DEF SubprocessInv, NotStarted
  <1>6. Communicating'
    BY <1>0, <1>1, <1>5 DEF Communicating, SubprocessInv, Open
  <1>7. PipesTyped'
    BY <1>0, <1>3 DEF PipesTyped, SubprocessInv
  <1> QED
    BY <1>0, <1>4, <1>5, <1>6, <1>7 DEF SubprocessInv

LEMMA OutputEnded ==
    ASSUME SubprocessInv, NEW p \in Outputs, ReadEof(p) PROVE SubprocessInv'
  <1>0. /\ UNCHANGED <<caller, cloexec, pipes, got, other, made, program_ends, doing>>
        /\ reader[p] = "reading" /\ pipes[p] = 0 /\ ~Open(WriteEnd(p))
        /\ ends' = ends \ {ReadEnd(p)}
        /\ reader' = [reader EXCEPT ![p] = "done"]
    BY DEF ReadEof, programVars, io_raw_close
  <1>1. reader \in [Outputs -> {"none", "reading", "done"}]
    BY DEF SubprocessInv, PipesTyped
  <1>2. PipesTyped'
    BY <1>0, <1>1 DEF PipesTyped, SubprocessInv
  <1>3. caller # "idle"
    BY <1>0 DEF SubprocessInv, NotStarted
  <1>4. Communicating'
    BY <1>0, <1>1, <1>3 DEF Communicating, SubprocessInv, Open
  <1>5. reader'["out"] = reader["out"] \/ reader'["out"] = "done"
    BY <1>0, <1>1, EndFacts
  <1>6. reader'["err"] = reader["err"] \/ reader'["err"] = "done"
    BY <1>0, <1>1, EndFacts
  <1> QED
    BY <1>0, <1>2, <1>3, <1>4, <1>5, <1>6 DEF SubprocessInv

LEMMA OutputsReceived == ASSUME SubprocessInv, Receive PROVE SubprocessInv'
  <1>0. UNCHANGED <<ends, cloexec, pipes, reader, got, other, made, program_ends, doing>>
    BY DEF Receive, programVars
  <1>1. \/ caller = "out" /\ reader["out"] = "done" /\ caller' = "err"
        \/ caller = "err" /\ reader["err"] = "done" /\ caller' = "returned"
    BY DEF Receive
  <1>2. PipesTyped' /\ Communicating'
    BY <1>0, <1>1 DEF PipesTyped, Communicating, SubprocessInv, Open
  <1> QED
    BY <1>0, <1>1, <1>2 DEF SubprocessInv

\* The program closes ends, and writes to those it has open.
LEMMA ProgramRan == ASSUME SubprocessInv, ProgramNext PROVE SubprocessInv'
  <1>0. /\ UNCHANGED <<caller, ends, cloexec, reader, got, other>>
        /\ program_ends' \subseteq program_ends
        /\ doing # ""
    BY DEF ProgramNext, Choose, ProgramReads, ProgramWrites, callVars, Outputs
  <1>1. caller # "idle"
    BY <1>0 DEF SubprocessInv, NotStarted
  <1>2. pipes \in [AllPipes -> Nat] /\ made \in [Outputs -> Nat] /\ got \in [Outputs -> Nat]
    BY DEF SubprocessInv, PipesTyped
  <1>3. CASE Choose
    <2>1. UNCHANGED <<pipes, made>>
      BY <1>3 DEF Choose, callVars
    <2>2. doing' \in Outputs => WriteEnd(doing') \in program_ends'
      BY <1>3 DEF Choose, Outputs
    <2>3. PipesTyped' /\ Communicating'
      BY <1>0, <1>1, <2>1 DEF PipesTyped, Communicating, SubprocessInv, Open
    <2> QED
      BY <1>0, <1>1, <2>1, <2>2, <2>3 DEF SubprocessInv
  <1>4. CASE ProgramReads
    <2>1. /\ made' = made /\ doing' = "none" /\ pipes' \in [AllPipes -> Nat]
          /\ \A p \in Outputs : pipes'[p] = pipes[p]
      <3>1. CASE pipes' = pipes
        BY <1>2, <1>4, <3>1 DEF ProgramReads
      <3>2. CASE \E n \in 1..pipes["in"] : pipes' = [pipes EXCEPT !["in"] = @ - n]
        <4>1. PICK n \in 1..pipes["in"] : pipes' = [pipes EXCEPT !["in"] = @ - n]
          BY <3>2
        <4>2. \A k \in Nat : \A m \in 1..k : k - m \in Nat
          OBVIOUS
        <4>3. pipes["in"] - n \in Nat
          BY <4>2, <1>2, EndFacts
        <4> QED
          BY <4>1, <4>3, <1>2, <1>4, EndFacts DEF ProgramReads
      <3> QED
        BY <3>1, <3>2, <1>4 DEF ProgramReads
    <2>2. PipesTyped' /\ Communicating'
      BY <1>0, <1>1, <2>1 DEF PipesTyped, Communicating, SubprocessInv, Open
    <2> QED
      BY <1>0, <1>1, <2>1, <2>2 DEF SubprocessInv, Outputs
  <1>5. ASSUME NEW p \in Outputs, ProgramWrites(p) PROVE SubprocessInv'
    <2>1. /\ doing = p /\ doing' = "none"
          /\ pipes' = [pipes EXCEPT ![p] = @ + 1] /\ made' = [made EXCEPT ![p] = @ + 1]
          /\ p \in AllPipes
      BY <1>5, EndFacts DEF ProgramWrites
    <2>2. reader[p] # "done"
      BY <1>1, <2>1 DEF SubprocessInv, Communicating, Open
    <2>3. pipes' \in [AllPipes -> Nat] /\ made' \in [Outputs -> Nat]
      BY <2>1, <1>2
    <2>4. \A q \in Outputs : got[q] + pipes'[q] = made'[q]
      <3> SUFFICES ASSUME NEW q \in Outputs PROVE got[q] + pipes'[q] = made'[q]
        OBVIOUS
      <3>1. /\ got[q] + pipes[q] = made[q] /\ q \in AllPipes
            /\ got[q] \in Nat /\ pipes[q] \in Nat /\ made[q] \in Nat
        BY EndFacts, <1>2 DEF SubprocessInv
      <3>2. CASE q = p
        <4>1. pipes'[q] = pipes[q] + 1 /\ made'[q] = made[q] + 1
          BY <2>1, <3>1, <3>2, <1>2
        <4> QED
          BY <4>1, <3>1
      <3>3. CASE q # p
        BY <3>3, <2>1, <3>1, <1>2
      <3> QED
        BY <3>2, <3>3
    <2>5. Communicating'
      <3>1. \A q \in Outputs : q # p => pipes'[q] = pipes[q]
        BY <2>1, <1>2, EndFacts
      <3> QED
        BY <3>1, <1>0, <1>1, <2>2 DEF Communicating, SubprocessInv, Open
    <2>6. PipesTyped'
      BY <1>0, <2>3 DEF PipesTyped, SubprocessInv
    <2> QED
      BY <1>0, <1>1, <2>1, <2>4, <2>5, <2>6 DEF SubprocessInv, Outputs
  <1> QED
    BY <1>3, <1>4, <1>5 DEF ProgramNext

LEMMA SubprocessStep == SubprocessInv /\ [SubprocessNext]_subprocessVars => SubprocessInv'
  <1> SUFFICES ASSUME SubprocessInv, [SubprocessNext]_subprocessVars PROVE SubprocessInv'
    OBVIOUS
  <1>1. CASE Wait \/ Reap \/ UNCHANGED subprocessVars
    <2>1. UNCHANGED <<callVars, programVars>>
      BY <1>1 DEF Wait, Reap, subprocessVars
    <2>2. (PipesTyped /\ UNCHANGED <<callVars, programVars>>) => PipesTyped'
      BY DEF PipesTyped, callVars, programVars
    <2>3. (NotStarted /\ UNCHANGED <<callVars, programVars>>) => NotStarted'
      BY DEF NotStarted, callVars, programVars
    <2>4. (Communicating /\ UNCHANGED <<callVars, programVars>>) => Communicating'
      BY DEF Communicating, callVars, programVars, Open
    <2> QED
      BY <2>1, <2>2, <2>3, <2>4 DEF SubprocessInv, callVars, programVars
  <1> QED
    BY <1>1, MadePipes, OtherStarted, ProgramStarted, InputWritten, OutputRead, OutputEnded,
       OutputsReceived, ProgramRan DEF SubprocessNext

\* Whatever the program writes and closes, in whatever order the readers run, what communicate
\* returns is all of it and the pipes are closed (subproc.lua:116), for pipes of any capacity
\* and outputs of any length: also when another program inherited their ends.
THEOREM CommunicateReturnsAll == SubprocessSpec => []AllReturned
  <1>1. SubprocessInit => SubprocessInv
    <2> SUFFICES ASSUME SubprocessInit PROVE SubprocessInv
      OBVIOUS
    <2>1. PipesTyped
      BY DEF SubprocessInit, PipesTyped, AllPipes
    <2>2. NotStarted
      BY DEF SubprocessInit, NotStarted
    <2>3. \A p \in Outputs : got[p] + pipes[p] = made[p]
      <3>1. \A p \in Outputs : got[p] = 0 /\ pipes[p] = 0 /\ made[p] = 0
        BY DEF SubprocessInit
      <3> QED
        BY <3>1
    <2> QED
      BY <2>1, <2>2, <2>3 DEF SubprocessInit, SubprocessInv, Outputs
  <1>2. SubprocessInv => AllReturned
    <2> SUFFICES ASSUME SubprocessInv, caller = "returned"
                 PROVE  /\ ends = {}
                        /\ \A p \in Outputs : got[p] = made[p] /\ WriteEnd(p) \notin program_ends
      BY DEF AllReturned
    <2>1. \A p \in Outputs : reader[p] = "done"
      BY DEF SubprocessInv, Outputs
    <2>2. Communicating /\ WriteEnd("in") \notin ends
      BY DEF SubprocessInv
    <2>3. ends = {}
      BY <2>1, <2>2, EndFacts DEF Communicating
    <2>4. \A p \in Outputs : got[p] = made[p]
      <3> SUFFICES ASSUME NEW p \in Outputs PROVE got[p] = made[p]
        OBVIOUS
      <3>1. got[p] + pipes[p] = made[p] /\ got[p] \in Nat /\ pipes[p] = 0
        BY <2>1, <2>2 DEF Communicating, SubprocessInv, PipesTyped
      <3> QED
        BY <3>1
    <2> QED
      BY <2>1, <2>2, <2>3, <2>4 DEF Communicating, Open
  <1> QED
    BY <1>1, <1>2, SubprocessStep, PTL DEF SubprocessSpec

----------------------------------------------------------------------------
(* Devices *)

\* What division leaves.
LEMMA Division ==
    ASSUME NEW a \in Nat, NEW b \in Nat \ {0}
    PROVE  /\ a \div b \in Nat /\ a % b \in 0..(b - 1)
           /\ a = b * (a \div b) + (a % b)
  BY SMT

LEMMA PageFacts ==
    ASSUME NEW a \in Nat
    PROVE  /\ PageOf(a) \in 0..a /\ a < PageOf(a) + PageSize
           /\ PageOf(a + PageSize - 1) >= a
  <1>1. PageSize \in Nat \ {0}
    BY DeviceParameters
  <1>2. a + PageSize - 1 \in Nat
    BY <1>1
  <1>3. a % PageSize \in 0..(PageSize - 1) /\ (a + PageSize - 1) % PageSize \in 0..(PageSize - 1)
    BY <1>1, <1>2, Division
  <1>4. a % PageSize <= a
    <2>1. a % PageSize <= a \/ PageSize * (a \div PageSize) < 0
      BY <1>1, Division
    <2>2. \A m, n \in Nat : m * n >= 0
      OBVIOUS
    <2> QED
      BY <2>1, <2>2, <1>1, Division
  <1> QED
    BY <1>1, <1>3, <1>4 DEF PageOf

LEMMA PagesFact ==
    ASSUME NEW p \in Places
    PROVE  LET m == PagesFor(p)
           IN /\ m \in [mapbase : Nat, basesize : Nat, mem : Nat, size : Nat]
              /\ m.mapbase + m.mem = p.addr
              /\ m.mem + m.size = m.basesize
              /\ m.size >= p.size
  <1>1. p.addr \in Nat /\ p.size \in Nat \ {0} /\ PageSize \in Nat \ {0}
    BY DeviceParameters
  <1> DEFINE s == PageOf(p.addr)
             e == PageOf(p.addr + p.size + PageSize - 1)
  <1>2. s \in 0..p.addr
    BY <1>1, PageFacts
  <1>3. p.addr + p.size \in Nat
    BY <1>1
  <1>4. e >= p.addr + p.size /\ e \in Nat
    <2>1. p.addr + p.size + PageSize - 1 \in Nat
      BY <1>1
    <2> QED
      BY <1>3, <2>1, PageFacts
  <1>5. PagesFor(p) = [mapbase |-> s, basesize |-> e - s, mem |-> p.addr - s,
                       size |-> e - s - (p.addr - s)]
    BY DEF PagesFor
  <1> HIDE DEF s, e
  <1>6. /\ s \in Nat /\ e - s \in Nat /\ p.addr - s \in Nat /\ e - s - (p.addr - s) \in Nat
        /\ s + (p.addr - s) = p.addr
        /\ p.addr - s + (e - s - (p.addr - s)) = e - s
        /\ e - s - (p.addr - s) >= p.size
    BY <1>1, <1>2, <1>4
  <1> QED
    BY <1>5, <1>6

\* An object is not mapped, or maps the pages of what was asked for; and until a byte was
\* written outside of a mapping, memory is as the callers put it.
MapInv ==
    /\ \A o \in Maps : \/ lmm[o] = Unmapped
                       \/ asked[o] \in Places /\ lmm[o] = PagesFor(asked[o])
    /\ \A o \in Maps : asked[o] = Nowhere => lmm[o] = Unmapped
    /\ lmm = [o \in Maps |-> lmm[o]] /\ asked = [o \in Maps |-> asked[o]]
    /\ dev_mem = [a \in Addresses |-> dev_mem[a]] /\ meant = [a \in Addresses |-> meant[a]]
    /\ overrun => unsized
    /\ ~overrun => dev_mem = meant

LEMMA ObjectFacts ==
    ASSUME MapInv, NEW o \in Maps
    PROVE  /\ lmm[o] \in [mapbase : Nat, basesize : Nat, mem : Nat, size : Nat]
           /\ lmm[o].mem + lmm[o].size = lmm[o].basesize
           /\ lmm[o] # Unmapped => /\ lmm[o].mapbase + lmm[o].mem = asked[o].addr
                                   /\ lmm[o].size >= asked[o].size
                                   /\ asked[o].addr \in Nat
  <1>1. CASE lmm[o] = Unmapped
    <2>1. /\ lmm[o].mem = 0 /\ lmm[o].size = 0 /\ lmm[o].basesize = 0
          /\ lmm[o] \in [mapbase : Nat, basesize : Nat, mem : Nat, size : Nat]
      BY <1>1 DEF Unmapped
    <2> QED
      BY <1>1, <2>1
  <1>2. CASE asked[o] \in Places /\ lmm[o] = PagesFor(asked[o])
    BY <1>2, PagesFact, DeviceParameters
  <1> QED
    BY <1>1, <1>2 DEF MapInv

\* What is stored inside of a mapping reaches the addresses it is meant for.
LEMMA Stored ==
    ASSUME MapInv, NEW o \in Maps, NEW start \in Nat, NEW bytes, Len(bytes) \in Nat,
           Store(o, start, bytes), ~overrun'
    PROVE  dev_mem' = meant'
  <1>1. ~overrun /\ lmm[o].mem + start + Len(bytes) <= lmm[o].basesize
    <2>1. /\ ~overrun /\ ~(lmm[o].mem + start + Len(bytes) > lmm[o].basesize)
      BY DEF Store
    <2> QED
      BY <2>1, ObjectFacts
  <1>2. dev_mem = meant
    BY <1>1 DEF MapInv
  <1> DEFINE b == lmm[o].mapbase + lmm[o].mem
             c == asked[o].addr
             e == lmm[o].mapbase + lmm[o].basesize
             n == Len(bytes)
  <1>3. /\ dev_mem' = [a \in Addresses |->
              IF a - b - start + 1 \in 1..n /\ a < e
              THEN bytes[a - b - start + 1] ELSE dev_mem[a]]
        /\ meant' = [a \in Addresses |->
              IF a - c - start + 1 \in 1..n THEN bytes[a - c - start + 1] ELSE meant[a]]
    BY DEF Store
  <1>4. \A a \in Addresses : a \in Int
    BY DEF Addresses
  <1>5. CASE lmm[o] = Unmapped
    <2>1. n = 0
      <3>1. lmm[o].mem = 0 /\ lmm[o].basesize = 0
        BY <1>5 DEF Unmapped
      <3>2. \A k \in Nat : 0 + start + k <= 0 => k = 0
        OBVIOUS
      <3> QED
        BY <1>1, <3>1, <3>2
    <2>2. \A i : i \notin 1..n
      BY <2>1
    <2> HIDE DEF b, c, e, n
    <2> QED
      BY <1>2, <1>3, <2>2
  <1>6. CASE lmm[o] # Unmapped
    <2>1. b = c /\ b \in Int
      BY <1>6, ObjectFacts
    <2>2. e >= b + start + n /\ e \in Int /\ n \in Nat
      <3>1. /\ lmm[o].mapbase \in Nat /\ lmm[o].mem \in Nat /\ lmm[o].basesize \in Nat
            /\ n \in Nat
        BY ObjectFacts
      <3>2. lmm[o].mem + start + n <= lmm[o].basesize
        BY <1>1
      <3> DEFINE j == lmm[o].mapbase
                 k == lmm[o].mem
                 l == lmm[o].basesize
      <3>3. j \in Nat /\ k \in Nat /\ l \in Nat /\ n \in Nat /\ k + start + n <= l
        BY <3>1, <3>2
      <3> HIDE DEF j, k, l, n
      <3>4. j + k \in Int /\ j + l \in Int /\ j + l >= j + k + start + n
        BY <3>3
      <3> QED
        BY <3>3, <3>4 DEF j, k, l
    <2> HIDE DEF b, c, e, n
    <2>3. \A a \in Addresses : a - b - start + 1 \in 1..n => a < e
      BY <1>4, <2>1, <2>2
    <2> QED
      BY <1>2, <1>3, <2>1, <2>3
  <1> QED
    BY <1>5, <1>6

\* A number has as many bytes as are asked for.
LEMMA NumberLength ==
    ASSUME NEW x, NEW n \in Nat
    PROVE  Len(BytesOfNumber(x, n)) = n
  <1> DEFINE byte(i) == (x \div ByteBase^(i - 1)) % ByteBase
             s == [i \in 1..n |-> byte(i)]
             S == {byte(i) : i \in 1..n}
  <1>1. BytesOfNumber(x, n) = s
    BY DEF BytesOfNumber
  <1>2. s \in [1..n -> S]
    OBVIOUS
  <1> HIDE DEF s, S
  <1>3. s \in Seq(S)
    BY <1>2, SeqDef
  <1>4. Len(s) \in Nat /\ DOMAIN s = 1..Len(s) /\ DOMAIN s = 1..n
    BY <1>2, <1>3, LenProperties
  <1>5. \A k \in Nat : 1..k = 1..n => k = n
    <2> SUFFICES ASSUME NEW k \in Nat, 1..k = 1..n PROVE k = n
      OBVIOUS
    <2>1. k \in 1..k \/ k = 0
      OBVIOUS
    <2>2. n \in 1..n \/ n = 0
      OBVIOUS
    <2>3. n \in 1..k \/ n = 0
      BY <2>2
    <2>4. k \in 1..n \/ k = 0
      BY <2>1
    <2> QED
      BY <2>3, <2>4
  <1> QED
    BY <1>1, <1>4, <1>5

\* A store leaves the invariant, if the test of its length was made.
LEMMA StoredInside ==
    ASSUME MapInv, NEW o \in Maps, NEW start \in Nat, NEW bytes, Len(bytes) \in Nat,
           Store(o, start, bytes),
           unsized => unsized', unsized' \/ Inside(o, start, Len(bytes))
    PROVE  MapInv'
  <1>1. UNCHANGED <<lmm, asked>>
    BY DEF Store
  <1>2. dev_mem' = [a \in Addresses |-> dev_mem'[a]] /\ meant' = [a \in Addresses |-> meant'[a]]
    BY DEF Store
  <1>3. overrun' => unsized'
    <2>1. CASE unsized'
      BY <2>1
    <2>2. CASE Inside(o, start, Len(bytes))
      <3>1. start + Len(bytes) <= lmm[o].size
        BY <2>2 DEF Inside, lua_mmap__len
      <3>2. ~(lmm[o].mem + start + Len(bytes) > lmm[o].basesize)
        BY <3>1, ObjectFacts
      <3>3. overrun' => overrun
        BY <3>2 DEF Store
      <3> QED
        BY <3>3 DEF MapInv
    <2> QED
      BY <2>1, <2>2
  <1>4. ~overrun' => dev_mem' = meant'
    BY Stored
  <1> QED
    BY <1>1, <1>2, <1>3, <1>4 DEF MapInv

LEMMA Mapped ==
    ASSUME MapInv, NEW o \in Maps, NEW p \in Places, lua_mmap_new(o, p) PROVE MapInv'
  <1>1. /\ lmm' = [lmm EXCEPT ![o] = PagesFor(p)] /\ asked' = [asked EXCEPT ![o] = p]
        /\ UNCHANGED <<dev_mem, meant, overrun, unsized, puts>>
    BY DEF lua_mmap_new
  <1>2. p # Nowhere
    BY DeviceParameters DEF Nowhere
  <1>3. /\ lmm' = [q \in Maps |-> IF q = o THEN PagesFor(p) ELSE lmm[q]]
        /\ asked' = [q \in Maps |-> IF q = o THEN p ELSE asked[q]]
    BY <1>1 DEF MapInv
  <1> QED
    BY <1>1, <1>2, <1>3 DEF MapInv

LEMMA Collected == ASSUME MapInv, NEW o \in Maps, lua_mmap__gc(o) PROVE MapInv'
  <1>1. /\ lmm' = [lmm EXCEPT ![o].mem = 0, ![o].size = 0, ![o].basesize = 0, ![o].mapbase = 0]
        /\ UNCHANGED <<dev_mem, asked, meant, overrun, unsized, puts>>
    BY DEF lua_mmap__gc
  <1>2. lmm[o] \in [mapbase : Nat, basesize : Nat, mem : Nat, size : Nat]
    BY ObjectFacts
  <1>3. lmm' = [q \in Maps |-> IF q = o THEN Unmapped ELSE lmm[q]]
    <2>1. o \in DOMAIN lmm
      BY DEF MapInv
    <2>2. lmm'[o] = [[[[lmm[o] EXCEPT !.mem = 0] EXCEPT !.size = 0] EXCEPT !.basesize = 0]
                        EXCEPT !.mapbase = 0]
      BY <1>1, <2>1
    <2>3. lmm'[o] = Unmapped
      BY <2>2, <1>2 DEF Unmapped
    <2>4. \A q \in Maps : q # o => lmm'[q] = lmm[q]
      BY <1>1 DEF MapInv
    <2>5. lmm' = [q \in Maps |-> lmm'[q]]
      BY <1>1 DEF MapInv
    <2> QED
      BY <2>3, <2>4, <2>5
  <1> QED
    BY <1>1, <1>3 DEF MapInv

LEMMA Written ==
    ASSUME MapInv, NEW o \in Maps, NEW start \in Starts, NEW b \in DataBlocks,
           lua_mmap_write(o, b, start)
    PROVE  MapInv'
  <1>1. Len(b) \in Nat /\ start \in Nat
    BY DeviceParameters, LenProperties
  <1>2. Store(o, start, b) /\ (unsized => unsized') /\ Inside(o, start, Len(b))
    BY DEF lua_mmap_write
  <1> QED
    BY <1>1, <1>2, StoredInside

LEMMA Put ==
    ASSUME MapInv, NEW o \in Maps, NEW start \in Starts, NEW len \in Lengths \cup {Omitted},
           NEW x \in Numbers, lua_mmap_put(o, start, len, x)
    PROVE  MapInv'
  <1> DEFINE n == IF len = Omitted THEN 8 ELSE len
             b == BytesOfNumber(x, n)
  <1>1. /\ n \in Nat /\ Store(o, start, b)
        /\ unsized' = (unsized \/ len = Omitted)
        /\ len # Omitted => Inside(o, start, n)
    BY DEF lua_mmap_put
  <1> HIDE DEF n
  <1>2. Len(b) = n
    BY <1>1, NumberLength
  <1> HIDE DEF b
  <1>3. start \in Nat
    BY DeviceParameters
  <1>4. (unsized => unsized') /\ (unsized' \/ Inside(o, start, Len(b)))
    BY <1>1, <1>2
  <1> QED
    BY <1>1, <1>2, <1>3, <1>4, StoredInside

LEMMA MapStep == MapInv /\ [MapNext \/ SerialNext]_deviceVars => MapInv'
  <1> SUFFICES ASSUME MapInv, [MapNext \/ SerialNext]_deviceVars PROVE MapInv'
    OBVIOUS
  <1>1. CASE UNCHANGED mapVars
    BY <1>1 DEF MapInv, mapVars
  <1>2. CASE MapNext
    BY <1>2, Mapped, Written, Put, Collected DEF MapNext
  <1> QED
    BY <1>1, <1>2 DEF SerialNext, deviceVars

\* What MappedAsAsked says of an object, from the invariant.
LEMMA Reads ==
    ASSUME MapInv, ~overrun, NEW o \in Maps, lmm[o] # Unmapped, NEW start \in Nat, NEW len
    PROVE  Fetch(o, start, len) = [i \in 1..len |-> meant[asked[o].addr + start + i - 1]]
  <1>1. dev_mem = meant /\ lmm[o].mapbase + lmm[o].mem = asked[o].addr
    BY ObjectFacts DEF MapInv
  <1> QED
    BY <1>1 DEF Fetch

LEMMA AsAsked == MapInv => MappedAsAsked
  <1> SUFFICES ASSUME MapInv PROVE MappedAsAsked
    OBVIOUS
  <1>1. overrun => unsized
    BY DEF MapInv
  <1> SUFFICES ASSUME NEW o \in Maps, lmm[o] # Unmapped
               PROVE  /\ lua_mmap__len(o) >= asked[o].size
                      /\ ~overrun => \A start \in Starts, len \in Lengths :
                            LET there == [i \in 1..len |-> meant[asked[o].addr + start + i - 1]]
                                fits == start + len <= lua_mmap__len(o)
                            IN /\ lua_mmap_read(o, start, len) = IF fits THEN {there} ELSE {}
                               /\ len \in {1, 2, 4, 8} =>
                                     lua_mmap_get(o, start, len)
                                       = IF fits THEN {NumberOf(there)} ELSE {}
                      /\ ~overrun => lua_mmap_read(o, 0, Omitted) =
                            {[i \in 1..lua_mmap__len(o) |-> meant[asked[o].addr + i - 1]]}
    BY <1>1 DEF MappedAsAsked
  <1>2. /\ lua_mmap__len(o) \in Nat /\ lua_mmap__len(o) >= asked[o].size
        /\ asked[o].addr \in Nat
    BY ObjectFacts DEF lua_mmap__len
  <1>3. ASSUME ~overrun, NEW start \in Starts, NEW len \in Lengths
        PROVE  LET there == [i \in 1..len |-> meant[asked[o].addr + start + i - 1]]
                   fits == start + len <= lua_mmap__len(o)
               IN /\ lua_mmap_read(o, start, len) = IF fits THEN {there} ELSE {}
                  /\ len \in {1, 2, 4, 8} =>
                        lua_mmap_get(o, start, len) = IF fits THEN {NumberOf(there)} ELSE {}
    <2>1. start \in Nat /\ len \in Nat /\ len # Omitted
      BY DeviceParameters
    <2>2. Fetch(o, start, len) = [i \in 1..len |-> meant[asked[o].addr + start + i - 1]]
      BY <1>3, <2>1, Reads
    <2>3. Inside(o, start, len) <=> start + len <= lua_mmap__len(o)
      BY <1>2, <2>1 DEF Inside
    <2>4. start + len <= lua_mmap__len(o) => ~(start > lua_mmap__len(o))
      BY <1>2, <2>1
    <2> QED
      BY <2>1, <2>2, <2>3, <2>4 DEF lua_mmap_read, lua_mmap_get
  <1>4. ASSUME ~overrun
        PROVE  lua_mmap_read(o, 0, Omitted) =
                  {[i \in 1..lua_mmap__len(o) |-> meant[asked[o].addr + i - 1]]}
    <2>1. Fetch(o, 0, lua_mmap__len(o))
            = [i \in 1..lua_mmap__len(o) |-> meant[asked[o].addr + 0 + i - 1]]
      BY <1>4, Reads
    <2>2. asked[o].addr + 0 = asked[o].addr /\ ~(0 > lua_mmap__len(o))
      BY <1>2
    <2> QED
      BY <2>1, <2>2 DEF lua_mmap_read
  <1> QED
    BY <1>2, <1>3, <1>4

\* The divisor for a rate is the greatest that does not bring it below what was asked for.
LEMMA DivisorFact ==
    ASSUME NEW base \in Nat, NEW baud \in Nat \ {0}, baud <= base
    PROVE  /\ base \div baud \in Nat \ {0}
           /\ base \div (base \div baud) >= baud
           /\ base < baud * ((base \div baud) + 1)
  <1> DEFINE d == base \div baud
             r == base % baud
  <1>1. d \in Nat /\ r \in 0..(baud - 1) /\ base = baud * d + r
    BY Division
  <1> HIDE DEF d, r
  <1>2. d # 0
    <2> SUFFICES ASSUME d = 0 PROVE FALSE
      OBVIOUS
    <2>1. baud * d = 0
      OBVIOUS
    <2> QED
      BY <1>1, <2>1
  <1>3. base < baud * (d + 1)
    <2>1. baud * (d + 1) = baud * d + baud
      BY <1>1
    <2> QED
      BY <1>1, <2>1
  <1> DEFINE q == base \div d
             t == base % d
  <1>4. q \in Nat /\ t \in 0..(d - 1) /\ base = d * q + t
    BY <1>1, <1>2, Division
  <1> HIDE DEF q, t
  <1>5. q >= baud
    <2> SUFFICES ASSUME q < baud PROVE FALSE
      BY <1>4
    <2>1. d * (q + 1) <= d * baud
      <3>1. \A k, m, n \in Nat : m <= n => k * m <= k * n
        BY SMT
      <3> QED
        BY <3>1, <1>1, <1>4
    <2>2. d * (q + 1) = d * q + d /\ d * baud = baud * d
      BY <1>1, <1>4
    <2>3. d * q \in Nat /\ baud * d \in Nat
      BY <1>1, <1>4
    <2> QED
      BY <1>1, <1>4, <2>1, <2>2, <2>3
  <1> QED
    BY <1>1, <1>2, <1>3, <1>5 DEF d, q

LEMMA OptionsFact ==
    ASSUME NEW flags, NEW baud
    PROVE  /\ Options(flags, baud).csize = 8
           /\ Options(flags, baud).speed = IF baud \in NamedRates THEN baud ELSE 38400
           /\ Options(flags, baud).flags
                \cap (CookedFlags \cup {"IXOFF", "IXANY", "CRTSCTS"}) = {}
  BY DEF Options, RawFlags, CookedFlags

LEMMA SetUpAsAsked ==
    ASSUME NEW flags, NEW baud \in BaudRates, NEW failure \in {"error", "exit"},
           SetUp(flags, baud, failure)
    PROVE  LineAsAsked'
  <1> SUFFICES ASSUME answered' = "true" PROVE LineAsAsked'
    BY DEF LineAsAsked
  <1>1. /\ baudrate' = baud /\ line' = Options(flags, baud)
        /\ \/ baud \in NamedRates /\ driver' = driver
           \/ baud \notin NamedRates /\ driver' = CustomRate(baud)
    BY DEF SetUp
  <1>2. /\ line'.csize = 8
        /\ line'.flags \cap (CookedFlags \cup {"IXOFF", "IXANY", "CRTSCTS"}) = {}
        /\ line'.speed = IF baud \in NamedRates THEN baud ELSE 38400
    BY <1>1, OptionsFact
  <1>3. ASSUME baud \in NamedRates, ~(baud = 38400 /\ driver'.custom)
        PROVE  ActualRate' = baud
    BY <1>2, <1>3 DEF ActualRate
  <1>4. ASSUME baud \notin NamedRates, baud <= BaudBase
        PROVE  ActualRate' >= baud /\ BaudBase < baud * (driver'.custom_divisor + 1)
    <2>1. driver'.custom = TRUE /\ driver'.custom_divisor = BaudBase \div baud
      BY <1>1, <1>4 DEF CustomRate
    <2>2. ActualRate' = BaudBase \div (BaudBase \div baud)
      BY <2>1, <1>2, <1>4 DEF ActualRate
    <2>3. BaudBase \in Nat /\ baud \in Nat \ {0}
      BY DeviceParameters
    <2> QED
      BY <2>1, <2>2, <2>3, <1>4, DivisorFact
  <1> QED
    BY <1>1, <1>2, <1>3, <1>4 DEF LineAsAsked

LEMMA LineStep == LineAsAsked /\ [MapNext \/ SerialNext]_deviceVars => LineAsAsked'
  <1> SUFFICES ASSUME LineAsAsked, [MapNext \/ SerialNext]_deviceVars PROVE LineAsAsked'
    OBVIOUS
  <1>1. CASE UNCHANGED lineVars
    BY <1>1 DEF LineAsAsked, ActualRate, lineVars
  <1>2. CASE SerialNext
    BY <1>2, SetUpAsAsked DEF SerialNext, serial_setup, serial_setup_in_C
  <1> QED
    BY <1>1, <1>2 DEF MapNext, deviceVars

LEMMA FirstDevices == DevicesInit => MapInv /\ LineAsAsked
  <1> SUFFICES ASSUME DevicesInit PROVE MapInv /\ LineAsAsked
    OBVIOUS
  <1>1. lmm = [o \in Maps |-> Unmapped] /\ asked = [o \in Maps |-> Nowhere]
    BY DEF DevicesInit
  <1>3. dev_mem = [a \in Addresses |-> 0] /\ meant = dev_mem
    BY DEF DevicesInit
  <1>4. overrun = FALSE /\ answered = "none"
    BY DEF DevicesInit
  <1> QED
    BY <1>1, <1>3, <1>4 DEF MapInv, LineAsAsked

\* For every size of a page, every place and every rate: what is read from a mapping is what
\* was put at those addresses, and no access that has a length leaves the pages that were
\* mapped (l_mmap.c:44); and a line that was set up is raw and runs at the rate asked for, or
\* at the next one its divisor reaches (l_serial.c:107).
THEOREM DevicesDoAsAsked == DevicesSpec => []DevicesAsAsked
  <1> DEFINE Inv == MapInv /\ LineAsAsked
  <1>1. DevicesInit => Inv
    BY FirstDevices
  <1>2. Inv /\ [MapNext \/ SerialNext]_deviceVars => Inv'
    BY MapStep, LineStep
  <1>3. Inv => DevicesAsAsked
    BY AsAsked DEF DevicesAsAsked
  <1> HIDE DEF Inv
  <1> QED
    BY <1>1, <1>2, <1>3, PTL DEF DevicesSpec

----------------------------------------------------------------------------
(* Text: the automaton knows at every byte what can still come. *)

\* The prefixes of code points, when the automaton has read the beginning of the encoding of
\* one in n bytes.
Prefix(s, n, v) ==
    \/ s = 24 /\ n = 2 /\ 2 <= v /\ v <= 31
    \/ s = 24 /\ n = 3 /\ 32 <= v /\ v <= 1023 /\ (v < 864 \/ 895 < v)
    \/ s = 24 /\ n = 4 /\ 1024 <= v /\ v <= 17407
    \/ s = 36 /\ n = 3 /\ 1 <= v /\ v <= 15 /\ v # 13
    \/ s = 36 /\ n = 4 /\ 16 <= v /\ v <= 271
    \/ s = 48 /\ n = 3 /\ v = 0
    \/ s = 60 /\ n = 3 /\ v = 13
    \/ s = 72 /\ n = 4 /\ v = 0
    \/ s = 84 /\ n = 4 /\ 1 <= v /\ v <= 3
    \/ s = 96 /\ n = 4 /\ v = 4

\* How many bytes it waits for.
Left(s) == IF s = 24 THEN 1 ELSE IF s \in {36, 48, 60} THEN 2 ELSE 3

SoFar(bytes, n) ==
    LET low(i) == bytes[i] % 64
        lead == IF n = 2 THEN bytes[1] % 32 ELSE IF n = 3 THEN bytes[1] % 16 ELSE bytes[1] % 8
    IN CASE Len(bytes) = 1 -> lead
         [] Len(bytes) = 2 -> lead * 64 + low(2)
         [] Len(bytes) = 3 -> (lead * 64 + low(2)) * 64 + low(3)

AByte == 1..255
Formed(bytes, n) == Leads(bytes[1], n) /\ \A i \in 2..Len(bytes) : bytes[i] \in Continuation

\* In state s with the value v, the bytes are the beginning of an encoding in n bytes.
Partial(s, v, bytes, n) ==
    /\ Len(bytes) >= 1 /\ Len(bytes) + Left(s) = n
    /\ Formed(bytes, n)
    /\ v = SoFar(bytes, n) /\ Prefix(s, n, v)

Accepted(v, bytes) == (\E n \in 1..4 : Encodes(bytes, n)) /\ v = Value(bytes)
Rejected(bytes) == \A n \in 1..4 : ~Encodes(bytes, n) /\ ~Begins(bytes, n)

\* What the state says of the bytes.
Judged(s, v, bytes) ==
    /\ s = 0 => Accepted(v, bytes)
    /\ s = 12 => Rejected(bytes)
    /\ s \notin {0, 12} => \E n \in 2..4 : Partial(s, v, bytes, n)

TextStates == {0, 12, 24, 36, 48, 60, 72, 84, 96}

TextInv ==
    /\ textState \in TextStates /\ codepoint \in Int /\ seen \in Seq(AByte)
    /\ seen = <<>> => textState = 0
    /\ seen # <<>> => Judged(textState, codepoint, seen)
    /\ textState = 0 /\ seen # <<>> => width = Len(seen)

\* The tables.
LEMMA Classes ==
    ASSUME NEW b \in AByte
    PROVE  /\ b <= 127 => Class(b) = 0
           /\ 128 <= b /\ b <= 143 => Class(b) = 1
           /\ 144 <= b /\ b <= 159 => Class(b) = 9
           /\ 160 <= b /\ b <= 191 => Class(b) = 7
           /\ 192 <= b /\ b <= 193 => Class(b) = 8
           /\ 194 <= b /\ b <= 223 => Class(b) = 2
           /\ b = 224 => Class(b) = 10
           /\ 225 <= b /\ b <= 239 /\ b # 237 => Class(b) = 3
           /\ b = 237 => Class(b) = 4
           /\ b = 240 => Class(b) = 11
           /\ 241 <= b /\ b <= 243 => Class(b) = 6
           /\ b = 244 => Class(b) = 5
           /\ 245 <= b => Class(b) = 8
  BY DEF Class, utf8d_class, AByte

LEMMA FirstStates ==
    /\ utf8d_next[0 + 0 + 1] = 0 /\ utf8d_next[0 + 1 + 1] = 12 /\ utf8d_next[0 + 2 + 1] = 24
    /\ utf8d_next[0 + 3 + 1] = 36 /\ utf8d_next[0 + 4 + 1] = 60 /\ utf8d_next[0 + 5 + 1] = 96
    /\ utf8d_next[0 + 6 + 1] = 84 /\ utf8d_next[0 + 7 + 1] = 12 /\ utf8d_next[0 + 8 + 1] = 12
    /\ utf8d_next[0 + 9 + 1] = 12 /\ utf8d_next[0 + 10 + 1] = 48 /\ utf8d_next[0 + 11 + 1] = 72
  BY DEF utf8d_next

LEMMA LaterStates ==
    \A c \in 0..11 :
       /\ utf8d_next[24 + c + 1] = IF c \in {1, 7, 9} THEN 0 ELSE 12
       /\ utf8d_next[36 + c + 1] = IF c \in {1, 7, 9} THEN 24 ELSE 12
       /\ utf8d_next[48 + c + 1] = IF c = 7 THEN 24 ELSE 12
       /\ utf8d_next[60 + c + 1] = IF c \in {1, 9} THEN 24 ELSE 12
       /\ utf8d_next[72 + c + 1] = IF c \in {7, 9} THEN 36 ELSE 12
       /\ utf8d_next[84 + c + 1] = IF c \in {1, 7, 9} THEN 36 ELSE 12
       /\ utf8d_next[96 + c + 1] = IF c = 1 THEN 36 ELSE 12
  BY DEF utf8d_next

LEMMA LeadingBits ==
    /\ LeadBits(0) = 256 /\ LeadBits(2) = 64 /\ LeadBits(3) = 32 /\ LeadBits(4) = 16
    /\ LeadBits(5) = 8 /\ LeadBits(6) = 4 /\ LeadBits(10) = 1 /\ LeadBits(11) = 1
    /\ LeadBits(1) = 128 /\ LeadBits(7) = 2 /\ LeadBits(8) = 1 /\ LeadBits(9) = 1
  BY DEF LeadBits

\* A first byte belongs to encodings of one length.
LEMMA ContinuationBytes ==
    /\ \A b \in Int : b \in Continuation <=> 128 <= b /\ b <= 191
    /\ \A b \in Continuation : b \in AByte
  BY DEF Continuation, AByte

LEMMA OneLength ==
    ASSUME NEW b \in AByte, NEW m \in 1..4, NEW n \in 1..4, Leads(b, m), Leads(b, n)
    PROVE  m = n
  BY DEF Leads, AByte

LEMMA FirstIsByte ==
    ASSUME NEW s \in Seq(AByte), Len(s) >= 1
    PROVE  s[1] \in AByte
  OBVIOUS

\* A value with six bits more.
Then(v, w) == v * 64 + w

\* The bytes with one more, and the highest ones behind it.
Completion(s, n, f) == s \o <<f>> \o [i \in 1..(n - Len(s) - 1) |-> 191]

\* What it consists of.
Extends(t, s, n, f) ==
    /\ Len(t) = n /\ t[Len(s) + 1] = f
    /\ \A i \in 1..Len(s) : t[i] = s[i]
    /\ \A i \in (Len(s) + 2)..n : t[i] = 191

LEMMA Completed ==
    ASSUME NEW s \in Seq(AByte), Len(s) >= 1, NEW n \in 2..4, Len(s) < n, NEW f \in Continuation,
           NEW t, t = Completion(s, n, f)
    PROVE  Extends(t, s, n, f)
  <1> DEFINE u == s \o <<f>>
             w == [i \in 1..(n - Len(s) - 1) |-> 191]
  <1>1. /\ u \in Seq(AByte) /\ Len(u) = Len(s) + 1 /\ u[Len(s) + 1] = f
        /\ \A i \in 1..Len(s) : u[i] = s[i]
    BY ContinuationBytes
  <1>2. n - Len(s) - 1 \in Nat
    OBVIOUS
  <1>3. w \in Seq(AByte) /\ Len(w) = n - Len(s) - 1
    <2>1. 191 \in AByte
      BY DEF AByte
    <2> QED
      BY <1>2, <2>1
  <1>4. \A i \in 1..(n - Len(s) - 1) : w[i] = 191
    OBVIOUS
  <1>5. t = u \o w
    BY Zenon DEF u, w, Completion
  <1> HIDE DEF u, w
  <1>6. Len(t) = n /\ \A i \in 1..n : t[i] = IF i <= Len(u) THEN u[i] ELSE w[i - Len(u)]
    <2>1. Len(t) = Len(u) + Len(w)
      BY <1>1, <1>3, <1>5, ConcatProperties
    <2>2. \A i \in 1..(Len(u) + Len(w)) : t[i] = IF i <= Len(u) THEN u[i] ELSE w[i - Len(u)]
      BY <1>1, <1>3, <1>5, ConcatProperties
    <2>3. Len(u) + Len(w) = n
      BY <1>1, <1>2, <1>3
    <2> QED
      BY <2>1, <2>2, <2>3
  <1> QED
    BY <1>1, <1>2, <1>4, <1>6 DEF Extends

\* Its value.
Filled(s, n, f) ==
    CASE n - Len(s) = 1 -> SoFar(s, n) * 64 + (f % 64)
      [] n - Len(s) = 2 -> (SoFar(s, n) * 64 + (f % 64)) * 64 + 63
      [] n - Len(s) = 3 -> ((SoFar(s, n) * 64 + (f % 64)) * 64 + 63) * 64 + 63

LEMMA ValueFilled ==
    ASSUME NEW s \in Seq(AByte), Len(s) >= 1, NEW n \in 2..4, Len(s) < n, NEW f \in Continuation,
           NEW t, t = Completion(s, n, f)
    PROVE  Value(t) = Filled(s, n, f)
  <1>1. /\ Len(t) = n /\ t[Len(s) + 1] = f
        /\ \A i \in 1..Len(s) : t[i] = s[i]
        /\ \A i \in (Len(s) + 2)..n : t[i] = 191
    <2>1. Extends(t, s, n, f)
      BY Completed
    <2> QED
      BY <2>1, Zenon DEF Extends
  <1>2. 191 % 64 = 63
    OBVIOUS
  <1>3. CASE Len(s) = 1 /\ n = 2
    <2>1. Len(t) = 2 /\ t[1] = s[1] /\ t[2] = f
      BY <1>1, <1>3
    <2> QED
      BY <1>3, <2>1 DEF Value, Filled, SoFar
  <1>4. CASE Len(s) = 1 /\ n = 3
    <2>1. Len(t) = 3 /\ t[1] = s[1] /\ t[2] = f /\ t[3] = 191
      BY <1>1, <1>4
    <2> QED
      BY <1>2, <1>4, <2>1 DEF Value, Filled, SoFar
  <1>5. CASE Len(s) = 1 /\ n = 4
    <2>1. Len(t) = 4 /\ t[1] = s[1] /\ t[2] = f /\ t[3] = 191 /\ t[4] = 191
      BY <1>1, <1>5
    <2> QED
      BY <1>2, <1>5, <2>1 DEF Value, Filled, SoFar
  <1>6. CASE Len(s) = 2 /\ n = 3
    <2>1. Len(t) = 3 /\ t[1] = s[1] /\ t[2] = s[2] /\ t[3] = f
      BY <1>1, <1>6
    <2> QED
      BY <1>6, <2>1 DEF Value, Filled, SoFar
  <1>7. CASE Len(s) = 2 /\ n = 4
    <2>1. Len(t) = 4 /\ t[1] = s[1] /\ t[2] = s[2] /\ t[3] = f /\ t[4] = 191
      BY <1>1, <1>7
    <2> QED
      BY <1>2, <1>7, <2>1 DEF Value, Filled, SoFar
  <1>8. CASE Len(s) = 3 /\ n = 4
    <2>1. Len(t) = 4 /\ t[1] = s[1] /\ t[2] = s[2] /\ t[3] = s[3] /\ t[4] = f
      BY <1>1, <1>8
    <2> QED
      BY <1>8, <2>1 DEF Value, Filled, SoFar
  <1>9. \A k \in Nat : k >= 1 /\ k < n =>
           \/ k = 1 /\ n = 2
           \/ k = 1 /\ n = 3
           \/ k = 1 /\ n = 4
           \/ k = 2 /\ n = 3
           \/ k = 2 /\ n = 4
           \/ k = 3 /\ n = 4
    OBVIOUS
  <1>10. Len(s) \in Nat
    OBVIOUS
  <1> QED
    BY <1>3, <1>4, <1>5, <1>6, <1>7, <1>8, <1>9, <1>10, Zenon

LEMMA BeginsWhen ==
    ASSUME NEW s \in Seq(AByte), Len(s) >= 1, NEW n \in 2..4, Len(s) < n, Formed(s, n)
    PROVE  Begins(s, n) <=> \E f \in Continuation : CodePoint(Filled(s, n, f), n)
  <1>1. ASSUME NEW f \in Continuation
        PROVE  Encodes(Completion(s, n, f), n) <=> CodePoint(Filled(s, n, f), n)
    <2>1. PICK u : u = Completion(s, n, f)
      OBVIOUS
    <2>2. /\ Len(u) = n /\ u[Len(s) + 1] = f
          /\ \A i \in 1..Len(s) : u[i] = s[i]
          /\ \A i \in (Len(s) + 2)..n : u[i] = 191
      <3>1. Extends(u, s, n, f)
        BY <2>1, Completed
      <3> QED
        BY <3>1, Zenon DEF Extends
    <2>3. Value(u) = Filled(s, n, f)
      BY <2>1, ValueFilled
    <2>4. Leads(u[1], n)
      BY <2>2 DEF Formed
    <2>5. ASSUME NEW i \in 2..n PROVE u[i] \in Continuation
      <3>1. CASE i <= Len(s)
        BY <2>2, <3>1 DEF Formed
      <3>2. CASE i = Len(s) + 1
        BY <2>2, <3>2
      <3>3. CASE i > Len(s) + 1
        BY <2>2, <3>3, ContinuationBytes
      <3> QED
        BY <3>1, <3>2, <3>3
    <2> QED
      BY <2>1, <2>2, <2>3, <2>4, <2>5 DEF Encodes
  <1>2. Begins(s, n) <=> \E f \in Continuation : Encodes(Completion(s, n, f), n)
    BY DEF Begins, Formed, Completion
  <1> QED
    BY <1>1, <1>2

LEMMA MalformedRejected ==
    ASSUME NEW s, \A n \in 1..4 : ~Formed(s, n)
    PROVE  Rejected(s)
  <1>1. ASSUME NEW n \in 1..4, Encodes(s, n) PROVE Formed(s, n)
    BY <1>1 DEF Encodes, Formed
  <1>2. ASSUME NEW n \in 1..4, Begins(s, n) PROVE Formed(s, n)
    BY <1>2 DEF Begins, Formed
  <1> QED
    BY <1>1, <1>2 DEF Rejected

\* Of the right form, but no code point's.
LEMMA OutOfRange ==
    ASSUME NEW s \in Seq(AByte), Len(s) >= 1, NEW n \in 2..4, Len(s) < n, Formed(s, n),
           \A f \in Continuation : ~CodePoint(Filled(s, n, f), n)
    PROVE  Rejected(s)
  <1> SUFFICES ASSUME NEW m \in 1..4 PROVE ~Encodes(s, m) /\ ~Begins(s, m)
    BY DEF Rejected
  <1>1. CASE m = n
    <2>1. ~Encodes(s, n)
      BY DEF Encodes
    <2> QED
      BY <1>1, <2>1, BeginsWhen
  <1>2. CASE m # n
    <2>1. ~Leads(s[1], m)
      <3>1. s[1] \in AByte /\ Leads(s[1], n)
        BY FirstIsByte DEF Formed
      <3>2. n \in 1..4
        OBVIOUS
      <3> QED
        BY <1>2, <3>1, <3>2, OneLength
    <2> QED
      BY <2>1 DEF Encodes, Begins
  <1> QED
    BY <1>1, <1>2

\* A prefix with its highest or lowest byte behind it is a code point.
LEMMA OneMissing ==
    ASSUME NEW v \in Int, NEW n \in 2..4, Prefix(24, n, v)
    PROVE  CodePoint(v * 64 + 63, n)
  <1>1. CASE n = 2 /\ 2 <= v /\ v <= 31
    <2>1. 128 <= v * 64 + 63 /\ v * 64 + 63 <= 2047
      BY <1>1
    <2> QED
      BY <1>1, <2>1 DEF CodePoint
  <1>2. CASE n = 3 /\ 32 <= v /\ v <= 1023 /\ (v < 864 \/ 895 < v)
    <2>1. 2048 <= v * 64 + 63 /\ v * 64 + 63 <= 65535
      BY <1>2
    <2>2. v * 64 + 63 < 55296 \/ 57343 < v * 64 + 63
      BY <1>2
    <2> QED
      BY <1>2, <2>1, <2>2 DEF CodePoint
  <1>3. CASE n = 4 /\ 1024 <= v /\ v <= 17407
    <2>1. 65536 <= v * 64 + 63 /\ v * 64 + 63 <= 1114111
      BY <1>3
    <2> QED
      BY <1>3, <2>1 DEF CodePoint
  <1> QED
    BY <1>1, <1>2, <1>3 DEF Prefix

LEMMA TwoMissing ==
    ASSUME NEW s \in {36, 48}, NEW v \in Int, NEW n \in 2..4, Prefix(s, n, v)
    PROVE  CodePoint((v * 64 + 63) * 64 + 63, n)
  <1>1. \/ n = 3 /\ 0 <= v /\ v <= 15 /\ v # 13
        \/ n = 4 /\ 16 <= v /\ v <= 271
    BY DEF Prefix
  <1>2. (v * 64 + 63) * 64 + 63 = v * 4096 + 4095
    OBVIOUS
  <1>3. CASE n = 3 /\ 0 <= v /\ v <= 15 /\ v # 13
    <2>1. 2048 <= v * 4096 + 4095 /\ v * 4096 + 4095 <= 65535
      BY <1>3
    <2>2. v * 4096 + 4095 < 55296 \/ 57343 < v * 4096 + 4095
      BY <1>3
    <2> QED
      BY <1>2, <1>3, <2>1, <2>2 DEF CodePoint
  <1>4. CASE n = 4 /\ 16 <= v /\ v <= 271
    <2>1. 65536 <= v * 4096 + 4095 /\ v * 4096 + 4095 <= 1114111
      BY <1>4
    <2> QED
      BY <1>2, <1>4, <2>1 DEF CodePoint
  <1> QED
    BY <1>1, <1>3, <1>4

LEMMA ThreeMissing ==
    ASSUME NEW s \in {72, 84}, NEW v \in Int, NEW n \in 2..4, Prefix(s, n, v)
    PROVE  CodePoint(((v * 64 + 63) * 64 + 63) * 64 + 63, n)
  <1>1. n = 4 /\ 0 <= v /\ v <= 3
    BY DEF Prefix
  <1>2. ((v * 64 + 63) * 64 + 63) * 64 + 63 = v * 262144 + 262143
    OBVIOUS
  <1>3. 65536 <= v * 262144 + 262143 /\ v * 262144 + 262143 <= 1114111
    BY <1>1
  <1> QED
    BY <1>1, <1>2, <1>3 DEF CodePoint

LEMMA LowestMissing ==
    /\ \A v \in Int, n \in 2..4 : Prefix(60, n, v) => CodePoint((v * 64 + 0) * 64 + 63, n)
    /\ \A v \in Int, n \in 2..4 :
          Prefix(96, n, v) => CodePoint(((v * 64 + 0) * 64 + 63) * 64 + 63, n)
  <1>1. ASSUME NEW v \in Int, NEW n \in 2..4, Prefix(60, n, v)
        PROVE  CodePoint((v * 64 + 0) * 64 + 63, n)
    <2>1. n = 3 /\ v = 13
      BY <1>1 DEF Prefix
    <2>2. (v * 64 + 0) * 64 + 63 = 53311
      BY <2>1
    <2> QED
      BY <2>1, <2>2 DEF CodePoint
  <1>2. ASSUME NEW v \in Int, NEW n \in 2..4, Prefix(96, n, v)
        PROVE  CodePoint(((v * 64 + 0) * 64 + 63) * 64 + 63, n)
    <2>1. n = 4 /\ v = 4
      BY <1>2 DEF Prefix
    <2>2. ((v * 64 + 0) * 64 + 63) * 64 + 63 = 1052671
      BY <2>1
    <2> QED
      BY <2>1, <2>2 DEF CodePoint
  <1> QED
    BY <1>1, <1>2

LEMMA LeftOf ==
    /\ Left(24) = 1 /\ Left(36) = 2 /\ Left(48) = 2 /\ Left(60) = 2
    /\ Left(72) = 3 /\ Left(84) = 3 /\ Left(96) = 3
  BY DEF Left

LEMMA PartialBegins ==
    ASSUME NEW s \in {24, 36, 48, 60, 72, 84, 96}, NEW v \in Int, NEW bytes \in Seq(AByte),
           NEW n \in 2..4, Partial(s, v, bytes, n)
    PROVE  Begins(bytes, n) /\ \A m \in 1..4 : ~Encodes(bytes, m)
  <1>1. /\ Len(bytes) >= 1 /\ n = Len(bytes) + Left(s)
        /\ Formed(bytes, n) /\ v = SoFar(bytes, n) /\ Prefix(s, n, v)
    BY DEF Partial
  <1>2. Left(s) = 1 \/ Left(s) = 2 \/ Left(s) = 3
    BY DEF Left
  <1>3. Len(bytes) < n /\ n - Len(bytes) = Left(s)
    BY <1>1, <1>2
  <1>4. \A m \in 1..4 : ~Encodes(bytes, m)
    <2> SUFFICES ASSUME NEW m \in 1..4, Encodes(bytes, m) PROVE FALSE
      OBVIOUS
    <2>1. bytes[1] \in AByte /\ Leads(bytes[1], n) /\ Leads(bytes[1], m) /\ n \in 1..4
      BY <1>1, FirstIsByte DEF Formed, Encodes
    <2>2. m = n
      BY <2>1, OneLength
    <2> QED
      BY <1>3, <2>2 DEF Encodes
  <1>5. 128 % 64 = 0 /\ 191 % 64 = 63 /\ 128 \in Continuation /\ 191 \in Continuation
    BY ContinuationBytes
  <1>6. SoFar(bytes, n) = v /\ n - Len(bytes) = Left(s)
    BY <1>1, <1>3
  <1>7. \E f \in Continuation : CodePoint(Filled(bytes, n, f), n)
    <2>1. CASE s = 24
      <3>1. Filled(bytes, n, 191) = v * 64 + 63
        <4>1. n - Len(bytes) = 1
          BY <1>6, <2>1, LeftOf
        <4> QED
          BY <1>5, <1>6, <4>1 DEF Filled
      <3>2. Prefix(24, n, v)
        BY <1>1, <2>1
      <3>3. CodePoint(v * 64 + 63, n)
        BY <3>2, OneMissing
      <3> QED
        BY <1>5, <3>1, <3>3
    <2>2. CASE s = 36
      <3>1. Filled(bytes, n, 191) = (v * 64 + 63) * 64 + 63
        <4>1. n - Len(bytes) = 2
          BY <1>6, <2>2, LeftOf
        <4> QED
          BY <1>5, <1>6, <4>1 DEF Filled
      <3>2. Prefix(36, n, v)
        BY <1>1, <2>2
      <3>3. CodePoint((v * 64 + 63) * 64 + 63, n)
        BY <3>2, TwoMissing
      <3> QED
        BY <1>5, <3>1, <3>3
    <2>3. CASE s = 48
      <3>1. Filled(bytes, n, 191) = (v * 64 + 63) * 64 + 63
        <4>1. n - Len(bytes) = 2
          BY <1>6, <2>3, LeftOf
        <4> QED
          BY <1>5, <1>6, <4>1 DEF Filled
      <3>2. Prefix(48, n, v)
        BY <1>1, <2>3
      <3>3. CodePoint((v * 64 + 63) * 64 + 63, n)
        BY <3>2, TwoMissing
      <3> QED
        BY <1>5, <3>1, <3>3
    <2>4. CASE s = 72
      <3>1. Filled(bytes, n, 191) = ((v * 64 + 63) * 64 + 63) * 64 + 63
        <4>1. n - Len(bytes) = 3
          BY <1>6, <2>4, LeftOf
        <4> QED
          BY <1>5, <1>6, <4>1 DEF Filled
      <3>2. Prefix(72, n, v)
        BY <1>1, <2>4
      <3>3. CodePoint(((v * 64 + 63) * 64 + 63) * 64 + 63, n)
        BY <3>2, ThreeMissing
      <3> QED
        BY <1>5, <3>1, <3>3
    <2>5. CASE s = 84
      <3>1. Filled(bytes, n, 191) = ((v * 64 + 63) * 64 + 63) * 64 + 63
        <4>1. n - Len(bytes) = 3
          BY <1>6, <2>5, LeftOf
        <4> QED
          BY <1>5, <1>6, <4>1 DEF Filled
      <3>2. Prefix(84, n, v)
        BY <1>1, <2>5
      <3>3. CodePoint(((v * 64 + 63) * 64 + 63) * 64 + 63, n)
        BY <3>2, ThreeMissing
      <3> QED
        BY <1>5, <3>1, <3>3
    <2>6. CASE s = 60
      <3>1. Filled(bytes, n, 128) = (v * 64 + 0) * 64 + 63
        <4>1. n - Len(bytes) = 2
          BY <1>6, <2>6, LeftOf
        <4> QED
          BY <1>5, <1>6, <4>1 DEF Filled
      <3>2. Prefix(60, n, v)
        BY <1>1, <2>6
      <3>3. CodePoint((v * 64 + 0) * 64 + 63, n)
        BY <3>2, LowestMissing
      <3> QED
        BY <1>5, <3>1, <3>3
    <2>7. CASE s = 96
      <3>1. Filled(bytes, n, 128) = ((v * 64 + 0) * 64 + 63) * 64 + 63
        <4>1. n - Len(bytes) = 3
          BY <1>6, <2>7, LeftOf
        <4> QED
          BY <1>5, <1>6, <4>1 DEF Filled
      <3>2. Prefix(96, n, v)
        BY <1>1, <2>7
      <3>3. CodePoint(((v * 64 + 0) * 64 + 63) * 64 + 63, n)
        BY <3>2, LowestMissing
      <3> QED
        BY <1>5, <3>1, <3>3
    <2> QED
      BY <2>1, <2>2, <2>3, <2>4, <2>5, <2>6, <2>7
  <1> QED
    BY <1>1, <1>3, <1>4, <1>7, BeginsWhen

\* The bytes with one more.
LEMMA Longer ==
    ASSUME NEW s \in Seq(AByte), Len(s) >= 1, NEW n \in 2..4, Len(s) < n, NEW b \in AByte
    PROVE  LET t == Append(s, b)
           IN /\ t \in Seq(AByte) /\ Len(t) = Len(s) + 1 /\ t[1] = s[1] /\ t[Len(t)] = b
              /\ Formed(s, n) /\ b \in Continuation => Formed(t, n)
              /\ Len(t) < n => SoFar(t, n) = Then(SoFar(s, n), b % 64)
              /\ Len(t) = n => Value(t) = Then(SoFar(s, n), b % 64)
  <1> DEFINE t == Append(s, b)
  <1>1. /\ t \in Seq(AByte) /\ Len(t) = Len(s) + 1 /\ t[Len(t)] = b
        /\ \A i \in 1..Len(s) : t[i] = s[i]
    OBVIOUS
  <1>2. t[1] = s[1]
    BY <1>1
  <1> HIDE DEF t
  <1>3. Formed(s, n) /\ b \in Continuation => Formed(t, n)
    BY <1>1, <1>2 DEF Formed
  <1>4. Len(s) = 1 \/ Len(s) = 2 \/ Len(s) = 3
    <2>1. \A k \in Nat : k >= 1 /\ k < n => k = 1 \/ k = 2 \/ k = 3
      OBVIOUS
    <2>2. Len(s) \in Nat
      OBVIOUS
    <2> QED
      BY <2>1, <2>2, Zenon
  <1>5. /\ Len(t) < n => SoFar(t, n) = Then(SoFar(s, n), b % 64)
        /\ Len(t) = n => Value(t) = Then(SoFar(s, n), b % 64)
    <2>1. CASE Len(s) = 1
      <3>1. Len(t) = 2 /\ t[1] = s[1] /\ t[2] = b
        BY <1>1, <1>2, <2>1
      <3> QED
        BY <2>1, <3>1 DEF SoFar, Value, Then
    <2>2. CASE Len(s) = 2
      <3>1. Len(t) = 3 /\ t[1] = s[1] /\ t[2] = s[2] /\ t[3] = b
        BY <1>1, <1>2, <2>2
      <3> QED
        BY <2>2, <3>1 DEF SoFar, Value, Then
    <2>3. CASE Len(s) = 3
      <3>1. Len(t) = 4 /\ t[1] = s[1] /\ t[2] = s[2] /\ t[3] = s[3] /\ t[4] = b
        BY <1>1, <1>2, <2>3
      <3> QED
        BY <2>3, <3>1 DEF SoFar, Value, Then
    <2> QED
      BY <1>4, <2>1, <2>2, <2>3
  <1> QED
    BY <1>1, <1>2, <1>3, <1>5 DEF t

LEMMA NotContinuation ==
    ASSUME NEW t \in Seq(AByte), Len(t) >= 2, t[Len(t)] \notin Continuation
    PROVE  Rejected(t)
  <1>1. Len(t) \in 2..Len(t)
    OBVIOUS
  <1>2. \A n \in 1..4 : ~Formed(t, n)
    BY <1>1 DEF Formed
  <1> QED
    BY <1>2, MalformedRejected

\* The bytes that follow have three classes, and only they have them.
LEMMA ContinuationClasses ==
    ASSUME NEW b \in AByte
    PROVE  /\ Class(b) \in 0..11
           /\ b \in Continuation <=> Class(b) \in {1, 7, 9}
           /\ Class(b) = 1 => 0 <= b % 64 /\ b % 64 <= 15
           /\ Class(b) = 9 => 16 <= b % 64 /\ b % 64 <= 31
           /\ Class(b) = 7 => 32 <= b % 64 /\ b % 64 <= 63
  <1>1. b \in Int /\ 1 <= b /\ b <= 255
    BY DEF AByte
  <1>2. CASE b <= 127
    BY <1>1, <1>2, Classes, ContinuationBytes
  <1>3. CASE 128 <= b /\ b <= 143
    <2>1. Class(b) = 1 /\ b % 64 = b - 128 /\ b \in Continuation
      BY <1>1, <1>3, Classes, ContinuationBytes
    <2> QED
      BY <1>1, <1>3, <2>1
  <1>4. CASE 144 <= b /\ b <= 159
    <2>1. Class(b) = 9 /\ b % 64 = b - 128 /\ b \in Continuation
      BY <1>1, <1>4, Classes, ContinuationBytes
    <2> QED
      BY <1>1, <1>4, <2>1
  <1>5. CASE 160 <= b /\ b <= 191
    <2>1. Class(b) = 7 /\ b % 64 = b - 128 /\ b \in Continuation
      BY <1>1, <1>5, Classes, ContinuationBytes
    <2> QED
      BY <1>1, <1>5, <2>1
  <1>6. CASE 192 <= b
    <2>1. /\ b \notin Continuation
          /\ \/ Class(b) = 8 \/ Class(b) = 2 \/ Class(b) = 10 \/ Class(b) = 3
             \/ Class(b) = 4 \/ Class(b) = 11 \/ Class(b) = 6 \/ Class(b) = 5
      BY <1>1, <1>6, Classes, ContinuationBytes
    <2> QED
      BY <2>1
  <1> QED
    BY <1>1, <1>2, <1>3, <1>4, <1>5, <1>6

\* What the automaton does with a byte that follows.
LEMMA NextPrefix ==
    ASSUME NEW n \in 2..4, NEW v \in Int, NEW w \in Int, NEW x, x = Then(v, w)
    PROVE  /\ Prefix(24, n, v) /\ 0 <= w /\ w <= 63 => CodePoint(x, n)
           /\ Prefix(36, n, v) /\ 0 <= w /\ w <= 63 => Prefix(24, n, x)
           /\ Prefix(48, n, v) /\ 32 <= w /\ w <= 63 => Prefix(24, n, x)
           /\ Prefix(60, n, v) /\ 0 <= w /\ w <= 31 => Prefix(24, n, x)
           /\ Prefix(72, n, v) /\ 16 <= w /\ w <= 63 => Prefix(36, n, x)
           /\ Prefix(84, n, v) /\ 0 <= w /\ w <= 63 => Prefix(36, n, x)
           /\ Prefix(96, n, v) /\ 0 <= w /\ w <= 15 => Prefix(36, n, x)
  <1> USE DEF Then
  <1>1. ASSUME Prefix(24, n, v), 0 <= w, w <= 63 PROVE CodePoint(x, n)
    <2>1. \/ n = 2 /\ 2 <= v /\ v <= 31
          \/ n = 3 /\ 32 <= v /\ v <= 1023 /\ (v < 864 \/ 895 < v)
          \/ n = 4 /\ 1024 <= v /\ v <= 17407
      BY <1>1 DEF Prefix
    <2>2. CASE n = 2 /\ 2 <= v /\ v <= 31
      <3>1. 128 <= x /\ x <= 2047
        BY <1>1, <2>2
      <3> QED
        BY <2>2, <3>1 DEF CodePoint
    <2>3. CASE n = 3 /\ 32 <= v /\ v <= 1023 /\ (v < 864 \/ 895 < v)
      <3>1. 2048 <= x /\ x <= 65535 /\ (x < 55296 \/ 57343 < x)
        BY <1>1, <2>3
      <3> QED
        BY <2>3, <3>1 DEF CodePoint
    <2>4. CASE n = 4 /\ 1024 <= v /\ v <= 17407
      <3>1. 65536 <= x /\ x <= 1114111
        BY <1>1, <2>4
      <3> QED
        BY <2>4, <3>1 DEF CodePoint
    <2> QED
      BY <2>1, <2>2, <2>3, <2>4
  <1>2. Prefix(36, n, v) /\ 0 <= w /\ w <= 63 => Prefix(24, n, x)
    BY DEF Prefix
  <1>3. Prefix(48, n, v) /\ 32 <= w /\ w <= 63 => Prefix(24, n, x)
    BY DEF Prefix
  <1>4. Prefix(60, n, v) /\ 0 <= w /\ w <= 31 => Prefix(24, n, x)
    BY DEF Prefix
  <1>5. Prefix(72, n, v) /\ 16 <= w /\ w <= 63 => Prefix(36, n, x)
    BY DEF Prefix
  <1>6. Prefix(84, n, v) /\ 0 <= w /\ w <= 63 => Prefix(36, n, x)
    BY DEF Prefix
  <1>7. Prefix(96, n, v) /\ 0 <= w /\ w <= 15 => Prefix(36, n, x)
    BY DEF Prefix
  <1> QED
    BY <1>1, <1>2, <1>3, <1>4, <1>5, <1>6, <1>7

\* The values with one and with two bytes more.
Joined(v, w, f) == (v * 64 + w) * 64 + f
JoinedFilled(v, w, f) == ((v * 64 + w) * 64 + f) * 64 + 63

\* Where nothing is left to come: overlong forms, surrogates, what is too large.
LEMMA NoPrefix ==
    ASSUME NEW n \in 2..4, NEW v \in Int, NEW w \in Int, NEW f \in 0..63
    PROVE  /\ Prefix(48, n, v) /\ 0 <= w /\ w <= 31 => ~CodePoint(Joined(v, w, f), n)
           /\ Prefix(60, n, v) /\ 32 <= w /\ w <= 63 => ~CodePoint(Joined(v, w, f), n)
           /\ Prefix(72, n, v) /\ 0 <= w /\ w <= 15 => ~CodePoint(JoinedFilled(v, w, f), n)
           /\ Prefix(96, n, v) /\ 16 <= w /\ w <= 63 => ~CodePoint(JoinedFilled(v, w, f), n)
  <1> DEFINE x == (v * 64 + w) * 64 + f
             y == x * 64 + 63
  <1>1. ASSUME Prefix(48, n, v), 0 <= w, w <= 31 PROVE ~CodePoint(x, n)
    <2>1. n = 3 /\ v = 0
      BY <1>1 DEF Prefix
    <2>2. x \in Int /\ x < 2048
      BY <1>1, <2>1
    <2> HIDE DEF x, y
    <2> QED
      BY <2>1, <2>2 DEF CodePoint
  <1>2. ASSUME Prefix(60, n, v), 32 <= w, w <= 63 PROVE ~CodePoint(x, n)
    <2>1. n = 3 /\ v = 13
      BY <1>2 DEF Prefix
    <2>2. x \in Int /\ 55296 <= x /\ x <= 57343
      BY <1>2, <2>1
    <2> HIDE DEF x, y
    <2> QED
      BY <2>1, <2>2 DEF CodePoint
  <1>3. ASSUME Prefix(72, n, v), 0 <= w, w <= 15 PROVE ~CodePoint(y, n)
    <2>1. n = 4 /\ v = 0
      BY <1>3 DEF Prefix
    <2>2. y \in Int /\ y < 65536
      BY <1>3, <2>1
    <2> HIDE DEF x, y
    <2> QED
      BY <2>1, <2>2 DEF CodePoint
  <1>4. ASSUME Prefix(96, n, v), 16 <= w, w <= 63 PROVE ~CodePoint(y, n)
    <2>1. n = 4 /\ v = 4
      BY <1>4 DEF Prefix
    <2>2. y \in Int /\ 1114112 <= y
      BY <1>4, <2>1
    <2> HIDE DEF x, y
    <2> QED
      BY <2>1, <2>2 DEF CodePoint
  <1> QED
    BY <1>1, <1>2, <1>3, <1>4 DEF Joined, JoinedFilled

\* The rows of the automaton for the states in the middle of an encoding.
LEMMA LaterNext ==
    ASSUME NEW b \in AByte
    PROVE  /\ NextState(24, b) = IF Class(b) \in {1, 7, 9} THEN 0 ELSE 12
           /\ NextState(36, b) = IF Class(b) \in {1, 7, 9} THEN 24 ELSE 12
           /\ NextState(48, b) = IF Class(b) = 7 THEN 24 ELSE 12
           /\ NextState(60, b) = IF Class(b) \in {1, 9} THEN 24 ELSE 12
           /\ NextState(72, b) = IF Class(b) \in {7, 9} THEN 36 ELSE 12
           /\ NextState(84, b) = IF Class(b) \in {1, 7, 9} THEN 36 ELSE 12
           /\ NextState(96, b) = IF Class(b) = 1 THEN 36 ELSE 12
  <1>1. Class(b) \in 0..11
    BY ContinuationClasses
  <1> QED
    BY <1>1, LaterStates DEF NextState

LEMMA LowBits ==
    ASSUME NEW f \in Continuation
    PROVE  f % 64 \in 0..63
  <1>1. f \in Int
    BY ContinuationBytes DEF AByte
  <1> QED
    BY <1>1

\* A byte in the middle of an encoding.
LEMMA LaterByte ==
    ASSUME NEW s \in {24, 36, 48, 60, 72, 84, 96}, NEW v \in Int, NEW bytes \in Seq(AByte),
           NEW b \in AByte, NEW n \in 2..4, Partial(s, v, bytes, n)
    PROVE  /\ NextState(s, b) \in TextStates
           /\ Judged(NextState(s, b), NextCode(s, v, b), Append(bytes, b))
  <1> DEFINE t == Append(bytes, b)
             x == NextCode(s, v, b)
  <1> SUFFICES NextState(s, b) \in TextStates /\ Judged(NextState(s, b), x, t)
    OBVIOUS
  <1>1. /\ Len(bytes) >= 1 /\ n = Len(bytes) + Left(s)
        /\ Formed(bytes, n) /\ v = SoFar(bytes, n) /\ Prefix(s, n, v)
    BY DEF Partial
  <1>2. Left(s) = 1 \/ Left(s) = 2 \/ Left(s) = 3
    BY DEF Left
  <1>3. Len(bytes) < n /\ n - Len(bytes) = Left(s)
    BY <1>1, <1>2
  <1> DEFINE w == b % 64
  <1>4. w \in 0..63 /\ x \in Int /\ x = Then(v, w)
    BY DEF AByte, NextCode, UTF8_ACCEPT, Then
  <1> HIDE DEF w, x
  <1>5. /\ t \in Seq(AByte) /\ Len(t) = Len(bytes) + 1 /\ t[1] = bytes[1] /\ t[Len(t)] = b
        /\ b \in Continuation => Formed(t, n)
        /\ Len(t) < n => SoFar(t, n) = x
        /\ Len(t) = n => Value(t) = x
    BY <1>1, <1>3, <1>4, Longer DEF w
  <1> HIDE DEF t
  <1>6. n - Len(t) = Left(s) - 1
    BY <1>1, <1>2, <1>5
  <1>7. CASE b \notin Continuation
    <2>1. NextState(s, b) = 12
      <3>1. Class(b) # 1 /\ Class(b) # 7 /\ Class(b) # 9
        BY <1>7, ContinuationClasses
      <3> QED
        BY <3>1, LaterNext
    <2>2. Rejected(t)
      <3>1. t \in Seq(AByte) /\ Len(t) >= 2 /\ t[Len(t)] \notin Continuation
        BY <1>1, <1>5, <1>7
      <3> QED
        BY <3>1, NotContinuation
    <2> QED
      BY <2>1, <2>2 DEF Judged, TextStates
  <1>8. CASE b \in Continuation
    <2>1. /\ Class(b) \in {1, 7, 9} /\ Class(b) \in 0..11
          /\ Class(b) = 1 => 0 <= w /\ w <= 15
          /\ Class(b) = 9 => 16 <= w /\ w <= 31
          /\ Class(b) = 7 => 32 <= w /\ w <= 63
      BY <1>8, ContinuationClasses DEF w
    <2>2. /\ Formed(t, n) /\ Len(t) >= 1
          /\ 0 <= w /\ w <= 63
      <3>1. Formed(t, n) /\ Len(t) >= 1
        BY <1>1, <1>5, <1>8
      <3>2. 0 <= w /\ w <= 63
        BY <1>4
      <3> QED
        BY <3>1, <3>2
    \* It ends the encoding, or goes on.
    <2>3. ASSUME NextState(s, b) = 0, Left(s) = 1, CodePoint(x, n)
          PROVE  Judged(NextState(s, b), x, t)
      <3>1. Len(t) = n
        BY <1>1, <1>5, <2>3
      <3>2. Encodes(t, n) /\ x = Value(t)
        BY <1>5, <2>2, <2>3, <3>1 DEF Encodes, Formed
      <3>3. Accepted(x, t)
        BY <3>2 DEF Accepted
      <3> QED
        BY <2>3, <3>3 DEF Judged
    <2>4. ASSUME NEW r \in {24, 36}, NextState(s, b) = r, Left(s) = Left(r) + 1, Prefix(r, n, x)
          PROVE  Judged(NextState(s, b), x, t)
      <3>1. Len(t) + Left(r) = n /\ Len(t) < n
        BY <1>1, <1>5, <2>4 DEF Left
      <3>2. Partial(r, x, t, n)
        BY <1>5, <2>2, <2>4, <3>1 DEF Partial
      <3> QED
        BY <2>4, <3>2 DEF Judged
    <2>5. ASSUME NextState(s, b) = 12, Len(t) < n,
                 \A f \in Continuation : ~CodePoint(Filled(t, n, f), n)
          PROVE  Judged(NextState(s, b), x, t)
      <3>1. Rejected(t)
        BY <1>5, <2>2, <2>5, OutOfRange
      <3> QED
        BY <2>5, <3>1 DEF Judged
    <2>6. ASSUME NEW f \in Continuation, Len(t) < n
          PROVE  /\ f % 64 \in 0..63
                 /\ n - Len(t) = 1 => Filled(t, n, f) = Joined(v, w, f % 64)
                 /\ n - Len(t) = 2 => Filled(t, n, f) = JoinedFilled(v, w, f % 64)
      <3>1. SoFar(t, n) = Then(v, w)
        BY <1>4, <1>5, <2>6
      <3>2. f % 64 \in 0..63
        BY LowBits
      <3> QED
        BY <1>5, <3>1, <3>2 DEF Filled, Joined, JoinedFilled, Then
    <2>7. CASE s = 24
      <3>1. NextState(s, b) = 0
        BY <2>1, <2>7, LaterNext
      <3>2. Left(s) = 1 /\ CodePoint(x, n)
        <4>1. Prefix(24, n, v)
          BY <1>1, <2>7
        <4>2. CodePoint(x, n)
          BY <1>4, <2>2, <4>1, NextPrefix
        <4> QED
          BY <2>7, <4>2, LeftOf
      <3> QED
        BY <2>3, <3>1, <3>2 DEF TextStates
    <2>8. CASE s = 36
      <3>1. NextState(s, b) = 24
        BY <2>1, <2>8, LaterNext
      <3>2. Left(s) = Left(24) + 1 /\ Prefix(24, n, x)
        <4>1. Prefix(36, n, v)
          BY <1>1, <2>8
        <4>2. Prefix(24, n, x)
          BY <1>4, <2>2, <4>1, NextPrefix
        <4> QED
          BY <2>8, <4>2, LeftOf
      <3> QED
        BY <2>4, <3>1, <3>2 DEF TextStates
    <2>9. CASE s = 84
      <3>1. NextState(s, b) = 36
        BY <2>1, <2>9, LaterNext
      <3>2. Left(s) = Left(36) + 1 /\ Prefix(36, n, x)
        <4>1. Prefix(84, n, v)
          BY <1>1, <2>9
        <4>2. Prefix(36, n, x)
          BY <1>4, <2>2, <4>1, NextPrefix
        <4> QED
          BY <2>9, <4>2, LeftOf
      <3> QED
        BY <2>4, <3>1, <3>2 DEF TextStates
    <2>10. CASE s = 48
      <3>1. CASE Class(b) = 7
        <4>1. NextState(s, b) = 24
          BY <2>1, <2>10, <3>1, LaterNext
        <4>2. Left(s) = Left(24) + 1 /\ Prefix(24, n, x)
          <5>1. Prefix(48, n, v)
            BY <1>1, <2>10
          <5>2. Prefix(24, n, x)
            BY <1>4, <2>1, <3>1, <5>1, NextPrefix
          <5> QED
            BY <2>10, <5>2, LeftOf
        <4> QED
          BY <2>4, <4>1, <4>2 DEF TextStates
      <3>2. CASE Class(b) = 1 \/ Class(b) = 9
        <4>1. NextState(s, b) = 12
          BY <2>1, <2>10, <3>2, LaterNext
        <4>2. n - Len(t) = 1 /\ Len(t) < n
          BY <1>5, <1>6, <2>10 DEF Left
        <4>3. 0 <= w /\ w <= 31 /\ w \in Int
          BY <1>4, <2>1, <3>2
        <4>4. ASSUME NEW f \in Continuation PROVE ~CodePoint(Filled(t, n, f), n)
          <5>1. f % 64 \in 0..63 /\ Filled(t, n, f) = Joined(v, w, f % 64)
            BY <2>6, <4>2
          <5>2. Prefix(48, n, v)
            BY <1>1, <2>10
          <5>3. \A g \in 0..63 : ~CodePoint(Joined(v, w, g), n)
            BY <4>3, <5>2, NoPrefix
          <5> QED
            BY <5>1, <5>3
        <4> QED
          BY <2>5, <4>1, <4>2, <4>4 DEF TextStates
      <3> QED
        BY <2>1, <3>1, <3>2
    <2>11. CASE s = 60
      <3>1. CASE Class(b) = 1 \/ Class(b) = 9
        <4>1. NextState(s, b) = 24
          BY <2>1, <2>11, <3>1, LaterNext
        <4>2. 0 <= w /\ w <= 31 /\ w \in Int
          BY <1>4, <2>1, <3>1
        <4>3. Left(s) = Left(24) + 1 /\ Prefix(24, n, x)
          <5>1. Prefix(60, n, v)
            BY <1>1, <2>11
          <5>2. Prefix(24, n, x)
            BY <1>4, <4>2, <5>1, NextPrefix
          <5> QED
            BY <2>11, <5>2, LeftOf
        <4> QED
          BY <2>4, <4>1, <4>3 DEF TextStates
      <3>2. CASE Class(b) = 7
        <4>1. NextState(s, b) = 12
          BY <2>1, <2>11, <3>2, LaterNext
        <4>2. n - Len(t) = 1 /\ Len(t) < n
          BY <1>5, <1>6, <2>11 DEF Left
        <4>3. 32 <= w /\ w <= 63 /\ w \in Int
          BY <1>4, <2>1, <3>2
        <4>4. ASSUME NEW f \in Continuation PROVE ~CodePoint(Filled(t, n, f), n)
          <5>1. f % 64 \in 0..63 /\ Filled(t, n, f) = Joined(v, w, f % 64)
            BY <2>6, <4>2
          <5>2. Prefix(60, n, v)
            BY <1>1, <2>11
          <5>3. \A g \in 0..63 : ~CodePoint(Joined(v, w, g), n)
            BY <4>3, <5>2, NoPrefix
          <5> QED
            BY <5>1, <5>3
        <4> QED
          BY <2>5, <4>1, <4>2, <4>4 DEF TextStates
      <3> QED
        BY <2>1, <3>1, <3>2
    <2>12. CASE s = 72
      <3>1. CASE Class(b) = 7 \/ Class(b) = 9
        <4>1. NextState(s, b) = 36
          BY <2>1, <2>12, <3>1, LaterNext
        <4>2. 16 <= w /\ w <= 63 /\ w \in Int
          BY <1>4, <2>1, <3>1
        <4>3. Left(s) = Left(36) + 1 /\ Prefix(36, n, x)
          <5>1. Prefix(72, n, v)
            BY <1>1, <2>12
          <5>2. Prefix(36, n, x)
            BY <1>4, <4>2, <5>1, NextPrefix
          <5> QED
            BY <2>12, <5>2, LeftOf
        <4> QED
          BY <2>4, <4>1, <4>3 DEF TextStates
      <3>2. CASE Class(b) = 1
        <4>1. NextState(s, b) = 12
          BY <2>1, <2>12, <3>2, LaterNext
        <4>2. n - Len(t) = 2 /\ Len(t) < n
          BY <1>5, <1>6, <2>12 DEF Left
        <4>3. 0 <= w /\ w <= 15 /\ w \in Int
          BY <1>4, <2>1, <3>2
        <4>4. ASSUME NEW f \in Continuation PROVE ~CodePoint(Filled(t, n, f), n)
          <5>1. f % 64 \in 0..63 /\ Filled(t, n, f) = JoinedFilled(v, w, f % 64)
            BY <2>6, <4>2
          <5>2. Prefix(72, n, v)
            BY <1>1, <2>12
          <5>3. \A g \in 0..63 : ~CodePoint(JoinedFilled(v, w, g), n)
            BY <4>3, <5>2, NoPrefix
          <5> QED
            BY <5>1, <5>3
        <4> QED
          BY <2>5, <4>1, <4>2, <4>4 DEF TextStates
      <3> QED
        BY <2>1, <3>1, <3>2
    <2>13. CASE s = 96
      <3>1. CASE Class(b) = 1
        <4>1. NextState(s, b) = 36
          BY <2>1, <2>13, <3>1, LaterNext
        <4>2. 0 <= w /\ w <= 15 /\ w \in Int
          BY <1>4, <2>1, <3>1
        <4>3. Left(s) = Left(36) + 1 /\ Prefix(36, n, x)
          <5>1. Prefix(96, n, v)
            BY <1>1, <2>13
          <5>2. Prefix(36, n, x)
            BY <1>4, <4>2, <5>1, NextPrefix
          <5> QED
            BY <2>13, <5>2, LeftOf
        <4> QED
          BY <2>4, <4>1, <4>3 DEF TextStates
      <3>2. CASE Class(b) = 7 \/ Class(b) = 9
        <4>1. NextState(s, b) = 12
          BY <2>1, <2>13, <3>2, LaterNext
        <4>2. n - Len(t) = 2 /\ Len(t) < n
          BY <1>5, <1>6, <2>13 DEF Left
        <4>3. 16 <= w /\ w <= 63 /\ w \in Int
          BY <1>4, <2>1, <3>2
        <4>4. ASSUME NEW f \in Continuation PROVE ~CodePoint(Filled(t, n, f), n)
          <5>1. f % 64 \in 0..63 /\ Filled(t, n, f) = JoinedFilled(v, w, f % 64)
            BY <2>6, <4>2
          <5>2. Prefix(96, n, v)
            BY <1>1, <2>13
          <5>3. \A g \in 0..63 : ~CodePoint(JoinedFilled(v, w, g), n)
            BY <4>3, <5>2, NoPrefix
          <5> QED
            BY <5>1, <5>3
        <4> QED
          BY <2>5, <4>1, <4>2, <4>4 DEF TextStates
      <3> QED
        BY <2>1, <3>1, <3>2
    <2> QED
      BY <2>7, <2>8, <2>9, <2>10, <2>11, <2>12, <2>13
  <1> QED
    BY <1>7, <1>8

\* The first byte.
LEMMA FirstByte ==
    ASSUME NEW b \in AByte, NEW v, NEW t, t = <<b>>, NEW x, x = NextCode(0, v, b)
    PROVE  /\ NextState(0, b) \in TextStates /\ x \in Int
           /\ Judged(NextState(0, b), x, t)
  <1>1. b \in Int /\ 1 <= b /\ b <= 255
    BY DEF AByte
  <1>2. t \in Seq(AByte) /\ Len(t) = 1 /\ t[1] = b
    OBVIOUS
  <1>3. CASE b <= 127
    <2>1. Class(b) = 0
      BY <1>1, <1>3, Classes
    <2>2. NextState(0, b) = 0
      BY <2>1, FirstStates DEF NextState
    <2>3. x = b
      <3>1. x = b % 256
        BY <2>1, LeadingBits DEF NextCode, UTF8_ACCEPT
      <3> QED
        BY <1>1, <1>3, <3>1
    <2>4. Encodes(t, 1) /\ x = Value(t)
      <3>1. Value(t) = b
        BY <1>2 DEF Value
      <3>2. Leads(b, 1) /\ CodePoint(b, 1)
        BY <1>1, <1>3 DEF Leads, CodePoint
      <3> QED
        BY <1>2, <2>3, <3>1, <3>2 DEF Encodes
    <2>5. Accepted(x, t)
      BY <2>4 DEF Accepted
    <2> QED
      BY <1>1, <2>2, <2>3, <2>5 DEF Judged, TextStates
  <1>4. ASSUME NextState(0, b) = 12, Class(b) \in {1, 7, 8, 9}, Rejected(t)
        PROVE  NextState(0, b) \in TextStates /\ x \in Int /\ Judged(NextState(0, b), x, t)
    <2>1. x \in Int
      <3>1. \/ Class(b) = 1 /\ x = b % 128
            \/ Class(b) = 7 /\ x = b % 2
            \/ Class(b) \in {8, 9} /\ x = b % 1
        BY <1>4, LeadingBits DEF NextCode, UTF8_ACCEPT
      <3> QED
        BY <1>1, <3>1
    <2> QED
      BY <1>4, <2>1 DEF Judged, TextStates
  <1>5. CASE (128 <= b /\ b <= 191) \/ 248 <= b
    <2>1. Class(b) \in {1, 7, 8, 9}
      BY <1>1, <1>5, Classes
    <2>2. NextState(0, b) = 12
      BY <2>1, FirstStates DEF NextState
    <2>3. \A n \in 1..4 : ~Formed(t, n)
      <3>1. \A n \in 1..4 : ~Leads(b, n)
        BY <1>1, <1>5 DEF Leads
      <3> QED
        BY <1>2, <3>1 DEF Formed
    <2> QED
      BY <1>4, <2>1, <2>2, <2>3, MalformedRejected
  <1>6. CASE (192 <= b /\ b <= 193) \/ (245 <= b /\ b <= 247)
    <2>1. Class(b) = 8
      BY <1>1, <1>6, Classes
    <2>2. NextState(0, b) = 12
      BY <2>1, FirstStates DEF NextState
    <2>3. CASE 192 <= b /\ b <= 193
      <3>1. Formed(t, 2)
        <4>1. Leads(b, 2)
          BY <1>1, <2>3 DEF Leads
        <4> QED
          BY <1>2, <4>1 DEF Formed
      <3>2. ASSUME NEW f \in Continuation PROVE ~CodePoint(Filled(t, 2, f), 2)
        <4>1. SoFar(t, 2) \in Int /\ SoFar(t, 2) <= 1
          <5>1. b % 32 = b - 192
            BY <1>1, <2>3
          <5> QED
            BY <1>1, <1>2, <2>3, <5>1 DEF SoFar
        <4>2. Filled(t, 2, f) = SoFar(t, 2) * 64 + (f % 64)
          BY <1>2 DEF Filled
        <4>3. f % 64 \in 0..63
          BY LowBits
        <4>4. Filled(t, 2, f) \in Int /\ Filled(t, 2, f) < 128
          BY <4>1, <4>2, <4>3
        <4> QED
          BY <4>4 DEF CodePoint
      <3>3. Rejected(t)
        <4>1. 2 \in 2..4 /\ Len(t) >= 1 /\ Len(t) < 2 /\ t \in Seq(AByte)
          BY <1>2
        <4>2. \A f \in Continuation : ~CodePoint(Filled(t, 2, f), 2)
          BY <3>2
        <4> QED
          BY <3>1, <4>1, <4>2, OutOfRange, Zenon
      <3> QED
        BY <1>4, <2>1, <2>2, <3>3
    <2>4. CASE 245 <= b /\ b <= 247
      <3>1. Formed(t, 4)
        <4>1. Leads(b, 4)
          BY <1>1, <2>4 DEF Leads
        <4> QED
          BY <1>2, <4>1 DEF Formed
      <3>2. ASSUME NEW f \in Continuation PROVE ~CodePoint(Filled(t, 4, f), 4)
        <4>1. SoFar(t, 4) \in Int /\ 5 <= SoFar(t, 4)
          <5>1. b % 8 = b - 240
            BY <1>1, <2>4
          <5> QED
            BY <1>1, <1>2, <2>4, <5>1 DEF SoFar
        <4>2. Filled(t, 4, f) = ((SoFar(t, 4) * 64 + (f % 64)) * 64 + 63) * 64 + 63
          BY <1>2 DEF Filled
        <4>3. f % 64 \in 0..63
          BY LowBits
        <4>4. Filled(t, 4, f) \in Int /\ 1310720 <= Filled(t, 4, f)
          BY <4>1, <4>2, <4>3
        <4> QED
          BY <4>4 DEF CodePoint
      <3>3. Rejected(t)
        <4>1. 4 \in 2..4 /\ Len(t) >= 1 /\ Len(t) < 4 /\ t \in Seq(AByte)
          BY <1>2
        <4>2. \A f \in Continuation : ~CodePoint(Filled(t, 4, f), 4)
          BY <3>2
        <4> QED
          BY <3>1, <4>1, <4>2, OutOfRange, Zenon
      <3> QED
        BY <1>4, <2>1, <2>2, <3>3
    <2> QED
      BY <1>6, <2>3, <2>4
  <1>7. CASE 194 <= b /\ b <= 223
    <2>1. Class(b) = 2
      BY <1>1, <1>7, Classes
    <2>2. NextState(0, b) = 24
      BY <2>1, FirstStates DEF NextState
    <2>3. x = b - 192
      <3>1. x = b % 64
        BY <2>1, LeadingBits DEF NextCode, UTF8_ACCEPT
      <3> QED
        BY <1>1, <1>7, <3>1
    <2>4. Formed(t, 2) /\ SoFar(t, 2) = x
      <3>1. Leads(b, 2) /\ b % 32 = b - 192
        BY <1>1, <1>7 DEF Leads
      <3> QED
        BY <1>2, <2>3, <3>1 DEF Formed, SoFar
    <2>5. Prefix(24, 2, x) /\ Left(24) = 1
      BY <1>1, <1>7, <2>3 DEF Prefix, Left
    <2>6. Partial(24, x, t, 2)
      BY <1>2, <2>4, <2>5 DEF Partial
    <2> QED
      BY <1>1, <2>2, <2>3, <2>6 DEF Judged, TextStates
  <1>8. CASE b = 224
    <2>1. Class(b) = 10
      BY <1>1, <1>8, Classes
    <2>2. NextState(0, b) = 48
      BY <2>1, FirstStates DEF NextState
    <2>3. x = 0
      <3>1. x = b % 1
        BY <2>1, LeadingBits DEF NextCode, UTF8_ACCEPT
      <3> QED
        BY <1>1, <1>8, <3>1
    <2>4. Formed(t, 3) /\ SoFar(t, 3) = x
      <3>1. Leads(b, 3) /\ b % 16 = 0
        BY <1>1, <1>8 DEF Leads
      <3> QED
        BY <1>2, <2>3, <3>1 DEF Formed, SoFar
    <2>5. Prefix(48, 3, x) /\ Left(48) = 2
      BY <1>1, <1>8, <2>3 DEF Prefix, Left
    <2>6. Partial(48, x, t, 3)
      BY <1>2, <2>4, <2>5 DEF Partial
    <2> QED
      BY <1>1, <2>2, <2>3, <2>6 DEF Judged, TextStates
  <1>9. CASE 225 <= b /\ b <= 239 /\ b # 237
    <2>1. Class(b) = 3
      BY <1>1, <1>9, Classes
    <2>2. NextState(0, b) = 36
      BY <2>1, FirstStates DEF NextState
    <2>3. x = b - 224
      <3>1. x = b % 32
        BY <2>1, LeadingBits DEF NextCode, UTF8_ACCEPT
      <3> QED
        BY <1>1, <1>9, <3>1
    <2>4. Formed(t, 3) /\ SoFar(t, 3) = x
      <3>1. Leads(b, 3) /\ b % 16 = b - 224
        BY <1>1, <1>9 DEF Leads
      <3> QED
        BY <1>2, <2>3, <3>1 DEF Formed, SoFar
    <2>5. Prefix(36, 3, x) /\ Left(36) = 2
      BY <1>1, <1>9, <2>3 DEF Prefix, Left
    <2>6. Partial(36, x, t, 3)
      BY <1>2, <2>4, <2>5 DEF Partial
    <2> QED
      BY <1>1, <2>2, <2>3, <2>6 DEF Judged, TextStates
  <1>10. CASE b = 237
    <2>1. Class(b) = 4
      BY <1>1, <1>10, Classes
    <2>2. NextState(0, b) = 60
      BY <2>1, FirstStates DEF NextState
    <2>3. x = 13
      <3>1. x = b % 16
        BY <2>1, LeadingBits DEF NextCode, UTF8_ACCEPT
      <3> QED
        BY <1>1, <1>10, <3>1
    <2>4. Formed(t, 3) /\ SoFar(t, 3) = x
      <3>1. Leads(b, 3) /\ b % 16 = 13
        BY <1>1, <1>10 DEF Leads
      <3> QED
        BY <1>2, <2>3, <3>1 DEF Formed, SoFar
    <2>5. Prefix(60, 3, x) /\ Left(60) = 2
      BY <1>1, <1>10, <2>3 DEF Prefix, Left
    <2>6. Partial(60, x, t, 3)
      BY <1>2, <2>4, <2>5 DEF Partial
    <2> QED
      BY <1>1, <2>2, <2>3, <2>6 DEF Judged, TextStates
  <1>11. CASE b = 240
    <2>1. Class(b) = 11
      BY <1>1, <1>11, Classes
    <2>2. NextState(0, b) = 72
      BY <2>1, FirstStates DEF NextState
    <2>3. x = 0
      <3>1. x = b % 1
        BY <2>1, LeadingBits DEF NextCode, UTF8_ACCEPT
      <3> QED
        BY <1>1, <1>11, <3>1
    <2>4. Formed(t, 4) /\ SoFar(t, 4) = x
      <3>1. Leads(b, 4) /\ b % 8 = 0
        BY <1>1, <1>11 DEF Leads
      <3> QED
        BY <1>2, <2>3, <3>1 DEF Formed, SoFar
    <2>5. Prefix(72, 4, x) /\ Left(72) = 3
      BY <1>1, <1>11, <2>3 DEF Prefix, Left
    <2>6. Partial(72, x, t, 4)
      BY <1>2, <2>4, <2>5 DEF Partial
    <2> QED
      BY <1>1, <2>2, <2>3, <2>6 DEF Judged, TextStates
  <1>12. CASE 241 <= b /\ b <= 243
    <2>1. Class(b) = 6
      BY <1>1, <1>12, Classes
    <2>2. NextState(0, b) = 84
      BY <2>1, FirstStates DEF NextState
    <2>3. x = b - 240
      <3>1. x = b % 4
        BY <2>1, LeadingBits DEF NextCode, UTF8_ACCEPT
      <3> QED
        BY <1>1, <1>12, <3>1
    <2>4. Formed(t, 4) /\ SoFar(t, 4) = x
      <3>1. Leads(b, 4) /\ b % 8 = b - 240
        BY <1>1, <1>12 DEF Leads
      <3> QED
        BY <1>2, <2>3, <3>1 DEF Formed, SoFar
    <2>5. Prefix(84, 4, x) /\ Left(84) = 3
      BY <1>1, <1>12, <2>3 DEF Prefix, Left
    <2>6. Partial(84, x, t, 4)
      BY <1>2, <2>4, <2>5 DEF Partial
    <2> QED
      BY <1>1, <2>2, <2>3, <2>6 DEF Judged, TextStates
  <1>13. CASE b = 244
    <2>1. Class(b) = 5
      BY <1>1, <1>13, Classes
    <2>2. NextState(0, b) = 96
      BY <2>1, FirstStates DEF NextState
    <2>3. x = 4
      <3>1. x = b % 8
        BY <2>1, LeadingBits DEF NextCode, UTF8_ACCEPT
      <3> QED
        BY <1>1, <1>13, <3>1
    <2>4. Formed(t, 4) /\ SoFar(t, 4) = x
      <3>1. Leads(b, 4) /\ b % 8 = 4
        BY <1>1, <1>13 DEF Leads
      <3> QED
        BY <1>2, <2>3, <3>1 DEF Formed, SoFar
    <2>5. Prefix(96, 4, x) /\ Left(96) = 3
      BY <1>1, <1>13, <2>3 DEF Prefix, Left
    <2>6. Partial(96, x, t, 4)
      BY <1>2, <2>4, <2>5 DEF Partial
    <2> QED
      BY <1>1, <2>2, <2>3, <2>6 DEF Judged, TextStates
  <1> QED
    BY <1>1, <1>3, <1>5, <1>6, <1>7, <1>8, <1>9, <1>10, <1>11, <1>12, <1>13

LEMMA TextStarts == TextInit => TextInv
  BY DEF TextInit, TextInv, TextStates, UTF8_ACCEPT

LEMMA FeedKeeps ==
    ASSUME TextInv, NEW b \in TextBytes, Feed(b)
    PROVE  TextInv'
  <1>1. b \in AByte
    BY TextBytesAreBytes DEF AByte
  <1>2. /\ textState # 12
        /\ textState' = NextState(textState, b)
        /\ codepoint' = NextCode(textState, codepoint, b)
        /\ seen' = IF textState = 0 THEN <<b>> ELSE Append(seen, b)
        /\ width' = IF textState' = 0 THEN Len(seen') ELSE width
    BY DEF Feed, UTF8_ACCEPT, UTF8_REJECT
  <1>3. textState \in TextStates /\ codepoint \in Int /\ seen \in Seq(AByte)
    BY DEF TextInv
  <1>4. seen' \in Seq(AByte) /\ seen' # <<>>
    BY <1>1, <1>2, <1>3
  <1>5. textState' \in TextStates /\ codepoint' \in Int /\ Judged(textState', codepoint', seen')
    <2>1. CASE textState = 0
      <3>1. seen' = <<b>> /\ codepoint' = NextCode(0, codepoint, b) /\ textState' = NextState(0, b)
        BY <1>2, <2>1
      <3> QED
        BY <1>1, <3>1, FirstByte
    <2>2. CASE textState # 0
      <3>1. textState \in {24, 36, 48, 60, 72, 84, 96}
        BY <1>2, <1>3, <2>2 DEF TextStates
      <3>2. PICK n \in 2..4 : Partial(textState, codepoint, seen, n)
        <4>1. seen # <<>> /\ Judged(textState, codepoint, seen)
          BY <2>2 DEF TextInv
        <4> QED
          BY <1>2, <2>2, <4>1 DEF Judged
      <3>3. seen' = Append(seen, b)
        BY <1>2, <2>2
      <3>4. codepoint' \in Int
        BY <1>1, <1>2, <1>3, <2>2 DEF AByte, NextCode, UTF8_ACCEPT
      <3>5. /\ NextState(textState, b) \in TextStates
            /\ Judged(NextState(textState, b), NextCode(textState, codepoint, b),
                      Append(seen, b))
        <4>1. PICK r \in {24, 36, 48, 60, 72, 84, 96} : r = textState
          BY <3>1
        <4>2. PICK v \in Int : v = codepoint
          BY <1>3
        <4>3. PICK bytes \in Seq(AByte) : bytes = seen
          BY <1>3
        <4>4. Partial(r, v, bytes, n)
          BY <3>2, <4>1, <4>2, <4>3
        <4>5. /\ NextState(r, b) \in TextStates
              /\ Judged(NextState(r, b), NextCode(r, v, b), Append(bytes, b))
          BY <1>1, <4>4, LaterByte
        <4> QED
          BY <4>1, <4>2, <4>3, <4>5
      <3> QED
        BY <1>2, <3>3, <3>4, <3>5
    <2> QED
      BY <2>1, <2>2
  <1>6. textState' = 0 => width' = Len(seen')
    BY <1>2
  <1> QED
    BY <1>4, <1>5, <1>6 DEF TextInv

LEMMA TextKnows == TextInv => DecodesText
  <1> SUFFICES ASSUME TextInv, seen # <<>>
               PROVE  /\ textState = 0 <=> \E n \in 1..4 : Encodes(seen, n)
                      /\ textState = 12 <=> \A n \in 1..4 : ~Encodes(seen, n) /\ ~Begins(seen, n)
                      /\ textState = 0 => codepoint = Value(seen) /\ width = Len(seen)
    BY DEF DecodesText, UTF8_ACCEPT, UTF8_REJECT
  <1>1. /\ textState \in TextStates /\ codepoint \in Int /\ seen \in Seq(AByte)
        /\ Judged(textState, codepoint, seen)
        /\ textState = 0 => width = Len(seen)
    BY DEF TextInv
  <1>2. CASE textState = 0
    BY <1>1, <1>2 DEF Judged, Accepted
  <1>3. CASE textState = 12
    BY <1>1, <1>3 DEF Judged, Rejected
  <1>4. CASE textState \notin {0, 12}
    <2>1. textState \in {24, 36, 48, 60, 72, 84, 96}
      BY <1>1, <1>4 DEF TextStates
    <2>2. PICK n \in 2..4 : Partial(textState, codepoint, seen, n)
      BY <1>1, <1>4 DEF Judged
    <2>3. Begins(seen, n) /\ \A m \in 1..4 : ~Encodes(seen, m)
      BY <1>1, <2>1, <2>2, PartialBegins
    <2> QED
      BY <1>4, <2>3
  <1> QED
    BY <1>2, <1>3, <1>4

\* The decoder judges every sequence of bytes as RFC 3629 does, whichever bytes occur
\* (l_unicode.c:34).
THEOREM TextIsDecoded == TextSpec => []DecodesText
  <1>1. TextInv /\ [TextNext]_textVars => TextInv'
    <2> SUFFICES ASSUME TextInv, [TextNext]_textVars PROVE TextInv'
      OBVIOUS
    <2>1. CASE TextNext
      BY <2>1, FeedKeeps DEF TextNext
    <2>2. CASE UNCHANGED textVars
      BY <2>2 DEF TextInv, textVars
    <2> QED
      BY <2>1, <2>2
  <1> QED
    BY <1>1, TextStarts, TextKnows, PTL DEF TextSpec
===================================================================================
