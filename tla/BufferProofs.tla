------------------------------ MODULE BufferProofs ------------------------------
(****************************************************************************)
(* Buffer.tla implements ByteQueue.tla, whatever is written and read.       *)
(****************************************************************************)
EXTENDS Buffer, SequenceTheorems, TLAPS

\* The inductive invariant: types and indices together.
BufferInv == BufferTypeOK /\ Bounded

\* The bytes from one index to another, seen as a sequence.
LEMMA Between ==
    ASSUME NEW mem, NEW a \in Nat, NEW b \in Nat, a <= b,
           \A i \in a..(b - 1) : mem[i] \in Byte
    PROVE  LET s == [k \in 1..(b - a) |-> mem[a + k - 1]]
           IN /\ b - a \in Nat
              /\ s \in Seq(Byte)
              /\ Len(s) = b - a
              /\ \A k \in 1..(b - a) : s[k] = mem[a + k - 1]
  <1> DEFINE s == [k \in 1..(b - a) |-> mem[a + k - 1]]
  <1>1. b - a \in Nat
    BY SMT
  <1>2. \A k \in 1..(b - a) : a + k - 1 \in a..(b - 1)
    BY SMT
  <1>3. \A k \in 1..(b - a) : mem[a + k - 1] \in Byte
    BY <1>2
  <1>4. s \in [1..(b - a) -> Byte]
    BY <1>3
  <1> HIDE DEF s
  <1>5. s \in Seq(Byte) /\ Len(s) = b - a
    BY <1>1, <1>4, SMT
  <1> QED
    BY <1>1, <1>5 DEF s

\* The bytes held are a sequence of bytes, as long as the distance of the indices.
LEMMA ContentsShape ==
    ASSUME BufferInv
    PROVE  /\ Held \in Nat
           /\ Contents \in Seq(Byte)
           /\ Len(Contents) = Held
           /\ \A k \in 1..Held : Contents[k] = memory[start + k - 1]
  <1>1. start \in Nat /\ end \in Nat /\ start <= end
        /\ \A i \in start..(end - 1) : memory[i] \in Byte
    BY DEF BufferInv, BufferTypeOK, Bounded
  <1> QED
    BY <1>1, Between DEF Contents, Held

LEMMA NextContentsShape ==
    ASSUME BufferInv'
    PROVE  /\ Held' \in Nat
           /\ Contents' \in Seq(Byte)
           /\ Len(Contents') = Held'
           /\ \A k \in 1..Held' : Contents'[k] = memory'[start' + k - 1]
  <1>1. start' \in Nat /\ end' \in Nat /\ start' <= end'
        /\ \A i \in start'..(end' - 1) : memory'[i] \in Byte
    BY DEF BufferInv, BufferTypeOK, Bounded
  <1> QED
    BY <1>1, Between DEF Contents, Held

\* Reading n of the bytes held leaves the others, in order.
LEMMA SeekTakes ==
    ASSUME BufferInv, NEW n \in 0..Held, NEW values, Seek(n, values)
    PROVE  /\ BufferInv'
           /\ Contents' = SubSeq(Contents, n + 1, Len(Contents))
           /\ answer' = values
  <1>0. /\ Held \in Nat /\ Contents \in Seq(Byte) /\ Len(Contents) = Held
        /\ \A k \in 1..Held : Contents[k] = memory[start + k - 1]
        /\ \A k \in 1..Held : Contents[k] \in Byte
    BY ContentsShape, ElementOfSeq
  <1>1. start \in Nat /\ end \in Nat /\ size \in Nat /\ start <= end /\ end <= size
    BY BufferParameters, SMT DEF BufferInv, BufferTypeOK, Bounded
  <1>2. start' = start + n /\ end' = end /\ memory' = memory /\ size' = size
    BY DEF Seek
  <1>3. BufferInv'
    BY <1>0, <1>1, <1>2, SMT DEF BufferInv, BufferTypeOK, Bounded, Held
  <1>4. Held' = Held - n
    BY <1>0, <1>1, <1>2, SMT DEF Held
  <1>5. /\ Contents' \in Seq(Byte) /\ Len(Contents') = Held - n
        /\ \A k \in 1..(Held - n) : Contents'[k] = memory[start + n + k - 1]
    BY <1>2, <1>3, <1>4, NextContentsShape
  <1>6. \A k \in 1..(Held - n) : n + 1 + k - 1 \in 1..Held
                                 /\ start + (n + 1 + k - 1) - 1 = start + n + k - 1
    BY <1>0, <1>1, SMT
  <1> DEFINE rest == SubSeq(Contents, n + 1, Held)
  <1>7. /\ rest \in Seq(Byte)
        /\ Len(rest) = Held - n
        /\ \A k \in 1..(Held - n) : rest[k] = Contents[n + 1 + k - 1]
    <2>1. n + 1 \in Int /\ Held \in Int
          /\ \A i \in (n + 1)..Held : Contents[i] \in Byte
      BY <1>0, SMT
    <2>2. /\ rest \in Seq(Byte)
          /\ Len(rest) = IF n + 1 <= Held THEN Held - (n + 1) + 1 ELSE 0
          /\ \A k \in 1..(Held - (n + 1) + 1) : rest[k] = Contents[n + 1 + k - 1]
      BY <2>1, SubSeqProperties
    <2>3. Held - (n + 1) + 1 = Held - n
      BY <1>0, SMT
    <2>4. (IF n + 1 <= Held THEN Held - n ELSE 0) = Held - n
      BY <1>0, SMT
    <2> HIDE DEF rest
    <2> QED
      BY <2>2, <2>3, <2>4
  <1> HIDE DEF rest
  <1>8. \A k \in 1..(Held - n) : Contents'[k] = rest[k]
    <2> TAKE k \in 1..(Held - n)
    <2>1. Contents'[k] = memory[start + n + k - 1] /\ rest[k] = Contents[n + 1 + k - 1]
      BY <1>5, <1>7
    <2>2. n + 1 + k - 1 \in 1..Held /\ start + (n + 1 + k - 1) - 1 = start + n + k - 1
      BY <1>6
    <2> DEFINE j == n + 1 + k - 1
    <2>3. Contents[j] = memory[start + j - 1]
      BY <1>0, <2>2
    <2> QED
      BY <2>1, <2>2, <2>3
  <1>9. Contents' = rest
    BY <1>5, <1>7, <1>8, SeqEqual
  <1> QED
    BY <1>0, <1>3, <1>9 DEF Seek, rest

\* A copy behind a block that holds the bytes appends to them.
LEMMA PutAppends ==
    ASSUME BufferInv,
           NEW m, NEW n \in Sizes, NEW first \in Nat, NEW last, last = first + Held,
           NEW s \in Seq(Byte),
           m \in [0..(n - 1) -> Byte \cup {Junk}],
           \A k \in 1..Held : m[first + k - 1] = Contents[k],
           last + Len(s) <= n,
           Put(m, n, first, last, s)
    PROVE  BufferInv' /\ Contents' = Contents \o s /\ answer' = <<>>
  <1>0. /\ Held \in Nat /\ Contents \in Seq(Byte) /\ Len(Contents) = Held
        /\ Len(s) \in Nat /\ n \in Nat /\ last \in Nat
        /\ \A k \in 1..Len(s) : s[k] \in Byte
        /\ \A k \in 1..Held : Contents[k] \in Byte
    BY ContentsShape, BufferParameters, SMT
  <1>b. \A k \in 1..Held : Contents[k] \in Byte
    BY <1>0
  <1>1. /\ memory' = [i \in 0..(n - 1) |->
                        IF i \in last..(last + Len(s) - 1) THEN s[i - last + 1] ELSE m[i]]
        /\ size' = n /\ start' = first /\ end' = last + Len(s)
    BY DEF Put
  <1>a. \A i \in 0..(n - 1) :
           /\ i \in last..(last + Len(s) - 1) => memory'[i] = s[i - last + 1]
           /\ ~(i \in last..(last + Len(s) - 1)) => memory'[i] = m[i]
    BY <1>1
  <1>2. \A k \in 1..Held : memory'[first + k - 1] = Contents[k]
    <2> TAKE k \in 1..Held
    <2>1. first + k - 1 \in 0..(n - 1) /\ ~(first + k - 1 \in last..(last + Len(s) - 1))
      BY <1>0, SMT
    <2>2. memory'[first + k - 1] = m[first + k - 1]
      BY <1>a, <2>1
    <2> QED
      BY <2>2
  <1>3. \A k \in 1..Len(s) : memory'[last + k - 1] = s[k]
    <2> TAKE k \in 1..Len(s)
    <2>1. /\ last + k - 1 \in 0..(n - 1)
          /\ last + k - 1 \in last..(last + Len(s) - 1)
          /\ last + k - 1 - last + 1 = k
      BY <1>0, SMT
    <2>2. \A i \in 0..(n - 1) :
             i \in last..(last + Len(s) - 1) => memory'[i] = s[i - last + 1]
      BY <1>a
    <2>3. \A i \in 0..(n - 1) :
             i \in last..(last + Len(s) - 1) /\ i - last + 1 = k => memory'[i] = s[k]
      BY <2>2
    <2> QED
      BY <2>1, <2>3
  <1>4. Held' = Held + Len(s)
    BY <1>0, <1>1, SMT DEF Held
  <1>6. \A k \in 1..(Held + Len(s)) :
           memory'[first + k - 1] = IF k <= Held THEN Contents[k] ELSE s[k - Held]
    <2> TAKE k \in 1..(Held + Len(s))
    <2>1. CASE k <= Held
      <3>1. k \in 1..Held
        BY <1>0, <2>1, SMT
      <3> QED
        BY <1>2, <2>1, <3>1
    <2>2. CASE ~(k <= Held)
      <3>1. k - Held \in 1..Len(s) /\ last + (k - Held) - 1 = first + k - 1
        BY <1>0, <2>2, SMT
      <3>2. memory'[last + (k - Held) - 1] = s[k - Held]
        BY <1>3, <3>1
      <3> QED
        BY <2>2, <3>1, <3>2
    <2> QED
      BY <2>1, <2>2
  <1>9. memory' \in [0..(n - 1) -> Byte \cup {Junk}]
    <2>1. \A i \in 0..(n - 1) :
            i \in last..(last + Len(s) - 1) => i - last + 1 \in 1..Len(s)
      BY <1>0, SMT
    <2> QED
      BY <1>0, <1>1, <2>1
  <1>10. \A i \in first..(last + Len(s) - 1) : memory'[i] \in Byte
    <2> TAKE i \in first..(last + Len(s) - 1)
    <2>1. CASE i < last
      <3>1. i - first + 1 \in 1..Held /\ first + (i - first + 1) - 1 = i
        BY <1>0, <2>1, SMT
      <3>2. \A k \in 1..Held : first + k - 1 = i => memory'[i] = Contents[k]
        BY <1>2
      <3>3. memory'[i] = Contents[i - first + 1]
        BY <3>1, <3>2
      <3>4. Contents[i - first + 1] \in Byte
        BY <1>b, <3>1
      <3> QED
        BY <3>3, <3>4
    <2>2. CASE ~(i < last)
      <3>1. i - last + 1 \in 1..Len(s) /\ last + (i - last + 1) - 1 = i
        BY <1>0, <2>2, SMT
      <3>2. \A k \in 1..Len(s) : last + k - 1 = i => memory'[i] = s[k]
        BY <1>3
      <3>3. memory'[i] = s[i - last + 1]
        BY <3>1, <3>2
      <3>4. s[i - last + 1] \in Byte
        BY <1>0, <3>1
      <3> QED
        BY <3>3, <3>4
    <2> QED
      BY <2>1, <2>2
  <1>11. first <= last + Len(s) /\ last + Len(s) <= n
    BY <1>0, SMT
  <1>12. BufferInv'
    <2>1. /\ size' \in Sizes /\ start' \in Nat /\ end' \in Nat
          /\ start' <= end' /\ end' <= size'
          /\ memory' \in [0..(size' - 1) -> Byte \cup {Junk}]
          /\ \A i \in start'..(end' - 1) : memory'[i] \in Byte
      <3>1. size' = n /\ start' = first /\ end' = last + Len(s)
        BY <1>1
      <3>2. end' \in Nat
        BY <1>0, <3>1, SMT
      <3> QED
        BY <1>9, <1>10, <1>11, <3>1, <3>2
    <2> QED
      BY <2>1 DEF BufferInv, BufferTypeOK, Bounded
  <1>13. /\ Contents' \in Seq(Byte) /\ Len(Contents') = Held + Len(s)
         /\ \A k \in 1..(Held + Len(s)) : Contents'[k] = memory'[first + k - 1]
    BY <1>1, <1>4, <1>12, NextContentsShape
  <1>14. /\ Contents \o s \in Seq(Byte) /\ Len(Contents \o s) = Held + Len(s)
         /\ \A k \in 1..(Held + Len(s)) :
              (Contents \o s)[k] = IF k <= Held THEN Contents[k] ELSE s[k - Held]
    BY <1>0, ConcatProperties
  <1>15. Contents' = Contents \o s
    <2> DEFINE c == Contents \o s
               b == Contents'
    <2>1. /\ b \in Seq(Byte) /\ c \in Seq(Byte) /\ Len(b) = Held + Len(s) /\ Len(c) = Len(b)
      BY <1>13, <1>14
    <2>2. \A k \in 1..(Held + Len(s)) : b[k] = c[k]
      BY <1>6, <1>13, <1>14
    <2> HIDE DEF b, c
    <2>3. b = c
      BY <2>1, <2>2, SeqEqual
    <2> QED
      BY <2>3 DEF b, c
  <1> QED
    BY <1>12, <1>15 DEF Put

\* The data at the front of a block that is large enough.
LEMMA MovedHolds ==
    ASSUME BufferInv, NEW n \in Nat, Held <= n,
           NEW old \in [0..(n - 1) -> Byte \cup {Junk}]
    PROVE  /\ Moved(n, old) \in [0..(n - 1) -> Byte \cup {Junk}]
           /\ \A k \in 1..Held : Moved(n, old)[k - 1] = Contents[k]
  <1>0. /\ Held \in Nat /\ start \in Nat
        /\ \A k \in 1..Held : Contents[k] = memory[start + k - 1]
        /\ \A k \in 1..Held : Contents[k] \in Byte
    <2>1. Held \in Nat /\ Contents \in Seq(Byte) /\ Len(Contents) = Held
          /\ \A k \in 1..Held : Contents[k] = memory[start + k - 1]
      BY ContentsShape
    <2> QED
      BY <2>1, SMT DEF BufferInv, BufferTypeOK
  <1>1. \A i \in 0..(n - 1) : i < Held =>
           i + 1 \in 1..Held /\ start + (i + 1) - 1 = start + i
    BY <1>0, SMT
  <1>2. \A i \in 0..(n - 1) : i < Held => memory[start + i] = Contents[i + 1]
    BY <1>0, <1>1
  <1>3. \A k \in 1..Held : k - 1 \in 0..(n - 1) /\ k - 1 < Held /\ (k - 1) + 1 = k
    BY <1>0, SMT
  <1> QED
    BY <1>0, <1>1, <1>2, <1>3 DEF Moved

\* A write appends to the bytes held, in each of the three places it can find for them.
LEMMA WriteAppends ==
    ASSUME BufferInv, NEW s \in Writes, Write(s)
    PROVE  BufferInv' /\ Contents' = Contents \o s /\ answer' = <<>>
  <1>0. s \in Seq(Byte) /\ Len(s) \in Nat
    BY BufferParameters
  <1>1. /\ Held \in Nat /\ start \in Nat /\ end \in Nat /\ size \in Nat
        /\ start <= end /\ end <= size /\ Held = end - start
        /\ memory \in [0..(size - 1) -> Byte \cup {Junk}]
        /\ \A k \in 1..Held : Contents[k] = memory[start + k - 1]
    BY ContentsShape, BufferParameters, SMT DEF BufferInv, BufferTypeOK, Bounded, Held
  <1>2. CASE FitsBehind(s) /\ Put(memory, size, start, end, s)
    <2>1. size \in Sizes /\ end = start + Held /\ end + Len(s) <= size
      BY <1>0, <1>1, <1>2, SMT DEF FitsBehind, BufferInv, BufferTypeOK
    <2> QED
      BY <1>0, <1>1, <1>2, <2>1, PutAppends
  <1>3. CASE FitsMoved(s) /\ Put(Moved(size, memory), size, 0, Held, s)
    <2>1. size \in Sizes /\ Held = 0 + Held /\ Held + Len(s) <= size /\ Held <= size
      BY <1>0, <1>1, <1>3, SMT DEF FitsMoved, BufferInv, BufferTypeOK
    <2>2. /\ Moved(size, memory) \in [0..(size - 1) -> Byte \cup {Junk}]
          /\ \A k \in 1..Held : Moved(size, memory)[k - 1] = Contents[k]
      BY <1>1, <2>1, MovedHolds
    <2>3. \A k \in 1..Held : Moved(size, memory)[0 + k - 1] = Contents[k]
      BY <2>2, <1>1, SMT
    <2> QED
      BY <1>0, <1>3, <2>1, <2>2, <2>3, PutAppends
  <1>4. CASE Grows(s) /\ \E n \in Sizes : GoodSize(n, Held + Len(s))
                                          /\ Put(Moved(n, Fresh(n)), n, 0, Held, s)
    <2>1. PICK n \in Sizes : /\ GoodSize(n, Held + Len(s))
                             /\ Put(Moved(n, Fresh(n)), n, 0, Held, s)
      BY <1>4
    <2>2. n \in Nat /\ Held = 0 + Held /\ Held + Len(s) <= n /\ Held <= n
      BY <1>0, <1>1, <2>1, BufferParameters, SMT DEF GoodSize
    <2>3. Fresh(n) \in [0..(n - 1) -> Byte \cup {Junk}]
      BY DEF Fresh
    <2>4. /\ Moved(n, Fresh(n)) \in [0..(n - 1) -> Byte \cup {Junk}]
          /\ \A k \in 1..Held : Moved(n, Fresh(n))[k - 1] = Contents[k]
      BY <2>2, <2>3, MovedHolds
    <2>5. \A k \in 1..Held : Moved(n, Fresh(n))[0 + k - 1] = Contents[k]
      BY <2>4, <1>1, SMT
    <2> QED
      BY <1>0, <2>1, <2>2, <2>4, <2>5, PutAppends
  <1> QED
    BY <1>2, <1>3, <1>4 DEF Write

----------------------------------------------------------------------------
(* Each call does to the queue what ByteQueue says. *)

\* What a call that reads needs to know of the bytes held.
LEMMA Holds ==
    ASSUME BufferInv
    PROVE  /\ Held \in Nat /\ Contents \in Seq(Byte) /\ Len(Contents) = Held
           /\ Contents # <<>> <=> Held # 0
           /\ \A n \in Counts : n \in Nat /\ (Queue!Has(n) <=> Enough(n))
           /\ \A n \in Counts : Enough(n) => n \in 0..Held
  <1>1. Held \in Nat /\ Contents \in Seq(Byte) /\ Len(Contents) = Held
    BY ContentsShape
  <1>2. Contents # <<>> <=> Held # 0
    BY <1>1, EmptySeq
  <1>3. \A n \in Counts : n \in Nat
    BY BufferParameters
  <1> QED
    BY <1>1, <1>2, <1>3, SMT DEF Queue!Has, Enough

\* A call that reads n bytes and returns values, seen from the queue.
LEMMA Taken ==
    ASSUME BufferInv, NEW n \in 0..Held, NEW values, Seek(n, values)
    PROVE  BufferInv' /\ Queue!Take(n, values)
  BY SeekTakes DEF Queue!Take

LEMMA WriteStep ==
    ASSUME BufferInv, NEW s \in Writes, Write(s) \/ WriteFails(s)
    PROVE  BufferInv' /\ Queue!Write(s)
  <1>1. CASE Write(s)
    <2>1. BufferInv' /\ Contents' = Contents \o s /\ answer' = <<>>
      BY <1>1, WriteAppends
    <2>2. call' = <<"write", s>>
      BY <1>1 DEF Write
    <2> QED
      BY <2>1, <2>2 DEF Queue!Write
  <1>2. CASE WriteFails(s)
    <2>1. UNCHANGED <<memory, size, start, end>>
      BY <1>2 DEF WriteFails
    <2>2. BufferInv' /\ Contents' = Contents
      BY <2>1 DEF BufferInv, BufferTypeOK, Bounded, Contents, Held
    <2> QED
      BY <1>2, <2>2 DEF WriteFails, Queue!Write
  <1> QED
    BY <1>1, <1>2

LEMMA ReadStep ==
    ASSUME BufferInv, NEW n \in Counts, Read(n)
    PROVE  BufferInv' /\ Queue!Read(n)
  <1>1. CASE Enough(n)
    <2>1. n \in 0..Held /\ Queue!Has(n) /\ Seek(n, <<Block(n)>>)
      BY <1>1, Holds DEF Read
    <2>2. BufferInv' /\ Queue!Take(n, <<Block(n)>>)
      BY <2>1, Taken
    <2> QED
      BY <2>1, <2>2 DEF Read, Queue!Read, Block
  <1>2. CASE ~Enough(n)
    <2>1. 0 \in 0..Held /\ ~Queue!Has(n) /\ Seek(0, <<>>)
      BY <1>2, Holds, SMT DEF Read
    <2>2. BufferInv' /\ Queue!Take(0, <<>>)
      BY <2>1, Taken
    <2> QED
      BY <2>1, <2>2 DEF Read, Queue!Read
  <1> QED
    BY <1>1, <1>2

LEMMA ReadAllStep ==
    ASSUME BufferInv, ReadAll
    PROVE  BufferInv' /\ Queue!ReadAll
  <1>1. CASE Held # 0
    <2>1. Held \in 0..Held /\ Contents # <<>> /\ Len(Contents) = Held
          /\ Seek(Held, <<Contents>>)
      BY <1>1, Holds, SMT DEF ReadAll
    <2>2. BufferInv' /\ Queue!Take(Held, <<Contents>>)
      BY <2>1, Taken
    <2> QED
      BY <2>1, <2>2 DEF ReadAll, Queue!ReadAll
  <1>2. CASE Held = 0
    <2>1. 0 \in 0..Held /\ ~(Contents # <<>>) /\ Seek(0, <<>>)
      BY <1>2, Holds, SMT DEF ReadAll
    <2>2. BufferInv' /\ Queue!Take(0, <<>>)
      BY <2>1, Taken
    <2> QED
      BY <2>1, <2>2 DEF ReadAll, Queue!ReadAll
  <1> QED
    BY <1>1, <1>2

LEMMA PeekStep ==
    ASSUME BufferInv, NEW n \in Counts, Peek(n)
    PROVE  BufferInv' /\ Queue!Peek(n)
  <1>0. 0 \in 0..Held /\ (Queue!Has(n) <=> Enough(n))
    BY Holds, SMT
  <1>1. CASE Enough(n)
    <2>1. BufferInv' /\ Queue!Take(0, <<Block(n)>>)
      BY <1>0, <1>1, Taken DEF Peek
    <2> QED
      BY <1>0, <1>1, <2>1 DEF Peek, Queue!Peek, Block
  <1>2. CASE ~Enough(n)
    <2>1. BufferInv' /\ Queue!Take(0, <<>>)
      BY <1>0, <1>2, Taken DEF Peek
    <2> QED
      BY <1>0, <1>2, <2>1 DEF Peek, Queue!Peek
  <1> QED
    BY <1>1, <1>2

LEMMA StructStep ==
    ASSUME BufferInv, NEW n \in Counts
    PROVE  /\ PeekStruct(n) => BufferInv' /\ Queue!PeekStruct(n)
           /\ ReadStruct(n) => BufferInv' /\ Queue!ReadStruct(n)
  <1>0. 0 \in 0..Held /\ (Queue!Has(n) <=> Enough(n)) /\ (Enough(n) => n \in 0..Held)
    BY Holds, SMT
  <1>1. ASSUME PeekStruct(n), Enough(n) PROVE BufferInv' /\ Queue!PeekStruct(n)
    <2>1. BufferInv' /\ Queue!Take(0, <<n, Block(n)>>)
      BY <1>0, <1>1, Taken DEF PeekStruct
    <2> QED
      BY <1>0, <1>1, <2>1 DEF PeekStruct, Queue!PeekStruct, Block
  <1>2. ASSUME PeekStruct(n), ~Enough(n) PROVE BufferInv' /\ Queue!PeekStruct(n)
    <2>1. BufferInv' /\ Queue!Take(0, <<>>)
      BY <1>0, <1>2, Taken DEF PeekStruct
    <2> QED
      BY <1>0, <1>2, <2>1 DEF PeekStruct, Queue!PeekStruct
  <1>3. ASSUME ReadStruct(n), Enough(n) PROVE BufferInv' /\ Queue!ReadStruct(n)
    <2>1. BufferInv' /\ Queue!Take(n, <<Block(n)>>)
      BY <1>0, <1>3, Taken DEF ReadStruct
    <2> QED
      BY <1>0, <1>3, <2>1 DEF ReadStruct, Queue!ReadStruct, Block
  <1>4. ASSUME ReadStruct(n), ~Enough(n) PROVE BufferInv' /\ Queue!ReadStruct(n)
    <2>1. BufferInv' /\ Queue!Take(0, <<>>)
      BY <1>0, <1>4, Taken DEF ReadStruct
    <2> QED
      BY <1>0, <1>4, <2>1 DEF ReadStruct, Queue!ReadStruct
  <1> QED
    BY <1>1, <1>2, <1>3, <1>4

\* byte_find looks for the token where ByteQueue does.
LEMMA TokenPlaces ==
    ASSUME BufferInv, NEW tok \in Tokens, NEW i \in Nat
    PROVE  Queue!OccursAt(Contents, tok, i) <=> At(tok, i)
  <1>1. Held \in Nat /\ Contents \in Seq(Byte) /\ Len(Contents) = Held
        /\ \A k \in 1..Held : Contents[k] = memory[start + k - 1]
    BY ContentsShape
  <1>2. Len(tok) \in Nat
    BY BufferParameters
  <1>3. start \in Nat
    BY DEF BufferInv, BufferTypeOK
  <1>4. i + Len(tok) <= Len(Contents) <=> Held - i >= Len(tok)
    BY <1>1, <1>2, SMT
  <1>5. ASSUME Held - i >= Len(tok), NEW k \in 1..Len(tok)
        PROVE  Contents[i + k] = memory[start + i + k - 1]
    <2>1. i + k \in 1..Held /\ start + (i + k) - 1 = start + i + k - 1
      BY <1>1, <1>2, <1>3, <1>5, SMT
    <2> QED
      BY <1>1, <2>1
  <1> QED
    BY <1>4, <1>5 DEF Queue!OccursAt, At

LEMMA ReadUntilStep ==
    ASSUME BufferInv, NEW tok \in Tokens, NEW drop \in BOOLEAN, ReadUntil(tok, drop)
    PROVE  BufferInv' /\ Queue!ReadUntil(tok, drop)
  <1>0. Held \in Nat /\ Len(Contents) = Held /\ Len(tok) \in Nat
    BY Holds, BufferParameters
  <1>1. PICK i \in 0..Held :
          /\ Found(tok, i)
          /\ \/ i = Held /\ Seek(0, <<>>)
             \/ i # Held /\ Seek(i + (IF drop THEN Len(tok) ELSE 0), <<Block(i)>>)
    BY DEF ReadUntil
  <1>2. \A j \in 0..Held : Queue!OccursAt(Contents, tok, j) <=> At(tok, j)
    BY <1>0, TokenPlaces
  <1>3. call' = <<"readuntil", tok, drop>>
    BY DEF ReadUntil
  <1>4. CASE i = Held
    <2>1. \A j \in 0..(Held - 1) : ~At(tok, j)
      BY <1>0, <1>1, <1>4, SMT DEF Found
    <2>2. \A j \in 0..(Len(Contents) - 1) : ~Queue!OccursAt(Contents, tok, j)
      BY <1>0, <1>2, <2>1, SMT
    <2>3. 0 \in 0..Held /\ Seek(0, <<>>)
      BY <1>0, <1>1, <1>4, SMT
    <2>4. BufferInv' /\ Queue!Take(0, <<>>)
      BY <2>3, Taken
    <2> QED
      BY <1>3, <2>2, <2>4 DEF Queue!ReadUntil
  <1>5. CASE i # Held
    <2> DEFINE n == i + (IF drop THEN Len(tok) ELSE 0)
    <2>1. i \in 0..(Held - 1) /\ At(tok, i) /\ \A j \in 0..(i - 1) : ~At(tok, j)
      BY <1>1, <1>5 DEF Found
    <2>2. n \in 0..Held
      BY <1>0, <2>1, SMT DEF At
    <2>3. BufferInv' /\ Queue!Take(n, <<Block(i)>>)
      <3>1. Seek(n, <<Block(i)>>)
        BY <1>1, <1>5
      <3> HIDE DEF n
      <3> QED
        BY <2>2, <3>1, Taken
    <2>4. i \in 0..(Len(Contents) - 1) /\ Queue!OccursAt(Contents, tok, i)
      BY <1>0, <1>2, <2>1
    <2>5. \A j \in 0..(i - 1) : ~Queue!OccursAt(Contents, tok, j)
      <3> TAKE j \in 0..(i - 1)
      <3>1. j \in 0..Held
        BY <1>0, <2>1, SMT
      <3> QED
        BY <1>2, <2>1, <3>1
    <2> QED
      BY <1>3, <2>3, <2>4, <2>5 DEF Queue!ReadUntil, Block
  <1> QED
    BY <1>4, <1>5

LEMMA GetStep ==
    ASSUME BufferInv, NEW i \in Counts \ {0}, NEW j \in Counts, Get(i, j)
    PROVE  BufferInv' /\ Queue!Get(i, j)
  <1> DEFINE last == IF j < Held THEN j ELSE Held
             off == IF i - 1 > last THEN last ELSE i - 1
  <1>0. /\ Held \in Nat /\ Contents \in Seq(Byte) /\ Len(Contents) = Held
        /\ i \in Nat /\ i > 0 /\ j \in Nat /\ 0 \in 0..Held
    BY Holds, SMT
  <1>1. last \in Nat /\ off \in Nat
    BY <1>0, SMT
  <1>2. call' = <<"get", i, j>> /\ Seek(0, <<SubSeq(Contents, off + 1, last)>>)
    BY DEF Get
  <1>3. last = (IF j < Len(Contents) THEN j ELSE Len(Contents))
    BY <1>0
  <1>4. SubSeq(Contents, off + 1, last) = SubSeq(Contents, i, last)
    <2>1. CASE i - 1 > last
      <3>1. last < off + 1 /\ last < i /\ off + 1 \in Int /\ i \in Int /\ last \in Int
        BY <1>0, <1>1, <2>1, SMT
      <3> HIDE DEF last, off
      <3> QED
        BY <3>1, SubSeqEmpty
    <2>2. CASE ~(i - 1 > last)
      <3>1. off + 1 = i
        BY <1>0, <2>2, SMT
      <3> QED
        BY <3>1
    <2> QED
      BY <2>1, <2>2
  <1> HIDE DEF last, off
  <1>5. BufferInv' /\ Queue!Take(0, <<SubSeq(Contents, i, last)>>)
    BY <1>0, <1>2, <1>4, Taken
  <1> QED
    BY <1>2, <1>3, <1>5 DEF Queue!Get

LEMMA SkipStep ==
    ASSUME BufferInv, NEW n \in Counts, Skip(n)
    PROVE  BufferInv' /\ Queue!Skip(n)
  <1>0. Held \in Nat /\ Len(Contents) = Held /\ n \in Nat
    BY Holds
  <1>1. CASE n <= Held
    <2>1. n \in 0..Held /\ Seek(n, <<n>>)
      BY <1>0, <1>1, SMT DEF Skip
    <2>2. BufferInv' /\ Queue!Take(n, <<n>>)
      BY <2>1, Taken
    <2> QED
      BY <1>0, <1>1, <2>2 DEF Skip, Queue!Skip
  <1>2. CASE ~(n <= Held)
    <2>1. 0 \in 0..Held /\ Seek(0, <<>>)
      BY <1>0, <1>2, SMT DEF Skip
    <2>2. BufferInv' /\ Queue!Take(0, <<>>)
      BY <2>1, Taken
    <2> QED
      BY <1>0, <1>2, <2>2 DEF Skip, Queue!Skip
  <1> QED
    BY <1>1, <1>2

LEMMA LengthStep ==
    ASSUME BufferInv, Length
    PROVE  BufferInv' /\ Queue!Length
  <1>1. 0 \in 0..Held /\ Len(Contents) = Held
    BY Holds, SMT
  <1>2. BufferInv' /\ Queue!Take(0, <<Held>>)
    BY <1>1, Taken DEF Length
  <1> QED
    BY <1>1, <1>2 DEF Length, Queue!Length

LEMMA EveryStep ==
    ASSUME BufferInv, BufferNext
    PROVE  BufferInv' /\ Queue!Next
  <1>1. ASSUME NEW s \in Writes, Write(s) \/ WriteFails(s) PROVE BufferInv' /\ Queue!Next
    BY <1>1, WriteStep DEF Queue!Next
  <1>2. ASSUME NEW n \in Counts, Read(n) \/ Peek(n) \/ Skip(n)
        PROVE  BufferInv' /\ Queue!Next
    BY <1>2, ReadStep, PeekStep, SkipStep DEF Queue!Next
  <1>3. ASSUME NEW n \in Counts \ {0}, PeekStruct(n) \/ ReadStruct(n)
        PROVE  BufferInv' /\ Queue!Next
    BY <1>3, StructStep DEF Queue!Next
  <1>4. ASSUME NEW tok \in Tokens, NEW drop \in BOOLEAN, ReadUntil(tok, drop)
        PROVE  BufferInv' /\ Queue!Next
    BY <1>4, ReadUntilStep DEF Queue!Next
  <1>5. ASSUME NEW i \in Counts \ {0}, NEW j \in Counts, Get(i, j)
        PROVE  BufferInv' /\ Queue!Next
    BY <1>5, GetStep DEF Queue!Next
  <1>6. ASSUME ReadAll \/ Length PROVE BufferInv' /\ Queue!Next
    BY <1>6, ReadAllStep, LengthStep DEF Queue!Next
  <1> QED
    BY <1>1, <1>2, <1>3, <1>4, <1>5, <1>6 DEF BufferNext

LEMMA FirstState ==
    BufferInit => BufferInv /\ Queue!Init
  <1> SUFFICES ASSUME BufferInit PROVE BufferInv /\ Queue!Init
    OBVIOUS
  <1>1. memory = <<>> /\ size = 0 /\ start = 0 /\ end = 0
    BY DEF BufferInit
  <1>2. 0..(0 - 1) = {} /\ 1..(0 - 0) = {}
    BY SMT
  <1>3. memory \in [0..(size - 1) -> Byte \cup {Junk}]
    BY <1>1, <1>2, SMT
  <1>4. BufferInv
    BY <1>1, <1>2, <1>3, SMT DEF BufferInv, BufferTypeOK, Bounded
  <1>5. Contents = <<>>
    BY <1>1, <1>4, Holds, SMT DEF Held
  <1> QED
    BY <1>4, <1>5 DEF BufferInit, Queue!Init

LEMMA Stutters ==
    ASSUME BufferInv, UNCHANGED bufferVars
    PROVE  BufferInv' /\ UNCHANGED <<Contents, call, answer>>
  BY DEF bufferVars, BufferInv, BufferTypeOK, Bounded, Contents, Held

\* The types and the order of the indices, for every set of bytes, calls and sizes.
THEOREM BufferInvariant == BufferSpec => []BufferInv
  <1>1. BufferInit => BufferInv
    BY FirstState
  <1>2. BufferInv /\ [BufferNext]_bufferVars => BufferInv'
    BY EveryStep, Stutters
  <1> QED
    BY <1>1, <1>2, PTL DEF BufferSpec

\* What a call hands to Lua lies inside the memory and was written: buffer_ensure leaves
\* the indices right whichever of its branches a write takes.
THEOREM BytesWereWritten == BufferSpec => []Bounded
  <1>1. BufferInv => Bounded
    BY DEF BufferInv
  <1> QED
    BY <1>1, BufferInvariant, PTL

\* The buffer implements the queue: moving the data and replacing the block are invisible.
THEOREM ImplementsQueue == BufferSpec => IsAQueue
  <1>1. BufferInit => Queue!Init
    BY FirstState
  <1>2. BufferInv /\ [BufferNext]_bufferVars
           => [Queue!Next]_<<Contents, call, answer>>
    BY EveryStep, Stutters
  <1> QED
    BY <1>1, <1>2, BufferInvariant, PTL DEF BufferSpec, IsAQueue, Queue!Spec
================================================================================
