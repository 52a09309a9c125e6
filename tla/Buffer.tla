--------------------------------- MODULE Buffer ---------------------------------
(****************************************************************************)
(* buffer.c and the Lua calls of l_buffer.c: the bytes between two indices  *)
(* of a block of memory.  A write that does not fit behind them moves them  *)
(* to the front, or to a larger block.                                      *)
(****************************************************************************)
EXTENDS Integers, Sequences

CONSTANTS
    Byte, Writes, Counts, Tokens,   \* see ByteQueue
    Sizes,      \* the sizes good_size can return: each twice the one before
    Junk        \* what memory holds that was not written

ASSUME BufferParameters ==
    /\ Writes \subseteq Seq(Byte) /\ Tokens \subseteq Seq(Byte)
    /\ Counts \subseteq Nat
    /\ Sizes \subseteq Nat \ {0}
    /\ Junk \notin Byte

VARIABLES
    memory,     \* data, a function from indices
    size,       \* 0: there is no memory yet
    start, end, \* the data are at start..(end - 1)
    call, answer

bufferVars == <<memory, size, start, end, call, answer>>

Held == end - start

\* buffer_rpeek: the bytes from start to end.
Contents == [k \in 1..Held |-> memory[start + k - 1]]

BufferInit ==
    /\ memory = <<>> /\ size = 0 /\ start = 0 /\ end = 0
    /\ call = <<"new">> /\ answer = <<>>

----------------------------------------------------------------------------
(* buffer_write. *)

\* good_size: the first size that is large enough.  Beyond the last one it never returns.
GoodSize(n, needed) == n >= needed /\ \A m \in Sizes : m >= needed => n <= m

\* The data, moved to the front of a block of n bytes.  byte_copy goes upwards, so that a
\* byte is read before it is overwritten; the rest of the block is as it was.
Moved(n, old) == [i \in 0..(n - 1) |-> IF i < Held THEN memory[start + i] ELSE old[i]]

Fresh(n) == [i \in 0..(n - 1) |-> Junk]

\* The block m of n bytes holds first..(last - 1), and s is copied behind that.
Put(m, n, first, last, s) ==
    /\ memory' = [i \in 0..(n - 1) |->
                     IF i \in last..(last + Len(s) - 1) THEN s[i - last + 1] ELSE m[i]]
    /\ size' = n /\ start' = first /\ end' = last + Len(s)
    /\ answer' = <<>>

FitsBehind(s) == size # 0 /\ size - end >= Len(s)
FitsMoved(s) == size # 0 /\ size - end < Len(s) /\ size - end + start >= Len(s)
Grows(s) == size = 0 \/ size - end + start < Len(s)

\* Mistake: the data are moved and the start index is left.
StaleStart(s) ==
    /\ call' = <<"write", s>>
    /\ \/ FitsBehind(s) /\ Put(memory, size, start, end, s)
       \/ FitsMoved(s) /\ Put(Moved(size, memory), size, start, Held, s)
       \/ /\ Grows(s)
          /\ \E n \in Sizes :
                GoodSize(n, Held + Len(s)) /\ Put(Moved(n, Fresh(n)), n, 0, Held, s)

Write(s) ==
    /\ call' = <<"write", s>>
    /\ \/ FitsBehind(s) /\ Put(memory, size, start, end, s)
       \/ FitsMoved(s) /\ Put(Moved(size, memory), size, 0, Held, s)
       \/ /\ Grows(s)
          /\ \E n \in Sizes :
                GoodSize(n, Held + Len(s)) /\ Put(Moved(n, Fresh(n)), n, 0, Held, s)

\* malloc fails: an error is raised.
WriteFails(s) ==
    /\ Grows(s)
    /\ call' = <<"write", s>> /\ answer' = <<"no memory">>
    /\ UNCHANGED <<memory, size, start, end>>

----------------------------------------------------------------------------
(* The other calls: buffer_rseek n bytes and return values. *)

Seek(n, values) ==
    /\ start' = start + n
    /\ answer' = values
    /\ UNCHANGED <<memory, size, end>>

Block(n) == SubSeq(Contents, 1, n)

Enough(n) == Held # 0 /\ ~(Held < n)

Read(n) ==
    /\ call' = <<"read", n>>
    /\ \/ Enough(n) /\ Seek(n, <<Block(n)>>)
       \/ ~Enough(n) /\ Seek(0, <<>>)

\* No number: all there is.
ReadAll ==
    /\ call' = <<"read">>
    /\ \/ Held # 0 /\ Seek(Held, <<Contents>>)
       \/ Held = 0 /\ Seek(0, <<>>)

Peek(n) ==
    /\ call' = <<"peek", n>>
    /\ \/ Enough(n) /\ Seek(0, <<Block(n)>>)
       \/ ~Enough(n) /\ Seek(0, <<>>)

\* unpack_ll on a format of n bytes; it needs all of them.
PeekStruct(n) ==
    /\ call' = <<"peekstruct", n>>
    /\ \/ Enough(n) /\ Seek(0, <<n, Block(n)>>)
       \/ ~Enough(n) /\ Seek(0, <<>>)

ReadStruct(n) ==
    /\ call' = <<"readstruct", n>>
    /\ \/ Enough(n) /\ Seek(n, <<Block(n)>>)
       \/ ~Enough(n) /\ Seek(0, <<>>)

\* byte_find: the token is at i and not before; byte_diff compares.
At(tok, i) == /\ Held - i >= Len(tok)
              /\ \A k \in 1..Len(tok) : memory[start + i + k - 1] = tok[k]

\* Its answer is Held when there is none.
Found(tok, i) ==
    \/ i \in 0..(Held - 1) /\ At(tok, i) /\ \A j \in 0..(i - 1) : ~At(tok, j)
    \/ i = Held /\ \A j \in 0..(Held - 1) : ~At(tok, j)

\* The third argument is 0 or the length of the token (bio.lua:40).
ReadUntil(tok, drop) ==
    /\ call' = <<"readuntil", tok, drop>>
    /\ \E i \in 0..Held :
          /\ Found(tok, i)
          /\ \/ i = Held /\ Seek(0, <<>>)
             \/ i # Held /\ Seek(i + (IF drop THEN Len(tok) ELSE 0), <<Block(i)>>)

\* i is cut to what there is after j was.
Get(i, j) ==
    LET last == IF j < Held THEN j ELSE Held
        off == IF i - 1 > last THEN last ELSE i - 1
    IN /\ call' = <<"get", i, j>>
       /\ Seek(0, <<SubSeq(Contents, off + 1, last)>>)

Skip(n) ==
    /\ call' = <<"rseek", n>>
    /\ \/ n <= Held /\ Seek(n, <<n>>)
       \/ n > Held /\ Seek(0, <<>>)

Length == call' = <<"len">> /\ Seek(0, <<Held>>)

BufferNext ==
    \/ \E s \in Writes : Write(s) \/ WriteFails(s)
    \/ \E n \in Counts : Read(n) \/ Peek(n) \/ Skip(n)
    \/ \E n \in Counts \ {0} : PeekStruct(n) \/ ReadStruct(n)
    \/ \E tok \in Tokens, drop \in BOOLEAN : ReadUntil(tok, drop)
    \/ \E i \in Counts \ {0}, j \in Counts : Get(i, j)
    \/ ReadAll \/ Length

BufferSpec == BufferInit /\ [][BufferNext]_bufferVars

----------------------------------------------------------------------------

BufferTypeOK ==
    /\ size \in Sizes \cup {0}
    /\ memory \in [0..(size - 1) -> Byte \cup {Junk}]
    /\ start \in Nat /\ end \in Nat

\* The indices stay inside the block and in order: what a call hands to Lua was written,
\* however often the data moved (buffer.c:25, where a write can find any of four situations).
Bounded ==
    /\ start <= end /\ end <= size
    /\ \A i \in start..(end - 1) : memory[i] \in Byte

\* Every call does to the bytes held what it does to a queue of bytes: none is lost,
\* repeated, or reordered when the data are moved or the block is replaced.
Queue == INSTANCE ByteQueue WITH content <- Contents
IsAQueue == Queue!Spec
================================================================================
