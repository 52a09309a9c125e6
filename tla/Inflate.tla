--------------------------------- MODULE Inflate ---------------------------------
(****************************************************************************)
(* The decompressor of miniz.c, a coroutine that stops when it has no more   *)
(* input or its dictionary, which is also its output, is full to its end.    *)
(* What it was doing when it stopped is done again from its beginning, where *)
(* the code goes on: nothing was put out and the bits were kept.             *)
(****************************************************************************)
EXTENDS Deflate
LOCAL INSTANCE TLC
LOCAL INSTANCE SequencesExt
LOCAL INSTANCE FiniteSetsExt

tinfl_init ==
    [state |-> "header", bits |-> <<>>, final |-> 0, left |-> 0,
     fixed |-> TRUE, lit |-> <<>>, dist |-> <<>>,     \* the codes of the block, as sizes
     len |-> 0, from |-> 0,                           \* the rest of a match
     dict |-> [i \in 0..(Limits.dict - 1) |-> 0], off |-> 0, out |-> <<>>]

\* The symbol of each code.
RECURSIVE Symbols(_, _)
Symbols(codes, S) ==
    IF S = {} THEN <<>>
    ELSE LET s == CHOOSE s \in S : TRUE IN (codes[s] :> s) @@ Symbols(codes, S \ {s})
Table(codes) == Symbols(codes, DOMAIN codes)
FixedTable == Table(FixedCodes)
FixedDistanceTable == Table(FixedDistanceCodes)

HasBits(b, n) == Len(b) >= n
Rest(b, n) == SubSeq(b, n + 1, Len(b))
NumberIn(b, n) == FromBits(SubSeq(b, 1, n))

\* TINFL_HUFF_DECODE: the symbol that begins the bits and the bits after it; -1 when there are
\* not enough.
Decode(table, b) ==
    LET fits == {n \in 1..15 : n <= Len(b) /\ SubSeq(b, 1, n) \in DOMAIN table}
    IN IF fits = {} THEN [sym |-> -1, rest |-> b]
       ELSE LET n == Min(fits) IN [sym |-> table[SubSeq(b, 1, n)], rest |-> Rest(b, n)]

\* A number follows the symbol; -1 when it is not there yet.
Following(b, n, base) ==
    IF HasBits(b, n) THEN [v |-> base + NumberIn(b, n), rest |-> Rest(b, n)]
    ELSE [v |-> -1, rest |-> b]

----------------------------------------------------------------------------
(* The header of a block with codes of its own.                              *)

RECURSIVE ReadLengths(_, _, _, _)
ReadLengths(b, k, n, sizes) ==
    IF k > n THEN sizes
    ELSE ReadLengths(Rest(b, 3), k + 1, n, [sizes EXCEPT ![dezigzag[k]] = NumberIn(b, 3)])

\* Before n sizes are read the bits may end (-1), or repeat a size when there is none (-2).
NoSizes(why) == [sizes |-> <<why>>, rest |-> <<>>]
RECURSIVE ReadSizes(_, _, _, _), ReadSize(_, _, _, _), Repeat(_, _, _, _, _)
Repeat(table, more, sizes, n, what) ==
    IF more.v = -1 THEN NoSizes(-1)
    ELSE ReadSizes(table, more.rest, sizes \o [i \in 1..more.v |-> what], n)
ReadSize(table, c, sizes, n) ==
    IF c.sym = -1 THEN NoSizes(-1)
    ELSE IF c.sym < 16 THEN ReadSizes(table, c.rest, Append(sizes, c.sym), n)
    ELSE IF c.sym = 16 /\ sizes = <<>> THEN NoSizes(-2)
    ELSE Repeat(table, Following(c.rest, CASE c.sym = 16 -> 2 [] c.sym = 17 -> 3 [] c.sym = 18 -> 7,
                                 IF c.sym = 18 THEN 11 ELSE 3),
                sizes, n, IF c.sym = 16 THEN sizes[Len(sizes)] ELSE 0)
ReadSizes(table, b, sizes, n) ==
    IF Len(sizes) >= n THEN [sizes |-> sizes, rest |-> b]
    ELSE ReadSize(table, Decode(table, b), sizes, n)

Needs == [state |-> "needs"]

\* Every bit string begins with a code, unless there is just one code.
IsComplete(sizes) ==
    LET used == {s \in DOMAIN sizes : sizes[s] # 0}
    IN Cardinality(used) < 2 \/ MapThenSumSet(LAMBDA s : 2^(16 - sizes[s]), used) = 65536

\* The tables, of which the code keeps what it looks up; bits start after the type.
WithSizes(r, rest, lit, dist) ==
    IF ~IsComplete(lit) \/ ~IsComplete(dist) THEN [r EXCEPT !.state = "failed"]
    ELSE [r EXCEPT !.state = "codes", !.bits = rest, !.fixed = FALSE, !.lit = lit, !.dist = dist]
WithAll(r, all, nlit, ndist) ==
    IF all.sizes = <<-1>> THEN Needs
    ELSE IF Len(all.sizes) # nlit + ndist THEN [r EXCEPT !.state = "failed"]
    ELSE WithSizes(r, all.rest, [s \in 0..(nlit - 1) |-> all.sizes[s + 1]],
                                [s \in 0..(ndist - 1) |-> all.sizes[nlit + s + 1]])
WithLengths(r, b, sizes, nlit, ndist) ==
    IF ~IsComplete(sizes) THEN [r EXCEPT !.state = "failed"]
    ELSE WithAll(r, ReadSizes(Table(HuffmanCodes(sizes)), b, <<>>, nlit + ndist), nlit, ndist)
OwnCodes(r, b) ==
    LET nlen == NumberIn(Rest(b, 10), 4) + 4
    IN IF ~HasBits(b, 14) \/ ~HasBits(b, 14 + 3 * nlen) THEN Needs
       ELSE WithLengths(r, Rest(b, 14 + 3 * nlen),
                        ReadLengths(Rest(b, 14), 1, nlen, [s \in 0..18 |-> 0]),
                        NumberIn(b, 5) + 257, NumberIn(Rest(b, 5), 5) + 1)

\* The lengths of a stored block begin at a whole byte.
StoredHeader(r, b) ==
    LET skip == Len(b) % 8
        len == NumberIn(Rest(b, skip), 16)
        check == NumberIn(Rest(b, skip + 16), 16)
    IN IF ~HasBits(b, skip + 32) THEN Needs
       ELSE IF len + check # 65535 THEN [r EXCEPT !.state = "failed"]
       ELSE [r EXCEPT !.state = "stored", !.left = len, !.bits = Rest(b, skip + 32)]

Header(r) ==
    LET type == NumberIn(Rest(r.bits, 1), 2)
        b == Rest(r.bits, 3)
        e == [r EXCEPT !.final = r.bits[1]]
    IN IF ~HasBits(r.bits, 3) THEN Needs
       ELSE CASE type = 0 -> StoredHeader(e, b)
              [] type = 1 -> [e EXCEPT !.state = "codes", !.fixed = TRUE, !.bits = b]
              [] type = 2 -> OwnCodes(e, b)
              [] type = 3 -> [e EXCEPT !.state = "failed"]

----------------------------------------------------------------------------
(* The contents of a block, a byte or a symbol at a time.                    *)

AtEnd(r) == r.off = Limits.dict
Emit(r, b) == [r EXCEPT !.dict[r.off] = b, !.off = @ + 1, !.out = Append(@, b)]
Full == [state |-> "full"]
EndBlock(r) == [r EXCEPT !.state = IF r.final = 1 THEN "done" ELSE "header"]

StoredByte(r) ==
    IF r.left = 0 THEN EndBlock(r)
    ELSE IF AtEnd(r) THEN Full
    ELSE IF ~HasBits(r.bits, 8) THEN Needs
    ELSE Emit([r EXCEPT !.left = @ - 1, !.bits = Rest(@, 8)], NumberIn(r.bits, 8))

\* A match: the rest of its length, the symbol of its distance, the rest of the distance.
Matched(r, l, far) ==
    IF far.v = -1 THEN Needs
    ELSE [r EXCEPT !.state = "match", !.len = l.v, !.from = far.v, !.bits = far.rest]
Distance(r, l, d) ==
    IF d.sym = -1 THEN Needs
    ELSE Matched(r, l, Following(d.rest, dist_extra[d.sym + 1], dist_base[d.sym + 1]))
LengthRead(r, l, dist) == IF l.v = -1 THEN Needs ELSE Distance(r, l, Decode(dist, l.rest))

Decoded(r, c, dist) ==
    IF c.sym = -1 THEN Needs
    ELSE IF c.sym < 256
         THEN IF AtEnd(r) THEN Full ELSE Emit([r EXCEPT !.bits = c.rest], c.sym)
    ELSE IF c.sym = 256 THEN EndBlock([r EXCEPT !.bits = c.rest])
    ELSE LengthRead(r, Following(c.rest, length_extra[c.sym - 256], length_base[c.sym - 256]), dist)
Symbol(r, lit, dist) == Decoded(r, Decode(lit, r.bits), dist)

\* The dictionary is a ring; what a match copies may be what it has just put there.
MatchByte(r) ==
    IF r.len = 0 THEN [r EXCEPT !.state = "codes"]
    ELSE IF AtEnd(r) THEN Full
    ELSE Emit([r EXCEPT !.len = @ - 1], r.dict[Ring(r.off - r.from)])

Step(r, lit, dist) ==
    CASE r.state = "header" -> Header(r)
      [] r.state = "stored" -> StoredByte(r)
      [] r.state = "codes" -> Symbol(r, lit, dist)
      [] r.state = "match" -> MatchByte(r)
      [] OTHER -> [state |-> "stop"]

\* Until it needs more input, its output is full, or it has ended; without more input to come,
\* zeros follow, except in a stored block.
RECURSIVE Steps(_, _, _, _), AfterStep(_, _, _, _, _)
AfterStep(r, s, lit, dist, more) ==
    CASE s.state = "full" -> [r |-> r, status |-> "more output"]
      [] s.state = "stop" -> [r |-> r, status |-> r.state]
      [] s.state = "needs" ->
             IF more THEN [r |-> r, status |-> "needs input"]
             ELSE IF r.state = "stored" THEN Steps([r EXCEPT !.state = "failed"], lit, dist, more)
             ELSE Steps([r EXCEPT !.bits = @ \o Low(0, 8)], lit, dist, more)
      [] OTHER ->
             IF r.state # "header" \/ s.state # "codes" THEN Steps(s, lit, dist, more)
             ELSE IF s.fixed THEN Steps(s, FixedTable, FixedDistanceTable, more)
             ELSE Steps(s, Table(HuffmanCodes(s.lit)), Table(HuffmanCodes(s.dist)), more)
Steps(r, lit, dist, more) == AfterStep(r, Step(r, lit, dist), lit, dist, more)

tinfl_decompress(r, b, more) ==
    LET e == [r EXCEPT !.bits = @ \o b]
    IN IF r.fixed THEN Steps(e, FixedTable, FixedDistanceTable, more)
       ELSE Steps(e, Table(HuffmanCodes(r.lit)), Table(HuffmanCodes(r.dist)), more)
================================================================================
