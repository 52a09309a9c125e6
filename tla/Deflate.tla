--------------------------------- MODULE Deflate ---------------------------------
(****************************************************************************)
(* The compressor of miniz.c: bytes become literals and references to        *)
(* earlier bytes, and blocks of these become bits.                           *)
(****************************************************************************)
EXTENDS Huffman
LOCAL INSTANCE TLC
LOCAL INSTANCE SequencesExt
LOCAL INSTANCE FiniteSetsExt

CONSTANTS
    Alphabet,   \* the bytes that are compressed
    Limits      \* a record of the sizes in the code:
                \*   dict    32768, of the dictionary: a power of two
                \*   match   258, of the lookahead and of the longest match
                \*   probes  44, how often a chain of candidates is followed; 12 when long
                \*   few     12, the same when a match of at least 32 bytes was found
                \*   long    128, a match that is taken at once
                \*   far     8192, a distance too great for a match of three bytes
                \*   code    65536, of the buffer of literals and matches
                \*   block   31744, bytes after which a block that grows is ended
                \*   fixed   48, bytes below which a block has the fixed codes
                \*   out     85180, of the buffer of a compressed block
                \*   bits    15, the longest code of a literal or a distance

ASSUME DeflateParameters ==
    /\ \E k \in 0..15 : Limits.dict = 2^k
    /\ 3 <= Limits.match /\ Limits.match < Limits.dict /\ Limits.match <= 258
    /\ Limits.probes > 0 /\ Limits.few > 0 /\ Limits.bits \in 1..15
    /\ Alphabet \subseteq 0..255

Lesser(a, b) == IF a < b THEN a ELSE b
Ring(i) == i % Limits.dict
\* Positions are kept in 16 bits, twice what the dictionary holds.
Short(i) == i % (2 * Limits.dict)

NoMatch == [len |-> 0, dist |-> 0]

EmptyHash == [t \in Alphabet \X Alphabet \X Alphabet |-> 0]
EmptyNext == [i \in 0..(Limits.dict - 1) |-> 0]

tdefl_init(zlib) ==
    [dict |-> [i \in 0..(Limits.dict - 1) |-> 0], next |-> EmptyNext, hash |-> EmptyHash,
     pos |-> 0, ahead |-> 0, size |-> 0,            \* lookahead_pos, lookahead_size, dict_size
     saved |-> NoMatch, lit |-> 0,                  \* a match that a longer one may replace
     codes |-> <<>>, lits |-> EmptyBag, dists |-> EmptyBag,
     bytes |-> 0, start |-> 0,      \* of the block: total_lz_bytes, its first
     bits |-> <<>>, blocks |-> 0, adler |-> <<1, 0>>, zlib |-> zlib,
     wants |-> FALSE, finished |-> FALSE, status |-> "okay"]

----------------------------------------------------------------------------
(* The dictionary, the chains of positions with the same three bytes, and    *)
(* the longest of the matches that are found in them.                        *)

Insert(d, c) ==
    LET at == d.pos + d.ahead
        e == [d EXCEPT !.dict[Ring(at)] = c, !.ahead = @ + 1]
        three == <<e.dict[Ring(at - 2)], e.dict[Ring(at - 1)], c>>
    IN IF d.ahead + 1 + d.size < 3 THEN e
       ELSE [e EXCEPT !.next[Ring(at - 2)] = d.hash[three], !.hash[three] = Short(at - 2)]

\* Mistake: what the lookahead overwrites still counts as dictionary.
TakeInOver(d, s) == FoldLeft(Insert, d, s)

TakeIn(d, s) ==
    LET e == FoldLeft(Insert, d, s)
    IN [e EXCEPT !.size = Lesser(Limits.dict - e.ahead, @)]

Agree(d, p, i) == d.dict[Ring(p + i)] = d.dict[Ring(d.pos + i)]

\* Candidates come in rounds of three; one whose last bytes agree is compared and starts
\* the next round.
RECURSIVE Probe(_, _, _, _, _)
Probe(d, probe, best, left, k) ==
    LET next == d.next[probe]
        dist == Short(d.pos - next)
        p == Ring(next)
        rounds == IF k = 0 THEN left - 1 ELSE left
        len == CHOOSE n \in 0..d.ahead :
                  /\ \A i \in 0..(n - 1) : Agree(d, p, i)
                  /\ n = d.ahead \/ ~Agree(d, p, n)
        better == [len |-> len, dist |-> dist]
    IN IF rounds = 0 \/ next = 0 \/ dist > d.size THEN best
       ELSE IF ~(Agree(d, p, best.len - 1) /\ Agree(d, p, best.len))
            THEN Probe(d, p, best, rounds, (k + 1) % 3)
       ELSE IF dist = 0 THEN best
       ELSE IF len <= best.len THEN Probe(d, p, best, rounds, 0)
       ELSE IF len = d.ahead THEN better ELSE Probe(d, p, better, rounds, 0)

tdefl_find_match(d) ==
    LET least == IF d.saved.len > 0 THEN d.saved.len ELSE 2
    IN IF d.ahead <= least THEN [len |-> least, dist |-> 0]
       ELSE Probe(d, Ring(d.pos), [len |-> least, dist |-> 0],
                  IF least >= 32 THEN Limits.few ELSE Limits.probes, 0)

----------------------------------------------------------------------------
(* One step of the lazy parser.                                              *)

\* The last symbol whose first value is not above v.
SymOf(base, v) == CHOOSE i \in DOMAIN base :
    base[i] <= v /\ (i = Len(base) \/ v < base[i + 1])
LengthSym(len) == 256 + SymOf(length_base, len)
DistanceSym(dist) == SymOf(dist_base, dist) - 1

\* m_huff_count, of the block, has the symbols of what is recorded.
tdefl_record_literal(d, b) ==
    [d EXCEPT !.codes = Append(@, [lit |-> b, len |-> 0, dist |-> 0]), !.bytes = @ + 1,
              !.lits = @ (+) SetToBag({b})]

tdefl_record_match(d, m) ==
    [d EXCEPT !.codes = Append(@, [lit |-> 0, len |-> m.len, dist |-> m.dist]),
              !.bytes = @ + m.len,
              !.lits = @ (+) SetToBag({LengthSym(m.len)}),
              !.dists = @ (+) SetToBag({DistanceSym(m.dist)})]

Save(d, m) == [d EXCEPT !.saved = m, !.lit = d.dict[Ring(d.pos)]]
Unsaved(d) == [d EXCEPT !.saved = NoMatch]
Forward(d, n) ==
    [d EXCEPT !.pos = @ + n, !.ahead = @ - n, !.size = Lesser(@ + n, Limits.dict)]

Acceptable(d, m) ==
    IF (m.len = 3 /\ m.dist >= Limits.far) \/ Ring(d.pos) = m.dist THEN NoMatch ELSE m

ParseWith(d, m) ==
    CASE d.saved.len > 0 /\ m.len <= d.saved.len ->
             Forward(Unsaved(tdefl_record_match(d, d.saved)), d.saved.len - 1)
      [] d.saved.len > 0 /\ m.len > d.saved.len /\ m.len >= Limits.long ->
             Forward(Unsaved(tdefl_record_match(tdefl_record_literal(d, d.lit), m)), m.len)
      [] d.saved.len > 0 /\ m.len > d.saved.len /\ m.len < Limits.long ->
             Forward(Save(tdefl_record_literal(d, d.lit), m), 1)
      [] d.saved.len = 0 /\ m.dist = 0 ->
             Forward(tdefl_record_literal(d, d.dict[Ring(d.pos)]), 1)
      [] d.saved.len = 0 /\ m.dist > 0 /\ m.len >= Limits.long ->
             Forward(tdefl_record_match(d, m), m.len)
      [] OTHER -> Forward(Save(d, m), 1)

Parse(d) == ParseWith(d, Acceptable(d, tdefl_find_match(d)))

----------------------------------------------------------------------------
(* Blocks.  A length or a distance is a symbol and some of its lower bits.   *)

IsMatch(c) == c.len > 0

tdefl_compress_lz_codes(codes, lit, dist) ==
    LET Bits(c) ==
            IF ~IsMatch(c) THEN lit[c.lit]
            ELSE LET d == DistanceSym(c.dist)
                 IN lit[LengthSym(c.len)] \o Low(c.len - 3, length_extra[LengthSym(c.len) - 256])
                    \o dist[d] \o Low(c.dist - 1, dist_extra[d + 1])
    IN FlattenSeq([i \in DOMAIN codes |-> Bits(codes[i])]) \o lit[256]

tdefl_start_static_block == Low(1, 2)

\* Repeated sizes: a symbol with a count in some bits.
Plain(s) == [sym |-> s, n |-> 0, w |-> 0]
Times(s, n) == [i \in 1..n |-> Plain(s)]
Again(s, n) == IF n < 3 THEN Times(s, n) ELSE <<[sym |-> 16, n |-> n - 3, w |-> 2]>>
Zeros(n) == IF n < 3 THEN Times(0, n)
            ELSE IF n <= 10 THEN <<[sym |-> 17, n |-> n - 3, w |-> 3]>>
            ELSE <<[sym |-> 18, n |-> n - 11, w |-> 7]>>
\* n in parts of at most max.
Parts(n, max, pack(_)) ==
    FlattenSeq([i \in 1..((n + max - 1) \div max) |-> pack(Lesser(max, n - (i - 1) * max))])
PackedRun(size, n) ==
    LET again(k) == Again(size, k)
    IN IF size = 0 THEN Parts(n, 138, Zeros) ELSE <<Plain(size)>> \o Parts(n - 1, 6, again)

RECURSIVE PackedSizes(_)
PackedSizes(sizes) ==
    IF sizes = <<>> THEN <<>>
    ELSE LET n == Min({k \in DOMAIN sizes : k = Len(sizes) \/ sizes[k + 1] # sizes[1]})
         IN PackedRun(sizes[1], n) \o PackedSizes(SubSeq(sizes, n + 1, Len(sizes)))

\* The sizes of the symbols from 0 on that are sent: up to the last that has a code, or least.
SizesSent(sizes, least) ==
    [i \in 1..Max({least} \cup {s + 1 : s \in DOMAIN sizes}) |->
        IF i - 1 \in DOMAIN sizes THEN sizes[i - 1] ELSE 0]

\* HCLEN, and what it counts
CodeLengths(sizes) ==
    LET size(i) == IF dezigzag[i] \in DOMAIN sizes THEN sizes[dezigzag[i]] ELSE 0
        n == Max({4} \cup {i \in DOMAIN dezigzag : size(i) # 0})
    IN Low(n - 4, 4) \o FlattenSeq([i \in 1..n |-> Low(size(i), 3)])
Coded(packed, codes) ==
    FlattenSeq([i \in DOMAIN packed |-> codes[packed[i].sym] \o Low(packed[i].n, packed[i].w)])
PackedCount(packed) ==
    [s \in {packed[i].sym : i \in DOMAIN packed} |->
        Cardinality({i \in DOMAIN packed : packed[i].sym = s})]
SendSizes(packed, sizes) == CodeLengths(sizes) \o Coded(packed, HuffmanCodes(sizes))
SendPacked(packed) == SendSizes(packed, tdefl_optimize_huffman_table(PackedCount(packed), 7))

SendLiteralsAndDistances(lits, dists) ==
    Low(2, 2) \o Low(Len(lits) - 257, 5) \o Low(Len(dists) - 1, 5)
    \o SendPacked(PackedSizes(lits \o dists))
tdefl_start_dynamic_block(lit, dist) ==
    SendLiteralsAndDistances(SizesSent(lit, 257), SizesSent(dist, 1))

StaticBlock(d) ==
    tdefl_start_static_block
    \o tdefl_compress_lz_codes(d.codes, FixedCodes, FixedDistanceCodes)
WithCodes(d, lit, dist) ==
    tdefl_start_dynamic_block(lit, dist)
    \o tdefl_compress_lz_codes(d.codes, HuffmanCodes(lit), HuffmanCodes(dist))
DynamicBlock(d) ==
    WithCodes(d, tdefl_optimize_huffman_table((256 :> 1) @@ d.lits, Limits.bits),
                 tdefl_optimize_huffman_table(d.dists, Limits.bits))
tdefl_compress_block(d, fixed) == IF fixed THEN StaticBlock(d) ELSE DynamicBlock(d)

Whole(bits) == Len(bits) \div 8
Padded(bits) == bits \o [i \in 1..((-Len(bits)) % 8) |-> 0]
Stored(bits, s) ==
    Padded(bits \o Low(0, 2)) \o Low(Len(s), 16) \o Low(65535 - Len(s), 16)
    \o FlattenSeq([i \in DOMAIN s |-> Low(s[i], 8)])
OfBlock(d) == [i \in 1..d.bytes |-> d.dict[Ring(d.start + i - 1)]]

IsStored(d, begun, block) ==
    /\ d.bytes > 0 /\ Whole(block) - Whole(begun) + 1 >= d.bytes
    /\ d.pos - d.start <= d.size

Begun(d, flush) ==
    d.bits \o (IF d.zlib /\ d.blocks = 0 THEN Low(120, 8) \o Low(1, 8) ELSE <<>>)
    \o <<IF flush = "finish" THEN 1 ELSE 0>>
Body(d, begun, block) ==
    IF IsStored(d, begun, block) THEN Stored(begun, OfBlock(d))
    ELSE IF Whole(block) >= Limits.out THEN begun \o StaticBlock(d) ELSE block
BlockOf(d, begun) == Body(d, begun, begun \o tdefl_compress_block(d, d.bytes < Limits.fixed))
AdlerBits(d) == Low(d.adler[2] \div 256, 8) \o Low(d.adler[2], 8)
                \o Low(d.adler[1] \div 256, 8) \o Low(d.adler[1], 8)
\* The bits of the block and of what ends it.
BlockBits(d, body, flush) ==
    CASE flush = "none" -> body
      [] flush = "finish" -> Padded(body) \o (IF d.zlib THEN AdlerBits(d) ELSE <<>>)
      [] OTHER -> Stored(body \o <<0>>, <<>>)

\* put: the whole bytes, for which there may be no memory.
PutBits(d, bits, n, memory) ==
    LET e == [d EXCEPT !.codes = <<>>, !.lits = EmptyBag, !.dists = EmptyBag,
                       !.start = @ + d.bytes, !.bytes = 0, !.blocks = @ + 1,
                       !.bits = SubSeq(bits, n + 1, Len(bits))]
    IN IF n > 0 /\ ~memory THEN [d |-> [e EXCEPT !.status = "put failed"], put |-> <<>>]
       ELSE [d |-> e, put |-> SubSeq(bits, 1, n)]
PutWhole(d, bits, memory) == PutBits(d, bits, 8 * Whole(bits), memory)
tdefl_flush_block(d, flush, memory) ==
    PutWhole(d, BlockBits(d, BlockOf(d, Begun(d, flush)), flush), memory)

----------------------------------------------------------------------------
(* The whole call.                                                           *)

\* Bytes of the code buffer, a byte of flags for every eight codes among them.
CodeBytes(codes) ==
    1 + Len(codes) \div 8 + Len(codes) + 2 * Cardinality({i \in DOMAIN codes : IsMatch(codes[i])})
BlockIsFull(d) ==
    \/ CodeBytes(d.codes) > Limits.code - 8
    \/ d.bytes > Limits.block /\ (CodeBytes(d.codes) * 115) \div 128 >= d.bytes

RECURSIVE tdefl_compress_normal(_, _, _, _), Continue(_, _, _, _, _), Taken(_, _, _, _, _)

\* block: after a step of the parser and, when the block was full, its end.
Continue(r, block, s, flush, memory) ==
    IF block.d.status # "okay" THEN [r EXCEPT !.d = block.d]
    ELSE tdefl_compress_normal([d |-> block.d, put |-> r.put \o block.put], s, flush, memory)
EndOfFull(d, memory) ==
    IF BlockIsFull(d) THEN tdefl_flush_block(d, "none", memory) ELSE [d |-> d, put |-> <<>>]
Taken(r, taken, s, flush, memory) ==
    IF flush = "none" /\ taken.ahead < Limits.match THEN [r EXCEPT !.d = taken]
    ELSE Continue(r, EndOfFull(Parse(taken), memory), s, flush, memory)

tdefl_compress_normal(r, s, flush, memory) ==
    LET n == Lesser(Len(s), Limits.match - r.d.ahead)
    IN IF s = <<>> /\ (flush = "none" \/ r.d.ahead = 0) THEN r
       ELSE Taken(r, TakeIn(r.d, SubSeq(s, 1, n)), SubSeq(s, n + 1, Len(s)), flush, memory)

mz_adler32(adler, s) ==
    FoldLeft(LAMBDA a, b : LET one == (a[1] + b) % 65521 IN <<one, (a[2] + one) % 65521>>,
             adler, s)

Summed(r, s) ==
    IF r.d.status = "okay" /\ r.d.zlib THEN [r EXCEPT !.d.adler = mz_adler32(@, s)] ELSE r
Cleared(d, flush) ==
    IF flush # "full" THEN d
    ELSE [d EXCEPT !.hash = EmptyHash, !.next = EmptyNext, !.size = 0]
Finished(r, last, flush) ==
    IF last.d.status # "okay" THEN [r EXCEPT !.d = last.d]
    ELSE [d |-> [Cleared(last.d, flush) EXCEPT
                    !.finished = flush = "finish",
                    !.status = IF flush = "finish" THEN "done" ELSE "okay"],
          put |-> r.put \o last.put]
Flushed(r, flush, memory) ==
    IF r.d.status # "okay" \/ flush = "none" THEN r
    ELSE Finished(r, tdefl_flush_block(r.d, flush, memory), flush)

\* After a finish, and after a failure, nothing more is compressed.
tdefl_compress(d, s, flush, memory) ==
    LET e == [d EXCEPT !.wants = @ \/ flush = "finish"]
    IN IF d.status # "okay" \/ (d.wants /\ flush # "finish")
       THEN [d |-> [d EXCEPT !.status = "bad param"], put |-> <<>>]
       ELSE Flushed(Summed(tdefl_compress_normal([d |-> e, put |-> <<>>], s, flush, memory), s),
                    flush, memory)
================================================================================
