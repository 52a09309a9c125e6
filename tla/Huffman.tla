--------------------------------- MODULE Huffman ---------------------------------
(****************************************************************************)
(* The prefix codes of miniz.c: from the counts of the symbols to the sizes  *)
(* of their codes, from the sizes to the codes.  Bits are a sequence, in the  *)
(* order in which they are written.                                          *)
(****************************************************************************)
EXTENDS Integers, Sequences, FiniteSets, Bags
LOCAL INSTANCE TLC
LOCAL INSTANCE SequencesExt
LOCAL INSTANCE FiniteSetsExt

\* A number, its lowest bit first, and a code, its highest bit first.
Low(v, k) == [j \in 1..k |-> (v \div 2^(j - 1)) % 2]
High(v, k) == [j \in 1..k |-> (v \div 2^(k - j)) % 2]
RECURSIVE FromBits(_)
FromBits(bits) == IF bits = <<>> THEN 0 ELSE Head(bits) + 2 * FromBits(Tail(bits))

\* Symbols in the order of their counts, those with the same count in their own.
RECURSIVE InOrder(_, _)
InOrder(S, count) ==
    IF S = {} THEN <<>>
    ELSE LET s == CHOOSE s \in S : \A t \in S : \/ count[s] < count[t]
                                                \/ count[s] = count[t] /\ s <= t
         IN <<s>> \o InOrder(S \ {s}, count)

\* Canonical codes: in the order of the sizes, and among equal sizes of the symbols.
RECURSIVE Assign(_, _, _, _)
Assign(syms, sizes, next_code, codes) ==
    IF syms = <<>> THEN codes
    ELSE LET s == Head(syms)
             n == sizes[s]
         IN Assign(Tail(syms), sizes, [next_code EXCEPT ![n] = @ + 1],
                   (s :> High(next_code[n], n)) @@ codes)

HuffmanCodes(sizes) ==
    LET used == {s \in DOMAIN sizes : sizes[s] # 0}
        count == [i \in 1..15 |-> Cardinality({s \in used : sizes[s] = i})]
        next_code[i \in 1..15] == IF i = 1 THEN 0 ELSE 2 * (next_code[i - 1] + count[i - 1])
    IN Assign(InOrder(used, [s \in used |-> 0]), sizes, next_code, <<>>)

----------------------------------------------------------------------------
(* The compressor's sizes, from the symbols in the order of their counts.    *)

\* The sort is stable, and the symbols come in their own order.
tdefl_radix_sort_syms(count) == InOrder(BagToSet(count), count)

\* The lesser of the first tree and the first leaf that have no parent, which becomes next.
Pick(st, n, next) ==
    IF st.leaf >= n \/ (st.root < next /\ st.A[st.root] < st.A[st.leaf])
    THEN [st EXCEPT !.sum = @ + st.A[st.root], !.A[st.root] = next, !.root = @ + 1]
    ELSE [st EXCEPT !.sum = @ + st.A[st.leaf], !.leaf = @ + 1]

RECURSIVE Trees(_, _, _)
Trees(st, n, next) ==
    IF next >= n - 1 THEN st.A
    ELSE LET two == Pick(Pick([st EXCEPT !.sum = 0], n, next), n, next)
         IN Trees([two EXCEPT !.A[next] = two.sum], n, next + 1)

\* A: the counts in increasing order, then the parent of each of the n - 1 trees, whose depths
\* give how many leaves each depth has.
tdefl_calculate_minimum_redundancy(A, n) ==
    LET first == [A |-> [A EXCEPT ![0] = A[0] + A[1]], root |-> 0, leaf |-> 2, sum |-> 0]
        parent == Trees(first, n, 1)
        depth[i \in 0..(n - 2)] == IF i = n - 2 THEN 0 ELSE depth[parent[i]] + 1
        used(d) == Cardinality({i \in 0..(n - 2) : depth[i] = d})
    IN [d \in 1..32 |-> 2 * used(d - 1) - used(d)]

RECURSIVE Shortened(_, _, _)
Shortened(num, total, max) ==
    IF total = 2^max THEN num
    ELSE LET i == Max({k \in 1..(max - 1) : num[k] > 0})
             less == [num EXCEPT ![max] = @ - 1]
         IN Shortened([[less EXCEPT ![i] = @ - 1] EXCEPT ![i + 1] = @ + 2], total - 1, max)

tdefl_huffman_enforce_max_code_size(num, max) ==
    LET all == [i \in 1..max |-> IF i < max THEN num[i]
                                 ELSE MapThenSumSet(LAMBDA k : num[k], max..32)]
    IN Shortened(all, MapThenSumSet(LAMBDA i : all[i] * 2^(max - i), 1..max), max)

\* The most frequent symbols get the shortest codes; count is a bag of symbols.
tdefl_optimize_huffman_table(count, limit) ==
    LET syms == tdefl_radix_sort_syms(count)
        n == Len(syms)
        A == [i \in 0..(n - 1) |-> count[syms[i + 1]]]
        num == IF n < 2 THEN [i \in 1..limit |-> IF i = 1 THEN n ELSE 0]
               ELSE tdefl_huffman_enforce_max_code_size(
                        tdefl_calculate_minimum_redundancy(A, n), limit)
        sorted == FlattenSeq([i \in 1..limit |-> [k \in 1..num[i] |-> i]])
    IN [s \in BagToSet(count) |-> sorted[CHOOSE r \in 1..n : syms[n + 1 - r] = s]]

----------------------------------------------------------------------------
(* The sizes that both sides know, and what they find with any sizes.         *)

\* The first length or distance that a symbol stands for, and how many bits follow it.
length_base == <<3,4,5,6,7,8,9,10,11,13,15,17,19,23,27,31,35,43,51,59,67,83,99,115,131,163,
                 195,227,258>>
length_extra == <<0,0,0,0,0,0,0,0, 1,1,1,1, 2,2,2,2, 3,3,3,3, 4,4,4,4, 5,5,5,5, 0>>
dist_base == <<1,2,3,4,5,7,9,13,17,25,33,49,65,97,129,193,257,385,513,769,1025,1537,2049,
               3073,4097,6145,8193,12289,16385,24577>>
dist_extra == <<0,0,0,0, 1,1,2,2,3,3,4,4,5,5,6,6,7,7,8,8,9,9,10,10,11,11,12,12,13,13>>

FixedSizes == [s \in 0..287 |-> IF s <= 143 THEN 8 ELSE IF s <= 255 THEN 9
                                ELSE IF s <= 279 THEN 7 ELSE 8]
FixedDistances == [s \in 0..31 |-> 5]
FixedCodes == HuffmanCodes(FixedSizes)
FixedDistanceCodes == HuffmanCodes(FixedDistances)

\* The order in which the sizes of the codes of sizes are sent.
dezigzag == <<16, 17, 18, 0, 8, 7, 9, 6, 10, 5, 11, 4, 12, 3, 13, 2, 14, 1, 15>>
================================================================================
