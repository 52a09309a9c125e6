--------------------------------- MODULE Codecs ---------------------------------
(****************************************************************************)
(* The algorithms on words and bytes, each with what undoes it: unpack and  *)
(* unpackbits of l_binary.c with the encoders of binary.lua, the packets of *)
(* sepack.lua, strxor, the block cipher; and the checksums and bit32 with   *)
(* what they stand for.  A state is one call with its arguments.            *)
(****************************************************************************)
EXTENDS Binary, Words, Checks, FiniteSets

CONSTANTS
    Calls,          \* the calls to make, as records
    PacketSize      \* 62 in the code

VARIABLE sample

CodecInit == sample \in Calls

----------------------------------------------------------------------------
(* Encoders in Lua. *)

\* binary_encoder of binary.lua: n bytes of x, the low one first when le.
Encoded(x, n, le) ==
    [i \in 1..n |-> (x \div Base^(IF le THEN i - 1 ELSE n - i)) % Base]

\* packbits: the fields named _ are zero.
PackBits(values, fields) ==
    LET n == Len(fields)
        Bits(i) == IF fields[i].name = "_" THEN 0
                   ELSE IF fields[i].size = 1 THEN IF values[i] THEN 1 ELSE 0
                   ELSE values[i]
        r[i \in 0..n] == IF i = 0 THEN 0 ELSE r[i - 1] * 2^(fields[i].size) + Bits(i)
    IN r[n]

\* format_packet of sepack.lua.
FormatPacket(id, data, flags, final, implicit) ==
    LET head == id + 16 * (flags * 2 + (IF final THEN 0 ELSE 1))
    IN (IF implicit THEN <<head>> ELSE <<head, Len(data)>>) \o data

\* Mistake: data of exactly the size are followed by an empty packet.
EmptyLast(id, data, flags, implicit) ==
    LET n == Len(data) \div PacketSize + 1
    IN [i \in 1..n |->
          FormatPacket(id, SubSeq(data, (i - 1) * PacketSize + 1,
                                  IF i = n THEN Len(data) ELSE i * PacketSize),
                       flags, TRUE, implicit)]

\* Sepack.write: pieces of PacketSize, the last one final.
Packets(id, data, flags, implicit) ==
    LET n == IF data = <<>> THEN 1 ELSE (Len(data) + PacketSize - 1) \div PacketSize
    IN [i \in 1..n |->
          FormatPacket(id, SubSeq(data, (i - 1) * PacketSize + 1,
                                  IF i = n THEN Len(data) ELSE i * PacketSize),
                       flags, i = n, implicit)]

\* parse_packet: the packet at i, and where the next one begins.
ParsePacket(p, i, implicit) ==
    LET first == IF implicit THEN i + 1 ELSE i + 2
        len == IF implicit THEN Len(p) - 1 ELSE p[i + 1]
    IN [id |-> p[i] % 16, final |-> (p[i] \div 16) % 2 = 0, flags |-> p[i] \div 32,
        data |-> SubSeq(p, first, first + len - 1), next |-> first + len]

\* The loop of _in_loop over one message, as the packets it hands on.
Parsed(p, implicit) ==
    LET next[k \in 0..Len(p)] ==
          IF k = 0 THEN 1
          ELSE IF next[k - 1] > Len(p) THEN next[k - 1]
               ELSE ParsePacket(p, next[k - 1], implicit).next
        n == Cardinality({k \in 0..Len(p) : next[k] <= Len(p)})
    IN [k \in 1..n |-> ParsePacket(p, next[k - 1], implicit)]

----------------------------------------------------------------------------
(* Properties. *)

\* What the results of a format were, written again.  The bytes skipped are those of s.
Rewritten(s, format, results) ==
    LET Step(w, item) ==
          CASE item.letter \in {"<", ">"} -> [w EXCEPT !.le = item.letter = "<"]
            [] item.letter = " " -> w
            [] item.letter = "_" ->
                  [w EXCEPT !.out = @ \o SubSeq(s, Len(@) + 1, Len(@) + item.number)]
            [] item.letter \in {"u", "s"} ->
                  [w EXCEPT !.out = @ \o Encoded(results[w.next] % Base^(item.number),
                                                 item.number, w.le),
                            !.next = @ + 1]
            [] item.letter = "c" -> [w EXCEPT !.out = @ \o results[w.next], !.next = @ + 1]
    IN FoldLeft(Step, [out |-> <<>>, next |-> 1, le |-> NativeLittle], format).out

\* The number of values and of bytes of a format without c0.
Values(format) == SelectSeq(format, LAMBDA item : item.letter \in {"u", "s", "c"})
Consumed(format) ==
    FoldLeft(LAMBDA n, item :
                 n + IF item.letter \in {"u", "s", "c", "_"} THEN item.number ELSE 0,
             0, format)

\* The first k items by one call and the others by a second call, where the first one ended;
\* the second call begins with the byte order of the machine.
ReadInTwo(s, format, k) ==
    LET n == Len(s)
        whole == unpack(s, format, 1, n)
        first == unpack(s, SubSeq(format, 1, k), 1, n)
        rest == unpack(s, SubSeq(format, k + 1, Len(format)), first.consumed + 1, n)
    IN first.ok /\ unpack_ll(s, SubSeq(format, 1, k)).le = NativeLittle =>
          /\ whole.ok <=> rest.ok
          /\ whole.ok => /\ whole.results = first.results \o rest.results
                         /\ whole.consumed = first.consumed + rest.consumed

InRange(item, x) ==
    CASE item.letter = "u" -> x \in 0..(Base^(item.number) - 1)
      [] item.letter = "s" -> 2 * x \in (-(Base^(item.number)))..(Base^(item.number) - 1)
      [] item.letter = "c" -> Len(x) = item.number

\* A structure is read from just its bytes: the values are the ones an encoder of the same
\* format writes so, signs and byte orders included, and more bytes after them change
\* nothing, so that readstruct's answer does not depend on how the stream was cut
\* (l_binary.c:30, l_buffer.c:123); nor does it matter whether one call reads the structure
\* or two.  With less there is no answer; nor, at the end of the
\* data, for a format that ends with white space or a byte order.
UnpackReads ==
    sample.call = "unpack" =>
        LET s == sample.s
            format == sample.format
            w == unpack_ll(s, format)
        IN /\ w.ok => /\ Len(w.results) = Len(Values(format))
                      /\ \A i \in 1..Len(w.results) : InRange(Values(format)[i], w.results[i])
                      /\ Len(s) = Consumed(format) + Len(w.rest)
                      /\ Rewritten(s, format, w.results) \o w.rest = s
                      /\ \A b \in 0..(Base - 1) :
                            unpack_ll(Append(s, b), format).results = w.results
           /\ \A k \in 0..Len(format) : ReadInTwo(s, format, k)
           /\ Len(s) > Consumed(format) => w.ok
           /\ Len(s) < Consumed(format) => ~w.ok

\* Each decoder undoes its encoder: a counted string (c0), a float, the fields of packbits
\* (l_binary.c:243), the packets a write is cut into (sepack.lua:243), a masked string
\* (l_binary.c:326) and an enciphered block (l_xtea.c:25).
DecodersUndo ==
    /\ sample.call = "counted" =>
          LET s == sample.s
              n == sample.size
          IN unpack_ll(Encoded(Len(s), n, sample.le) \o s \o <<0>>,
                       <<Item(IF sample.le THEN "<" ELSE ">"), Sized("u", n), Sized("c", 0)>>)
               = [ok |-> TRUE, rest |-> <<0>>, le |-> sample.le, results |-> <<s>>]
    /\ sample.call = "float" =>
          unpack_ll(packfloat(sample.s, sample.le),
                    <<Item(IF sample.le THEN "<" ELSE ">"), Sized("f", Len(sample.s))>>).results
               = <<sample.s>>
    /\ sample.call = "unpackbits" =>
          LET f == sample.fields
              values == UnpackBits(sample.num, f)
              kept == UnpackBits(PackBits(values, f), f)
          IN /\ kept = values
             /\ (\A i \in 1..Len(f) : f[i].name # "_") => PackBits(values, f) = sample.num
    /\ sample.call = "packets" =>
          LET messages == Packets(sample.id, sample.s, sample.flags, sample.implicit)
              parsed == IF sample.implicit
                        THEN [i \in 1..Len(messages) |-> Parsed(messages[i], TRUE)[1]]
                        ELSE Parsed(FlattenSeq(messages), FALSE)
          IN /\ FlattenSeq([i \in 1..Len(parsed) |-> parsed[i].data]) = sample.s
             /\ \A i \in 1..Len(parsed) :
                   /\ parsed[i].id = sample.id /\ parsed[i].flags = sample.flags
                   /\ parsed[i].final <=> i = Len(parsed)
                   /\ Len(parsed[i].data) <= PacketSize
    /\ sample.call = "strxor" => strxor(strxor(sample.s, sample.key), sample.key) = sample.s
    /\ sample.call = "encipher" =>
          l_decipher(l_encipher(sample.data, sample.key), sample.key) = sample.data

\* A message followed by the two bytes of its checksum has the checksum zero, which is how a
\* receiver checks it, and the table agrees with the division it stands for (l_crc.c:54).
ChecksumsCheck ==
    /\ sample.call = "crc" =>
          LET s == sample.s
          IN /\ modbus16(s \o modbus16(s)) = <<0, 0>>
             /\ ccitt16(s \o ccitt16(s)) = <<0, 0>>
             /\ jtagmkii16(s \o jtagmkii16(s)) = <<0, 0>>
    /\ sample.call = "table" =>
          jtagmkii_crc16_update(sample.crc, sample.a) = ccitt_crc16_update(sample.crc, sample.a)

Ones(x) == {k \in 0..(NBITS - 1) : (x \div 2^k) % 2 = 1}
Bit(k) == k \in 0..(NBITS - 1)

\* The functions of bit32 do to the set of bits of a word what their names say, for every
\* displacement: the sign of arshift, shifts by the width and more, negative rotations and
\* fields up to the top bit (lbitlib.c:249).
WordsAreBitSets ==
    sample.call = "bit32" =>
        LET x == sample.x
            y == sample.y
            i == sample.i
            w == sample.w
            X == Ones(checkunsigned(x))
            Y == Ones(checkunsigned(y))
            sign == IF NBITS - 1 \in X /\ i > 0 THEN {k \in 0..(NBITS - 1) : k + i >= NBITS}
                                                ELSE {}
        IN /\ Ones(b_and(x, y)) = X \cap Y
           /\ b_test(x, y) <=> X \cap Y # {}
           /\ Ones(b_or(x, y)) = X \cup Y
           /\ Ones(b_xor(x, y)) = (X \cup Y) \ (X \cap Y)
           /\ Ones(b_not(x)) = (0..(NBITS - 1)) \ X
           /\ Ones(b_lshift(x, i)) = {k \in 0..(NBITS - 1) : k - i \in X}
           /\ Ones(b_rshift(x, i)) = {k \in 0..(NBITS - 1) : k + i \in X}
           /\ Ones(b_arshift(x, i)) = {k \in 0..(NBITS - 1) : k + i \in X} \cup sign
           /\ {Ones(r) : r \in b_lrot(x, i)} = {{(k + i) % NBITS : k \in X}}
           /\ {Ones(r) : r \in b_rrot(x, i)} = {{(k - i) % NBITS : k \in X}}
           /\ IsField(i, w) =>
                 /\ Ones(b_extract(x, i, w)) = {k \in 0..(w - 1) : k + i \in X}
                 /\ Ones(b_replace(x, y, i, w)) =
                       (X \ (i..(i + w - 1))) \cup {k \in i..(i + w - 1) : k - i \in Y}
================================================================================
