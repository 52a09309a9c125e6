--------------------------------- MODULE Binary ---------------------------------
(****************************************************************************)
(* l_binary.c with byte.c: structures read from bytes by a format.  A byte  *)
(* has ByteBits bits (8 in the code), so that a number of the largest size  *)
(* fits an integer of the model checker.  A floating point number is the    *)
(* sequence of its bytes in the order of the machine.                       *)
(****************************************************************************)
EXTENDS Integers, Sequences, SequencesExt, Bitwise

CONSTANTS
    ByteBits,
    NativeLittle    \* is_little_endian

ASSUME BinaryParameters == ByteBits \in Nat \ {0} /\ NativeLittle \in BOOLEAN

Base == 2^ByteBits

----------------------------------------------------------------------------
(* byte.c.  A string is a sequence of numbers. *)

\* The first index of c, counted from 0, or the length.
byte_findc(s, c) ==
    LET places == {i \in 1..Len(s) : s[i] = c}
    IN IF places = {} THEN Len(s) ELSE (CHOOSE i \in places : \A j \in places : i <= j) - 1

----------------------------------------------------------------------------
(* unpack.  A format is a sequence of items, a letter with or without a number: what    *)
(* scan_uint found.  White space is the letter " ".                                     *)

Item(letter) == [letter |-> letter, number |-> 1, given |-> FALSE]
Sized(letter, number) == [letter |-> letter, number |-> number, given |-> TRUE]

Unsigned(s, le) ==
    LET n == Len(s)
        r[i \in 0..n] == IF i = 0 THEN 0
                         ELSE IF le THEN r[i - 1] + s[i] * Base^(i - 1)
                                    ELSE r[i - 1] * Base + s[i]
    IN r[n]

\* Mistake: the sign is not extended.
NoSign(s, le, issigned) == Unsigned(s, le)

\* extract_number and extract_number_64, for words of 4 and of 8 bytes: the mask covers the
\* sign bit and what is above it, and the cast makes a set top bit negative.  Lua makes a double
\* of the result: exact up to 2^53, so for six bytes, and above that not modelled.
extract_number(s, le, issigned) ==
    LET r == Unsigned(s, le)
        width == (IF Len(s) <= 4 THEN 4 ELSE 8) * ByteBits
        mask == 2^width - 2^(Len(s) * ByteBits - 1)
        extended == IF r & mask # 0 THEN r | mask ELSE r
    IN IF ~issigned THEN r
       ELSE IF extended >= 2^(width - 1) THEN extended - 2^width ELSE extended

\* extract_float and extract_double; inject_float and inject_double do the same.
Flipped(s, flipendian) == IF flipendian THEN Reverse(s) ELSE s

Bytes(s, n) == SubSeq(s, 1, n)
After(s, n) == SubSeq(s, n + 1, Len(s))

\* The loop of lua_binary_unpack_ll: the bytes left, the byte order and the results.
Working(rest, le, results) == [ok |-> TRUE, rest |-> rest, le |-> le, results |-> results]
TooShort(w) == [w EXCEPT !.ok = FALSE, !.results = <<>>]

Number(w, item, size) ==
    Working(After(w.rest, size), w.le,
            Append(w.results, extract_number(Bytes(w.rest, size), w.le, item.letter = "s")))

\* Of 4 or of 8 bytes; other sizes raise an error and are not written.
Float(w, size) ==
    Working(After(w.rest, size), w.le,
            Append(w.results, Flipped(Bytes(w.rest, size), w.le # NativeLittle)))

String(w, n, results) ==
    IF Len(w.rest) < n THEN TooShort(w)
    ELSE Working(After(w.rest, n), w.le, Append(results, Bytes(w.rest, n)))

\* c0: the number before it is taken back and is the size.
Counted(w, size) ==
    IF size = 0 THEN String(w, Last(w.results), Front(w.results))
                ELSE String(w, size, w.results)

\* Every item needs as many bytes as its number, or one, before it is looked at: a letter
\* that takes none as well.
Unpack1(w, item) ==
    LET size == item.number
        c == item.letter
    IN IF ~w.ok THEN w
       ELSE IF Len(w.rest) < size THEN TooShort(w)
       ELSE CASE c \in {"u", "s"} -> Number(w, item, size)
              [] c = "f" -> Float(w, size)
              [] c = "c" -> Counted(w, size)
              [] c = "z" -> String(w, byte_findc(w.rest, 0), w.results)
              [] c = "<" -> [w EXCEPT !.le = TRUE]
              [] c = ">" -> [w EXCEPT !.le = FALSE]
              [] c = "_" -> [w EXCEPT !.rest = After(w.rest, size)]
              [] c = " " -> w

\* lua_binary_unpack_ll: -1 results when the bytes do not suffice.
unpack_ll(s, format) == FoldLeft(Unpack1, Working(s, NativeLittle, <<>>), format)

\* lua_binary_unpack: of the bytes from start to end, both from 1; and what was consumed.
unpack(s, format, start, end) ==
    LET size == IF end < Len(s) THEN end ELSE Len(s)
        off == IF start - 1 > size THEN size ELSE start - 1
        w == unpack_ll(SubSeq(s, off + 1, size), format)
    IN [ok |-> w.ok, results |-> w.results, consumed |-> (size - off) - Len(w.rest)]

----------------------------------------------------------------------------
(* unpackbits: fields of bits, the last one lowest.  A format is a sequence of fields.  *)

\* The fields from the last to the first, and the number shifted as they are cut off.
UnpackBits(num, fields) ==
    LET n == Len(fields)
        shifted[i \in 0..n] ==
            IF i = 0 THEN num ELSE shifted[i - 1] \div 2^(fields[n - i + 1].size)
        Field(i) == LET f == fields[i] IN
            IF f.size > 1 THEN shifted[n - i] % 2^(f.size) ELSE shifted[n - i] % 2 = 1
    IN [i \in {j \in 1..n : fields[j].name # "_"} |-> Field(i)]

----------------------------------------------------------------------------

\* The order is that of the machine when none is given.  v is the bytes of a float: the cast
\* from a double, which rounds one that is no float, is not modelled.
packfloat(v, le) == Flipped(v, le # NativeLittle)

\* strxor: the key is repeated.
strxor(s, key) ==
    [i \in 1..Len(s) |-> s[i] ^^ key[((i - 1) % Len(key)) + 1]]
================================================================================
