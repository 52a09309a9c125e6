---------------------------------- MODULE Text ----------------------------------
(****************************************************************************)
(* l_unicode.c: the decoder of UTF-8 under unicode.codepoint_widths, which  *)
(* the editor of the REPL lays its line out with.  The decoder is an        *)
(* automaton over two tables; one action feeds it a byte.                   *)
(****************************************************************************)
EXTENDS Integers, Sequences

CONSTANT TextBytes      \* the bytes that occur; 0 ends the string and is not one of them

ASSUME TextBytesAreBytes == TextBytes \subseteq 1..255

VARIABLES
    textState,  \* of the automaton
    codepoint,  \* what is known of the code point
    seen,       \* history: the bytes since the last code point ended
    width       \* the last number added to bytewidths; 0 before the first

textVars == <<textState, codepoint, seen, width>>

UTF8_ACCEPT == 0
UTF8_REJECT == 12

\* The class of a byte above 16#7f.
utf8d_class == <<
     1,  1,  1,  1,  1,  1,  1,  1,  1,  1,  1,  1,  1,  1,  1,  1,
     9,  9,  9,  9,  9,  9,  9,  9,  9,  9,  9,  9,  9,  9,  9,  9,
     7,  7,  7,  7,  7,  7,  7,  7,  7,  7,  7,  7,  7,  7,  7,  7,
     7,  7,  7,  7,  7,  7,  7,  7,  7,  7,  7,  7,  7,  7,  7,  7,
     8,  8,  2,  2,  2,  2,  2,  2,  2,  2,  2,  2,  2,  2,  2,  2,
     2,  2,  2,  2,  2,  2,  2,  2,  2,  2,  2,  2,  2,  2,  2,  2,
    10,  3,  3,  3,  3,  3,  3,  3,  3,  3,  3,  3,  3,  4,  3,  3,
    11,  6,  6,  6,  5,  8,  8,  8,  8,  8,  8,  8,  8,  8,  8,  8 >>

\* The next state: rows of twelve classes, one for each state.
utf8d_next == <<
     0, 12, 24, 36, 60, 96, 84, 12, 12, 12, 48, 72,
    12, 12, 12, 12, 12, 12, 12, 12, 12, 12, 12, 12,
    12,  0, 12, 12, 12, 12, 12,  0, 12,  0, 12, 12,
    12, 24, 12, 12, 12, 12, 12, 24, 12, 24, 12, 12,
    12, 12, 12, 12, 12, 12, 12, 24, 12, 12, 12, 12,
    12, 24, 12, 12, 12, 12, 12, 12, 12, 24, 12, 12,
    12, 12, 12, 12, 12, 12, 12, 36, 12, 36, 12, 12,
    12, 36, 12, 12, 12, 12, 12, 36, 12, 36, 12, 12,
    12, 36, 12, 12, 12, 12, 12, 12, 12, 12, 12, 12 >>

Class(byte) == IF byte <= 127 THEN 0 ELSE utf8d_class[byte - 128 + 1]

\* The low bits that a byte of a class contributes when it comes first: 0xff >> class.
LeadBits(class) == 2^(IF class < 8 THEN 8 - class ELSE 0)

\* decode
NextState(s, byte) == utf8d_next[s + Class(byte) + 1]

\* Mistake: the bytes that follow make room for seven bits.
SevenBits(s, code, byte) ==
    IF s # UTF8_ACCEPT THEN (byte % 64) + code * 128
                       ELSE byte % LeadBits(Class(byte))

NextCode(s, code, byte) ==
    IF s # UTF8_ACCEPT THEN (byte % 64) + code * 64
                       ELSE byte % LeadBits(Class(byte))

TextInit == textState = UTF8_ACCEPT /\ codepoint = 0 /\ seen = <<>> /\ width = 0

\* One turn of the loop in lua_codepoint_widths.  The state of rejection raises an error,
\* after which there are no more turns.  The bytes of an unfinished code point stay in seen.
Feed(byte) ==
    /\ textState # UTF8_REJECT
    /\ textState' = NextState(textState, byte)
    /\ codepoint' = NextCode(textState, codepoint, byte)
    /\ seen' = IF textState = UTF8_ACCEPT THEN <<byte>> ELSE Append(seen, byte)
    /\ width' = IF textState' = UTF8_ACCEPT THEN Len(seen') ELSE width

TextNext == \E byte \in TextBytes : Feed(byte)

TextSpec == TextInit /\ [][TextNext]_textVars

----------------------------------------------------------------------------
(* UTF-8, as RFC 3629 defines it. *)

\* A code point that is written in n bytes.
CodePoint(x, n) ==
    \/ n = 1 /\ 1 <= x /\ x <= 127
    \/ n = 2 /\ 128 <= x /\ x <= 2047
    \/ n = 3 /\ 2048 <= x /\ x <= 65535 /\ (x < 55296 \/ 57343 < x)
    \/ n = 4 /\ 65536 <= x /\ x <= 1114111

\* The first byte has the length in its high bits.
Leads(byte, n) ==
    \/ n = 1 /\ byte <= 127
    \/ n = 2 /\ 192 <= byte /\ byte <= 223
    \/ n = 3 /\ 224 <= byte /\ byte <= 239
    \/ n = 4 /\ 240 <= byte /\ byte <= 247

\* The bytes that follow.
Continuation == 128..191

\* What a sequence of bytes encodes, were it of the right form.
Value(bytes) ==
    LET low(i) == bytes[i] % 64
    IN CASE Len(bytes) = 1 -> bytes[1]
         [] Len(bytes) = 2 -> (bytes[1] % 32) * 64 + low(2)
         [] Len(bytes) = 3 -> ((bytes[1] % 16) * 64 + low(2)) * 64 + low(3)
         [] Len(bytes) = 4 -> (((bytes[1] % 8) * 64 + low(2)) * 64 + low(3)) * 64 + low(4)

Encodes(bytes, n) ==
    /\ Len(bytes) = n
    /\ Leads(bytes[1], n)
    /\ \A i \in 2..n : bytes[i] \in Continuation
    /\ CodePoint(Value(bytes), n)

\* Some bytes make it the encoding of a code point; the extremes decide.
Begins(bytes, n) ==
    /\ Len(bytes) < n
    /\ Leads(bytes[1], n)
    /\ \A i \in 2..Len(bytes) : bytes[i] \in Continuation
    /\ \E first \in Continuation :
          Encodes(bytes \o <<first>> \o [i \in 1..(n - Len(bytes) - 1) |-> 191], n)

\* The automaton accepts exactly the encodings of UTF-8, with their code points, goes on
\* exactly while they can be completed, and rejects at the first byte that cannot
\* (l_unicode.c:34): overlong forms, surrogates and what lies above 16#10ffff included.
DecodesText ==
    seen # <<>> =>
        /\ textState = UTF8_ACCEPT <=> \E n \in 1..4 : Encodes(seen, n)
        /\ textState = UTF8_REJECT <=> \A n \in 1..4 : ~Encodes(seen, n) /\ ~Begins(seen, n)
        /\ textState = UTF8_ACCEPT => codepoint = Value(seen) /\ width = Len(seen)
================================================================================
