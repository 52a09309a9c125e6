--------------------------------- MODULE Words ---------------------------------
(****************************************************************************)
(* lbitlib.c: the functions of bit32 on unsigned words.  A word of the code *)
(* has 32 bits (LUA_NBITS).                                                 *)
(****************************************************************************)
EXTENDS Integers, Bitwise

CONSTANT NBITS

ASSUME WordWidth == NBITS \in Nat \ {0}

Word == 0..(2^NBITS - 1)

ALLONES == 2^NBITS - 1

\* lua_number2unsigned: of the ways to convert a number, each keeps its lowest bits.
number2unsigned(x) == x % 2^NBITS
\* luaL_checkunsigned
checkunsigned(x) == number2unsigned(x)

\* The operators of C on words.
Complement(r) == ALLONES - r
Left(r, i) == (r * 2^i) % 2^NBITS
Right(r, i) == r \div 2^i

\* n ones, for n from 1.
mask(n) == Complement(Left(Left(ALLONES, 1), n - 1))

b_and(x, y) == checkunsigned(x) & checkunsigned(y)
b_test(x, y) == b_and(x, y) # 0
b_or(x, y) == checkunsigned(x) | checkunsigned(y)
b_xor(x, y) == checkunsigned(x) ^^ checkunsigned(y)
b_not(x) == Complement(checkunsigned(x))

\* To the left, or to the right when i is negative.
b_shift(r, i) ==
    IF i < 0 THEN IF -i >= NBITS THEN 0 ELSE Right(r, -i)
             ELSE IF i >= NBITS THEN 0 ELSE Left(r, i)

b_lshift(x, i) == b_shift(checkunsigned(x), i)
b_rshift(x, i) == b_shift(checkunsigned(x), -i)

\* Mistake: a shift by the width or more leaves no sign.
SignShiftedOut(x, i) ==
    LET r == checkunsigned(x)
    IN IF i < 0 \/ r & 2^(NBITS - 1) = 0 THEN b_shift(r, -i)
       ELSE IF i >= NBITS THEN 0
       ELSE Right(r, i) | Complement(Right(ALLONES, i))

b_arshift(x, i) ==
    LET r == checkunsigned(x)
    IN IF i < 0 \/ r & 2^(NBITS - 1) = 0 THEN b_shift(r, -i)
       ELSE IF i >= NBITS THEN ALLONES
       ELSE Right(r, i) | Complement(Right(ALLONES, i))

\* A set: for i = 0 the code shifts by all the bits, which C does not define; machines give
\* nothing, or the word itself.
b_rot(x, i) ==
    LET r == checkunsigned(x)
        n == i % NBITS
    IN IF n = 0 THEN {r | 0, r | r}
       ELSE {Left(r, n) | Right(r, NBITS - n)}

b_lrot(x, i) == b_rot(x, i)
b_rrot(x, i) == b_rot(x, -i)

\* fieldargs: the arguments of a field, for which no error is raised.
IsField(f, w) == 0 <= f /\ 0 < w /\ f + w <= NBITS

b_extract(x, f, w) == Right(checkunsigned(x), f) & mask(w)

b_replace(x, v, f, w) ==
    LET m == mask(w)
        kept == checkunsigned(v) & m
    IN (checkunsigned(x) & Complement(Left(m, f))) | Left(kept, f)
================================================================================
