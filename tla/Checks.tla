--------------------------------- MODULE Checks ---------------------------------
(****************************************************************************)
(* Checksums and the block cipher: l_crc.c and l_xtea.c.  Words of the      *)
(* cipher have 32 bits in the code; here they have CipherBits.              *)
(****************************************************************************)
EXTENDS Integers, Sequences, SequencesExt, Bitwise

CONSTANTS
    CipherBits,
    Delta,      \* 0x9E3779B9 in the code
    Rounds      \* 32 in the code

ASSUME CipherParameters ==
    CipherBits \in Nat \ {0} /\ Rounds \in Nat /\ Delta \in Nat

----------------------------------------------------------------------------
(* l_crc.c: the low bit of a byte goes first. *)

\* One bit: the polynomial is subtracted when a one leaves.
CrcBit(crc, poly) == IF crc % 2 = 1 THEN (crc \div 2) ^^ poly ELSE crc \div 2

crc16_update(crc, a, poly) ==
    LET after[i \in 0..8] == IF i = 0 THEN crc ^^ a ELSE CrcBit(after[i - 1], poly)
    IN after[8]

modbus_crc16_update(crc, a) == crc16_update(crc, a, \hA001)
ccitt_crc16_update(crc, a) == crc16_update(crc, a, \h8408)

tab == <<
    \h0000, \h1189, \h2312, \h329b, \h4624, \h57ad, \h6536, \h74bf,
    \h8c48, \h9dc1, \haf5a, \hbed3, \hca6c, \hdbe5, \he97e, \hf8f7,
    \h1081, \h0108, \h3393, \h221a, \h56a5, \h472c, \h75b7, \h643e,
    \h9cc9, \h8d40, \hbfdb, \hae52, \hdaed, \hcb64, \hf9ff, \he876,
    \h2102, \h308b, \h0210, \h1399, \h6726, \h76af, \h4434, \h55bd,
    \had4a, \hbcc3, \h8e58, \h9fd1, \heb6e, \hfae7, \hc87c, \hd9f5,
    \h3183, \h200a, \h1291, \h0318, \h77a7, \h662e, \h54b5, \h453c,
    \hbdcb, \hac42, \h9ed9, \h8f50, \hfbef, \hea66, \hd8fd, \hc974,
    \h4204, \h538d, \h6116, \h709f, \h0420, \h15a9, \h2732, \h36bb,
    \hce4c, \hdfc5, \hed5e, \hfcd7, \h8868, \h99e1, \hab7a, \hbaf3,
    \h5285, \h430c, \h7197, \h601e, \h14a1, \h0528, \h37b3, \h263a,
    \hdecd, \hcf44, \hfddf, \hec56, \h98e9, \h8960, \hbbfb, \haa72,
    \h6306, \h728f, \h4014, \h519d, \h2522, \h34ab, \h0630, \h17b9,
    \hef4e, \hfec7, \hcc5c, \hddd5, \ha96a, \hb8e3, \h8a78, \h9bf1,
    \h7387, \h620e, \h5095, \h411c, \h35a3, \h242a, \h16b1, \h0738,
    \hffcf, \hee46, \hdcdd, \hcd54, \hb9eb, \ha862, \h9af9, \h8b70,
    \h8408, \h9581, \ha71a, \hb693, \hc22c, \hd3a5, \he13e, \hf0b7,
    \h0840, \h19c9, \h2b52, \h3adb, \h4e64, \h5fed, \h6d76, \h7cff,
    \h9489, \h8500, \hb79b, \ha612, \hd2ad, \hc324, \hf1bf, \he036,
    \h18c1, \h0948, \h3bd3, \h2a5a, \h5ee5, \h4f6c, \h7df7, \h6c7e,
    \ha50a, \hb483, \h8618, \h9791, \he32e, \hf2a7, \hc03c, \hd1b5,
    \h2942, \h38cb, \h0a50, \h1bd9, \h6f66, \h7eef, \h4c74, \h5dfd,
    \hb58b, \ha402, \h9699, \h8710, \hf3af, \he226, \hd0bd, \hc134,
    \h39c3, \h284a, \h1ad1, \h0b58, \h7fe7, \h6e6e, \h5cf5, \h4d7c,
    \hc60c, \hd785, \he51e, \hf497, \h8028, \h91a1, \ha33a, \hb2b3,
    \h4a44, \h5bcd, \h6956, \h78df, \h0c60, \h1de9, \h2f72, \h3efb,
    \hd68d, \hc704, \hf59f, \he416, \h90a9, \h8120, \hb3bb, \ha232,
    \h5ac5, \h4b4c, \h79d7, \h685e, \h1ce1, \h0d68, \h3ff3, \h2e7a,
    \he70e, \hf687, \hc41c, \hd595, \ha12a, \hb0a3, \h8238, \h93b1,
    \h6b46, \h7acf, \h4854, \h59dd, \h2d62, \h3ceb, \h0e70, \h1ff9,
    \hf78f, \he606, \hd49d, \hc514, \hb1ab, \ha022, \h92b9, \h8330,
    \h7bc7, \h6a4e, \h58d5, \h495c, \h3de3, \h2c6a, \h1ef1, \h0f78 >>

\* Mistake: the byte is looked up without the register.
UpdateByteOnly(crc, a) == (crc \div 256) ^^ tab[a + 1]

jtagmkii_crc16_update(crc, a) == (crc \div 256) ^^ tab[((crc ^^ a) % 256) + 1]

modbus_crc16_calc(buf) == FoldLeft(modbus_crc16_update, \hFFFF, buf)
ccitt_crc16_calc(buf) == FoldLeft(ccitt_crc16_update, 0, buf)
jtagmkii_crc16_calc(buf) == FoldLeft(jtagmkii_crc16_update, \hFFFF, buf)

\* Mistake: the bytes of the result are in the order they are written in.
HighFirst(crc) == <<crc \div 256, crc % 256>>

\* The two bytes modbus16, ccitt16 and jtagmkii16 return.
CrcBytes(crc) == <<crc % 256, crc \div 256>>

modbus16(s) == CrcBytes(modbus_crc16_calc(s))
ccitt16(s) == CrcBytes(ccitt_crc16_calc(s))
jtagmkii16(s) == CrcBytes(jtagmkii_crc16_calc(s))

----------------------------------------------------------------------------
(* l_xtea.c *)

CipherWord(x) == x % 2^CipherBits
Mix(v) == CipherWord((CipherWord(v * 16) ^^ (v \div 32)) + v)
Add(x, y) == CipherWord(x + y)
Subtract(x, y) == CipherWord(x - y)

\* The state of a loop over the rounds: the two words of a block and the sum.
Half(sum, k, v) == Mix(v) ^^ Add(sum, k)
LowKey(key, sum) == key[(sum % 4) + 1]
HighKey(key, sum) == key[((sum \div 2048) % 4) + 1]

encipher(v, key) ==
    LET round[i \in 0..Rounds] ==
          IF i = 0 THEN [v0 |-> v[1], v1 |-> v[2], sum |-> 0]
          ELSE LET s == round[i - 1]
                   v0 == Add(s.v0, Half(s.sum, LowKey(key, s.sum), s.v1))
                   sum == Add(s.sum, Delta)
               IN [v0 |-> v0,
                   v1 |-> Add(s.v1, Half(sum, HighKey(key, sum), v0)),
                   sum |-> sum]
    IN <<round[Rounds].v0, round[Rounds].v1>>

\* Mistake: the sum starts where encipher's does.
FromZero(v, key) ==
    LET round[i \in 0..Rounds] ==
          IF i = 0 THEN [v0 |-> v[1], v1 |-> v[2], sum |-> 0]
          ELSE LET s == round[i - 1]
                   v1 == Subtract(s.v1, Half(s.sum, HighKey(key, s.sum), s.v0))
                   sum == Subtract(s.sum, Delta)
               IN [v0 |-> Subtract(s.v0, Half(sum, LowKey(key, sum), v1)),
                   v1 |-> v1, sum |-> sum]
    IN <<round[Rounds].v0, round[Rounds].v1>>

decipher(v, key) ==
    LET round[i \in 0..Rounds] ==
          IF i = 0 THEN [v0 |-> v[1], v1 |-> v[2], sum |-> CipherWord(Delta * Rounds)]
          ELSE LET s == round[i - 1]
                   v1 == Subtract(s.v1, Half(s.sum, HighKey(key, s.sum), s.v0))
                   sum == Subtract(s.sum, Delta)
               IN [v0 |-> Subtract(s.v0, Half(sum, LowKey(key, sum), v1)),
                   v1 |-> v1, sum |-> sum]
    IN <<round[Rounds].v0, round[Rounds].v1>>

\* l_encipher and l_decipher: each pair of words by itself; other lengths raise an error.
Blocks(Code(_, _), data, key) ==
    [i \in 1..Len(data) |->
        LET first == i - ((i - 1) % 2)
        IN Code(<<data[first], data[first + 1]>>, key)[i - first + 1]]
l_encipher(data, key) == Blocks(encipher, data, key)
l_decipher(data, key) == Blocks(decipher, data, key)
================================================================================
