------------------------------ MODULE Transactions ------------------------------
(****************************************************************************)
(* The transactions of l_i2c.c and l_spi.c: a string of commands, letters    *)
(* with their arguments, becomes an array of messages for the kernel; what   *)
(* was received is returned.  A state is one transaction as its caller means *)
(* it.  Bytes are below 128, as an argument is read through a char.          *)
(****************************************************************************)
EXTENDS Integers, Sequences, SequencesExt

CONSTANTS
    Meant,                  \* the transactions, as records
    I2C_RDRW_IOCTL_MAX_MSGS, \* 42
    SPI_MAX_TRANSFERS       \* 10

VARIABLE transaction

TransactionInit == transaction \in Meant

\* A string of Lua ends with a zero.  What comes after it is not read in these transactions.
Char(s, i) == IF i <= Len(s) THEN s[i] ELSE 0

BRACE == 123        \* {
UNBRACE == 125      \* }
LETTER_w == 119
LETTER_r == 114
LETTER_x == 120
LETTER_d == 100
BANG == 33
SPEED == 64         \* @
BITS == 35          \* #

\* The loop over the string: the index of the next byte, n, what is built, and an error.
Building(msgs) == [at |-> 1, n |-> 0, msgs |-> msgs, error |-> FALSE,
                   speed_hz |-> 0, bits_per_word |-> 0]
Wrong(w) == [w EXCEPT !.error = TRUE, !.n = 0]

\* The last message, which a command of the loop fills in.
Filled(w, m, bytes, n) ==
    [w EXCEPT !.msgs = Append(Front(@), m), !.at = @ + bytes, !.n = n]

----------------------------------------------------------------------------
(* l_i2c.c *)

\* A START too many is an error, but one that comes after its message was written behind the
\* end of the array (l_i2c.c:43), so that nothing can be said of it.
I2cStart(s, w, n) ==
    IF Len(w.msgs) >= I2C_RDRW_IOCTL_MAX_MSGS \/ n = 0 THEN Wrong(w)
    ELSE [w EXCEPT !.msgs = Append(@, [addr |-> Char(s, w.at + 1), way |-> "none",
                                       len |-> 0, data |-> <<>>]),
                   !.at = @ + 2, !.n = n]

\* A direction needs a START before it, and only one may follow.
NoMessage(w) == w.msgs = <<>> \/ Last(w.msgs).way # "none"

\* Mistake: the data are not skipped, and taken for commands.
WriteInPlace(s, w, n) ==
    LET len == Char(s, w.at + 1)
    IN IF NoMessage(w) \/ n = 0 \/ len = 0 \/ n < len THEN Wrong(w)
       ELSE Filled(w, [Last(w.msgs) EXCEPT !.way = "write", !.len = len,
                                           !.data = SubSeq(s, w.at + 2, w.at + 1 + len)],
                   2, n)

\* n counts commands only, so that it stays above the number of bytes left.
I2cWrite(s, w, n) ==
    LET len == Char(s, w.at + 1)
    IN IF NoMessage(w) \/ n = 0 \/ len = 0 \/ n < len THEN Wrong(w)
       ELSE Filled(w, [Last(w.msgs) EXCEPT !.way = "write", !.len = len,
                                           !.data = SubSeq(s, w.at + 2, w.at + 1 + len)],
                   2 + len, n)

I2cRead(s, w, n) ==
    LET len == Char(s, w.at + 1)
    IN IF NoMessage(w) \/ n = 0 \/ len = 0 THEN Wrong(w)
       ELSE Filled(w, [Last(w.msgs) EXCEPT !.way = "read", !.len = len], 2, n)

I2cCommand(s, w) ==
    LET c == Char(s, w.at)
        n == w.n - 1
    IN CASE w.n = 0 -> w
         [] w.n # 0 /\ c = BRACE -> I2cStart(s, w, n)
         [] w.n # 0 /\ c = UNBRACE -> [w EXCEPT !.at = @ + 1, !.n = 0]
         [] w.n # 0 /\ c = LETTER_w -> I2cWrite(s, w, n)
         [] w.n # 0 /\ c = LETTER_r -> I2cRead(s, w, n)
         [] w.n # 0 /\ c \notin {BRACE, UNBRACE, LETTER_w, LETTER_r} -> Wrong(w)

\* xchg: the messages given to the kernel.
I2cMessages(s) ==
    FoldLeft(LAMBDA w, i : I2cCommand(s, w), [Building(<<>>) EXCEPT !.n = Len(s)],
             [i \in 1..Len(s) |-> i])

----------------------------------------------------------------------------
(* l_spi.c *)

NoTransfer == [tx |-> <<>>, rx |-> FALSE, len |-> 0, cs_change |-> FALSE,
               delay_usecs |-> 0, speed_hz |-> 0, bits_per_word |-> 0]

\* Mistake: the speed is that of the transfer it stands before only.
SpeedOnce(w) ==
    LET m == Last(w.msgs)
    IN [w EXCEPT !.msgs = Append(Front(@),
           [m EXCEPT !.speed_hz = IF w.speed_hz # 0 THEN w.speed_hz ELSE @,
                     !.bits_per_word = w.bits_per_word]),
                 !.speed_hz = 0]

\* Each turn of the loop gives the transfer that is being built the settings.
WithSettings(w) ==
    LET m == Last(w.msgs)
    IN [w EXCEPT !.msgs = Append(Front(@),
           [m EXCEPT !.speed_hz = w.speed_hz, !.bits_per_word = w.bits_per_word])]

\* A transfer is complete, the next one of the zeroed array begins.
Advance(w) == [w EXCEPT !.msgs = Append(@, NoTransfer)]

\* w and x: the data follow.  x receives as many bytes as it sends.
SpiSend(s, w, n, receives) ==
    LET len == Char(s, w.at + 1)
    IN IF n = 0 \/ len = 0 \/ n - 1 < len THEN Wrong(w)
       ELSE Advance(Filled(w, [Last(w.msgs) EXCEPT !.len = len, !.rx = receives,
                                    !.tx = SubSeq(s, w.at + 2, w.at + 1 + len)],
                           2 + len, n - 1 - len))

SpiRead(s, w, n) ==
    LET len == Char(s, w.at + 1)
    IN IF len = 0 THEN Wrong(w)
       ELSE Advance(Filled(w, [Last(w.msgs) EXCEPT !.len = len, !.rx = TRUE], 2, n - 1))

SpiDelay(s, w, n) ==
    Filled(w, [Last(w.msgs) EXCEPT !.delay_usecs =
                  Char(s, w.at + 1) * 256 + Char(s, w.at + 2)], 3, n - 2)

SpiSpeed(s, w, n) ==
    [w EXCEPT !.speed_hz = ((Char(s, w.at + 1) * 256 + Char(s, w.at + 2)) * 256
                             + Char(s, w.at + 3)) * 256 + Char(s, w.at + 4),
              !.at = @ + 5, !.n = n - 4]

SpiBits(s, w, n) ==
    [w EXCEPT !.bits_per_word = Char(s, w.at + 1), !.at = @ + 2, !.n = n - 1]

\* The index of the transfer being built is one less than the length of msgs: one transfer
\* more than SPI_MAX_TRANSFERS passes the test, and is written behind the end of the array.
SpiCommand(s, v) ==
    LET w == WithSettings(v)
        c == Char(s, w.at)
        n == w.n - 1
    IN CASE v.n = 0 -> v
         [] v.n # 0 /\ Len(v.msgs) - 1 > SPI_MAX_TRANSFERS -> Wrong(v)
         [] v.n # 0 /\ Len(v.msgs) - 1 <= SPI_MAX_TRANSFERS ->
              CASE c = LETTER_w -> SpiSend(s, w, n, FALSE)
                [] c = LETTER_x -> SpiSend(s, w, n, TRUE)
                [] c = LETTER_r -> SpiRead(s, w, n)
                [] c = BANG -> Filled(w, [Last(w.msgs) EXCEPT !.cs_change = TRUE], 1, n)
                [] c = LETTER_d -> SpiDelay(s, w, n)
                [] c = SPEED -> SpiSpeed(s, w, n)
                [] c = BITS -> SpiBits(s, w, n)
                [] OTHER -> Wrong(w)

\* xchg: the transfers given to the kernel, without the one that was not completed.
SpiTransfers(s) ==
    LET w == FoldLeft(LAMBDA w, i : SpiCommand(s, w),
                      [Building(<<NoTransfer>>) EXCEPT !.n = Len(s)],
                      [i \in 1..Len(s) |-> i])
    IN [error |-> w.error, msgs |-> Front(w.msgs)]

----------------------------------------------------------------------------
(* What is meant: of I2C, messages with an address and data or a length; of SPI, transfers  *)
(* with what is written before them.                                                        *)

I2cString(messages) ==
    FlattenSeq([i \in 1..Len(messages) |->
        LET m == messages[i]
        IN <<BRACE, m.addr>> \o
           (IF m.way = "write" THEN <<LETTER_w, Len(m.data)>> \o m.data
                               ELSE <<LETTER_r, m.len>>)]) \o <<UNBRACE>>

SpiString(transfers) ==
    FlattenSeq([i \in 1..Len(transfers) |->
        LET t == transfers[i]
        IN (IF t.speed > 0 THEN <<SPEED, 0, 0, 1, t.speed>> ELSE <<>>)
           \o (IF t.bits > 0 THEN <<BITS, t.bits>> ELSE <<>>)
           \o (IF t.delay > 0 THEN <<LETTER_d, 1, t.delay>> ELSE <<>>)
           \o (IF t.change THEN <<BANG>> ELSE <<>>)
           \o (CASE t.kind = "w" -> <<LETTER_w, Len(t.data)>> \o t.data
                 [] t.kind = "x" -> <<LETTER_x, Len(t.data)>> \o t.data
                 [] t.kind = "r" -> <<LETTER_r, t.len>>)])

\* The last setting before a transfer is in force.
InForce(transfers, i, Setting(_)) ==
    LET given == {j \in 1..i : Setting(transfers[j]) > 0}
    IN IF given = {} THEN 0
       ELSE Setting(transfers[CHOOSE j \in given : \A k \in given : k <= j])

\* The kernel is given the messages that the string stands for, in their order, with data that
\* may look like commands (l_i2c.c:71), and with the settings that were in force where each
\* transfer stands (l_spi.c:67).  Too many transfers of SPI are an error, except one too many, of
\* which nothing can be said (l_spi.c:64), as of too many messages of I2C (l_i2c.c:43).
TransactionsAsWritten ==
    /\ transaction.bus = "i2c" =>
          LET meant == transaction.messages
              made == I2cMessages(I2cString(meant))
          IN Len(meant) <= I2C_RDRW_IOCTL_MAX_MSGS =>
             /\ ~made.error
             /\ Len(made.msgs) = Len(meant)
             /\ \A i \in 1..Len(meant) :
                   /\ made.msgs[i].addr = meant[i].addr
                   /\ made.msgs[i].way = meant[i].way
                   /\ meant[i].way = "write" => /\ made.msgs[i].data = meant[i].data
                                                /\ made.msgs[i].len = Len(meant[i].data)
                   /\ meant[i].way = "read" => made.msgs[i].len = meant[i].len
    /\ transaction.bus = "spi" =>
          LET meant == transaction.transfers
              made == SpiTransfers(SpiString(meant))
          IN /\ Len(meant) > SPI_MAX_TRANSFERS + 1 => made.error
             /\ Len(meant) <= SPI_MAX_TRANSFERS =>
                  /\ ~made.error
                  /\ Len(made.msgs) = Len(meant)
                  /\ \A i \in 1..Len(meant) :
                        LET m == made.msgs[i]
                            t == meant[i]
                        IN /\ m.tx = (IF t.kind = "r" THEN <<>> ELSE t.data)
                           /\ m.len = (IF t.kind = "r" THEN t.len ELSE Len(t.data))
                           /\ m.rx = (t.kind # "w")
                           /\ m.cs_change = t.change
                           /\ m.delay_usecs = (IF t.delay > 0 THEN 256 + t.delay ELSE 0)
                           /\ m.speed_hz = (LET v == InForce(meant, i, LAMBDA x : x.speed)
                                            IN IF v > 0 THEN 256 + v ELSE 0)
                           /\ m.bits_per_word = InForce(meant, i, LAMBDA x : x.bits)
================================================================================
