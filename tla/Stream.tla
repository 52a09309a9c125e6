-------------------------------- MODULE Stream --------------------------------
(****************************************************************************)
(* Framed messages over a stream: loop.write and loop.read (linux/loop.lua),*)
(* bio.IBuf on the buffers of buffer.c, and the framing of extproc.lua and  *)
(* raw-usb.lua: the length of the data on a line, the data, a newline.      *)
(*                                                                          *)
(* loop.write sends what the file takes and suspends until it takes more.   *)
(* In a thread that writes from a queue (ExtProc._out_loop) the next write  *)
(* follows; in the main context (raw-usb's read_cb) suspending runs the     *)
(* event loop inside the callback, where the next callback may write too.   *)
(****************************************************************************)
EXTENDS Naturals, Sequences, SequencesExt

CONSTANTS
    Messages,   \* the data of the messages to write, a sequence of sequences of bytes
    Capacity,   \* what fits into the stream, in bytes
    InMain,     \* the writes are made by event handlers
    Raw         \* a file descriptor (io.raw_write) instead of a socket (send)

\* Bytes: a length is one digit.
Newline == <<"newline", 0>>
Other == <<"other", 0>>
Digit(n) == <<"digit", n>>

ASSUME StreamParameters ==
    /\ Messages \in Seq(Seq({Newline, Other}))
    /\ \A i \in 1..Len(Messages) : Len(Messages[i]) < 10
    /\ Capacity \in Nat \ {0}
    /\ InMain \in BOOLEAN /\ Raw \in BOOLEAN

Frame(data) == <<Digit(Len(data)), Newline>> \o data \o <<Newline>>

VARIABLES
    next,       \* the next message to write
    stack,      \* the calls of loop.write that have not returned, innermost last
    running,    \* the innermost one runs; else it is suspended
    armed,      \* the calls (depths) whose on_writeable watcher has not fired
    stream,     \* written and not read
    buffer,     \* IBuf: read and not used
    state,      \* where read_message is: "line", "data" or "newline"
    length,     \* the length it has read
    data,       \* the data it has read
    received,   \* the data of the messages read
    failed,     \* the reader met a framing error
    accepted    \* history: the data of the messages loop.write did not give up

writerVars == <<next, stack, running, armed, accepted>>
readerVars == <<buffer, state, length, data, received, failed>>
vars == <<writerVars, stream, readerVars>>

Init ==
    /\ next = 1 /\ stack = <<>> /\ running = FALSE /\ armed = {} /\ accepted = <<>>
    /\ stream = <<>>
    /\ buffer = <<>> /\ state = "line" /\ length = 0 /\ data = <<>>
    /\ received = <<>> /\ failed = FALSE

Top == Last(stack)

----------------------------------------------------------------------------
(* Writing. *)

\* loop.write is called with the next message: `start' is 1.
Write ==
    /\ next <= Len(Messages)
    /\ ~running
    /\ InMain \/ stack = <<>>
    /\ stack' = Append(stack, [bytes |-> Frame(Messages[next]), start |-> 1])
    /\ accepted' = Append(accepted, Messages[next])
    /\ next' = next + 1
    /\ running' = TRUE
    /\ UNCHANGED <<armed, stream, readerVars>>

\* What the file takes of the rest: something if there is room.
Taken == LET rest == Len(Top.bytes) - Top.start + 1
             room == Capacity - Len(stream)
         IN IF room = 0 THEN {0} ELSE 1..(IF rest < room THEN rest ELSE room)

\* Mistake: the number of bytes is taken for the index, with a socket too.
IndexIsCount(n) == n

\* send returns the index of the last byte sent, raw_write how many it took.
Index(n) == IF Raw THEN n ELSE Top.start - 1 + n

\* The call returns: to the handler, or thread, that made it.
Return == stack' = Front(stack) /\ running' = FALSE /\ UNCHANGED armed

\* Mistake: the watcher is not started.
WaitUnwatched(i) ==
    /\ stack' = [stack EXCEPT ![Len(stack)].start = i + 1]
    /\ running' = FALSE
    /\ UNCHANGED armed

\* It waits: start is the byte after the index.
Wait(i) ==
    /\ stack' = [stack EXCEPT ![Len(stack)].start = i + 1]
    /\ armed' = armed \cup {Len(stack)}
    /\ running' = FALSE

\* One turn of the loop in loop.write.  Nothing taken is an error of a descriptor, and,
\* as the index 0, of the first send to a socket; callers drop the message.
SendSome ==
    /\ running
    /\ \E n \in Taken :
          /\ stream' = stream \o SubSeq(Top.bytes, Top.start, Top.start + n - 1)
          /\ \/ /\ Index(n) = 0
                /\ Return
                /\ accepted' = Front(accepted)
             \/ /\ Index(n) \in 1..(Len(Top.bytes) - 1)
                /\ Wait(Index(n))
                /\ UNCHANGED accepted
             \/ /\ Index(n) = Len(Top.bytes)
                /\ Return
                /\ UNCHANGED accepted
    /\ UNCHANGED <<next, readerVars>>

\* The file takes bytes again: every watcher fires, once.  In the main context each of
\* them stops the innermost event loop, and the innermost call goes on.
Writeable ==
    /\ armed # {}
    /\ ~running
    /\ Len(stream) < Capacity
    /\ armed' = {}
    /\ running' = TRUE
    /\ UNCHANGED <<next, stack, accepted, stream, readerVars>>

----------------------------------------------------------------------------
(* Reading. *)

\* The buffer holds what read_message asks for next: a line, the data (and a byte, be the
\* data empty), or the newline.
Ready ==
    CASE state = "line"    -> \E i \in 1..Len(buffer) : buffer[i] = Newline
      [] state = "data"    -> buffer # <<>> /\ Len(buffer) >= length
      [] state = "newline" -> buffer # <<>>

\* loop.read: IBuf asks for more only when it has too little, and gets some of what is there.
Read ==
    /\ ~Ready /\ ~failed
    /\ stream # <<>>
    /\ \E n \in 1..Len(stream) :
          /\ buffer' = buffer \o SubSeq(stream, 1, n)
          /\ stream' = SubSeq(stream, n + 1, Len(stream))
    /\ UNCHANGED <<writerVars, state, length, data, received, failed>>

Drop(n) == buffer' = SubSeq(buffer, n + 1, Len(buffer))

FirstNewline == CHOOSE i \in 1..Len(buffer) :
                    buffer[i] = Newline /\ \A j \in 1..(i - 1) : buffer[j] # Newline

Line == SubSeq(buffer, 1, FirstNewline - 1)

\* tonumber: a line of digits.
IsLength == Line # <<>> /\ \A i \in 1..Len(Line) : Line[i][1] = "digit"
ToNumber == FoldLeft(LAMBDA n, byte : 10 * n + byte[2], 0, Line)

\* buffer:readuntil('\n', 1): the line up to the first newline, which is dropped.
\* An empty line is skipped.  One that is no length ends raw-usb; ExtProc takes it for a
\* command, which these writers do not send.
ReadLine ==
    /\ state = "line" /\ Ready /\ ~failed
    /\ Drop(FirstNewline)
    /\ state' = IF IsLength THEN "data" ELSE "line"
    /\ length' = IF IsLength THEN ToNumber ELSE length
    /\ failed' = (Line # <<>> /\ ~IsLength)
    /\ UNCHANGED <<writerVars, stream, data, received>>

\* buffer:read(len)
ReadData ==
    /\ state = "data" /\ Ready /\ ~failed
    /\ data' = SubSeq(buffer, 1, length)
    /\ Drop(length)
    /\ state' = "newline"
    /\ UNCHANGED <<writerVars, stream, length, received, failed>>

\* buffer:read(1): the newline after the data.
ReadNewline ==
    /\ state = "newline" /\ Ready /\ ~failed
    /\ Drop(1)
    /\ IF Head(buffer) = Newline
       THEN received' = Append(received, data) /\ UNCHANGED failed
       ELSE failed' = TRUE /\ UNCHANGED received
    /\ state' = "line"
    /\ UNCHANGED <<writerVars, stream, length, data>>

ReadMessage == ReadLine \/ ReadData \/ ReadNewline

Next == Write \/ SendSome \/ Writeable \/ Read \/ ReadMessage

\* The event loop calls the handlers of every file that is ready, and a thread that was
\* resumed runs until it waits again.
Spec == Init /\ [][Next]_vars /\ WF_vars(SendSome) /\ WF_vars(Writeable)
             /\ WF_vars(Read) /\ WF_vars(ReadMessage)

----------------------------------------------------------------------------
(* Properties. *)

\* What is left of the frame of d when read_message has got to where it is.
Rest(d) ==
    CASE state = "line"    -> Frame(d)
      [] state = "data"    -> d \o <<Newline>>
      [] state = "newline" -> <<Newline>>

\* Written and not used by the reader, and then what is left to write.
UnderWay ==
    buffer \o stream \o IF stack = <<>> THEN <<>>
                        ELSE SubSeq(Top.bytes, Top.start, Len(Top.bytes))

\* Partial writes and reads neither lose, repeat nor tear anything: what was received is
\* what loop.write accepted, and what is under way is the frames that remain.
Intact ==
    LET left == SubSeq(accepted, Len(received) + 1, Len(accepted))
        frames == [i \in 1..Len(left) |-> IF i = 1 THEN Rest(left[i]) ELSE Frame(left[i])]
    IN /\ received = SubSeq(accepted, 1, Len(received))
       /\ UnderWay = FlattenSeq(frames)
       /\ state = "newline" => data = Head(left)

\* read_message never meets a line or an ending that is not one ("framing error",
\* extproc.lua:106; "invalid data framing", raw-usb.lua:151, 160).
NoFramingError == ~failed

\* Every message that loop.write accepts arrives: nobody waits for an event that was
\* missed, neither the writer for room nor the reader for bytes that IBuf already has.
Arrives == <>[](received = accepted)
=============================================================================
