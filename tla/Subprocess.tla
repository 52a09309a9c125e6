------------------------------- MODULE Subprocess -------------------------------
(****************************************************************************)
(* subproc.lua over the descriptors of platform-posix.c: a program is started *)
(* with pipes for its input and outputs, `communicate' writes the one and     *)
(* reads the others in threads of their own, and `wait' asks for its status.  *)
(* The pipes are blocking ones: a write that does not fit stops the whole     *)
(* process, with its event loop.  The kernel, libev and the program that is   *)
(* started are external; the program does what it likes, but ends.            *)
(****************************************************************************)
EXTENDS Integers, FiniteSets

CONSTANTS
    Capacity,       \* of a pipe, in bytes
    InputLengths,   \* of what communicate is given
    MaxOut          \* bound: what the program writes to each output, in bytes

ASSUME SubprocessParameters ==
    Capacity \in Nat \ {0} /\ InputLengths \subseteq Nat /\ MaxOut \in [{"out", "err"} -> Nat]

VARIABLES
    caller,     \* where communicate is: "idle", "write", "writeable", "out", "err",
                \* "returned", or the process was "killed"
    input,      \* the length of the input
    rest,       \* what of it was not written
    ends,       \* the ends of the pipes that the process has open
    cloexec,    \* those that a program it executes does not get
    pipes,      \* the bytes in each
    reader,     \* the threads that read the outputs: "none", "reading", "done"
    got,        \* what they were given
    high,       \* are descriptors above 30 in use?  They are then those of the pipes.
    socketed,   \* was the socket library loaded?  It ignores SIGPIPE.
    other,      \* the ends that another program was started with

    doing,      \* the program: "none", "read", "out", "err", "ended"; "" before it is started
    program_ends,       \* the ends it has open
    eof,        \* it has seen the end of its input
    made,       \* history: what it has written

    waiter,     \* wait: "none", "waiting", "done"
    reaped,     \* libev has taken the status
    missed      \* history: wait was called after that

callVars == <<caller, input, rest, ends, cloexec, pipes, reader, got, high, socketed, other>>
programVars == <<doing, program_ends, eof, made>>
waitVars == <<waiter, reaped, missed>>
subprocessVars == <<callVars, programVars, waitVars>>

Outputs == {"out", "err"}
ReadEnd(p) == [pipe |-> p, way |-> "r"]
WriteEnd(p) == [pipe |-> p, way |-> "w"]
\* What the process keeps, and what the program is to have.
Ours(ps) == {IF p = "in" THEN WriteEnd(p) ELSE ReadEnd(p) : p \in ps}
Theirs(ps) == {IF p = "in" THEN ReadEnd(p) ELSE WriteEnd(p) : p \in ps}

SubprocessInit ==
    /\ caller = "idle" /\ input \in InputLengths /\ rest = input
    /\ ends = {} /\ cloexec = {} /\ pipes = [p \in {"in"} \cup Outputs |-> 0]
    /\ reader = [p \in Outputs |-> "none"] /\ got = [p \in Outputs |-> 0]
    /\ high \in BOOLEAN /\ socketed \in BOOLEAN /\ other = {}
    /\ doing = "" /\ program_ends = {} /\ eof = FALSE /\ made = got
    /\ waiter = "none" /\ reaped = FALSE /\ missed = FALSE

Started == doing # ""
Piped(p) == ReadEnd(p) \in ends \/ reader[p] = "done"

\* Lua code runs, and the event loop: not while the process is in write(2).
LoopRuns == caller \notin {"write", "killed"}

Open(e) == e \in ends \cup program_ends \cup other

----------------------------------------------------------------------------
(* The pipes and the start *)

\* io.setinherit(fd, false)
io_setinherit(es) == cloexec' = cloexec \cup es

\* io.raw_close.  It reports a success as an error, and nobody looks.
io_raw_close(es) == ends' = ends \ es

\* subproc:stdin'pipe' and the others: stderr is a pipe only if asked for.
MakePipes ==
    /\ caller = "idle" /\ ends = {}
    /\ \E ps \in {{"in", "out"}, {"in", "out", "err"}} :
          /\ ends' = Ours(ps) \cup Theirs(ps)
          /\ io_setinherit(Ours(ps))
    /\ UNCHANGED <<caller, input, rest, pipes, reader, got, high, socketed, other, programVars,
                   waitVars>>

\* What a program that is executed finds open besides 0, 1 and 2: it closes 3 to 30.
Inherited == IF high THEN ends \ cloexec ELSE {}

\* Another program is started, and does not end.
OtherStarts ==
    /\ LoopRuns /\ other = {}
    /\ other' = Inherited /\ other' # {}
    /\ UNCHANGED <<caller, input, rest, ends, cloexec, pipes, reader, got, high, socketed,
                   programVars, waitVars>>

\* Mistake: the process keeps the program's ends.
ForkKeeping ==
    /\ doing' = "none"
    /\ program_ends' = (ends \cap Theirs({"in"} \cup Outputs)) \cup Inherited
    /\ UNCHANGED ends

\* subproc:start, as both processes see it.
Fork ==
    LET theirs == ends \cap Theirs({"in"} \cup Outputs)
    IN /\ doing' = "none"
       /\ program_ends' = theirs \cup (Inherited \ theirs)
       /\ io_raw_close(theirs)

\* communicate: the program is started, the readers are (they read when the loop runs), and
\* the input is written.
Communicate ==
    /\ caller = "idle" /\ ends # {}
    /\ Fork
    /\ reader' = [p \in Outputs |-> IF Piped(p) THEN "reading" ELSE "done"]
    /\ caller' = "write"
    /\ UNCHANGED <<input, rest, cloexec, pipes, got, high, socketed, other, eof, made, waitVars>>

----------------------------------------------------------------------------
(* communicate: the input *)

InputDone(to) ==
    /\ caller' = to
    /\ io_raw_close({WriteEnd("in")})

\* write(2) takes what fits, again and again, and returns when it has taken all.
WriteSome ==
    /\ caller = "write" /\ rest > 0
    /\ Open(ReadEnd("in"))
    /\ \E n \in 1..rest :
          /\ pipes["in"] + n <= Capacity
          /\ pipes' = [pipes EXCEPT !["in"] = @ + n]
          /\ rest' = rest - n
    /\ UNCHANGED <<caller, input, ends, cloexec, reader, got, high, socketed, other, programVars,
                   waitVars>>

\* loop.write and the close after it; an input of length 0 is not written.
WriteEnds ==
    /\ caller = "write" /\ rest = 0
    /\ InputDone("out")
    /\ UNCHANGED <<input, rest, cloexec, pipes, reader, got, high, socketed, other, programVars,
                   waitVars>>

\* Nobody reads.  A part that was taken is returned, and loop.write waits to write the rest; the
\* error it returns at last is not looked at.
BrokenPipe ==
    /\ caller = "write" /\ rest > 0
    /\ ~Open(ReadEnd("in"))
    /\ \/ ~socketed /\ caller' = "killed" /\ UNCHANGED <<input, ends>>
       \/ socketed /\ rest < input /\ caller' = "writeable" /\ input' = rest /\ UNCHANGED ends
       \/ socketed /\ rest = input /\ InputDone("out") /\ UNCHANGED input
    /\ UNCHANGED <<rest, cloexec, pipes, reader, got, high, socketed, other, programVars, waitVars>>

\* A pipe that nobody reads is writeable.
Writeable ==
    /\ caller = "writeable" /\ caller' = "write"
    /\ UNCHANGED <<input, rest, ends, cloexec, pipes, reader, got, high, socketed, other,
                   programVars, waitVars>>

----------------------------------------------------------------------------
(* communicate: the outputs *)

\* The handler of loop.read: io.raw_read takes what there is.
ReadOutput(p) ==
    /\ LoopRuns /\ reader[p] = "reading"
    /\ pipes[p] > 0
    /\ got' = [got EXCEPT ![p] = @ + pipes[p]]
    /\ pipes' = [pipes EXCEPT ![p] = 0]
    /\ UNCHANGED <<caller, input, rest, ends, cloexec, reader, high, socketed, other, programVars,
                   waitVars>>

\* Mistake: the reader stops when the program has ended, whatever is left in the pipe.
ReadToExit(p) ==
    /\ LoopRuns /\ reader[p] = "reading"
    /\ doing = "ended"
    /\ io_raw_close({ReadEnd(p)})
    /\ reader' = [reader EXCEPT ![p] = "done"]
    /\ UNCHANGED <<caller, input, rest, cloexec, pipes, got, high, socketed, other, programVars,
                   waitVars>>

ReadEof(p) ==
    /\ LoopRuns /\ reader[p] = "reading"
    /\ pipes[p] = 0 /\ ~Open(WriteEnd(p))
    /\ io_raw_close({ReadEnd(p)})
    /\ reader' = [reader EXCEPT ![p] = "done"]
    /\ UNCHANGED <<caller, input, rest, cloexec, pipes, got, high, socketed, other, programVars,
                   waitVars>>

\* chn:recv() and errchn:recv()
Receive ==
    /\ \/ caller = "out" /\ reader["out"] = "done" /\ caller' = "err"
       \/ caller = "err" /\ reader["err"] = "done" /\ caller' = "returned"
    /\ UNCHANGED <<input, rest, ends, cloexec, pipes, reader, got, high, socketed, other,
                   programVars, waitVars>>

----------------------------------------------------------------------------
(* wait *)

Wait ==
    /\ LoopRuns /\ Started /\ waiter = "none"
    /\ waiter' = "waiting" /\ missed' = reaped
    /\ UNCHANGED <<callVars, programVars, reaped>>

\* libev, at SIGCHLD, whether or not there is a watcher for the process.
Reap ==
    /\ LoopRuns /\ doing = "ended" /\ ~reaped
    /\ reaped' = TRUE
    /\ waiter' = IF waiter = "waiting" THEN "done" ELSE waiter
    /\ UNCHANGED <<callVars, programVars, missed>>

----------------------------------------------------------------------------
(* The program *)

Choose ==
    /\ doing = "none"
    /\ \/ doing' = "read" /\ ReadEnd("in") \in program_ends /\ ~eof /\ UNCHANGED program_ends
       \/ \E p \in Outputs : /\ doing' = p /\ WriteEnd(p) \in program_ends /\ made[p] < MaxOut[p]
                             /\ UNCHANGED program_ends
       \/ \E e \in program_ends : program_ends' = program_ends \ {e} /\ UNCHANGED doing
       \/ doing' = "ended" /\ program_ends' = {}
    /\ UNCHANGED <<callVars, eof, made, waitVars>>

ProgramReads ==
    /\ doing = "read"
    /\ \/ /\ pipes["in"] > 0
          /\ \E n \in 1..pipes["in"] : pipes' = [pipes EXCEPT !["in"] = @ - n]
          /\ UNCHANGED eof
       \/ pipes["in"] = 0 /\ ~Open(WriteEnd("in")) /\ eof' = TRUE /\ UNCHANGED pipes
    /\ doing' = "none"
    /\ UNCHANGED <<caller, input, rest, ends, cloexec, reader, got, high, socketed, other,
                   program_ends, made, waitVars>>

ProgramWrites(p) ==
    /\ doing = p
    /\ pipes[p] < Capacity
    /\ pipes' = [pipes EXCEPT ![p] = @ + 1]
    /\ made' = [made EXCEPT ![p] = @ + 1]
    /\ doing' = "none"
    /\ UNCHANGED <<caller, input, rest, ends, cloexec, reader, got, high, socketed, other,
                   program_ends, eof, waitVars>>

----------------------------------------------------------------------------

ProgramNext == Choose \/ ProgramReads \/ \E p \in Outputs : ProgramWrites(p)

WriteNext == WriteSome \/ WriteEnds \/ BrokenPipe \/ Writeable

SubprocessNext ==
    \/ MakePipes \/ OtherStarts \/ Communicate
    \/ WriteNext
    \/ \E p \in Outputs : ReadOutput(p) \/ ReadEof(p)
    \/ Receive
    \/ Wait \/ Reap
    \/ ProgramNext

\* The process runs, its loop calls every watcher that is ready, and the program goes on.
SubprocessFairness ==
    /\ WF_subprocessVars(WriteNext) /\ WF_subprocessVars(Receive)
    /\ \A p \in Outputs : WF_subprocessVars(ReadOutput(p) \/ ReadEof(p))
    /\ WF_subprocessVars(Reap)
    /\ WF_subprocessVars(ProgramNext)

----------------------------------------------------------------------------

\* The program waits for its output to be read, and the process, in write(2), for its input
\* to be: an input longer than a pipe holds, which the threads that read cannot help.
WaitForEachOther ==
    /\ caller = "write" /\ pipes["in"] = Capacity
    /\ doing \in Outputs /\ pipes[doing] = Capacity

\* What keeps communicate from returning: that; SIGPIPE; and another program that was started
\* between the pipes and this one while descriptors above 30 are in use (subproc.lua:81).
Excused == WaitForEachOther \/ caller = "killed" \/ other # {}

\* What communicate returns is all that the program wrote, whenever it closed what, and
\* whether or not it has ended; nothing more can come, and the process has closed every pipe by
\* then (subproc.lua:167).
AllReturned ==
    caller = "returned" =>
        /\ ends = {}
        /\ \A p \in Outputs : got[p] = made[p] /\ WriteEnd(p) \notin program_ends

\* Communicate returns, although it does not look whether the input was written
\* (subproc.lua:164); and a wait ends if the status was not taken before it was called, as
\* libev does without a watcher for it (subproc.lua:106).
Communicates ==
    /\ Started ~> (caller = "returned" \/ Excused)
    /\ (waiter = "waiting" /\ ~missed) ~> (waiter = "done" \/ Excused)

SubprocessSpec == SubprocessInit /\ [][SubprocessNext]_subprocessVars
================================================================================
