--------------------------------- MODULE Process ---------------------------------
(****************************************************************************)
(* main.c with the signal and terminal functions of platform-posix.c: the   *)
(* start of the process, Ctrl-C while Lua computes and while the event loop  *)
(* waits, the attributes of the terminal, and the end.  Lua code is any      *)
(* sequence of calls; the keyboard sends SIGINT at any time.                 *)
(****************************************************************************)
EXTENDS Integers

CONSTANTS
    Flags,      \* the attributes of a terminal that are looked at
    ICANON, ECHO, ONLCR,
    MaxSignals  \* bound: how often Ctrl-C is pressed

ASSUME ProcessParameters == {ICANON, ECHO, ONLCR} \subseteq Flags /\ MaxSignals \in Nat

VARIABLES
    where,          \* "main": before the hook is set; "lua"; "loop"; "ended"
    outer,          \* what runs the loop: "top", main() of l_init.lua; "yield", thread.lua
    ending,         \* how the process ended: "exit", "killed"; "" before
    disposition,    \* of SIGINT: "default" or "handler"
    hook,           \* is lbreak the hook?
    should_break,
    async,          \* ev_async_send was called and the watcher was not
    tty,            \* the attributes of the terminal
    saved_stdin_attributes,
    reset_at_exit,  \* was reset_stdin given to atexit?
    kept,           \* the strings tty_noecho returned that the program keeps, at most one
    signals, ignored,   \* history: SIGINTs, and those since one last had an effect
    immediate           \* history: calls of immediate_stdin, "none", "once" or "other"

interruptVars == <<where, outer, ending, disposition, hook, should_break, async,
                   signals, ignored>>
ttyVars == <<tty, saved_stdin_attributes, reset_at_exit, kept, immediate>>
processVars == <<interruptVars, ttyVars>>

ProcessInit ==
    /\ where = "main" /\ outer = "top" /\ ending = ""
    /\ disposition = "default" /\ hook = FALSE
    /\ should_break = FALSE /\ async = FALSE
    /\ tty = Flags /\ saved_stdin_attributes = {} /\ reset_at_exit = FALSE /\ kept = {}
    /\ signals = 0 /\ ignored = 0 /\ immediate = "none"

----------------------------------------------------------------------------
(* Start and end *)

\* main sets the hook, over the one of THB_MEMDBG_FILE, and the handler.
Start ==
    /\ where = "main" /\ where' = "lua"
    /\ hook' = TRUE
    /\ disposition' = "handler"
    /\ UNCHANGED <<outer, ending, should_break, async, signals, ignored, ttyVars>>

\* exit runs reset_stdin; a signal does not.
Exits ==
    /\ where' = "ended" /\ ending' = "exit"
    /\ tty' = IF reset_at_exit THEN saved_stdin_attributes ELSE tty
    /\ UNCHANGED <<saved_stdin_attributes, reset_at_exit, kept, immediate>>

Exit ==
    /\ where = "lua" /\ outer = "top"
    /\ Exits
    /\ UNCHANGED <<outer, disposition, hook, should_break, async, signals, ignored>>

----------------------------------------------------------------------------
(* Ctrl-C *)

\* Mistake: the handler stays installed.
StaysInstalled ==
    /\ disposition = "handler"
    /\ should_break' = TRUE /\ async' = TRUE
    /\ ignored' = ignored + 1
    /\ UNCHANGED <<where, ending, disposition>>

\* sigint calls keyboard_interrupt, which gives the signal back its default.
keyboard_interrupt ==
    /\ disposition = "handler" /\ disposition' = "default"
    /\ should_break' = TRUE /\ async' = TRUE
    /\ ignored' = ignored + 1
    /\ UNCHANGED <<where, ending>>

Killed ==
    /\ disposition = "default"
    /\ where' = "ended" /\ ending' = "killed"
    /\ UNCHANGED <<disposition, should_break, async, ignored>>

Sigint ==
    /\ where # "ended" /\ signals < MaxSignals
    /\ signals' = signals + 1
    /\ keyboard_interrupt \/ Killed
    /\ UNCHANGED <<outer, hook, ttyVars>>

\* What an error does: Lua code catches it, or the process exits.
Raised ==
    \/ UNCHANGED <<where, ending, ttyVars>>
    \/ Exits

\* Every 10000 instructions.  should_break stays set, and the hook is gone.
lbreak ==
    /\ where = "lua" /\ hook
    /\ should_break
    /\ hook' = FALSE
    /\ disposition' = "handler"
    /\ ignored' = 0
    /\ Raised
    /\ UNCHANGED <<outer, should_break, async, signals>>

\* The event loop: run by main() at the end, or by a main script that waits (Thread.yield);
\* its handlers are Lua code.
EnterLoop ==
    /\ where = "lua" /\ where' = "loop"
    /\ outer' \in IF outer = "top" THEN {"top", "yield"} ELSE {"yield"}
    /\ UNCHANGED <<ending, disposition, hook, should_break, async, signals, ignored, ttyVars>>

Handler ==
    /\ where = "loop" /\ ~async
    /\ where' = "lua"
    /\ UNCHANGED <<outer, ending, disposition, hook, should_break, async, signals, ignored,
                   ttyVars>>

\* What the script waited for came (unloop): the loop returns to it.
Resumed ==
    /\ where = "lua" /\ outer = "yield" /\ outer' = "top"
    /\ UNCHANGED <<where, ending, disposition, hook, should_break, async, signals, ignored,
                   ttyVars>>

\* keyboard_interrupt_watcher_cb: the loop returns.  main() is at its end then; yield, which
\* was given nothing to return, raises an error.
keyboard_interrupt_watcher_cb ==
    /\ where = "loop" /\ async
    /\ async' = FALSE
    /\ ignored' = 0
    /\ outer' = "top"
    /\ \/ outer = "top" /\ Exits
       \/ outer = "yield" /\ where' = "lua" /\ UNCHANGED <<ending, ttyVars>>
       \/ outer = "yield" /\ Exits
    /\ UNCHANGED <<disposition, hook, should_break, signals>>

----------------------------------------------------------------------------
(* The terminal *)

InLua == where = "lua" /\ UNCHANGED interruptVars

reset_stdin == tty' = saved_stdin_attributes

\* io.immediate_stdin(false)
immediate_stdin_off ==
    /\ InLua
    /\ reset_stdin
    /\ immediate' = IF immediate = "once" THEN "once" ELSE "other"
    /\ UNCHANGED <<saved_stdin_attributes, reset_at_exit, kept>>

\* Mistake: the attributes are read after they were changed.
SavesLate ==
    /\ InLua
    /\ tty' = tty \ {ICANON, ECHO}
    /\ saved_stdin_attributes' = tty'
    /\ reset_at_exit' = TRUE
    /\ immediate' = IF immediate = "none" /\ tty = Flags THEN "once" ELSE "other"
    /\ UNCHANGED kept

\* io.immediate_stdin(true): what a second call saves is what the first one set.
immediate_stdin ==
    /\ InLua
    /\ saved_stdin_attributes' = tty
    /\ reset_at_exit' = TRUE
    /\ tty' = tty \ {ICANON, ECHO}
    /\ immediate' = IF immediate = "none" /\ tty = Flags THEN "once" ELSE "other"
    /\ UNCHANGED kept

tty_noecho ==
    /\ InLua
    /\ kept' = {tty}
    /\ tty' = tty \ {ECHO, ONLCR}
    /\ UNCHANGED <<saved_stdin_attributes, reset_at_exit, immediate>>

tty_restore ==
    /\ InLua
    /\ \E attrs \in kept : tty' = attrs
    /\ UNCHANGED <<saved_stdin_attributes, reset_at_exit, kept, immediate>>

ProcessNext ==
    \/ Start \/ Exit
    \/ Sigint \/ lbreak
    \/ EnterLoop \/ Handler \/ Resumed \/ keyboard_interrupt_watcher_cb
    \/ immediate_stdin \/ immediate_stdin_off \/ tty_noecho \/ tty_restore

ProcessSpec == ProcessInit /\ [][ProcessNext]_processVars

----------------------------------------------------------------------------

\* Ctrl-C is never without effect twice in a row: the first one stops the loop when it comes
\* to wait, or raises an error, or the second kills.  It is so although after the first error
\* the hook is gone and computing Lua code is not reached any more (main.c:43).
InterruptsHeard == ignored <= 1

\* A program that made the terminal immediate once, before changing it otherwise, leaves it as
\* it was found, whatever was done to the echo and wherever an interrupt made it exit.  Two
\* calls, or death by a signal, do not (platform-posix.c:192).
TerminalRestored == ending = "exit" /\ immediate = "once" => tty = Flags
================================================================================
