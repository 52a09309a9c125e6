------------------------------ MODULE Scheduler ------------------------------
(****************************************************************************)
(* The trampoline of lualib/thread.lua: who runs, who is runnable, and the  *)
(* deferred functions (queuecall, Idle.call).                               *)
(*                                                                          *)
(* There is one OS thread.  A coroutine that resumes another one yields to  *)
(* handle_resume_result, which runs in the main context; so does every      *)
(* event handler and every deferred function.  A deferred function may      *)
(* resume coroutines itself, which starts a nested handle_resume_result     *)
(* while the outer one is still in the middle of its list: `frames' is the  *)
(* stack of the lists that are being run.                                   *)
(****************************************************************************)
EXTENDS Naturals, FiniteSets, Sequences, SequencesExt

CONSTANTS
    Threads,    \* the coroutines
    Main,       \* the main context: main script, event handlers, deferred functions
    Tramp,      \* handle_resume_result choosing what runs next
    Calls       \* the functions given to queuecall or Idle.call

Actors == Threads \cup {Main}

ASSUME SchedulerNames ==
    /\ Main \notin Threads /\ Tramp \notin Threads /\ Main # Tramp
    /\ Calls \cap Actors = {} /\ Tramp \notin Calls

VARIABLES
    current,    \* what runs: a thread, Main or Tramp
    busy,       \* busy_list: threads suspended inside resume, or not yet started
    callbacks,  \* callback_list
    nice,       \* nice_list: threads waiting for Idle, and functions
    frames,     \* for each list being run: the function that runs, and those after it
    issued,     \* history: functions given to queuecall or Idle.call
    ran,        \* history: functions started, in order
    exited      \* os.exit(2), or an error nothing catches: the process is gone

schedVars == <<current, busy, callbacks, nice, frames, issued, ran, exited>>

\* The functions kept by the calls in progress are left alone.
deferred == <<callbacks, frames, issued, ran>>

SchedulerTypeOK ==
    /\ current \in Actors \cup {Tramp}
    /\ busy \in SUBSET Threads
    /\ callbacks \in Seq(Calls)
    /\ nice \in SUBSET (Threads \cup Calls)
    /\ frames \in Seq(Seq(Calls) \ {<<>>})
    /\ issued \in SUBSET Calls
    /\ ran \in Seq(Calls)
    /\ exited \in BOOLEAN

\* The module is loaded by the main script.
SchedulerInit ==
    /\ current = Main
    /\ busy = {}
    /\ callbacks = <<>>
    /\ nice = {}
    /\ frames = <<>>
    /\ issued = {}
    /\ ran = <<>>
    /\ exited = FALSE

\* c can do something: it is the one that runs.
Runs(c) == current = c /\ ~exited

\* Mistake (as everywhere below, a bug that the properties must notice): the caller of
\* resume is forgotten.
SuspendForgets(c) == UNCHANGED busy

\* resume(): a coroutine that resumes another one stays runnable.
Suspend(c) == busy' = IF c \in Threads THEN busy \cup {c} ELSE busy

\* An error that reaches the default thread handler.
Exit ==
    /\ exited' = TRUE
    /\ UNCHANGED current

----------------------------------------------------------------------------
(* Deferred functions. *)

\* queuecall: at once in the main context, later in a coroutine.
QueueCall(c, f) ==
    /\ Runs(c)
    /\ f \notin issued
    /\ issued' = issued \cup {f}
    /\ \/ c = Main /\ ran' = Append(ran, f) /\ UNCHANGED callbacks
       \/ c # Main /\ callbacks' = Append(callbacks, f) /\ UNCHANGED ran
    /\ UNCHANGED <<current, busy, nice, frames, exited>>

\* Idle.call: later, whoever calls.
IdleCall(c, f) ==
    /\ Runs(c)
    /\ f \notin issued
    /\ issued' = issued \cup {f}
    /\ nice' = nice \cup {f}
    /\ UNCHANGED <<current, busy, callbacks, frames, ran, exited>>

\* The order of handle_resume_result: busy threads, callbacks, nice_list, return.
CallbacksTurn == Runs(Tramp) /\ busy = {}
NiceBeforeBusy == Runs(Tramp)     \* Mistake
NiceTurn == CallbacksTurn /\ callbacks = <<>>

\* Mistake: the list is kept while its functions run.
RunCallbacksKept ==
    /\ CallbacksTurn
    /\ callbacks # <<>>
    /\ frames' = Append(frames, callbacks)
    /\ ran' = Append(ran, Head(callbacks))
    /\ current' = Main
    /\ UNCHANGED <<busy, callbacks, nice, issued, exited>>

\* callback_list is swapped for an empty one, and its first function called.
RunCallbacks ==
    /\ CallbacksTurn
    /\ callbacks # <<>>
    /\ frames' = Append(frames, callbacks)
    /\ ran' = Append(ran, Head(callbacks))
    /\ callbacks' = <<>>
    /\ current' = Main
    /\ UNCHANGED <<busy, nice, issued, exited>>

RunNiceFunction(f) ==
    /\ NiceTurn
    /\ f \in nice \cap Calls
    /\ nice' = nice \ {f}
    /\ frames' = Append(frames, <<f>>)
    /\ ran' = Append(ran, f)
    /\ current' = Main
    /\ UNCHANGED <<busy, callbacks, issued, exited>>

\* A deferred function returns: the next of its list, or back to the trampoline.
FunctionReturns ==
    /\ Runs(Main)
    /\ frames # <<>>
    /\ LET rest == Tail(Last(frames)) IN
       \/ /\ rest # <<>>
          /\ frames' = Append(Front(frames), rest)
          /\ ran' = Append(ran, Head(rest))
          /\ UNCHANGED current
       \/ /\ rest = <<>>
          /\ frames' = Front(frames)
          /\ current' = Tramp
          /\ UNCHANGED ran
    /\ UNCHANGED <<busy, callbacks, nice, issued, exited>>

\* Mistake: only busy_list is emptied.
ReturnsEarly ==
    /\ CallbacksTurn
    /\ current' = Main
    /\ UNCHANGED <<busy, callbacks, nice, frames, issued, ran, exited>>

\* Idle: handle_resume_result returns to the main code that called resume.
TrampolineReturns ==
    /\ NiceTurn
    /\ nice = {}
    /\ current' = Main
    /\ UNCHANGED <<busy, callbacks, nice, frames, issued, ran, exited>>

=============================================================================
