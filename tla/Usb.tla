----------------------------------- MODULE Usb -----------------------------------
(****************************************************************************)
(* The transfers of linux/usb.lua over l_usb.c: endpoint:read and :write     *)
(* submit a URB to the kernel and file a callback under its address; a       *)
(* watcher reaps what is complete.  The kernel (usbfs) is external.  A       *)
(* callback may make requests, which are actions of their own here: between  *)
(* two callbacks of the loop at a disconnect, any request can be made.       *)
(* device:close, which nothing calls, is left out.                           *)
(****************************************************************************)
EXTENDS Integers, Sequences, FiniteSets

CONSTANTS
    Ins, Outs,      \* the requests, calls of endpoint:read and of endpoint:write
    Urbs,           \* the addresses malloc returns
    Message,        \* the text of an error of SUBMITURB, always the same
    MaxErrors,      \* 7 in the code
    NoRequest

ASSUME UsbParameters ==
    /\ Ins \cap Outs = {} /\ NoRequest \notin Ins \cup Outs
    /\ Message \notin Urbs
    /\ MaxErrors \in Nat

VARIABLES
    allocated,  \* the URBs that malloc returned and free did not get
    pinned,     \* the keys of the strong proxies, which keep the data of writes
    pending,    \* URBs in the kernel
    completed,  \* the kernel's queue of results, [urb, status]
    plugged,    \* is the device there?
    owner,      \* history: the request a URB was submitted for
    callbacks,  \* device.callbacks: the requests under their tokens
    errors,     \* device.cont_errors
    opened,     \* is the file of the device open?  The watcher is started and stopped with it.
    leaving,    \* the tokens _handle_reap has still to call after a disconnect
    answers,    \* history: how each callback was called, [of, ok, fatal]
    misfiled,   \* history: requests filed under the text of an error
    refused     \* history: requests that raised an error, and those then skipped

usbVars == <<allocated, pinned, pending, completed, plugged, owner, callbacks, errors,
             opened, leaving, answers, misfiled, refused>>

Requests == Ins \cup Outs
CallbackTokens == Urbs \cup {Message}

UsbInit ==
    /\ allocated = {} /\ pinned = {} /\ pending = {} /\ completed = <<>>
    /\ plugged = TRUE /\ opened = TRUE
    /\ owner = [u \in Urbs |-> NoRequest]
    /\ callbacks = [t \in CallbackTokens |-> NoRequest]
    /\ errors = 0 /\ leaving = {}
    /\ answers = [r \in Requests |-> <<>>]
    /\ misfiled = {} /\ refused = {}

InCallbacks == {callbacks[t] : t \in CallbackTokens} \ {NoRequest}
Asked(r) == answers[r] # <<>> \/ r \in InCallbacks \cup misfiled \cup refused

Failed(r) == [of |-> r, ok |-> FALSE, fatal |-> TRUE]
CallBack(r, a) == answers' = [answers EXCEPT ![r] = Append(@, a)]

----------------------------------------------------------------------------
(* endpoint:read and endpoint:write *)

\* luaLM_getfd of a file object, which after its close has no FILE.
getfd == IF opened THEN 0 ELSE -1

\* io.getfd gives nil then: a read is answered at once.
ReadClosed(r) ==
    /\ r \in Ins /\ getfd < 0
    /\ CallBack(r, Failed(r))
    /\ UNCHANGED <<allocated, pinned, pending, completed, plugged, owner, callbacks, errors,
                   opened, leaving, misfiled, refused>>

\* luaLM_checkfd, else an error is raised.
checkfd == getfd >= 0

\* A write raises it, which also ends the loop of _handle_reap.
WriteClosed(r) ==
    /\ r \in Outs /\ ~checkfd
    /\ refused' = refused \cup {r} \cup {callbacks[t] : t \in leaving}
    /\ leaving' = {}
    /\ UNCHANGED <<allocated, pinned, pending, completed, plugged, owner, callbacks, errors,
                   opened, answers, misfiled>>

\* bulk_read and bulk_write up to the ioctl.
Allocate(r, u) ==
    /\ checkfd
    /\ u \notin allocated
    /\ allocated' = allocated \cup {u}
    /\ pinned' = IF r \in Outs THEN pinned \cup {u} ELSE pinned
    /\ UNCHANGED <<completed, plugged, errors, opened, leaving, refused>>

Accepted(r, u) ==
    /\ plugged
    /\ pending' = pending \cup {u}
    /\ owner' = [owner EXCEPT ![u] = r]
    /\ callbacks' = [callbacks EXCEPT ![u] = r]
    /\ UNCHANGED <<answers, misfiled>>

posix_error == <<"nil", Message, "errno">>

\* The operands of | in "_ioctl(...) | (lua_pushlightuserdata (L, urb), 1)" push three values
\* and one, in an order C leaves open; of the four the last 3 | 1 = 3 are returned.
RefusedResults(u) ==
    LET lastThree(s) == SubSeq(s, 2, 4)
    IN {lastThree(<<u>> \o posix_error), lastThree(posix_error \o <<u>>)}

\* The kernel refuses the URB, which is not freed.  The first result is taken for the token.
Rejected(r, u) ==
    /\ \E results \in RefusedResults(u) :
          IF results[1] = "nil" THEN CallBack(r, Failed(r)) /\ UNCHANGED <<callbacks, misfiled>>
          ELSE /\ callbacks' = [callbacks EXCEPT ![results[1]] = r]
               /\ misfiled' = misfiled \cup {r}
               /\ UNCHANGED answers
    /\ UNCHANGED <<pending, owner>>

Submit(r) ==
    /\ ~Asked(r)
    /\ \/ ReadClosed(r)
       \/ WriteClosed(r)
       \/ \E u \in Urbs : Allocate(r, u) /\ (Accepted(r, u) \/ Rejected(r, u))

----------------------------------------------------------------------------
(* The kernel *)

\* status 0 is "ok", EPIPE "stall", another errno "error".
Complete(u) ==
    /\ plugged /\ u \in pending
    /\ pending' = pending \ {u}
    /\ \E status \in {"ok", "stall", "error"} :
          completed' = Append(completed, [urb |-> u, status |-> status])
    /\ UNCHANGED <<allocated, pinned, plugged, owner, callbacks, errors, opened, leaving,
                   answers, misfiled, refused>>

Orders(S) == {f \in [1..Cardinality(S) -> S] : \A i, j \in DOMAIN f : f[i] = f[j] => i = j}

Unplug ==
    /\ plugged /\ plugged' = FALSE
    /\ pending' = {}
    /\ \E order \in Orders(pending) :
          completed' = completed \o
             [i \in DOMAIN order |-> [urb |-> order[i], status |-> "error"]]
    /\ UNCHANGED <<allocated, pinned, owner, callbacks, errors, opened, leaving, answers,
                   misfiled, refused>>

----------------------------------------------------------------------------
(* The watcher: _do_reap, that is reap_urb and _handle_reap. *)

\* Mistake: a URB is freed whatever its status, and its callback is left.
FreeOnly(u, status) ==
    /\ allocated' = allocated \ {u} /\ pinned' = pinned \ {u}
    /\ callbacks' = callbacks

\* reap_urb frees what was successful, and the callback is taken out before it is called.
Release(u, status) ==
    /\ allocated' = IF status = "ok" THEN allocated \ {u} ELSE allocated
    /\ pinned' = IF status = "ok" THEN pinned \ {u} ELSE pinned
    /\ callbacks' = [callbacks EXCEPT ![u] = NoRequest]

\* A result.
ReapResult ==
    LET u == Head(completed).urb
        status == Head(completed).status
        failures == IF status = "ok" THEN 0 ELSE errors + 1
    IN /\ opened /\ leaving = {}
       /\ completed # <<>>
       /\ completed' = Tail(completed)
       /\ Release(u, status)
       /\ errors' = failures
       /\ CallBack(callbacks[u],
                   [of |-> owner[u], ok |-> status = "ok",
                    fatal |-> status = "error" \/ failures > MaxErrors])
       /\ UNCHANGED <<pending, plugged, owner, opened, leaving, misfiled, refused>>

\* Mistake: the callbacks are those of the URBs that are still in the kernel.
OnlyPending == {t \in pending : callbacks[t] # NoRequest}

ToLeave == {t \in CallbackTokens : callbacks[t] # NoRequest}

\* ENODEV, which some kernels give before the last results; or EAGAIN, as libev may report a
\* descriptor that is not ready: no token is taken for a disconnect.  Closing the file discards
\* what the kernel has.
ReapGone ==
    /\ opened /\ leaving = {}
    /\ ~plugged \/ completed = <<>>
    /\ opened' = FALSE
    /\ leaving' = ToLeave
    /\ pending' = {} /\ completed' = <<>>
    /\ UNCHANGED <<allocated, pinned, plugged, owner, callbacks, errors, answers, misfiled,
                   refused>>

\* The loop over the callbacks, which stay in the table.
Leave(t) ==
    /\ t \in leaving
    /\ leaving' = leaving \ {t}
    /\ CallBack(callbacks[t], Failed(callbacks[t]))
    /\ UNCHANGED <<allocated, pinned, pending, completed, plugged, owner, callbacks, errors,
                   opened, misfiled, refused>>

UsbNext ==
    \/ \E r \in Requests : Submit(r)
    \/ \E u \in Urbs : Complete(u)
    \/ Unplug
    \/ ReapResult
    \/ ReapGone
    \/ \E t \in CallbackTokens : Leave(t)

\* The event loop calls a watcher whose descriptor is ready, and a loop goes on.
UsbFairness ==
    /\ WF_usbVars(ReapResult)
    /\ WF_usbVars(ReapGone /\ ~plugged /\ completed = <<>>)
    /\ \A t \in CallbackTokens : WF_usbVars(Leave(t))

UsbSpec == UsbInit /\ [][UsbNext]_usbVars /\ UsbFairness

----------------------------------------------------------------------------

InKernel == pending \cup {completed[i].urb : i \in 1..Len(completed)}

\* A callback is called at most once, with the result of its own transfer, although the address
\* that is its token goes to another transfer as soon as it is free, and although callbacks
\* make requests while a result is handled (usb.lua:161).  A request without an answer is one
\* that the kernel still has, under its own token, with its memory and its data kept; or one
\* whose turn in the loop at a disconnect is to come (usb.lua:183).  The only others are those
\* of a failed submission and those an exception stopped.
AccountedFor ==
    /\ \A r \in Requests :
          /\ Len(answers[r]) <= 1
          /\ answers[r] # <<>> => answers[r][1].of = r
    /\ \A r \in Requests :
          Asked(r) /\ answers[r] = <<>> /\ r \notin misfiled \cup refused =>
              \E u \in Urbs : callbacks[u] = r /\ (u \in InKernel \/ u \in leaving)
    /\ \A u \in InKernel :
          /\ callbacks[u] = owner[u] /\ owner[u] # NoRequest
          /\ u \in allocated
          /\ owner[u] \in Outs => u \in pinned

\* When the device is gone every request is answered, with the same exceptions.
AllAnswered ==
    \A r \in Requests :
        ~plugged /\ Asked(r) ~> answers[r] # <<>> \/ r \in misfiled \cup refused
================================================================================
