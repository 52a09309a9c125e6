-------------------------------- MODULE Sepack --------------------------------
(****************************************************************************)
(* A device behind a helper process: lualib/extproc.lua, raw-usb.lua and    *)
(* the control channel of lualib/sepack.lua.                                *)
(*                                                                          *)
(* extproc.lua starts the helper, which connects back, announces the device *)
(* and passes packets on.  sepack.lua learns of it through the observable   *)
(* `status' and the mailbox `inbox', enumerates the device's channels in a  *)
(* thread of its own and matches replies to requests by their order alone.  *)
(* Threads and observables are as in Thread and Kvo: what a thread does     *)
(* until it waits is one step here, or several where others may come        *)
(* between.                                                                 *)
(*                                                                          *)
(* Three things go wrong on the way and are not made good: a packet the     *)
(* helper fails to write to the device, one it fails to read, and a frame   *)
(* it writes into another, at which ExtProc gives the helper up.            *)
(****************************************************************************)
EXTENDS Naturals, Sequences, SequencesExt

CONSTANTS
    Users,              \* threads that make requests (xchg on the control channel)
    Nil,
    Unpluggable,        \* the device may go while its channels are enumerated
    MaxConnections,     \* bound: helper processes started
    MaxRequests,        \* bound: requests in all after which the users make no more
    MaxData,            \* bound: packets that are no replies
    MaxLost,            \* bound: packets of which the transfer fails
    MaxTorn             \* bound: frames written into another

Enumerators == 1..MaxConnections    \* the thread that runs _enumerate, per connection
Threads == Users \cup Enumerators

ASSUME SepackParameters ==
    /\ Users \cap Nat = {} /\ Nil \notin Users \cup BOOLEAN \cup Seq(Nat)
    /\ Unpluggable \in BOOLEAN
    /\ MaxConnections \in Nat /\ MaxRequests \in Nat /\ MaxData \in Nat
    /\ MaxLost \in Nat /\ MaxTorn \in Nat

VARIABLES
    link,       \* the helper process: none, started, connected, or at work on the device
    connection, \* how many were started
    wire,       \* what the helper has sent and ExtProc not read
    device,     \* the requests the device has got and not answered
    batch,      \* IBuf: what _in_loop has read and not handled
    inbox, outbox,
    status,     \* ext.status: its value,
    changed,    \*   its version is not the one Sepack's loop has seen,
    dirty,      \*   a notification is pending
    awake,      \* Sepack's _in_loop is between two waits
    coldplug,   \* _coldplug_wait
    connected,  \* Nil until the device was found or lost once
    control,    \* the control channel: "none", "added", "named" (channel_names is set)
    reply_chns, \* the requests that wait for a reply, oldest first, or Nil
    doing,      \* where each thread is
    asking,     \* the last request of each thread
    asked,      \* the last request, and so how many there were
    data,       \* bound
    mixed,      \* history: a thread was given the reply to another request
    lost,       \* history: packets of which the transfer failed
    torn,       \* history: frames written into another
    exited      \* an error ended the process

helperVars == <<link, connection, wire, device>>
statusVars == <<status, changed, dirty>>
loopVars == <<batch, inbox, awake>>
stateVars == <<coldplug, connected, control>>
requestVars == <<reply_chns, outbox, doing, asking, asked>>
faultVars == <<lost, torn>>
vars == <<helperVars, statusVars, loopVars, stateVars, requestVars, data, mixed, faultVars,
          exited>>

\* What the helper sends.
Message(kind) == [kind |-> kind, request |-> 0]
ReplyTo(n) == [kind |-> "reply", request |-> n]

Init ==
    /\ link = "none" /\ connection = 0 /\ wire = <<>> /\ device = <<>>
    /\ batch = <<>> /\ inbox = <<>> /\ outbox = <<>>
    /\ status = "false" /\ changed = TRUE /\ dirty = FALSE
    /\ awake = TRUE
    /\ coldplug = TRUE /\ connected = Nil /\ control = "none"
    /\ reply_chns = Nil
    /\ doing = [t \in Threads |-> "idle"]
    /\ asking = [t \in Threads |-> 0]
    /\ asked = 0 /\ data = 0
    /\ mixed = FALSE /\ lost = 0 /\ torn = 0 /\ exited = FALSE

\* Nothing has gone wrong with the packets so far.
Faultless == lost = 0 /\ torn = 0

Runnable(t) == doing[t] \in {"starting", "named", "finishing"}

\* Every thread waits, _out_loop too: the helper reads, so that its writes do not have to.
AllWait ==
    /\ batch = <<>> /\ inbox = <<>> /\ outbox = <<>> /\ ~awake
    /\ \A t \in Threads : ~Runnable(t)

\* And what was deferred has been called.
LoopRuns == AllWait /\ ~dirty /\ ~exited

----------------------------------------------------------------------------
(* Requests: the control channel. *)

\* control:xchg: the caller waits for its turn, w is where.
Ask(t, w) ==
    /\ reply_chns # Nil
    /\ asked' = asked + 1
    /\ asking' = [asking EXCEPT ![t] = asked + 1]
    /\ reply_chns' = Append(reply_chns, asked + 1)
    /\ outbox' = Append(outbox, asked + 1)
    /\ doing' = [doing EXCEPT ![t] = w]

Waiting(t) == doing[t] \in {"waiting", "naming", "setup"}

\* What a thread does with the answer to its xchg.
After(t) ==
    CASE doing[t] = "waiting" -> "idle"
      [] doing[t] = "naming"  -> "named"
      [] doing[t] = "setup"   -> "finishing"

Waiter(n) == CHOOSE t \in Threads : Waiting(t) /\ asking[t] = n

\* control:_inbox_put: the reply to n is for the oldest request.  Without one it is an
\* error ("spurious reply received", or there is no list at all).
TakeReply(n) ==
    IF reply_chns \in {Nil, <<>>}
    THEN exited' = TRUE /\ UNCHANGED <<reply_chns, doing, mixed, control>>
    ELSE LET t == Waiter(Head(reply_chns)) IN
         /\ reply_chns' = Tail(reply_chns)
         /\ doing' = [doing EXCEPT ![t] = After(t)]
         /\ control' = IF doing[t] = "naming" THEN "named" ELSE control
         /\ mixed' = (mixed \/ Head(reply_chns) # n)
         /\ UNCHANGED exited

\* A thread that uses the sepack once it was connected (Sepack:wait).  Without a list
\* xchg returns at once.
Xchg(u) ==
    /\ ~exited
    /\ doing[u] = "idle"
    /\ \E k \in Enumerators : doing[k] = "done"
    /\ asked < MaxRequests
    /\ Ask(u, "waiting")
    /\ UNCHANGED <<helperVars, statusVars, loopVars, stateVars, data, mixed, faultVars, exited>>

\* Mistake: the last one first.
SendNewest ==
    /\ ~exited
    /\ outbox # <<>>
    /\ outbox' = Front(outbox)
    /\ device' = IF link = "plugged" THEN Append(device, Last(outbox)) ELSE device
    /\ UNCHANGED <<link, connection, wire, statusVars, loopVars, stateVars, reply_chns, doing,
                   asking, asked, data, mixed, faultVars, exited>>

\* ExtProc._out_loop and write_usb: the result of loop.write is ignored, and raw-usb drops
\* what it gets before it has opened the device.  LoseRequest is a write that fails.
SendOut ==
    /\ ~exited
    /\ outbox # <<>>
    /\ outbox' = Tail(outbox)
    /\ device' = IF link = "plugged" THEN Append(device, Head(outbox)) ELSE device
    /\ UNCHANGED <<link, connection, wire, statusVars, loopVars, stateVars, reply_chns, doing,
                   asking, asked, data, mixed, faultVars, exited>>

\* handle_error after a write, of the kind that does not end the helper: the packet is gone.
LoseRequest ==
    /\ ~exited
    /\ outbox # <<>> /\ link = "plugged"
    /\ lost < MaxLost
    /\ lost' = lost + 1
    /\ outbox' = Tail(outbox)
    /\ UNCHANGED <<helperVars, statusVars, loopVars, stateVars, reply_chns, doing, asking,
                   asked, data, mixed, torn, exited>>

----------------------------------------------------------------------------
(* The status, and what Sepack does about it. *)

\* Observable.notify, called by a thread: see Kvo.
SetStatus(s) ==
    /\ status' = s
    /\ IF s # status /\ ~dirty
       THEN dirty' = TRUE /\ changed' = TRUE
       ELSE UNCHANGED <<dirty, changed>>

\* Mistake: nobody who waits is told.
ForgetWaiters == reply_chns' = Nil /\ UNCHANGED doing

\* control:on_disconnect: everyone who waits is answered "".
OnDisconnect ==
    /\ reply_chns' = Nil
    /\ doing' = [t \in Threads |->
                    IF Waiting(t) /\ asking[t] \in ToSet(reply_chns) THEN After(t)
                    ELSE doing[t]]

\* Sepack._ext_status
ExtStatus ==
    /\ changed' = FALSE
    /\ \/ /\ status = "connect"
          /\ coldplug' = FALSE
          /\ doing' = [doing EXCEPT ![connection] = "starting"]
          /\ UNCHANGED <<connected, reply_chns>>
       \/ /\ status = "true" \/ (coldplug /\ status # "connect")
          /\ UNCHANGED <<coldplug, connected, reply_chns, doing>>
       \/ /\ ~coldplug /\ status \in {"false", "coldplug-end"}
          /\ connected' = FALSE
          /\ IF status = "false" /\ connected = TRUE
             THEN OnDisconnect
             ELSE UNCHANGED <<reply_chns, doing>>
          /\ UNCHANGED coldplug
    /\ UNCHANGED control

\* Sepack._in_loop: T.recv finds a packet.
SepackPacket ==
    /\ ~exited
    /\ inbox # <<>>
    /\ inbox' = Tail(inbox)
    /\ awake' = TRUE
    /\ IF Head(inbox).kind = "reply"
       THEN TakeReply(Head(inbox).request)
       ELSE UNCHANGED <<reply_chns, doing, mixed, control, exited>>
    /\ UNCHANGED <<helperVars, statusVars, batch, coldplug, connected, outbox, asking, asked,
                   data, faultVars>>

\* Or it polls the status; with nothing new anywhere it waits.
SepackPoll ==
    /\ ~exited
    /\ awake
    /\ \/ /\ changed
          /\ ExtStatus
          /\ UNCHANGED awake
       \/ /\ ~changed /\ inbox = <<>>
          /\ awake' = FALSE
          /\ UNCHANGED <<changed, stateVars, reply_chns, doing>>
    /\ UNCHANGED <<helperVars, status, dirty, batch, inbox, outbox, asking, asked, data, mixed,
                   faultVars, exited>>

\* The notification of the status, a deferred function: it resumes the waiting loop unless
\* the versions agree.
Notify ==
    /\ ~exited
    /\ dirty /\ AllWait
    /\ dirty' = FALSE
    /\ IF changed
       THEN ExtStatus /\ awake' = TRUE
       ELSE UNCHANGED <<awake, changed, stateVars, reply_chns, doing>>
    /\ UNCHANGED <<helperVars, status, batch, inbox, outbox, asking, asked, data, mixed,
                   faultVars, exited>>

\* Sepack._enumerate: the control channel, which is new or connected again.
EnumerateControl(k) ==
    /\ ~exited
    /\ doing[k] = "starting"
    /\ \/ /\ control = "none"
          /\ control' = "added"
          /\ asked' = asked + 1
          /\ asking' = [asking EXCEPT ![k] = asked + 1]
          /\ reply_chns' = <<asked + 1>>
          /\ outbox' = Append(outbox, asked + 1)
          /\ doing' = [doing EXCEPT ![k] = "naming"]
          /\ UNCHANGED exited
       \/ /\ control = "named"
          /\ reply_chns' = <<>>
          /\ doing' = [doing EXCEPT ![k] = "named"]
          /\ UNCHANGED <<control, outbox, asking, asked, exited>>
       \/ /\ control = "added"      \* ipairs(nil)
          /\ exited' = TRUE
          /\ UNCHANGED <<control, reply_chns, outbox, doing, asking, asked>>
    /\ UNCHANGED <<helperVars, statusVars, loopVars, coldplug, connected, data, mixed,
                   faultVars>>

\* The other channels: one that is set up with a request, when it is new or connected again.
EnumerateOther(k) ==
    /\ ~exited
    /\ doing[k] = "named"
    /\ \/ Ask(k, "setup")
       \/ /\ reply_chns = Nil
          /\ doing' = [doing EXCEPT ![k] = "finishing"]
          /\ UNCHANGED <<reply_chns, outbox, asking, asked>>
    /\ UNCHANGED <<helperVars, statusVars, loopVars, stateVars, data, mixed, faultVars, exited>>

EnumerateDone(k) ==
    /\ ~exited
    /\ doing[k] = "finishing"
    /\ doing' = [doing EXCEPT ![k] = "done"]
    /\ connected' = TRUE
    /\ UNCHANGED <<helperVars, statusVars, loopVars, coldplug, control, reply_chns, outbox,
                   asking, asked, data, mixed, faultVars, exited>>

----------------------------------------------------------------------------
(* ExtProc: the helper process and its connection. *)

\* _start_loop, at first or after the period.
Launch ==
    /\ LoopRuns
    /\ link = "none"
    /\ connection < MaxConnections
    /\ link' = "started"
    /\ connection' = connection + 1
    /\ UNCHANGED <<wire, device, statusVars, loopVars, stateVars, requestVars, data, mixed,
                   faultVars, exited>>

\* _handle_connect.  A helper that fails before is never replaced.
Accept ==
    /\ LoopRuns
    /\ link = "started"
    /\ link' = "connected"
    /\ SetStatus("true")
    /\ UNCHANGED <<connection, wire, device, loopVars, stateVars, requestVars, data, mixed,
                   faultVars, exited>>

\* loop.read by _in_loop: some of what is there.
ReadBatch ==
    /\ LoopRuns
    /\ wire # <<>>
    /\ \E n \in 1..Len(wire) : /\ batch' = SubSeq(wire, 1, n)
                               /\ wire' = SubSeq(wire, n + 1, Len(wire))
    /\ UNCHANGED <<link, connection, device, statusVars, inbox, awake, stateVars, requestVars,
                   data, mixed, faultVars, exited>>

\* _in_loop handles the next message; a packet that wakes Sepack's loop lets it go first.
\* At the end of the input the connection is closed and the start loop woken.
HandleMessage ==
    /\ ~exited
    /\ awake \/ inbox = <<>>
    /\ batch # <<>>
    /\ batch' = Tail(batch)
    /\ LET m == Head(batch) IN
          \/ /\ m.kind \in {"reply", "data"}
             /\ inbox' = Append(inbox, m)
             /\ UNCHANGED <<statusVars, link>>
          \/ /\ m.kind \in {"connect", "coldplug-end"}
             /\ SetStatus(m.kind)
             /\ UNCHANGED <<inbox, link>>
          \/ /\ m.kind = "eof"
             /\ SetStatus("false")
             /\ link' = "none"
             /\ UNCHANGED inbox
    /\ UNCHANGED <<connection, wire, device, awake, stateVars, requestVars, data, mixed,
                   faultVars, exited>>

\* Or it finds a frame that does not end where it should: an input error.  The connection is
\* closed, with what is in it, and the start loop woken, but the status stays as it is.  The
\* helper ends with its input; the next one configures the device again.
InputError ==
    /\ ~exited
    /\ awake \/ inbox = <<>>
    /\ batch # <<>>
    /\ Head(batch).kind = "torn"
    /\ batch' = <<>> /\ wire' = <<>> /\ device' = <<>>
    /\ link' = "none"
    /\ UNCHANGED <<connection, statusVars, inbox, awake, stateVars, requestVars, data, mixed,
                   faultVars, exited>>

----------------------------------------------------------------------------
(* raw-usb and the device. *)

Sends(item) ==
    /\ wire' = Append(wire, item)
    /\ UNCHANGED <<connection, statusVars, loopVars, stateVars, requestVars, mixed, exited>>

\* coldplug_end
NoDevice ==
    /\ link = "connected"
    /\ link' = "searching"
    /\ Sends(Message("coldplug-end"))
    /\ UNCHANGED <<device, data, faultVars>>

\* open_device
Plug ==
    /\ link \in {"connected", "searching"}
    /\ link' = "plugged"
    /\ Sends(Message("connect"))
    /\ UNCHANGED <<device, data, faultVars>>

\* read_cb: a reply of the device, or something else.
Reply ==
    /\ device # <<>>
    /\ device' = Tail(device)
    /\ Sends(ReplyTo(Head(device)))
    /\ UNCHANGED <<link, data, faultVars>>

Data ==
    /\ link = "plugged"
    /\ data < MaxData
    /\ data' = data + 1
    /\ Sends(Message("data"))
    /\ UNCHANGED <<link, device, faultVars>>

\* read_cb's other branch: the transfer of a packet failed, the helper goes on without it.
LoseReply ==
    /\ device # <<>>
    /\ lost < MaxLost
    /\ lost' = lost + 1
    /\ device' = Tail(device)
    /\ UNCHANGED <<link, connection, wire, statusVars, loopVars, stateVars, requestVars, data,
                   mixed, torn, exited>>

\* read_cb while another one waits for room in its own write: both frames, and all that comes
\* after, are as good as lost, because nothing is read beyond the first (see Stream).
Tear ==
    /\ link = "plugged"
    /\ torn < MaxTorn
    /\ torn' = torn + 1
    /\ Sends(Message("torn"))
    /\ UNCHANGED <<link, device, data, lost>>

\* handle_error: the process ends when the device is gone.
Unplug ==
    /\ link \in {"connected", "searching", "plugged"}
    /\ link = "plugged" /\ ~Unpluggable => connected = TRUE
    /\ link' = "gone"
    /\ device' = <<>>
    /\ Sends(Message("eof"))
    /\ UNCHANGED <<data, faultVars>>

----------------------------------------------------------------------------

SepackLoop == SepackPacket \/ SepackPoll \/ Notify
Enumerate(k) == EnumerateControl(k) \/ EnumerateOther(k) \/ EnumerateDone(k)

Next ==
    \/ \E u \in Users : Xchg(u)
    \/ SendOut
    \/ SepackLoop
    \/ \E k \in Enumerators : Enumerate(k)
    \/ Launch \/ Accept \/ ReadBatch \/ HandleMessage \/ InputError
    \/ NoDevice \/ Plug \/ Reply \/ Data \/ Unplug
    \/ LoseRequest \/ LoseReply \/ Tear

\* Threads that can run do, the event loop serves what is ready, and the device answers.
Spec ==
    /\ Init /\ [][Next]_vars
    /\ WF_vars(SepackLoop) /\ WF_vars(SendOut) /\ WF_vars(HandleMessage \/ InputError)
    /\ \A k \in Enumerators : WF_vars(Enumerate(k))
    /\ WF_vars(ReadBatch) /\ WF_vars(Reply)

----------------------------------------------------------------------------
(* Properties. *)

\* A thread is given the reply to its own request, or the empty answer of a disconnect, as
\* long as no packet was lost.
RepliesMatch == Faultless => ~mixed

\* Losing and finding the device again never ends the process: no reply comes that nobody
\* waits for (sepack.lua:269), and a channel that is connected again has its names.
NoExit == ~exited

\* Everyone who waits for a reply is on the list of those who will be answered.
WaitersListed ==
    {asking[t] : t \in {t \in Threads : Waiting(t)}}
       = IF reply_chns = Nil THEN {} ELSE ToSet(reply_chns)

\* The requests that messages answer.
Replies(messages) ==
    LET upto[n \in 0..Len(messages)] ==
            IF n = 0 THEN <<>>
            ELSE IF messages[n].kind = "reply" THEN Append(upto[n - 1], messages[n].request)
            ELSE upto[n - 1]
    IN upto[Len(messages)]

\* As long as no packet was lost: everyone who waits is listed; and the requests under way,
\* from the replies at hand to those not sent, are the ones that wait, in the same order,
\* while the connection lasts.
InOrder ==
    Faultless =>
       /\ WaitersListed
       /\ link = "plugged" /\ reply_chns # Nil =>
             Replies(inbox \o batch \o wire) \o device \o outbox = reply_chns

\* A thread's view of its xchg: the request it waits for the answer to.
Calls == [t \in Threads |-> IF Waiting(t) THEN asking[t] ELSE 0]
Requests == INSTANCE Exchange
                WITH Callers <- Threads, calls <- Calls, last <- asked,
                     present <- connected = TRUE, confused <- mixed, broken <- ~Faultless

\* What the threads see of control:xchg (sepack.lua:287) is an exchange of requests and replies:
\* each is answered in its turn, and alone, or with all the others when the device is lost,
\* through every end and restart of the helper process, until a packet is lost.
RequestsAreExchanges == Requests!Spec

\* Every request ends, with its reply or the empty answer, as long as the process does not: one
\* that is made while no packet was lost, or else when the device is lost, because the waiters
\* stay on the list through a lost packet.  Not after a torn frame: who is on the list then is
\* told nothing (extproc.lua:128) and is forgotten at the next connection.
Answered ==
    \A u \in Users :
       /\ doing[u] = "waiting" ~> doing[u] = "idle" \/ exited \/ ~Faultless
       /\ doing[u] = "waiting" /\ link = "gone" ~> doing[u] = "idle" \/ exited \/ torn > 0
=============================================================================
