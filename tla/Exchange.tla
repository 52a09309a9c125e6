------------------------------- MODULE Exchange -------------------------------
(****************************************************************************)
(* What the control channel of a device promises to those who make requests *)
(* of it (control:xchg of lualib/sepack.lua): each is given the reply to    *)
(* its own request, the replies come in the order of the requests, and when *)
(* the device is lost, and only then, everyone who waits is given the empty *)
(* answer.  There is no helper process, no list and no message.             *)
(*                                                                          *)
(* The promise lasts until a packet is lost: then anything may happen,      *)
(* because replies have nothing but their order to say what they answer.    *)
(****************************************************************************)
EXTENDS Naturals

CONSTANT Callers

VARIABLES
    calls,      \* the request each caller waits for the answer to, or 0
    last,       \* the last request
    present,    \* the device is there, and what it has is known
    confused,   \* a caller was given the reply to another request
    broken      \* a packet was lost

Init ==
    /\ calls = [c \in Callers |-> 0]
    /\ last = 0
    /\ present = FALSE
    /\ confused = FALSE
    /\ broken = FALSE

\* A caller makes one request at a time, some of them to find out what the device has.
Call(c) ==
    /\ calls[c] = 0
    /\ last' = last + 1
    /\ calls' = [calls EXCEPT ![c] = last + 1]
    /\ UNCHANGED <<present, confused, broken>>

\* The oldest request is answered, and nobody else hears of it.
Answer(c) ==
    /\ calls[c] # 0
    /\ \A d \in Callers \ {c} : calls[d] # 0 => calls[c] < calls[d]
    /\ calls' = [calls EXCEPT ![c] = 0]
    /\ UNCHANGED <<last, present, confused, broken>>

Connect ==
    /\ ~present
    /\ present' = TRUE
    /\ UNCHANGED <<calls, last, confused, broken>>

\* The device is lost: nobody is left waiting.
Disconnect ==
    /\ present
    /\ present' = FALSE
    /\ calls' = [c \in Callers |-> 0]
    /\ UNCHANGED <<last, confused, broken>>

\* Something the exchange relies on fails, and from then on `broken` says so.
Break ==
    /\ broken' = TRUE
    /\ UNCHANGED <<calls, last, present, confused>>

\* Nothing is promised any more.
AfterBreak == broken /\ broken'

Next ==
    \/ \E c \in Callers : Call(c) \/ Answer(c)
    \/ Connect \/ Disconnect
    \/ Break \/ AfterBreak

Spec == Init /\ [][Next]_<<calls, last, present, confused, broken>>
=============================================================================
