----------------------------- MODULE ThreadChannel -----------------------------
(* Mailboxes, and the threads' own mailboxes, as channels. *)
EXTENDS Thread

\* Whether the reader of a queue is blocked in a recv of it.
Awaited == [q \in Queues |-> IF q \in Mailboxes THEN waiting[q] # <<>> ELSE q \in listening]

Chan == INSTANCE Channel WITH pending <- buffer, taken <- got, awaited <- Awaited

\* Every queue implements a channel: a put is a Send or a HandOver, a recv a Take or an
\* Await, and nothing that wakes, kills or starts threads does anything else to it.
QueuesAreChannels == Chan!Spec
=============================================================================
