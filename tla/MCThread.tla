------------------------------- MODULE MCThread -------------------------------
(* Three threads and two mailboxes, read by one thread; or a reply to the main  *)
(* thread, with deferred functions; or a mailbox with two readers.              *)
EXTENDS ThreadChannel

CONSTANTS r, p, w, a, b

OneReader == [m \in Mailboxes |-> {r}]
ThreadAndMain == [m \in {a, b} |-> IF m = a THEN {r} ELSE {Main}]
TwoReaders == [m \in Mailboxes |-> {r, w}]
MainReader == [m \in Mailboxes |-> {Main}]

Senders == Permutations({p, w})
=============================================================================
