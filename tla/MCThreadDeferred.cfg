\* Deferred functions, and a main script that waits for a reply.
CONSTANTS
    r = r
    p = p
    w = w
    a = a
    b = b
    Threads = {r, p}
    Main = Main
    Tramp = Tramp
    Calls = {f1, f2}
    Mailboxes = {a, b}
    Idle = Idle
    Kill = Kill
    Tick = Tick
    Nil = Nil
    Readers <- ThreadAndMain
    KillAt = {"recv", "recvone", "sleep", "dead"}
    MaxMsgs = 1
SPECIFICATION Spec
CHECK_DEADLOCK FALSE
INVARIANTS
    CalledOnce
