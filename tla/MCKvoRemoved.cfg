\* The computed observable stops watching b while its watchers are called.
CONSTANTS
    a = a
    b = b
    both = both
    pipe = pipe
    u = u
    p = p
    r = r
    Plain = {a, b}
    Computed = {both}
    Watchers = {pipe, u}
    Threads = {p, r}
    Main = Main
    Tramp = Tramp
    Nil = Nil
    Values = {0, 1}
    Start <- AllOne
    Watched <- WatchB
    Sets <- SetA
    Coalescing = {a, both}
    Result <- Conjunction
    Reads <- ConjunctionReads
    Listens <- ListenToBoth
    MaxWrites = 1
SPECIFICATION Spec
CHECK_DEADLOCK FALSE
INVARIANTS
    EveryChangeHeard
