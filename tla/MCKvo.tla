--------------------------------- MODULE MCKvo ---------------------------------
(* An observable a with a watcher that sets b, and a computed one with a       *)
(* watcher that reads a and, depending on it, b: both = a and b.                  *)
EXTENDS Kvo

CONSTANTS a, b, both, pipe, u, p, r

AllZero == [o \in Plain |-> 0]
WatchA == [x \in Watchers |-> IF x = u THEN both ELSE a]
SetB == [x \in Watchers |-> IF x = u THEN Nil ELSE b]
Conjunction(x, v) == IF v[a] = 0 THEN 0 ELSE v[b]
ConjunctionReads(x, v) == IF v[a] = 0 THEN {a} ELSE {a, b}
ListenToBoth == [t \in Threads |-> IF t = p THEN {a} ELSE {a, both}]

\* Another system: the watchers watch b, and the pipeline sets a; everything starts at 1.
AllOne == [o \in Plain |-> 1]
WatchB == [x \in Watchers |-> b]
SetA == [x \in Watchers |-> IF x = u THEN Nil ELSE a]
=============================================================================
