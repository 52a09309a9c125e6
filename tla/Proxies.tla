--------------------------------- MODULE Proxies ---------------------------------
(****************************************************************************)
(* What the tables of LM.c and luaP.c promise to a C function: an object     *)
(* found again by its pointer, the stack otherwise as it was.                *)
(****************************************************************************)
EXTENDS Integers, Sequences

CONSTANTS
    Objects,    \* the userdata and other values that Lua collects
    Pointers,   \* addresses, of blocks of userdata and of C structures
    AddressOf,      \* the address of each object
    Nil, MainThread,
    Weak, Strong, Links     \* the tables

VARIABLES
    stack,      \* of the C function that runs, its arguments first
    tables,     \* each table: what is found under a pointer or an object
    alive,      \* the objects that are not collected
    held,       \* those that Lua code refers to
    returned    \* what the last function gave its caller in C

Keys == {Weak, Strong, Links}
Names == Pointers \cup Objects
Found == Objects \cup {Nil}

\* Index i of the stack, from the bottom or, when it is negative, from the top.
At(i) == IF i > 0 THEN i ELSE Len(stack) + i + 1
Indices == (1..Len(stack)) \cup {-i : i \in 1..Len(stack)}
ObjectAt(i) == stack[At(i)] \in Objects

Init ==
    /\ stack = <<>> /\ tables = [t \in Keys |-> [k \in Names |-> Nil]]
    /\ alive = {} /\ held = {} /\ returned = 0

Registers(t, k, v) == tables' = [tables EXCEPT ![t][k] = v]
Leaves(s) == stack' = s /\ UNCHANGED <<alive, held>>

\* A pointer stands for the object at index i from now on; the stack is as it was.
Register(t, p, i) ==
    /\ Registers(t, p, stack[At(i)]) /\ Leaves(stack) /\ returned' = 0

Forget(t, p) == Registers(t, p, Nil) /\ Leaves(stack) /\ returned' = 0

\* What was registered, or nothing.
Push(t, k) ==
    /\ UNCHANGED tables
    /\ \/ tables[t][k] = Nil /\ Leaves(stack) /\ returned' = 0
       \/ tables[t][k] # Nil /\ Leaves(Append(stack, tables[t][k])) /\ returned' = 1

\* A new object is found by the address of its block.
Create(o) ==
    /\ o \notin alive /\ \A x \in alive : AddressOf[x] # AddressOf[o]
    /\ alive' = alive \cup {o}
    /\ stack' = Append(stack, o)
    /\ Registers(Weak, AddressOf[o], o)
    /\ returned' = AddressOf[o]
    /\ UNCHANGED held

\* luaP.c: what is left on the stack by its two functions for pointers is theirs to keep.
Link(i, j) == Registers(Links, stack[At(i)], stack[At(j)]) /\ Leaves(stack) /\ returned' = 0
Unlink(i) == Registers(Links, stack[At(i)], Nil) /\ Leaves(stack) /\ returned' = 0
LinkPointer(p, i) ==
    /\ Registers(Links, p, stack[At(i)]) /\ returned' = 0
    /\ Leaves(Append(stack, p))
UnlinkPointer(p) == Registers(Links, p, Nil) /\ returned' = 0 /\ Leaves(Append(stack, Nil))

PushThread == Leaves(Append(stack, MainThread)) /\ returned' = 1 /\ UNCHANGED tables
State == Leaves(stack) /\ returned' = MainThread /\ UNCHANGED tables

----------------------------------------------------------------------------
(* Lua calls a function, takes what is on its stack, forgets and collects.  *)

Enter ==
    /\ stack = <<>> /\ stack' \in Seq(held)
    /\ UNCHANGED <<tables, alive, held, returned>>

Return ==
    /\ stack # <<>> /\ stack' = <<>>
    /\ held' = held \cup {o \in Objects : \E i \in 1..Len(stack) : stack[i] = o}
    /\ UNCHANGED <<tables, alive, returned>>

Drop(o) == held' = held \ {o} /\ UNCHANGED <<stack, tables, alive, returned>>

\* Strong tables keep what they hold alive; what is collected leaves the weak one.
Collect(o) ==
    /\ o \in alive \ held
    /\ \A i \in 1..Len(stack) : stack[i] # o
    /\ \A t \in Keys \ {Weak}, k \in Names : tables[t][k] # o
    /\ tables[Links][o] = Nil
    /\ alive' = alive \ {o}
    /\ tables' = [tables EXCEPT ![Weak] = [k \in Names |-> IF @[k] = o THEN Nil ELSE @[k]]]
    /\ UNCHANGED <<stack, held, returned>>

Next ==
    \/ Enter \/ Return
    \/ \E o \in Objects : Create(o) \/ Drop(o) \/ Collect(o)
    \/ \E i \in Indices :
          /\ ObjectAt(i)
          /\ \/ \E p \in Pointers, t \in {Weak, Strong} : Register(t, p, i)
             \/ \E p \in Pointers : LinkPointer(p, i)
             \/ \E j \in Indices : ObjectAt(j) /\ Link(i, j)
             \/ Unlink(i) \/ Push(Links, stack[At(i)])
    \/ \E p \in Pointers : Forget(Strong, p) \/ UnlinkPointer(p)
    \/ \E p \in Pointers, t \in Keys : Push(t, p)
    \/ PushThread \/ State

Spec == Init /\ [][Next]_<<stack, tables, alive, held, returned>>
================================================================================
