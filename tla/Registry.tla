-------------------------------- MODULE Registry --------------------------------
(****************************************************************************)
(* The pointers to userdata mappings of LM.c and luaP.c, as calls on the     *)
(* stack of a Lua state.  A C function has its arguments on the stack, and   *)
(* between two of them Lua code keeps, forgets and collects objects.         *)
(****************************************************************************)
EXTENDS Integers, Sequences

CONSTANTS
    Objects, Pointers, AddressOf, Nil, MainThread, Weak, Strong, Links,     \* see Proxies
    MaxStack,   \* bound: the values on the stack when a function is called
    MaxArgs     \* bound: the arguments Lua passes

ASSUME RegistryParameters ==
    /\ AddressOf \in [Objects -> Pointers]
    /\ Objects \cap Pointers = {} /\ Nil \notin Objects \cup Pointers
    /\ Weak # Strong /\ Weak # Links /\ Strong # Links

VARIABLES
    lua,        \* the stack, and the tables that the registry holds under the three keys
    alive, held, returned

registryVars == <<lua, alive, held, returned>>

Keys == {Weak, Strong, Links}
Names == Pointers \cup Objects

\* luaLM_create_proxy_table was called, once, by main.
RegistryInit ==
    /\ lua = [stack |-> <<>>, tables |-> [t \in Keys |-> [k \in Names |-> Nil]]]
    /\ alive = {} /\ held = {} /\ returned = 0

----------------------------------------------------------------------------
(* The calls of Lua's own interface that are used.  A table on the stack is  *)
(* the key of the registry under which it is found.                          *)

gettop(L) == Len(L.stack)
Slot(L, i) == IF i > 0 THEN i ELSE gettop(L) + i + 1
index(L, i) == L.stack[Slot(L, i)]

push(L, v) == [L EXCEPT !.stack = Append(@, v)]
pushvalue(L, i) == push(L, index(L, i))
pop(L, n) == [L EXCEPT !.stack = SubSeq(@, 1, gettop(L) - n)]
replaced(L, v) == push(pop(L, 1), v)
remove(L, i) == [L EXCEPT !.stack = SubSeq(@, 1, i - 1) \o SubSeq(@, i + 1, gettop(L))]

\* lua_rawget: the key on top becomes the value; of the registry, a table.
registry_rawget(L) == replaced(L, index(L, -1))
rawget(L, i) == replaced(L, L.tables[index(L, i)][index(L, -1)])
rawset(L, i) == pop([L EXCEPT !.tables[index(L, i)][index(L, -2)] = index(L, -1)], 2)

----------------------------------------------------------------------------
(* LM.c *)

abs_index(L, i) == IF i > 0 THEN i ELSE gettop(L) + i + 1

\* Mistake: the index is used after the table was pushed.
RelativeIndex(L, key, o, i) ==
    LET a == push(registry_rawget(push(L, key)), o)
    IN pop(rawset(pushvalue(a, i), -3), 1)

_register_proxy(L, key, o, i) ==
    LET at == abs_index(L, i)
        a == push(registry_rawget(push(L, key)), o)
    IN pop(rawset(pushvalue(a, at), -3), 1)

luaLM_unregister_strong_proxy(L, o) ==
    pop(_register_proxy(push(L, Nil), Strong, o, -1), 1)

_push_proxy(L, key, o) ==
    LET a == registry_rawget(push(L, key))
        reg_i == gettop(a)
        b == remove(rawget(push(a, o), reg_i), reg_i)
    IN IF index(b, -1) = Nil THEN [L |-> pop(b, 1), n |-> 0] ELSE [L |-> b, n |-> 1]

luaLM_create_userdata(L, x) == _register_proxy(push(L, x), Weak, AddressOf[x], -1)

luaLM_push_main_thread(L) == push(L, MainThread)

----------------------------------------------------------------------------
(* luaP.c, which no other file calls yet *)

luaP_register_link(L, key, k, v) ==
    LET atk == abs_index(L, k)
        atv == abs_index(L, v)
        a == pushvalue(registry_rawget(push(L, key)), atk)
    IN pop(rawset(pushvalue(a, atv), -3), 1)

luaP_unregister_link(L, key, k) ==
    LET at == abs_index(L, k) IN pop(luaP_register_link(push(L, Nil), key, at, -1), 1)

luaP_push_link(L, key, k) ==
    LET at == abs_index(L, k)
        a == pushvalue(registry_rawget(push(L, key)), at)
        b == remove(rawget(a, -2), gettop(a) - 1)
    IN IF index(b, -1) = Nil THEN [L |-> pop(b, 1), n |-> 0] ELSE [L |-> b, n |-> 1]

\* The pointer stays on the stack.
luaP_register_proxy(L, key, o, i) ==
    LET at == abs_index(L, i) IN luaP_register_link(push(L, o), key, -1, at)

\* Of the nil and the pointer pushed, the pointer is popped.
luaP_unregister_proxy(L, key, o) ==
    pop(luaP_register_proxy(push(L, Nil), key, o, -1), 1)

----------------------------------------------------------------------------
(* The C functions and Lua code *)

Room == gettop(lua) < MaxStack
Quiet(n) == returned' = n /\ UNCHANGED <<alive, held>>
Indices == (1..gettop(lua)) \cup {-i : i \in 1..gettop(lua)}
ObjectAt(i) == index(lua, i) \in Objects

RegisterProxy(key, p, i) == lua' = _register_proxy(lua, key, p, i) /\ Quiet(0)

UnregisterStrongProxy(p) == lua' = luaLM_unregister_strong_proxy(lua, p) /\ Quiet(0)

PushProxy(key, p) ==
    LET r == _push_proxy(lua, key, p) IN Room /\ lua' = r.L /\ Quiet(r.n)

\* lua_newuserdata finds a block that no living object has.
CreateUserdata(o) ==
    /\ Room /\ o \notin alive /\ \A x \in alive : AddressOf[x] # AddressOf[o]
    /\ lua' = luaLM_create_userdata(lua, o)
    /\ alive' = alive \cup {o} /\ returned' = AddressOf[o]
    /\ UNCHANGED held

PushMainThread == Room /\ lua' = luaLM_push_main_thread(lua) /\ Quiet(1)

GetMainState ==
    LET L == luaLM_push_main_thread(lua) IN lua' = pop(L, 1) /\ Quiet(index(L, -1))

RegisterLink(i, j) == lua' = luaP_register_link(lua, Links, i, j) /\ Quiet(0)

UnregisterLink(i) == lua' = luaP_unregister_link(lua, Links, i) /\ Quiet(0)

PushLink(i) ==
    LET r == luaP_push_link(lua, Links, i) IN Room /\ lua' = r.L /\ Quiet(r.n)

LinkProxy(p, i) == Room /\ lua' = luaP_register_proxy(lua, Links, p, i) /\ Quiet(0)

UnlinkProxy(p) == Room /\ lua' = luaP_unregister_proxy(lua, Links, p) /\ Quiet(0)

\* Lua calls a function with some of its objects, and keeps what is on the stack at its end.
Enter ==
    /\ lua.stack = <<>>
    /\ \E n \in 1..MaxArgs : \E args \in [1..n -> held] : lua' = [lua EXCEPT !.stack = args]
    /\ UNCHANGED <<alive, held, returned>>

OnStack == {o \in Objects : \E i \in 1..gettop(lua) : lua.stack[i] = o}

Return ==
    /\ lua.stack # <<>> /\ lua' = [lua EXCEPT !.stack = <<>>]
    /\ held' = held \cup OnStack
    /\ UNCHANGED <<alive, returned>>

Drop(o) == held' = held \ {o} /\ UNCHANGED <<lua, alive, returned>>

\* The collector: an object in a table whose values are not weak stays, and so does a key.
Reachable ==
    held \cup OnStack \cup
    {o \in Objects : \/ \E t \in {Strong, Links}, k \in Names : lua.tables[t][k] = o
                     \/ lua.tables[Links][o] # Nil}

Collect(o) ==
    /\ o \in alive \ Reachable
    /\ alive' = alive \ {o}
    /\ lua' = [lua EXCEPT !.tables[Weak] = [k \in Names |-> IF @[k] = o THEN Nil ELSE @[k]]]
    /\ UNCHANGED <<held, returned>>

RegistryNext ==
    \/ Enter \/ Return
    \/ \E o \in Objects : CreateUserdata(o) \/ Drop(o) \/ Collect(o)
    \/ \E i \in Indices :
          /\ ObjectAt(i)
          /\ \/ \E p \in Pointers, key \in {Weak, Strong} : RegisterProxy(key, p, i)
             \/ \E p \in Pointers : LinkProxy(p, i)
             \/ \E j \in Indices : ObjectAt(j) /\ RegisterLink(i, j)
             \/ UnregisterLink(i) \/ PushLink(i)
    \/ \E p \in Pointers : UnregisterStrongProxy(p) \/ UnlinkProxy(p)
    \/ \E p \in Pointers, key \in Keys : PushProxy(key, p)
    \/ PushMainThread \/ GetMainState

RegistrySpec == RegistryInit /\ [][RegistryNext]_registryVars

----------------------------------------------------------------------------

\* Proxies.tla, of the stack and the tables.
Mapping == INSTANCE Proxies WITH stack <- lua.stack, tables <- lua.tables

\* Whatever the order of the calls and the collections, a pointer finds the object that was
\* at the index given when it was registered, and the stack is left as promised.
FindsWhatWasRegistered == Mapping!Spec
================================================================================
