------------------------------- MODULE ByteQueue -------------------------------
(****************************************************************************)
(* What a buffer of l_buffer.c promises to Lua: a queue of bytes, written   *)
(* at the back and read from the front.  A call gives either the bytes it   *)
(* was asked for or nothing, and then takes nothing.                        *)
(****************************************************************************)
EXTENDS Integers, Sequences

CONSTANTS
    Byte,
    Writes,     \* the strings written: sequences of bytes
    Counts,     \* the numbers given to a call
    Tokens      \* the strings readuntil looks for

VARIABLES
    content,    \* the bytes written and not read
    call,       \* the last call: its name and its arguments
    answer      \* what it returned, a sequence of at most two values

Init == content = <<>> /\ call = <<"new">> /\ answer = <<>>

Take(n, values) ==
    /\ answer' = values
    /\ content' = SubSeq(content, n + 1, Len(content))

Write(s) ==
    /\ call' = <<"write", s>>
    /\ \/ content' = content \o s /\ answer' = <<>>
       \/ content' = content /\ answer' = <<"no memory">>

\* What is asked for is there, all of it.
Has(n) == content # <<>> /\ n <= Len(content)

Read(n) ==
    /\ call' = <<"read", n>>
    /\ IF Has(n) THEN Take(n, <<SubSeq(content, 1, n)>>) ELSE Take(0, <<>>)

ReadAll ==
    /\ call' = <<"read">>
    /\ IF content # <<>> THEN Take(Len(content), <<content>>) ELSE Take(0, <<>>)

Peek(n) ==
    /\ call' = <<"peek", n>>
    /\ Take(0, IF Has(n) THEN <<SubSeq(content, 1, n)>> ELSE <<>>)

\* A structure of n bytes.
PeekStruct(n) ==
    /\ call' = <<"peekstruct", n>>
    /\ Take(0, IF Has(n) THEN <<n, SubSeq(content, 1, n)>> ELSE <<>>)

ReadStruct(n) ==
    /\ call' = <<"readstruct", n>>
    /\ IF Has(n) THEN Take(n, <<SubSeq(content, 1, n)>>) ELSE Take(0, <<>>)

\* tok begins after the first i bytes of s.
OccursAt(s, tok, i) ==
    /\ i + Len(tok) <= Len(s)
    /\ \A k \in 1..Len(tok) : s[i + k] = tok[k]

\* Up to the first occurrence of the token, which is read too when `drop' says so.
ReadUntil(tok, drop) ==
    /\ call' = <<"readuntil", tok, drop>>
    /\ \/ /\ \A i \in 0..(Len(content) - 1) : ~OccursAt(content, tok, i)
          /\ Take(0, <<>>)
       \/ \E i \in 0..(Len(content) - 1) :
             /\ OccursAt(content, tok, i)
             /\ \A j \in 0..(i - 1) : ~OccursAt(content, tok, j)
             /\ Take(i + (IF drop THEN Len(tok) ELSE 0), <<SubSeq(content, 1, i)>>)

Get(i, j) ==
    /\ call' = <<"get", i, j>>
    /\ Take(0, <<SubSeq(content, i, IF j < Len(content) THEN j ELSE Len(content))>>)

Skip(n) ==
    /\ call' = <<"rseek", n>>
    /\ IF n <= Len(content) THEN Take(n, <<n>>) ELSE Take(0, <<>>)

Length == call' = <<"len">> /\ Take(0, <<Len(content)>>)

Next ==
    \/ \E s \in Writes : Write(s)
    \/ \E n \in Counts : Read(n) \/ Peek(n) \/ Skip(n)
    \/ \E n \in Counts \ {0} : PeekStruct(n) \/ ReadStruct(n)
    \/ \E tok \in Tokens, drop \in BOOLEAN : ReadUntil(tok, drop)
    \/ \E i \in Counts \ {0}, j \in Counts : Get(i, j)
    \/ ReadAll \/ Length

Spec == Init /\ [][Next]_<<content, call, answer>>
================================================================================
