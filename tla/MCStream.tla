------------------------------- MODULE MCStream -------------------------------
(* Messages for a stream that holds three bytes: one with a newline in its data, an empty *)
(* one, whose frame fits, and two that do not.                                            *)
EXTENDS Stream

FourMessages == <<<<Newline, Other>>, <<>>, <<Other>>, <<Newline, Newline, Other>>>>
TwoMessages == <<<<Other, Other>>, <<Other>>>>
=============================================================================
