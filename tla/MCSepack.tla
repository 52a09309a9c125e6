------------------------------- MODULE MCSepack -------------------------------
(* Two threads that make requests while the device comes and goes. *)
EXTENDS Sepack
=============================================================================
