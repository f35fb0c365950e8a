------------------------------- MODULE MCWakes -------------------------------
(* An agent that asks for wakes and its lead.                              *)
EXTENDS Wakes
=============================================================================
