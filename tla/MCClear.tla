------------------------------- MODULE MCClear -------------------------------
(* One native program, its operator and one agent.                         *)
EXTENDS Clear
=============================================================================
