------------------------------ MODULE MCTurns -------------------------------
(* Two turns of one native program.                                      *)
EXTENDS Turns
=============================================================================
