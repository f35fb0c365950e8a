------------------------------ MODULE MCDelivery ------------------------------
(* Instances of Delivery for TLC.                                          *)
EXTENDS Delivery

CONSTANTS m1, m2, p1, p2

MCRank == [m \in Msgs |-> IF m = m1 THEN 1 ELSE 2]
===============================================================================
