----------------------------- MODULE MCOutside -----------------------------
(* Two registrations of one name, two concurrent requests, one key and one *)
(* mail for the client.                                                     *)
EXTENDS Outside
=============================================================================
