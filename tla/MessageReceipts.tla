--------------------------- MODULE MessageReceipts ---------------------------
(***************************************************************************)
(* What delivery promises about each message, whoever runs, dies or comes  *)
(* late: docs/concepts.md's table of receipts as a transition system.  One *)
(* message at a time is open; an open message is typed at most once ever   *)
(* and never becomes queued again; delivered is final; a retained receipt  *)
(* makes way only for another message's.                                   *)
(***************************************************************************)
EXTENDS Envelopes

VARIABLES status,   \* each message's receipt, "open" while one is being reached
          typed,    \* messages pasted into the composer
          keyed,    \* messages whose submit key was pressed
          proved    \* messages the harness submitted exactly

vars == <<status, typed, keyed, proved>>

Init ==
  /\ status = [m \in Msgs |-> "unsent"]
  /\ typed = {} /\ keyed = {} /\ proved = {}

NoneOpen == \A m \in Msgs : status[m] # "open"

Becomes(m, s) == status' = [status EXCEPT ![m] = s]

Publish(m) == status[m] = "unsent" /\ Becomes(m, "queued") /\ UNCHANGED <<typed, keyed, proved>>

Expire(m) == status[m] = "queued" /\ Becomes(m, "gone") /\ UNCHANGED <<typed, keyed, proved>>

Open(m) ==
  /\ NoneOpen
  /\ \/ status[m] = "queued"
     \/ status[m] \in {"accepted", "unverified"} /\ m \in proved
  /\ Becomes(m, "open") /\ UNCHANGED <<typed, keyed, proved>>

Type(m) ==
  /\ status[m] = "open" /\ m \notin typed
  /\ typed' = typed \cup {m} /\ UNCHANGED <<status, keyed, proved>>

Key(m) ==
  /\ status[m] = "open" /\ m \in typed /\ m \notin keyed
  /\ keyed' = keyed \cup {m}
  /\ proved' \in {proved, proved \cup {m}}
  /\ UNCHANGED <<status, typed>>

\* The harness submits it, now or from its own queue or by the operator's hand.
Prove(m) ==
  /\ m \in typed
  /\ proved' = proved \cup {m} /\ UNCHANGED <<status, typed, keyed>>

Close(m) ==
  /\ status[m] = "open"
  /\ \/ m \in proved /\ Becomes(m, "delivered")
     \/ m \in keyed /\ Becomes(m, "accepted")
     \/ m \notin keyed /\ Becomes(m, "failed")
     \/ Becomes(m, "unverified")
  /\ UNCHANGED <<typed, keyed, proved>>

Discard(m) ==
  /\ status[m] \in {"delivered", "accepted", "failed", "unverified"}
  /\ \E n \in Msgs \ {m} : status[n] = "open"
  /\ Becomes(m, "gone") /\ UNCHANGED <<typed, keyed, proved>>

Next == \E m \in Msgs :
  \/ Publish(m) \/ Expire(m) \/ Open(m) \/ Type(m) \/ Key(m)
  \/ Prove(m) \/ Close(m) \/ Discard(m)

Spec == Init /\ [][Next]_vars
==============================================================================
