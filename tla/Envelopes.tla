------------------------------ MODULE Envelopes ------------------------------
(***************************************************************************)
(* Envelope identities.  An ID is random for a message and derived from    *)
(* what it reports for a notice; nothing below depends on its text.        *)
(***************************************************************************)
CONSTANTS Msgs,    \* envelope IDs
          NoMsg    \* the empty ID ("" or nil in the code)

ASSUME NoMsgAssumption == NoMsg \notin Msgs
==============================================================================
