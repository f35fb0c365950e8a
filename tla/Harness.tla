------------------------------- MODULE Harness -------------------------------
(***************************************************************************)
(* The agent's native program, its terminal and the operator who may also  *)
(* type there.  None of it is in the repository: it is what delivery.go,   *)
(* harness/ and the submit hook assume and guard against.                  *)
(*                                                                         *)
(* A text is what one Enter submits: a pasted message, the operator's own  *)
(* words, or words with a message pasted behind them.  Only a text that    *)
(* begins with the message matches its one-time token.                     *)
(***************************************************************************)
EXTENDS Envelopes

CONSTANTS Surfaces,   \* which of "idle", "busy" and "prompt" the screen shows
          Operator    \* what the operator does: subset of {"types", "submits", "clears"}

ASSUME SurfacesAssumption == Surfaces \subseteq {"idle", "busy", "prompt"}

VARIABLES composer,   \* the unsent text in the native composer
          surface,    \* "idle", "busy" (mid-turn) or "prompt" (a native prompt owns input)
          queue,      \* texts in the harness's own visible queue
          ran,        \* texts the harness has submitted to the model
          hooks,      \* submitted texts whose submit hook is still running
          witness,    \* the one-slot witness file
          fresh       \* the witness was written since the lock holder last read it

harness == <<composer, surface, queue, ran, hooks, witness, fresh>>

Text == [msg : Msgs \cup {NoMsg}, lead : BOOLEAN]
Empty == [msg |-> NoMsg, lead |-> FALSE]
Draft == [msg |-> NoMsg, lead |-> TRUE]
Exactly(m) == [msg |-> m, lead |-> FALSE]

HarnessTypeOK ==
  /\ composer \in Text
  /\ surface \in Surfaces
  /\ queue \subseteq Text
  /\ ran \subseteq Text
  /\ hooks \subseteq Text
  /\ witness \in Text
  /\ fresh \in BOOLEAN

HarnessInit ==
  /\ composer = Empty
  /\ surface \in Surfaces \ {"prompt"}
  /\ queue = {} /\ ran = {} /\ hooks = {}
  /\ witness = Empty
  /\ fresh = FALSE

-----------------------------------------------------------------------------
\* Enter: an idle harness submits the composer, a busy one queues it, and a
\* native prompt takes the key for itself.
Enter ==
  /\ composer' = IF surface = "prompt" THEN composer ELSE Empty
  /\ queue' = IF surface = "busy" /\ composer # Empty THEN queue \cup {composer} ELSE queue
  /\ LET submitted == IF surface = "idle" /\ composer # Empty THEN {composer} ELSE {}
     IN /\ ran' = ran \cup submitted
        /\ hooks' = hooks \cup submitted
  /\ UNCHANGED <<surface, witness, fresh>>

\* A paste lands behind whatever the composer holds, unless a prompt owns it.
Paste(m) ==
  /\ composer' = IF surface = "prompt" THEN composer
                 ELSE [msg |-> m, lead |-> composer.lead]
  /\ UNCHANGED <<surface, queue, ran, hooks, witness, fresh>>

ClearKeys ==
  /\ composer' = IF surface = "prompt" THEN composer ELSE Empty
  /\ UNCHANGED <<surface, queue, ran, hooks, witness, fresh>>

\* The holder reads the witness file and will notice only a later one.
ReadWitness ==
  /\ fresh' = FALSE
  /\ UNCHANGED <<composer, surface, queue, ran, hooks, witness>>

OperatorTypes ==
  /\ "types" \in Operator
  /\ composer = Empty
  /\ composer' = Draft
  /\ UNCHANGED <<surface, queue, ran, hooks, witness, fresh>>

OperatorSubmits ==
  /\ "submits" \in Operator
  /\ composer # Empty
  /\ surface # "prompt"
  /\ Enter

OperatorClears ==
  /\ "clears" \in Operator
  /\ composer # Empty
  /\ ClearKeys

SurfaceChanges ==
  /\ surface' \in Surfaces \ {surface}
  /\ UNCHANGED <<composer, queue, ran, hooks, witness, fresh>>

RunQueued(t) ==
  /\ t \in queue
  /\ queue' = queue \ {t}
  /\ ran' = ran \cup {t}
  /\ hooks' = hooks \cup {t}
  /\ UNCHANGED <<composer, surface, witness, fresh>>

\* The submit hook of t, a process of its own, replaces the witness without
\* the agent lock (WriteNativeWitness).  Hooks may finish in any order.
HookWrites(t) ==
  /\ t \in hooks
  /\ hooks' = hooks \ {t}
  /\ witness' = t
  /\ fresh' = TRUE
  /\ UNCHANGED <<composer, surface, queue, ran>>

\* A hook may die or be refused, and a queued turn may fire none.
HookLost(t) ==
  /\ t \in hooks
  /\ hooks' = hooks \ {t}
  /\ UNCHANGED <<composer, surface, queue, ran, witness, fresh>>

HarnessNext ==
  \/ OperatorTypes \/ OperatorSubmits \/ OperatorClears
  \/ SurfaceChanges
  \/ \E t \in Text : RunQueued(t) \/ HookWrites(t) \/ HookLost(t)
==============================================================================
