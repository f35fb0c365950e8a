-------------------------------- MODULE Inbox --------------------------------
(***************************************************************************)
(* One agent's inbox and the receipts its state keeps (store/inbox.go,     *)
(* core.Agent).  An envelope is a file that only ever moves by a rename,   *)
(* so its place is a function of its ID.  Each operator below is ONE       *)
(* durable write; a process may die between any two of them.               *)
(***************************************************************************)
EXTENDS Envelopes

VARIABLES dir,      \* where each envelope file is
          result,   \* the outcome recorded in the file ("" while queued)
          input,    \* Agent.Input: the envelope whose input has started
          last,     \* Agent.LastDelivered, LastAccepted and LastFailed
          cleanup   \* Agent.Cleanup: the superseded receipt still to delete

inbox == <<dir, result, input, last, cleanup>>

Kinds == {"delivered", "accepted", "failed"}
Outcomes == Kinds \cup {"unverified"}

\* Defect: a directory per outcome name.
DirectoryPerKind(kind) == kind

\* The receipt an outcome takes, and the directory that receipt is kept in.
Receipt(outcome) == IF outcome = "unverified" THEN "failed" ELSE outcome
Directory(kind) == IF kind = "failed" THEN "failed" ELSE "cur"

Queued == {m \in Msgs : dir[m] = "new"}
Filed == {m \in Msgs : dir[m] \in {"cur", "failed"}}

InboxTypeOK ==
  /\ dir \in [Msgs -> {"unsent", "new", "cur", "failed", "gone"}]
  /\ result \in [Msgs -> Outcomes \cup {""}]
  /\ input \in Msgs \cup {NoMsg}
  /\ last \in [Kinds -> Msgs \cup {NoMsg}]
  /\ cleanup \in SUBSET (Msgs \X {"cur", "failed"})

InboxInit ==
  /\ dir = [m \in Msgs |-> "unsent"]
  /\ result = [m \in Msgs |-> ""]
  /\ input = NoMsg
  /\ last = [k \in Kinds |-> NoMsg]
  /\ cleanup = {}

-----------------------------------------------------------------------------
\* PublishNew links a fresh ID into new; it needs no lock.
PublishNew(m) ==
  /\ dir[m] = "unsent"
  /\ dir' = [dir EXCEPT ![m] = "new"]
  /\ UNCHANGED <<result, input, last, cleanup>>

\* Withdraw deletes a queued envelope and leaves every receipt alone.
Withdraw(m) ==
  /\ dir[m] = "new"
  /\ dir' = [dir EXCEPT ![m] = "gone"]
  /\ UNCHANGED <<result, input, last, cleanup>>

\* CleanResult deletes the superseded receipt, then forgets it.
RemoveResult ==
  /\ cleanup # {}
  /\ dir' = [m \in Msgs |-> IF <<m, dir[m]>> \in cleanup THEN "gone" ELSE dir[m]]
  /\ UNCHANGED <<result, input, last, cleanup>>

ForgetResult ==
  /\ cleanup' = {}
  /\ UNCHANGED <<dir, result, input, last>>

\* The first write of fileResult: the outcome, while the file is still in new.
RewriteResult(m, outcome) ==
  /\ dir[m] = "new"
  /\ result' = [result EXCEPT ![m] = outcome]
  /\ UNCHANGED <<dir, input, last, cleanup>>

\* The second: the rename out of new.
FileResult(m, outcome) ==
  /\ dir[m] = "new"
  /\ dir' = [dir EXCEPT ![m] = Directory(Receipt(outcome))]
  /\ UNCHANGED <<result, input, last, cleanup>>

\* Defect: the superseded receipt is not remembered.
TakeReceiptOnly(m, outcome, kept) ==
  /\ last' = [kept EXCEPT ![Receipt(outcome)] = m]
  /\ UNCHANGED <<dir, result, input, cleanup>>

\* The save at the end of Settle: the new receipt, and the one it supersedes
\* to delete.  "kept" is the caller's copy of the three receipts.
TakeReceipt(m, outcome, kept) ==
  LET kind == Receipt(outcome)
      previous == kept[kind]
  IN /\ last' = [kept EXCEPT ![kind] = m]
     /\ cleanup' = IF previous \in {NoMsg, m} THEN cleanup
                   ELSE {<<previous, Directory(kind)>>}
     /\ UNCHANGED <<dir, result, input>>

\* input_started and input_finished (core.Step), saved by runtime.apply.
StartInput(m) ==
  /\ input = NoMsg
  /\ input' = m
  /\ UNCHANGED <<dir, result, last, cleanup>>

FinishInput(m) ==
  /\ input = m
  /\ input' = NoMsg
  /\ UNCHANGED <<dir, result, last, cleanup>>

\* Recovery and late proof move a filed envelope back to new.
MoveToNew(m) ==
  /\ dir[m] \in {"new", "cur", "failed"}
  /\ dir' = [dir EXCEPT ![m] = "new"]
  /\ UNCHANGED <<result, input, last, cleanup>>

ForgetReceipt(kind) ==
  /\ last' = [last EXCEPT ![kind] = NoMsg]
  /\ UNCHANGED <<dir, result, input, cleanup>>

-----------------------------------------------------------------------------
(* "Settle records the prior result until deletion succeeds, so a crash    *)
(* cannot accumulate terminal envelopes" (store/inbox.go:160): every filed *)
(* envelope is a receipt, the one being deleted, or the one in progress.   *)
RetainedBounded ==
  \A m \in Filed : \/ \E k \in Kinds : last[k] = m
                   \/ \E d \in {"cur", "failed"} : <<m, d>> \in cleanup
                   \/ input = m

(* reconcileDelivery reads the retained receipts on every acquisition and  *)
(* recoverInput reads the started envelope: if either file were missing,   *)
(* no command could ever take the agent's lock again.                      *)
ReceiptsResolve ==
  \A k \in Kinds : last[k] \notin {NoMsg, input} => dir[last[k]] = Directory(k)

InputRecoverable ==
  input # NoMsg => dir[input] \in {"new", "cur", "failed"}

(* The files that an owner of the lock reads are there whatever died when, *)
(* and settled ones do not pile up (inbox.go:140, runtime.go:466).         *)
FilesKept == RetainedBounded /\ ReceiptsResolve /\ InputRecoverable
==============================================================================
