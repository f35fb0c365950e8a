---------------------------- MODULE DeliveryProofs ----------------------------
(***************************************************************************)
(* Theorems about Delivery for any messages, processes, collar, operator   *)
(* and number of deaths and errors.                                        *)
(***************************************************************************)
EXTENDS Delivery, TLAPS

USE NoMsgAssumption, NoProcAssumption, SetsAssumption
USE DEF At, Goto, Ends, Settling, HolderReset, inbox, harness, process, holder, history

-----------------------------------------------------------------------------
(* The inductive invariant.  Store speaks of the durable files alone, so a *)
(* crash cannot break it; Control says, for each step of the lock holder,  *)
(* which input is open and where its file is; after a crash it says        *)
(* nothing, which is what makes recovery sound.                            *)

\* A receipt to delete is no longer a receipt, nor the open input.
Superseded ==
  \A m \in Msgs, d \in {"cur", "failed"} : <<m, d>> \in cleanup =>
    /\ m # input /\ dir[m] \in {d, "gone"}
    /\ \A k \in Kinds : last[k] # m

\* A message is the receipt of one outcome.
Distinct == \A j, k \in Kinds : last[j] = last[k] /\ last[j] # NoMsg => j = k

Store == RetainedBounded /\ ReceiptsResolve /\ InputRecoverable /\ Superseded /\ Distinct

\* The holder is settling msg: before and after the envelope is filed.
BeforeFiling == pc \in {"rewrite", "file"} \/ (pc \in {"clean", "cleaned"} /\ then = "rewrite")
AfterFiling == pc \in {"receipt", "finish"} \/ (pc \in {"clean", "cleaned"} /\ then = "finish")

Typing == pc \in {"paste", "settle", "abandon", "withdraw", "clearing", "cleared", "submit", "await"}
Resting == pc \in {"notify", "reconcile", "list", "pick", "check", "begin", "report", "relist", "unlock"}

Control ==
  /\ lock = NoProc => pc = "clean" /\ then = "recover"
  /\ cleanup # {} => pc = "cleaned" \/ (pc = "clean" /\ then # "rewrite")
  /\ pc = "cleaned" =>
       \A m \in Msgs, d \in {"cur", "failed"} : <<m, d>> \in cleanup => dir[m] = "gone"
  /\ BeforeFiling => msg \in Msgs /\ input = msg /\ dir[msg] = "new"
  /\ AfterFiling => msg \in Msgs /\ input = msg /\ dir[msg] = Directory(Receipt(verdict))
  /\ AfterFiling /\ pc # "receipt" => last[Receipt(verdict)] = msg
  /\ (BeforeFiling \/ pc = "receipt") /\ from # "recover" => \A k \in Kinds : last[k] # msg
  /\ Typing => /\ next \in Msgs /\ input = next /\ dir[next] = "new"
               /\ \A k \in Kinds : last[k] # next
  /\ Resting => input = NoMsg
  /\ pc = "notify" => msg \in Msgs
  /\ pc = "report" => next \in Msgs
  /\ (BeforeFiling \/ AfterFiling \/ pc = "notify") /\ from = "deliver" => next = msg
  /\ pc \in {"check", "begin"} => next \in Msgs /\ dir[next] = "new"
  /\ pc \in {"reopen", "reopened"} =>
       /\ from \in {"failed", "accepted"} /\ msg \in Msgs
       /\ input = msg /\ last[from] = msg
  /\ pc = "reopened" => dir[msg] = "new"

\* A message still to be typed was never typed.
Untyped ==
  /\ \A m \in Msgs : dir[m] \in {"unsent", "new"} /\ m # input => pastes[m] = 0
  /\ pc = "paste" => pastes[next] = 0

IInv == TypeOK /\ Store /\ Control /\ Untyped /\ PastedOnce

-----------------------------------------------------------------------------
(* What each write does to the types of the inbox, and each key or hook to *)
(* those of the harness.                                                   *)

LEMMA InboxStays == InboxTypeOK /\ UNCHANGED inbox => InboxTypeOK'
  BY DEF InboxTypeOK

LEMMA HarnessStays == HarnessTypeOK /\ UNCHANGED harness => HarnessTypeOK'
  BY DEF HarnessTypeOK

LEMMA InboxWrites ==
  ASSUME InboxTypeOK, NEW m \in Msgs \cup {NoMsg},
         \/ PublishNew(m) \/ Withdraw(m) \/ RemoveResult \/ ForgetResult
         \/ StartInput(m) \/ FinishInput(m) \/ MoveToNew(m)
         \/ \E k \in Kinds : ForgetReceipt(k)
         \/ \E o \in Outcomes : RewriteResult(m, o) \/ FileResult(m, o)
  PROVE  InboxTypeOK'
<1> USE DEF InboxTypeOK
<1>1. CASE PublishNew(m) \/ Withdraw(m) \/ MoveToNew(m)
  BY <1>1 DEF PublishNew, Withdraw, MoveToNew
<1>2. CASE RemoveResult \/ ForgetResult
  BY <1>2 DEF RemoveResult, ForgetResult
<1>3. CASE StartInput(m) \/ FinishInput(m)
  BY <1>3 DEF StartInput, FinishInput
<1>4. CASE \E k \in Kinds : ForgetReceipt(k)
  BY <1>4 DEF ForgetReceipt
<1>5. ASSUME NEW o \in Outcomes, RewriteResult(m, o) PROVE InboxTypeOK'
  BY <1>5 DEF RewriteResult
<1>6. ASSUME NEW o \in Outcomes, FileResult(m, o) PROVE InboxTypeOK'
  <2>1. Directory(Receipt(o)) \in {"cur", "failed"}
    BY DEF Directory
  <2>2. QED
    BY <1>6, <2>1 DEF FileResult
<1>7. QED
  BY <1>1, <1>2, <1>3, <1>4, <1>5, <1>6

LEMMA ReceiptsWritten ==
  ASSUME InboxTypeOK, NEW m \in Msgs \cup {NoMsg}, NEW o \in Outcomes,
         NEW kept \in [Kinds -> Msgs \cup {NoMsg}], TakeReceipt(m, o, kept)
  PROVE  InboxTypeOK'
<1>1. Receipt(o) \in Kinds /\ Directory(Receipt(o)) \in {"cur", "failed"}
  BY DEF Receipt, Directory, Kinds, Outcomes
<1>2. last' \in [Kinds -> Msgs \cup {NoMsg}]
  BY <1>1 DEF TakeReceipt
<1>3. cleanup' \in SUBSET (Msgs \X {"cur", "failed"})
  <2>1. kept[Receipt(o)] \in Msgs \cup {NoMsg}
    BY <1>1
  <2>2. kept[Receipt(o)] # NoMsg =>
          {<<kept[Receipt(o)], Directory(Receipt(o))>>} \subseteq Msgs \X {"cur", "failed"}
    BY <1>1, <2>1
  <2>3. cleanup' = cleanup \/
          (kept[Receipt(o)] # NoMsg /\ cleanup' = {<<kept[Receipt(o)], Directory(Receipt(o))>>})
    BY DEF TakeReceipt
  <2>4. QED
    BY <2>2, <2>3 DEF InboxTypeOK
<1>4. QED
  BY <1>2, <1>3 DEF TakeReceipt, InboxTypeOK

LEMMA HarnessMoves ==
  ASSUME HarnessTypeOK, NEW m \in Msgs \cup {NoMsg},
         HarnessNext \/ Enter \/ Paste(m) \/ ClearKeys \/ ReadWitness
  PROVE  HarnessTypeOK'
<1>1. Empty \in Text /\ Draft \in Text /\ \A b \in BOOLEAN : [msg |-> m, lead |-> b] \in Text
  BY DEF Empty, Draft, Text
<1>2. composer.lead \in BOOLEAN
  BY DEF HarnessTypeOK, Text
<1>3. CASE Paste(m)
  BY <1>1, <1>2, <1>3 DEF Paste, HarnessTypeOK
<1>4. CASE Enter \/ ClearKeys \/ ReadWitness
  BY <1>1, <1>4 DEF Enter, ClearKeys, ReadWitness, HarnessTypeOK
<1>5. CASE HarnessNext
  BY <1>1, <1>5 DEF HarnessNext, OperatorTypes, OperatorSubmits, OperatorClears, Enter, ClearKeys,
     SurfaceChanges, RunQueued, HookWrites, HookLost, HarnessTypeOK
<1>6. QED
  BY <1>3, <1>4, <1>5

-----------------------------------------------------------------------------
LEMMA TypeStep ==
  ASSUME TypeOK, Control, [Next]_vars
  PROVE  TypeOK'
<1> USE InboxStays, HarnessStays
    DEF TypeOK, HolderTypeOK, ProcessTypeOK, HistoryTypeOK, Steps, Behalf, Outcomes, Kinds
<1>1. CASE UNCHANGED vars
  BY <1>1 DEF vars
<1>2. ASSUME NEW p \in Procs, CleanResult(p) PROVE TypeOK'
  BY <1>2, InboxWrites DEF CleanResult
<1>3. ASSUME NEW p \in Procs, CleanedResult(p) PROVE TypeOK'
  BY <1>3, InboxWrites DEF CleanedResult
<1>4. ASSUME NEW p \in Procs, Rewrite(p) PROVE TypeOK'
  BY <1>4, InboxWrites DEF Rewrite
<1>5. ASSUME NEW p \in Procs, File(p) PROVE TypeOK'
  BY <1>5, InboxWrites DEF File
<1>6. ASSUME NEW p \in Procs, SaveReceipt(p) PROVE TypeOK'
  BY <1>6, ReceiptsWritten DEF SaveReceipt, InboxTypeOK
<1>7. ASSUME NEW p \in Procs, Finish(p) PROVE TypeOK'
  BY <1>7, InboxWrites DEF Finish, Control, AfterFiling
<1>8. ASSUME NEW p \in Procs, Notify(p) PROVE TypeOK'
  BY <1>8 DEF Notify, Tell, AfterReconcile, Control
<1>9. ASSUME NEW p \in Procs, RecoverInput(p) PROVE TypeOK'
  <2>1. InboxTypeOK'
    <3>1. input \in Msgs \cup {NoMsg} /\ (UNCHANGED inbox \/ MoveToNew(input))
      BY <1>9 DEF RecoverInput, InboxTypeOK
    <3>2. QED
      BY <3>1, InboxWrites
  <2>2. HolderTypeOK' /\ ProcessTypeOK'
    BY <1>9, ZenonT(40) DEF RecoverInput, InboxTypeOK
  <2>3. QED
    BY <1>9, <2>1, <2>2 DEF RecoverInput
<1>10. ASSUME NEW p \in Procs, Reconcile(p) PROVE TypeOK'
  <2>1. InboxTypeOK'
    <3>1. UNCHANGED inbox \/ \E k \in {"failed", "accepted"} : StartInput(last[k])
      BY <1>10 DEF Reconcile, Late
    <3>2. \A k \in {"failed", "accepted"} : last[k] \in Msgs \cup {NoMsg}
      BY DEF InboxTypeOK
    <3>3. QED
      BY <3>1, <3>2, InboxWrites
  <2>2. HolderTypeOK' /\ ProcessTypeOK'
    <3>1. CASE Goto(AfterReconcile)
      BY <3>1 DEF AfterReconcile
    <3>2. ASSUME NEW k \in {"failed", "accepted"},
                 pc' = "reopen" /\ msg' = last[k] /\ from' = k,
                 UNCHANGED <<process, then, next, verdict>>
          PROVE  HolderTypeOK' /\ ProcessTypeOK'
      BY <3>2 DEF InboxTypeOK
    <3>3. QED
      BY <1>10, <3>1, <3>2 DEF Reconcile, Late
  <2>3. QED
    BY <1>10, <2>1, <2>2 DEF Reconcile
<1>11. ASSUME NEW p \in Procs, Reopen(p) PROVE TypeOK'
  BY <1>11, InboxWrites DEF Reopen
<1>12. ASSUME NEW p \in Procs, Reopened(p) PROVE TypeOK'
  BY <1>12, InboxWrites DEF Reopened, Control
<1>13. ASSUME NEW p \in Procs, List(p) PROVE TypeOK'
  BY <1>13 DEF List, Queued
<1>14. ASSUME NEW p \in Procs, Pick(p) PROVE TypeOK'
  BY <1>14, InboxWrites DEF Pick, Oldest, Queued
<1>15. ASSUME NEW p \in Procs, Check(p) PROVE TypeOK'
  BY <1>15 DEF Check
<1>16. ASSUME NEW p \in Procs, Begin(p) PROVE TypeOK'
  BY <1>16, InboxWrites, HarnessMoves DEF Begin
<1>17. ASSUME NEW p \in Procs, PasteText(p) PROVE TypeOK'
  BY <1>17, HarnessMoves DEF PasteText, Control, Typing
<1>18. ASSUME NEW p \in Procs, Settle(p) PROVE TypeOK'
  BY <1>18 DEF Settle
<1>19. ASSUME NEW p \in Procs, Abandon(p) PROVE TypeOK'
  BY <1>19 DEF Abandon
<1>20. ASSUME NEW p \in Procs, WithdrawPaste(p) PROVE TypeOK'
  BY <1>20 DEF WithdrawPaste
<1>21. ASSUME NEW p \in Procs, PressClear(p) PROVE TypeOK'
  BY <1>21, HarnessMoves DEF PressClear
<1>22. ASSUME NEW p \in Procs, ReadCleared(p) PROVE TypeOK'
  BY <1>22 DEF ReadCleared
<1>23. ASSUME NEW p \in Procs, SubmitKey(p) PROVE TypeOK'
  BY <1>23, HarnessMoves DEF SubmitKey, Control, Typing
<1>24. ASSUME NEW p \in Procs, AwaitReceipt(p) PROVE TypeOK'
  BY <1>24, HarnessMoves DEF AwaitReceipt
<1>25. ASSUME NEW p \in Procs, Report(p) PROVE TypeOK'
  BY <1>25 DEF Report, Tell, Control
<1>26. ASSUME NEW p \in Procs, Relist(p) PROVE TypeOK'
  BY <1>26 DEF Relist, Queued
<1>27. ASSUME NEW p \in Procs, Unlock(p) PROVE TypeOK'
  BY <1>27 DEF Unlock
<1>28. ASSUME NEW p \in Procs, TakeLock(p) PROVE TypeOK'
  BY <1>28 DEF TakeLock
<1>29. ASSUME NEW p \in Procs, FindLocked(p) PROVE TypeOK'
  BY <1>29 DEF FindLocked
<1>30. ASSUME NEW p \in Procs, Recheck(p) PROVE TypeOK'
  BY <1>30 DEF Recheck
<1>31. ASSUME NEW p \in Procs, Wake(p) PROVE TypeOK'
  BY <1>31 DEF Wake
<1>32. ASSUME NEW p \in Procs, Crash(p) \/ CheckFails(p) PROVE TypeOK'
  BY <1>32 DEF Crash, CheckFails, Stopped, At, Filed
<1>33. ASSUME NEW p \in Procs, NEW m \in Msgs, Send(p, m) PROVE TypeOK'
  BY <1>33, InboxWrites DEF Send
<1>34. CASE Environment
  BY <1>34, HarnessMoves DEF Environment
<1>35. QED
  BY <1>1, <1>2, <1>3, <1>4, <1>5, <1>6, <1>7, <1>8, <1>9, <1>10, <1>11, <1>12, <1>13, <1>14, <1>15, <1>16, <1>17, <1>18, <1>19, <1>20, <1>21, <1>22, <1>23, <1>24, <1>25, <1>26, <1>27, <1>28, <1>29, <1>30, <1>31, <1>32, <1>33, <1>34 DEF Next, Run, Locked

-----------------------------------------------------------------------------
(* The files.                                                              *)

\* No other step writes the inbox.
LEMMA InboxQuiet ==
  ASSUME NEW p \in Procs,
         \/ Notify(p) \/ List(p) \/ Check(p) \/ PasteText(p) \/ Settle(p) \/ Abandon(p)
         \/ WithdrawPaste(p) \/ PressClear(p) \/ ReadCleared(p) \/ SubmitKey(p)
         \/ AwaitReceipt(p) \/ Report(p) \/ Relist(p) \/ Unlock(p)
         \/ TakeLock(p) \/ FindLocked(p) \/ Recheck(p) \/ Wake(p) \/ Crash(p) \/ CheckFails(p)
  PROVE  UNCHANGED inbox
  BY DEF Notify, List, Check, PasteText, Settle, Abandon, WithdrawPaste, PressClear, ReadCleared,
         SubmitKey, AwaitReceipt, Report, Relist, Unlock, TakeLock, FindLocked, Recheck, Wake, Crash, CheckFails, Stopped

LEMMA StoreStays == Store /\ UNCHANGED inbox => Store'
  BY DEF Store, RetainedBounded, ReceiptsResolve, InputRecoverable, Superseded, Distinct, Filed

LEMMA ReceiptDirectory ==
  /\ \A k : Directory(k) \in {"cur", "failed"}
  /\ \A o \in Outcomes : Receipt(o) \in Kinds
  BY DEF Directory, Receipt, Outcomes, Kinds

LEMMA FileMoved ==
  ASSUME InboxTypeOK, Store, NEW m \in Msgs, NEW d,
         dir' = [dir EXCEPT ![m] = d], UNCHANGED <<input, last, cleanup>>,
         IF m = input THEN d \in {"new", "cur", "failed"}
         ELSE dir[m] \in {"unsent", "new"} /\ d \in {"new", "gone"}
  PROVE  Store'
<1>1. \A n \in Msgs : dir'[n] = IF n = m THEN d ELSE dir[n]
  BY DEF InboxTypeOK
<1>2. \A k \in Kinds : last[k] \in Msgs \cup {NoMsg}
  BY DEF InboxTypeOK
<1>3. RetainedBounded'
  BY <1>1, ZenonT(40) DEF Store, RetainedBounded, Filed
<1>4. ReceiptsResolve'
  BY <1>1, <1>2, ReceiptDirectory DEF Store, ReceiptsResolve
<1>5. InputRecoverable'
  BY <1>1 DEF Store, InputRecoverable, InboxTypeOK
<1>6. Superseded'
  BY <1>1 DEF Store, Superseded
<1>7. Distinct'
  BY DEF Store, Distinct
<1>8. QED
  BY <1>3, <1>4, <1>5, <1>6, <1>7 DEF Store

LEMMA InputOpened ==
  ASSUME InboxTypeOK, Store, NEW m \in Msgs, StartInput(m),
         dir[m] \in {"new", "cur", "failed"},
         \A d \in {"cur", "failed"} : <<m, d>> \notin cleanup
  PROVE  Store'
<1>1. input = NoMsg /\ input' = m /\ UNCHANGED <<dir, last, cleanup>>
  BY DEF StartInput
<1>2. RetainedBounded' /\ ReceiptsResolve' /\ Distinct'
  BY <1>1 DEF Store, RetainedBounded, Filed, ReceiptsResolve, Distinct
<1>3. InputRecoverable' /\ Superseded'
  BY <1>1 DEF Store, InputRecoverable, Superseded
<1>4. QED
  BY <1>2, <1>3 DEF Store

LEMMA StoreStep ==
  ASSUME TypeOK, Store, Control, [Next]_vars
  PROVE  Store'
<1> USE DEF TypeOK, Store
<1>0. \A k \in Kinds : last[k] \in Msgs \cup {NoMsg}
  BY DEF InboxTypeOK
<1>1. CASE UNCHANGED vars \/ Environment
  BY <1>1, StoreStays DEF vars, Environment
<1>2. ASSUME NEW p \in Procs, CleanResult(p) PROVE Store'
  <2>1. CASE UNCHANGED inbox
    BY <2>1, StoreStays
  <2>2. CASE RemoveResult
    <3>1. \A m \in Msgs : dir'[m] = IF <<m, dir[m]>> \in cleanup THEN "gone" ELSE dir[m]
      BY <2>2 DEF RemoveResult
    <3>2. UNCHANGED <<input, last, cleanup>>
      BY <2>2 DEF RemoveResult
    <3>3. \A m \in Msgs : dir'[m] # dir[m] =>
            m # input /\ \A k \in Kinds : last[k] # m
      <4>1. SUFFICES ASSUME NEW m \in Msgs, <<m, dir[m]>> \in cleanup
                     PROVE  m # input /\ \A k \in Kinds : last[k] # m
        BY <3>1
      <4>2. dir[m] \in {"cur", "failed"}
        BY <4>1 DEF InboxTypeOK
      <4>3. QED
        BY <4>1, <4>2 DEF Superseded
    <3>4. RetainedBounded'
      BY <3>1, <3>2 DEF RetainedBounded, Filed
    <3>5. ReceiptsResolve'
      BY <1>0, <3>2, <3>3 DEF ReceiptsResolve
    <3>6. InputRecoverable'
      BY <3>2, <3>3 DEF InputRecoverable, InboxTypeOK
    <3>8. Superseded' /\ Distinct'
      BY <3>1, <3>2 DEF Superseded, Distinct
    <3>7. QED
      BY <3>4, <3>5, <3>6, <3>8
  <2>3. QED
    BY <1>2, <2>1, <2>2 DEF CleanResult
<1>3. ASSUME NEW p \in Procs, CleanedResult(p) PROVE Store'
  <2>1. cleanup' = {} /\ UNCHANGED <<dir, input, last>>
    BY <1>3 DEF CleanedResult, ForgetResult
  <2>2. \A m \in Msgs, d \in {"cur", "failed"} : <<m, d>> \in cleanup => dir[m] = "gone"
    BY <1>3 DEF CleanedResult, Control
  <2>3. RetainedBounded'
    BY <2>1, <2>2 DEF RetainedBounded, Filed
  <2>4. ReceiptsResolve' /\ InputRecoverable' /\ Superseded' /\ Distinct'
    BY <2>1 DEF ReceiptsResolve, InputRecoverable, Superseded, Distinct
  <2>5. QED
    BY <2>3, <2>4
<1>4. ASSUME NEW p \in Procs, Rewrite(p) PROVE Store'
  BY <1>4 DEF Rewrite, RewriteResult, RetainedBounded, ReceiptsResolve, InputRecoverable,
     Superseded, Distinct, Filed
<1>5. ASSUME NEW p \in Procs, File(p) PROVE Store'
  <2>1. msg \in Msgs /\ input = msg
    BY <1>5 DEF File, Control, BeforeFiling
  <2>2. dir' = [dir EXCEPT ![msg] = Directory(Receipt(verdict))] /\ UNCHANGED <<input, last, cleanup>>
    BY <1>5 DEF File, FileResult
  <2>3. QED
    BY <2>1, <2>2, FileMoved, ReceiptDirectory
<1>6. ASSUME NEW p \in Procs, SaveReceipt(p) PROVE Store'
  <2> DEFINE kind == Receipt(verdict)
             kept == IF from = "recover"
                     THEN [k \in Kinds |-> IF last[k] = msg THEN NoMsg ELSE last[k]] ELSE last
             previous == kept[kind]
  <2>1. /\ msg \in Msgs /\ input = msg /\ dir[msg] = Directory(kind)
        /\ cleanup = {} /\ kind \in Kinds
    BY <1>6, ReceiptDirectory DEF SaveReceipt, Control, AfterFiling, HolderTypeOK
  <2>2. /\ last' = [kept EXCEPT ![kind] = msg] /\ UNCHANGED <<dir, input>>
        /\ cleanup' = IF previous \in {NoMsg, msg} THEN cleanup ELSE {<<previous, Directory(kind)>>}
    BY <1>6 DEF SaveReceipt, TakeReceipt
  <2>12. from # "recover" => \A k \in Kinds : last[k] # msg
    BY <1>6 DEF SaveReceipt, Control
  <2>3. \A k \in Kinds : kept[k] = IF last[k] = msg THEN NoMsg ELSE last[k]
    <3> SUFFICES ASSUME NEW k \in Kinds
                 PROVE  kept[k] = IF last[k] = msg THEN NoMsg ELSE last[k]
      OBVIOUS
    <3>1. CASE from = "recover"
      <4>1. kept = [j \in Kinds |-> IF last[j] = msg THEN NoMsg ELSE last[j]]
        BY <3>1
      <4> HIDE DEF kept
      <4>2. kept[k] = IF last[k] = msg THEN NoMsg ELSE last[k]
        BY <4>1
      <4>3. QED
        BY <4>2
    <3>2. CASE from # "recover"
      <4>1. kept = last
        BY <3>2
      <4>2. QED
        BY <2>12, <3>2, <4>1
    <3>3. QED
      BY <3>1, <3>2
  <2>4. \A k \in Kinds : last'[k] = IF k = kind THEN msg ELSE kept[k]
    BY <2>1, <2>2 DEF InboxTypeOK
  <2> HIDE DEF kept, kind
  <2>5. \A m \in Msgs, d \in {"cur", "failed"} :
          <<m, d>> \in cleanup' => m = last[kind] /\ m # msg /\ d = Directory(kind)
    BY <2>1, <2>2, <2>3
  <2>6. previous \notin {NoMsg, msg} => previous = last[kind] /\ previous \in Msgs
    BY <1>0, <2>1, <2>3
  <2>7. RetainedBounded'
    <3>1. SUFFICES ASSUME NEW m \in Filed, m # msg
                   PROVE  \/ \E k \in Kinds : last'[k] = m
                          \/ \E d \in {"cur", "failed"} : <<m, d>> \in cleanup'
      BY <2>1, <2>2 DEF RetainedBounded, Filed
    <3>2. PICK k \in Kinds : last[k] = m
      BY <2>1, <3>1 DEF RetainedBounded
    <3>3. CASE k = kind
      <4>1. previous = m
        BY <2>3, <3>1, <3>2, <3>3 DEF Filed
      <4>2. cleanup' = {<<m, Directory(kind)>>}
        BY <2>2, <3>1, <4>1 DEF Filed
      <4>3. QED
        BY <4>2, ReceiptDirectory
    <3>4. CASE k # kind
      BY <2>3, <2>4, <3>1, <3>2, <3>4
    <3>5. QED
      BY <3>3, <3>4
  <2>8. ReceiptsResolve' /\ InputRecoverable'
    BY <2>1, <2>2, <2>3, <2>4 DEF ReceiptsResolve, InputRecoverable
  <2>9. Superseded'
    <3>1. SUFFICES ASSUME NEW m \in Msgs, NEW d \in {"cur", "failed"}, <<m, d>> \in cleanup'
                   PROVE  /\ m # input' /\ dir'[m] \in {d, "gone"}
                          /\ \A k \in Kinds : last'[k] # m
      BY DEF Superseded
    <3>2. m = last[kind] /\ m # msg /\ d = Directory(kind)
      BY <2>5, <3>1
    <3>3. dir[m] = d
      BY <2>1, <3>2 DEF ReceiptsResolve
    <3>4. \A k \in Kinds : last'[k] = m => k = kind
      BY <2>1, <2>3, <2>4, <3>2 DEF Distinct
    <3>5. QED
      BY <2>1, <2>2, <2>4, <3>2, <3>3, <3>4
  <2>10. Distinct'
    BY <2>1, <2>3, <2>4 DEF Distinct
  <2>11. QED
    BY <2>7, <2>8, <2>9, <2>10
<1>7. ASSUME NEW p \in Procs, Finish(p) PROVE Store'
  <2>1. /\ msg \in Msgs /\ dir[msg] = Directory(Receipt(verdict))
        /\ last[Receipt(verdict)] = msg /\ Receipt(verdict) \in Kinds
    BY <1>7, ReceiptDirectory DEF Finish, Control, AfterFiling, HolderTypeOK
  <2>2. input = msg /\ input' = NoMsg /\ UNCHANGED <<dir, last, cleanup>>
    BY <1>7 DEF Finish, FinishInput
  <2>3. RetainedBounded' /\ InputRecoverable' /\ Distinct'
    BY <2>1, <2>2 DEF RetainedBounded, InputRecoverable, Distinct, Filed
  <2>4. ReceiptsResolve'
    BY <2>1, <2>2 DEF ReceiptsResolve, Distinct
  <2>5. Superseded'
    BY <2>2 DEF Superseded
  <2>6. QED
    BY <2>3, <2>4, <2>5
<1>8. ASSUME NEW p \in Procs, RecoverInput(p) PROVE Store'
  <2>1. UNCHANGED inbox \/ (input \in Msgs /\ MoveToNew(input))
    BY <1>8 DEF RecoverInput, InboxTypeOK
  <2>2. CASE input \in Msgs /\ MoveToNew(input)
    BY <2>2, FileMoved DEF MoveToNew
  <2>3. QED
    BY <2>1, <2>2, StoreStays
<1>9. ASSUME NEW p \in Procs, Reconcile(p) PROVE Store'
  <2>1. UNCHANGED inbox \/ \E k \in Kinds : last[k] # NoMsg /\ StartInput(last[k])
    BY <1>9 DEF Reconcile, Late, Kinds
  <2>2. ASSUME NEW k \in Kinds, last[k] # NoMsg, StartInput(last[k]) PROVE Store'
    <3>1. last[k] \in Msgs /\ dir[last[k]] = Directory(k)
      BY <1>0, <2>2 DEF StartInput, ReceiptsResolve
    <3>2. \A d \in {"cur", "failed"} : <<last[k], d>> \notin cleanup
      BY <3>1 DEF Superseded
    <3>3. QED
      BY <2>2, <3>1, <3>2, InputOpened, ReceiptDirectory
  <2>3. QED
    BY <2>1, <2>2, StoreStays
<1>10. ASSUME NEW p \in Procs, Reopen(p) PROVE Store'
  <2>1. msg \in Msgs /\ input = msg /\ MoveToNew(msg)
    BY <1>10 DEF Reopen, Control
  <2>2. QED
    BY <2>1, FileMoved DEF MoveToNew
<1>11. ASSUME NEW p \in Procs, Reopened(p) PROVE Store'
  <2>1. /\ msg \in Msgs /\ input = msg /\ last[from] = msg /\ from \in Kinds
        /\ dir[msg] = "new"
    BY <1>11 DEF Reopened, Control, Kinds
  <2>2. last' = [last EXCEPT ![from] = NoMsg] /\ UNCHANGED <<dir, input, cleanup>>
    BY <1>11 DEF Reopened, ForgetReceipt
  <2>3. \A k \in Kinds : last'[k] = IF k = from THEN NoMsg ELSE last[k]
    BY <2>1, <2>2 DEF InboxTypeOK
  <2>4. RetainedBounded'
    BY <2>1, <2>2, <2>3 DEF RetainedBounded, Filed
  <2>5. ReceiptsResolve' /\ InputRecoverable' /\ Distinct'
    BY <2>1, <2>2, <2>3 DEF ReceiptsResolve, InputRecoverable, Distinct
  <2>6. Superseded'
    BY <2>1, <2>2, <2>3, ZenonT(40) DEF Superseded
  <2>7. QED
    BY <2>4, <2>5, <2>6
<1>12. ASSUME NEW p \in Procs, Pick(p) PROVE Store'
  <2>1. input = NoMsg
    BY <1>12 DEF Pick, Control, Resting
  <2>2. UNCHANGED inbox \/ \E m \in Msgs : Withdraw(m)
    BY <1>12 DEF Pick, Oldest, Queued
  <2>3. ASSUME NEW m \in Msgs, Withdraw(m) PROVE Store'
    BY <2>1, <2>3, FileMoved DEF Withdraw
  <2>4. QED
    BY <2>2, <2>3, StoreStays
<1>13. ASSUME NEW p \in Procs, Begin(p) PROVE Store'
  <2>1. next \in Msgs /\ dir[next] = "new" /\ StartInput(next)
    BY <1>13 DEF Begin, Control
  <2>2. \A d \in {"cur", "failed"} : <<next, d>> \notin cleanup
    BY <2>1 DEF Superseded
  <2>3. QED
    BY <2>1, <2>2, InputOpened
<1>14. ASSUME NEW p \in Procs, NEW m \in Msgs, Send(p, m) PROVE Store'
  <2>1. PublishNew(m) /\ m # input
    BY <1>14 DEF Send, PublishNew, InputRecoverable
  <2>2. QED
    BY <2>1, FileMoved DEF PublishNew
<1>15. QED
  BY <1>1, <1>2, <1>3, <1>4, <1>5, <1>6, <1>7, <1>8, <1>9, <1>10, <1>11, <1>12, <1>13, <1>14,
     InboxQuiet, StoreStays DEF Next, Run, Locked

-----------------------------------------------------------------------------
(* The lock holder.                                                        *)

LEMMA ControlStep ==
  ASSUME TypeOK, Store, Control, [Next]_vars
  PROVE  Control'
<1> USE ReceiptDirectory
    DEF TypeOK, HolderTypeOK, ProcessTypeOK, Store, Control, BeforeFiling, AfterFiling, Typing,
        Resting
<1>1. CASE UNCHANGED vars \/ Environment
  BY <1>1 DEF vars, Environment
<1>2. ASSUME NEW p \in Procs, CleanResult(p) PROVE Control'
  <2>1. CASE Goto(then) /\ UNCHANGED inbox
    BY <1>2, <2>1 DEF CleanResult
  <2>2. CASE RemoveResult /\ Goto("cleaned")
    <3>1. /\ \A m \in Msgs : dir'[m] = IF <<m, dir[m]>> \in cleanup THEN "gone" ELSE dir[m]
          /\ cleanup # {} /\ UNCHANGED <<input, last, cleanup>>
      BY <2>2 DEF RemoveResult
    <3>2. pc = "clean" /\ then # "rewrite" /\ lock # NoProc
      BY <1>2, <3>1 DEF CleanResult
    <3>3. \A m \in Msgs, d \in {"cur", "failed"} : <<m, d>> \in cleanup => dir'[m] = "gone"
      BY <3>1 DEF Superseded
    <3>4. \A m \in Msgs : m = input => dir'[m] = dir[m]
      <4>1. \A m \in Msgs : <<m, dir[m]>> \in cleanup => dir[m] \in {"cur", "failed"}
        BY DEF InboxTypeOK
      <4>2. QED
        BY <3>1, <4>1 DEF Superseded
    <3>5. QED
      BY <2>2, <3>1, <3>2, <3>3, <3>4
  <2>3. QED
    BY <1>2, <2>1, <2>2 DEF CleanResult
<1>3. ASSUME NEW p \in Procs, CleanedResult(p) PROVE Control'
  BY <1>3 DEF CleanedResult, ForgetResult
<1>4. ASSUME NEW p \in Procs, Rewrite(p) PROVE Control'
  BY <1>4 DEF Rewrite, RewriteResult
<1>5. ASSUME NEW p \in Procs, File(p) PROVE Control'
  <2>1. /\ pc = "file" /\ pc' = "receipt" /\ msg \in Msgs /\ input = msg
        /\ cleanup = {} /\ lock # NoProc
        /\ (from # "recover" => \A k \in Kinds : last[k] # msg)
    BY <1>5 DEF File
  <2>2. /\ dir' = [dir EXCEPT ![msg] = Directory(Receipt(verdict))]
        /\ UNCHANGED <<input, last, cleanup, lock, then, next, msg, verdict, from>>
    BY <1>5 DEF File, FileResult
  <2>3. dir'[msg] = Directory(Receipt(verdict))
    BY <2>1, <2>2 DEF InboxTypeOK
  <2>4. from = "deliver" => next = msg
    BY <2>1
  <2>5. QED
    BY <2>1, <2>2, <2>3, <2>4
<1>6. ASSUME NEW p \in Procs, SaveReceipt(p) PROVE Control'
  <2>1. /\ pc = "receipt" /\ pc' = "clean" /\ then' = "finish" /\ msg \in Msgs /\ input = msg
        /\ dir[msg] = Directory(Receipt(verdict)) /\ lock # NoProc
        /\ (from = "deliver" => next = msg)
    BY <1>6 DEF SaveReceipt
  <2>2. /\ last'[Receipt(verdict)] = msg
        /\ UNCHANGED <<dir, input, lock, next, msg, verdict, from>>
    BY <1>6 DEF SaveReceipt, TakeReceipt, InboxTypeOK
  <2>3. QED
    BY <2>1, <2>2
<1>7. ASSUME NEW p \in Procs, Finish(p) PROVE Control'
  BY <1>7 DEF Finish, FinishInput
<1>8. ASSUME NEW p \in Procs, Notify(p) PROVE Control'
  BY <1>8 DEF Notify, AfterReconcile
<1>9. ASSUME NEW p \in Procs, RecoverInput(p) PROVE Control'
  <2>1. CASE input = NoMsg
    BY <1>9, <2>1 DEF RecoverInput, MoveToNew, InputRecoverable
  <2>2. CASE input # NoMsg
    <3>1. /\ pc = "recover" /\ pc' = "clean" /\ then' = "rewrite" /\ from' = "recover"
          /\ msg' = input /\ MoveToNew(input) /\ lock' = lock /\ lock # NoProc
      BY <1>9, <2>2 DEF RecoverInput
    <3>2. /\ input \in Msgs /\ cleanup = {}
          /\ dir'[input] = "new" /\ UNCHANGED <<input, last, cleanup>>
      BY <2>2, <3>1 DEF MoveToNew, InboxTypeOK
    <3>3. QED
      BY <3>1, <3>2
  <2>3. QED
    BY <2>1, <2>2
<1>10. ASSUME NEW p \in Procs, Reconcile(p) PROVE Control'
  <2>1. CASE UNCHANGED inbox /\ Goto(AfterReconcile)
    BY <1>10, <2>1 DEF Reconcile, AfterReconcile
  <2>2. ASSUME NEW k \in Late, StartInput(last[k]),
               pc' = "reopen" /\ msg' = last[k] /\ from' = k,
               UNCHANGED <<process, then, next, verdict>>
        PROVE  Control'
    <3>1. k \in {"failed", "accepted"} /\ last[k] \in Msgs
      BY <2>2 DEF Late, InboxTypeOK, Kinds
    <3>2. input' = last[k] /\ UNCHANGED <<dir, last, cleanup>>
      BY <2>2 DEF StartInput
    <3>3. cleanup = {} /\ lock # NoProc
      BY <1>10 DEF Reconcile
    <3>4. QED
      BY <2>2, <3>1, <3>2, <3>3
  <2>3. QED
    BY <1>10, <2>1, <2>2 DEF Reconcile
<1>11. ASSUME NEW p \in Procs, Reopen(p) PROVE Control'
  <2>1. /\ pc = "reopen" /\ pc' = "reopened" /\ msg \in Msgs /\ input = msg
        /\ last[from] = msg /\ from \in {"failed", "accepted"}
        /\ cleanup = {} /\ lock # NoProc /\ MoveToNew(msg)
        /\ UNCHANGED <<lock, then, next, msg, verdict, from>>
    BY <1>11 DEF Reopen
  <2>2. dir'[msg] = "new" /\ UNCHANGED <<input, last, cleanup>>
    BY <2>1 DEF MoveToNew, InboxTypeOK
  <2>3. QED
    BY <2>1, <2>2
<1>12. ASSUME NEW p \in Procs, Reopened(p) PROVE Control'
  <2>1. /\ pc = "reopened" /\ pc' = "clean" /\ then' = "rewrite" /\ msg \in Msgs
        /\ input = msg /\ dir[msg] = "new"
        /\ last[from] = msg /\ from \in {"failed", "accepted"} /\ from \in Kinds
        /\ cleanup = {} /\ lock # NoProc /\ ForgetReceipt(from)
        /\ UNCHANGED <<lock, next, msg, from>>
    BY <1>12 DEF Reopened, Kinds
  <2>2. UNCHANGED <<dir, input, cleanup>> /\ \A k \in Kinds : last'[k] # msg
    BY <2>1 DEF ForgetReceipt, Distinct, InboxTypeOK
  <2>3. QED
    BY <2>1, <2>2
<1>13. ASSUME NEW p \in Procs, List(p) PROVE Control'
  BY <1>13 DEF List
<1>14. ASSUME NEW p \in Procs, Pick(p) PROVE Control'
  BY <1>14 DEF Pick, Withdraw, Oldest, Queued
<1>15. ASSUME NEW p \in Procs, Check(p) PROVE Control'
  BY <1>15 DEF Check
<1>16. ASSUME NEW p \in Procs, Begin(p) PROVE Control'
  BY <1>16 DEF Begin, StartInput, ReceiptsResolve
<1>17. ASSUME NEW p \in Procs, PasteText(p) PROVE Control'
  BY <1>17 DEF PasteText
<1>18. ASSUME NEW p \in Procs, Settle(p) PROVE Control'
  BY <1>18 DEF Settle
<1>19. ASSUME NEW p \in Procs, Abandon(p) PROVE Control'
  BY <1>19 DEF Abandon
<1>20. ASSUME NEW p \in Procs, WithdrawPaste(p) PROVE Control'
  BY <1>20 DEF WithdrawPaste
<1>21. ASSUME NEW p \in Procs, PressClear(p) PROVE Control'
  BY <1>21 DEF PressClear
<1>22. ASSUME NEW p \in Procs, ReadCleared(p) PROVE Control'
  BY <1>22 DEF ReadCleared
<1>23. ASSUME NEW p \in Procs, SubmitKey(p) PROVE Control'
  BY <1>23 DEF SubmitKey
<1>24. ASSUME NEW p \in Procs, AwaitReceipt(p) PROVE Control'
  BY <1>24 DEF AwaitReceipt
<1>25. ASSUME NEW p \in Procs, Report(p) PROVE Control'
  BY <1>25 DEF Report
<1>26. ASSUME NEW p \in Procs, Relist(p) PROVE Control'
  BY <1>26 DEF Relist
<1>27. ASSUME NEW p \in Procs, Unlock(p) PROVE Control'
  BY <1>27 DEF Unlock
<1>28. ASSUME NEW p \in Procs, TakeLock(p) PROVE Control'
  BY <1>28 DEF TakeLock
<1>29. ASSUME NEW p \in Procs, FindLocked(p) PROVE Control'
  BY <1>29 DEF FindLocked
<1>30. ASSUME NEW p \in Procs, Recheck(p) PROVE Control'
  BY <1>30 DEF Recheck
<1>31. ASSUME NEW p \in Procs, Wake(p) PROVE Control'
  BY <1>31 DEF Wake
<1>32. ASSUME NEW p \in Procs, Crash(p) \/ CheckFails(p) PROVE Control'
  BY <1>32 DEF Crash, CheckFails, Stopped, At
<1>33. ASSUME NEW p \in Procs, NEW m \in Msgs, Send(p, m) PROVE Control'
  BY <1>33, ZenonT(40) DEF Send, PublishNew, InboxTypeOK
<1>34. QED
  BY <1>1, <1>2, <1>3, <1>4, <1>5, <1>6, <1>7, <1>8, <1>9, <1>10, <1>11, <1>12, <1>13, <1>14, <1>15, <1>16, <1>17, <1>18, <1>19, <1>20, <1>21, <1>22, <1>23, <1>24, <1>25, <1>26, <1>27, <1>28, <1>29, <1>30, <1>31, <1>32, <1>33 DEF Next, Run, Locked

-----------------------------------------------------------------------------
(* The pastes.                                                             *)

LEMMA PasteStep ==
  ASSUME TypeOK, Store, Control, Untyped, PastedOnce, [Next]_vars
  PROVE  Untyped' /\ PastedOnce'
<1> USE DEF TypeOK, Store, Untyped, PastedOnce
<1>1. ASSUME UNCHANGED pastes, pc' = "paste" => pc = "paste" /\ next' = next,
             \A m \in Msgs : dir'[m] \in {"unsent", "new"} /\ m # input' =>
                              dir[m] \in {"unsent", "new"} /\ m # input
      PROVE  Untyped' /\ PastedOnce'
  BY <1>1
<1>2. CASE UNCHANGED vars \/ Environment
  BY <1>1, <1>2 DEF vars, Environment
<1>3. ASSUME NEW p \in Procs, NEW m \in Msgs, Send(p, m) PROVE Untyped' /\ PastedOnce'
  BY <1>1, <1>3 DEF Send, PublishNew, InboxTypeOK, history
<1>4. ASSUME NEW p \in Procs,
             \/ Notify(p) \/ List(p) \/ Check(p) \/ Settle(p) \/ Abandon(p)
             \/ WithdrawPaste(p) \/ PressClear(p) \/ ReadCleared(p) \/ SubmitKey(p)
             \/ AwaitReceipt(p) \/ Report(p) \/ Relist(p) \/ Unlock(p)
             \/ TakeLock(p) \/ FindLocked(p) \/ Recheck(p) \/ Wake(p) \/ Crash(p) \/ CheckFails(p)
      PROVE  Untyped' /\ PastedOnce'
  <2>1. UNCHANGED inbox
    BY <1>4, InboxQuiet
  <2>2. UNCHANGED pastes
    BY <1>4 DEF Notify, List, Check, Settle, Abandon, WithdrawPaste, PressClear, ReadCleared,
       SubmitKey, AwaitReceipt, Report, Relist, Unlock, TakeLock, FindLocked, Recheck, Wake, Crash, CheckFails, Stopped
  <2>3. pc' = "paste" => pc = "paste" /\ next' = next
    BY <1>4 DEF Notify, List, Check, Settle, Abandon, WithdrawPaste, PressClear, ReadCleared,
       SubmitKey, AwaitReceipt, Report, Relist, Unlock, TakeLock, FindLocked, Recheck, Wake, Crash, CheckFails, Stopped,
       AfterReconcile
  <2>4. QED
    BY <1>1, <2>1, <2>2, <2>3
<1>5. ASSUME NEW p \in Procs,
             CleanResult(p) \/ CleanedResult(p) \/ Rewrite(p) \/ File(p) \/ SaveReceipt(p) \/ Finish(p)
      PROVE  Untyped' /\ PastedOnce'
  <2>1. UNCHANGED pastes /\ pc' # "paste"
    BY <1>5 DEF CleanResult, CleanedResult, Rewrite, File, SaveReceipt, Finish, HolderTypeOK
  <2>2. \A m \in Msgs : dir'[m] \in {"unsent", "new"} /\ m # input' =>
                         dir[m] \in {"unsent", "new"} /\ m # input
    <3>1. CASE CleanResult(p)
      BY <3>1 DEF CleanResult, RemoveResult
    <3>2. CASE CleanedResult(p) \/ Rewrite(p) \/ SaveReceipt(p)
      BY <3>2 DEF CleanedResult, ForgetResult, Rewrite, RewriteResult, SaveReceipt, TakeReceipt
    <3>3. CASE File(p)
      BY <3>3, ReceiptDirectory DEF File, FileResult, InboxTypeOK
    <3>4. CASE Finish(p)
      BY <3>4, ReceiptDirectory DEF Finish, FinishInput, Control, AfterFiling
    <3>5. QED
      BY <1>5, <3>1, <3>2, <3>3, <3>4
  <2>3. QED
    BY <1>1, <2>1, <2>2
<1>6. ASSUME NEW p \in Procs,
             RecoverInput(p) \/ Reconcile(p) \/ Reopen(p) \/ Reopened(p) \/ Pick(p)
      PROVE  Untyped' /\ PastedOnce'
  <2>1. UNCHANGED pastes /\ pc' # "paste"
    BY <1>6 DEF RecoverInput, Reconcile, Reopen, Reopened, Pick, AfterReconcile
  <2>2. \A m \in Msgs : dir'[m] \in {"unsent", "new"} /\ m # input' =>
                         dir[m] \in {"unsent", "new"} /\ m # input
    <3>1. CASE RecoverInput(p)
      <4>1. UNCHANGED input /\ (UNCHANGED dir \/ dir' = [dir EXCEPT ![input] = "new"])
        BY <3>1 DEF RecoverInput, MoveToNew
      <4>2. QED
        BY <4>1 DEF InboxTypeOK
    <3>2. CASE Reconcile(p)
      BY <3>2 DEF Reconcile, StartInput
    <3>3. CASE Reopen(p) \/ Reopened(p)
      <4>1. input = msg
        BY <3>3 DEF Reopen, Reopened, Control
      <4>2. UNCHANGED input /\ (UNCHANGED dir \/ dir' = [dir EXCEPT ![msg] = "new"])
        BY <3>3 DEF Reopen, Reopened, MoveToNew, ForgetReceipt
      <4>3. QED
        BY <4>1, <4>2 DEF InboxTypeOK
    <3>4. CASE Pick(p)
      BY <3>4 DEF Pick, Withdraw, InboxTypeOK
    <3>5. QED
      BY <1>6, <3>1, <3>2, <3>3, <3>4
  <2>3. QED
    BY <1>1, <2>1, <2>2
<1>7. ASSUME NEW p \in Procs, Begin(p) PROVE Untyped' /\ PastedOnce'
  <2>1. /\ next \in Msgs /\ dir[next] = "new" /\ input = NoMsg /\ input' = next
        /\ UNCHANGED <<dir, pastes, next>>
    BY <1>7 DEF Begin, StartInput, Control
  <2>2. QED
    BY <2>1
<1>8. ASSUME NEW p \in Procs, PasteText(p) PROVE Untyped' /\ PastedOnce'
  <2>1. /\ next \in Msgs /\ input = next /\ pastes[next] = 0 /\ pc' # "paste"
        /\ UNCHANGED <<dir, input>>
    BY <1>8 DEF PasteText, Control, Typing
  <2>2. \A m \in Msgs : pastes'[m] = IF m = next THEN 1 ELSE pastes[m]
    BY <1>8, <2>1 DEF PasteText, HistoryTypeOK
  <2>3. QED
    BY <2>1, <2>2
<1>9. QED
  BY <1>2, <1>3, <1>4, <1>5, <1>6, <1>7, <1>8 DEF Next, Run, Locked

-----------------------------------------------------------------------------
LEMMA NoneYet == 0 \in 0..2 /\ 0 \in 0..MaxMishaps /\ 0 <= 1
  OBVIOUS

LEMMA Initially == Init => IInv
<1> SUFFICES ASSUME Init PROVE IInv
  OBVIOUS
<1> USE DEF Init, InboxInit, HarnessInit
<1>1. InboxTypeOK
  BY DEF InboxTypeOK
<1>2. HarnessTypeOK
  BY DEF HarnessTypeOK, Empty, Text
<1>3. HolderTypeOK /\ ProcessTypeOK
  BY DEF HolderTypeOK, ProcessTypeOK, Steps, Outcomes, Kinds, Behalf
<1>8. HistoryTypeOK
  <2>1. pastes \in [Msgs -> 0..2]
    BY NoneYet
  <2>2. mishaps \in 0..MaxMishaps
    BY NoneYet
  <2>3. QED
    BY <2>1, <2>2 DEF HistoryTypeOK
<1>4. Store
  BY DEF Store, RetainedBounded, ReceiptsResolve, InputRecoverable, Superseded, Distinct, Filed
<1>5. Control
  BY DEF Control, BeforeFiling, AfterFiling, Typing, Resting
<1>6. Untyped /\ PastedOnce
  <2>1. pc # "paste" /\ \A m \in Msgs : pastes[m] = 0
    OBVIOUS
  <2>2. QED
    BY <2>1, NoneYet DEF Untyped, PastedOnce
<1>7. QED
  BY <1>1, <1>2, <1>3, <1>4, <1>5, <1>6, <1>8 DEF IInv, TypeOK

LEMMA Inductive == IInv /\ [Next]_vars => IInv'
  BY TypeStep, StoreStep, ControlStep, PasteStep DEF IInv

(* Every step of every command, hook, operator and crash keeps the         *)
(* inductive invariant.                                                    *)
THEOREM Invariant == Spec => []IInv
  BY Initially, Inductive, PTL DEF Spec

(* Every variable keeps to the states the code can store.                  *)
THEOREM TypeCorrect == Spec => []TypeOK
<1>1. IInv => TypeOK
  BY DEF IInv
<1>2. QED
  BY Invariant, <1>1, PTL

(* However many owners die and wherever, recovery (runtime.recoverInput)   *)
(* and late proof never type a message again.                              *)
THEOREM NeverPastedAgain == Spec => []PastedOnce
<1>1. IInv => PastedOnce
  BY DEF IInv
<1>2. QED
  BY Invariant, <1>1, PTL

(* The CleanResult record of Settle keeps the filed envelopes bounded by   *)
(* the receipts, for any number of deaths or errors between its writes.    *)
THEOREM FilesBounded == Spec => []RetainedBounded
<1>1. IInv => RetainedBounded
  BY DEF IInv, Store
<1>2. QED
  BY Invariant, <1>1, PTL

(* Acquiring the lock can always read the receipts and the started input   *)
(* it has to finish (reconcileDelivery, recoverInput).                     *)
THEOREM AcquireReads == Spec => [](ReceiptsResolve /\ InputRecoverable)
<1>1. IInv => ReceiptsResolve /\ InputRecoverable
  BY DEF IInv, Store
<1>2. QED
  BY Invariant, <1>1, PTL

(* The two together: what an owner of the lock reads is there, and settled *)
(* envelopes do not pile up (inbox.go:140, runtime.go:466).                *)
THEOREM FilesAlwaysKept == Spec => []FilesKept
<1>1. RetainedBounded /\ ReceiptsResolve /\ InputRecoverable => FilesKept
  BY DEF FilesKept
<1>2. QED
  BY FilesBounded, AcquireReads, <1>1, PTL

-----------------------------------------------------------------------------
(***************************************************************************)
(* What a receipt says is true, its sender is told, and the receipts are   *)
(* those of docs/concepts.md: the rest builds on the inductive invariant   *)
(* above.                                                                  *)
(***************************************************************************)

(* The submit key.  A message whose key may still be pressed has no        *)
(* outcome yet, and the outcome "failed" is only ever on its way for a     *)
(* message whose key was not pressed.                                      *)

Unsubmitted == Typing /\ pc # "await"

Unkeyed ==
  /\ \A m \in Msgs : dir[m] \in {"unsent", "new"} /\ m # input => m \notin keyed /\ result[m] = ""
  /\ \A m \in Msgs : result[m] = "failed" => m \notin keyed
  /\ Unsubmitted => next \notin keyed /\ result[next] = ""
  /\ BeforeFiling /\ verdict = "failed" => msg \notin keyed

LEMMA UnkeyedAtFirst == Init => Unkeyed
  BY DEF Init, InboxInit, Unkeyed, Unsubmitted, Typing, BeforeFiling

LEMMA KeyStep ==
  ASSUME IInv, Unkeyed, [Next]_vars
  PROVE  Unkeyed'
<1> USE DEF IInv, TypeOK, Unkeyed
<1>1. ASSUME UNCHANGED <<keyed, result>>,
             Unsubmitted' => (Unsubmitted /\ next' = next) \/ (next' \notin keyed /\ result[next'] = ""),
             BeforeFiling' /\ verdict' = "failed" =>
               \/ BeforeFiling /\ verdict = "failed" /\ msg' = msg
               \/ msg' \notin keyed,
             \A m \in Msgs : dir'[m] \in {"unsent", "new"} /\ m # input' =>
                              dir[m] \in {"unsent", "new"} /\ m # input
      PROVE  Unkeyed'
  BY <1>1
<1>2. CASE UNCHANGED vars \/ Environment
  BY <1>1, <1>2 DEF vars, Environment, Unsubmitted, Typing, BeforeFiling
<1>3. ASSUME NEW p \in Procs, NEW m \in Msgs, Send(p, m) PROVE Unkeyed'
  BY <1>1, <1>3 DEF Send, PublishNew, InboxTypeOK, Unsubmitted, Typing, BeforeFiling
<1>4. ASSUME NEW p \in Procs,
             \/ Notify(p) \/ List(p) \/ Check(p) \/ PasteText(p) \/ Settle(p) \/ Abandon(p)
             \/ WithdrawPaste(p) \/ PressClear(p) \/ ReadCleared(p)
             \/ AwaitReceipt(p) \/ Report(p) \/ Relist(p) \/ Unlock(p)
             \/ TakeLock(p) \/ FindLocked(p) \/ Recheck(p) \/ Wake(p) \/ Crash(p) \/ CheckFails(p)
      PROVE  Unkeyed'
  <2>1. UNCHANGED inbox
    BY <1>4, InboxQuiet
  <2>2. UNCHANGED keyed
    BY <1>4 DEF Notify, List, Check, PasteText, Settle, Abandon, WithdrawPaste, PressClear, ReadCleared,
       AwaitReceipt, Report, Relist, Unlock, TakeLock, FindLocked, Recheck, Wake, Crash, CheckFails, Stopped
  <2>3. Unsubmitted' => Unsubmitted /\ next' = next
    BY <1>4 DEF Notify, List, Check, PasteText, Settle, Abandon, WithdrawPaste, PressClear, ReadCleared,
       AwaitReceipt, Report, Relist, Unlock, TakeLock, FindLocked, Recheck, Wake, Crash, CheckFails, Stopped,
       AfterReconcile, Unsubmitted, Typing
  <2>4. BeforeFiling' /\ verdict' = "failed" =>
          \/ BeforeFiling /\ verdict = "failed" /\ msg' = msg
          \/ Unsubmitted /\ msg' = next
    BY <1>4 DEF Notify, List, Check, PasteText, Settle, Abandon, WithdrawPaste, PressClear, ReadCleared,
       AwaitReceipt, Report, Relist, Unlock, TakeLock, FindLocked, Recheck, Wake, Crash, CheckFails, Stopped,
       AfterReconcile, Unsubmitted, Typing, BeforeFiling
  <2>5. QED
    BY <1>1, <2>1, <2>2, <2>3, <2>4
<1>5. ASSUME NEW p \in Procs,
             CleanResult(p) \/ CleanedResult(p) \/ File(p) \/ SaveReceipt(p) \/ Finish(p)
      PROVE  Unkeyed'
  <2>1. UNCHANGED <<keyed, result>>
    <3>1. CASE CleanResult(p) \/ CleanedResult(p)
      BY <3>1 DEF CleanResult, RemoveResult, CleanedResult, ForgetResult
    <3>2. CASE File(p) \/ SaveReceipt(p) \/ Finish(p)
      BY <3>2 DEF File, FileResult, SaveReceipt, TakeReceipt, Finish, FinishInput
    <3>3. QED
      BY <1>5, <3>1, <3>2
  <2>5. ~Unsubmitted'
    BY <1>5 DEF CleanResult, CleanedResult, File, SaveReceipt, Finish, HolderTypeOK, Unsubmitted, Typing
  <2>2. BeforeFiling' => BeforeFiling /\ verdict' = verdict /\ msg' = msg
    BY <1>5 DEF CleanResult, CleanedResult, File, SaveReceipt, Finish, HolderTypeOK, BeforeFiling
  <2>3. \A m \in Msgs : dir'[m] \in {"unsent", "new"} /\ m # input' =>
                         dir[m] \in {"unsent", "new"} /\ m # input
    <3>1. CASE CleanResult(p)
      BY <3>1 DEF CleanResult, RemoveResult
    <3>2. CASE CleanedResult(p) \/ SaveReceipt(p)
      BY <3>2 DEF CleanedResult, ForgetResult, SaveReceipt, TakeReceipt
    <3>3. CASE File(p)
      BY <3>3, ReceiptDirectory DEF File, FileResult, InboxTypeOK
    <3>4. CASE Finish(p)
      BY <3>4, ReceiptDirectory DEF Finish, FinishInput, Control, AfterFiling
    <3>5. QED
      BY <1>5, <3>1, <3>2, <3>3, <3>4
  <2>4. QED
    BY <1>1, <2>1, <2>2, <2>3, <2>5
<1>6. ASSUME NEW p \in Procs,
             RecoverInput(p) \/ Reconcile(p) \/ Reopen(p) \/ Reopened(p) \/ Pick(p)
      PROVE  Unkeyed'
  <2>1. UNCHANGED <<keyed, result>> /\ ~Unsubmitted'
    BY <1>6 DEF RecoverInput, MoveToNew, Reconcile, StartInput, Reopen, Reopened, ForgetReceipt, Pick,
       Withdraw, AfterReconcile, Unsubmitted, Typing
  <2>2. ~(BeforeFiling' /\ verdict' = "failed")
    BY <1>6 DEF RecoverInput, Reconcile, Reopen, Reopened, Pick, AfterReconcile, BeforeFiling
  <2>3. \A m \in Msgs : dir'[m] \in {"unsent", "new"} /\ m # input' =>
                         dir[m] \in {"unsent", "new"} /\ m # input
    <3>1. CASE RecoverInput(p)
      <4>1. UNCHANGED input /\ (UNCHANGED dir \/ dir' = [dir EXCEPT ![input] = "new"])
        BY <3>1 DEF RecoverInput, MoveToNew
      <4>2. QED
        BY <4>1 DEF InboxTypeOK
    <3>2. CASE Reconcile(p)
      BY <3>2 DEF Reconcile, StartInput
    <3>3. CASE Reopen(p) \/ Reopened(p)
      <4>1. input = msg
        BY <3>3 DEF Reopen, Reopened, Control
      <4>2. UNCHANGED input /\ (UNCHANGED dir \/ dir' = [dir EXCEPT ![msg] = "new"])
        BY <3>3 DEF Reopen, Reopened, MoveToNew, ForgetReceipt
      <4>3. QED
        BY <4>1, <4>2 DEF InboxTypeOK
    <3>4. CASE Pick(p)
      BY <3>4, ZenonT(40) DEF Pick, Withdraw, InboxTypeOK
    <3>5. QED
      BY <1>6, <3>1, <3>2, <3>3, <3>4
  <2>4. QED
    BY <1>1, <2>1, <2>2, <2>3
<1>7. ASSUME NEW p \in Procs, Rewrite(p) PROVE Unkeyed'
  <2>1. /\ msg \in Msgs /\ input = msg /\ pc' = "file"
        /\ result' = [result EXCEPT ![msg] = verdict]
        /\ UNCHANGED <<dir, input, keyed, msg, verdict>>
    BY <1>7 DEF Rewrite, RewriteResult, Control, BeforeFiling
  <2>2. ~Unsubmitted' /\ BeforeFiling
    BY <1>7, <2>1 DEF Rewrite, Unsubmitted, Typing, BeforeFiling
  <2>3. QED
    BY <2>1, <2>2 DEF InboxTypeOK
<1>8. ASSUME NEW p \in Procs, Begin(p) PROVE Unkeyed'
  <2>1. /\ next \in Msgs /\ dir[next] = "new" /\ input = NoMsg /\ input' = next
        /\ UNCHANGED <<dir, result, keyed, next>>
    BY <1>8 DEF Begin, StartInput, Control, Resting
  <2>2. BeforeFiling' => msg' = next
    BY <1>8 DEF Begin, BeforeFiling
  <2>3. QED
    BY <2>1, <2>2
<1>9. ASSUME NEW p \in Procs, SubmitKey(p) PROVE Unkeyed'
  <2>1. /\ next \in Msgs /\ input = next /\ Unsubmitted
        /\ keyed' = keyed \cup {next} /\ UNCHANGED <<dir, input, result>>
    BY <1>9 DEF SubmitKey, Control, Typing, Unsubmitted
  <2>2. ~Unsubmitted' /\ ~(BeforeFiling' /\ verdict' = "failed")
    BY <1>9 DEF SubmitKey, Unsubmitted, Typing, BeforeFiling
  <2>3. QED
    BY <2>1, <2>2
<1>10. QED
  BY <1>2, <1>3, <1>4, <1>5, <1>6, <1>7, <1>8, <1>9 DEF Next, Run, Locked

(* A failed receipt tells the sender that Gangline never pressed the       *)
(* submit key (withdrawPaste; delivery.go:520), whoever died in between.   *)
THEOREM FailedUnkeyed == Spec => []FailedNeverKeyed
<1>1. Unkeyed => FailedNeverKeyed
  BY DEF Unkeyed, FailedNeverKeyed, Filed
<1>2. QED
  BY UnkeyedAtFirst, KeyStep, Invariant, <1>1, PTL DEF Spec

-----------------------------------------------------------------------------
(* The proof of delivery.  Whatever a hook writes was submitted, and a     *)
(* holder that settles a message delivered, or reopens its receipt, has    *)
(* seen the witness of exactly that message.                               *)

Proven ==
  /\ hooks \subseteq ran
  /\ witness # Empty => witness \in ran
  /\ \A m \in Msgs : result[m] = "delivered" => Exactly(m) \in ran
  /\ BeforeFiling /\ verdict = "delivered" => Exactly(msg) \in ran
  /\ pc \in {"reopen", "reopened"} => Exactly(msg) \in ran

LEMMA ProvenAtFirst == Init => Proven
  BY DEF Init, InboxInit, HarnessInit, Proven, BeforeFiling

LEMMA WitnessProves ==
  ASSUME Proven, NEW m \in Msgs, Matches(m, witness)
  PROVE  Exactly(m) \in ran
<1>1. Exactly(m) # Empty
  BY DEF Exactly, Empty
<1>2. QED
  BY <1>1 DEF Matches, Proven

\* Nothing that was submitted is forgotten, and hooks run for nothing else.
LEMMA HarnessProves ==
  ASSUME hooks \subseteq ran, witness # Empty => witness \in ran, NEW m,
         HarnessNext \/ Enter \/ Paste(m) \/ ClearKeys \/ ReadWitness \/ UNCHANGED harness
  PROVE  ran \subseteq ran' /\ hooks' \subseteq ran' /\ (witness' # Empty => witness' \in ran')
<1>1. CASE Enter \/ Paste(m) \/ ClearKeys \/ ReadWitness \/ UNCHANGED harness
  BY <1>1 DEF Enter, Paste, ClearKeys, ReadWitness
<1>2. CASE OperatorTypes \/ OperatorSubmits \/ OperatorClears \/ SurfaceChanges
  BY <1>2 DEF OperatorTypes, OperatorSubmits, OperatorClears, SurfaceChanges, Enter, ClearKeys
<1>3. ASSUME NEW t \in Text, RunQueued(t) \/ HookWrites(t) \/ HookLost(t)
      PROVE  ran \subseteq ran' /\ hooks' \subseteq ran' /\ (witness' # Empty => witness' \in ran')
  BY <1>3 DEF RunQueued, HookWrites, HookLost
<1>4. QED
  BY <1>1, <1>2, <1>3 DEF HarnessNext

LEMMA ProofStep ==
  ASSUME IInv, Proven, [Next]_vars
  PROVE  Proven'
<1> USE DEF IInv, TypeOK, Proven
<1>0. /\ hooks \subseteq ran
      /\ witness # Empty => witness \in ran
  OBVIOUS
<1>1. ASSUME HarnessNext \/ Enter \/ (\E m \in Msgs : Paste(m)) \/ ClearKeys \/ ReadWitness \/ UNCHANGED harness,
             UNCHANGED result,
             BeforeFiling' /\ verdict' = "delivered" =>
               \/ BeforeFiling /\ verdict = "delivered" /\ msg' = msg
               \/ Exactly(msg') \in ran,
             pc' \in {"reopen", "reopened"} =>
               \/ pc \in {"reopen", "reopened"} /\ msg' = msg
               \/ Exactly(msg') \in ran
      PROVE  Proven'
  <2>1. ran \subseteq ran' /\ hooks' \subseteq ran' /\ (witness' # Empty => witness' \in ran')
    BY <1>0, <1>1, HarnessProves
  <2>2. QED
    BY <1>1, <2>1 DEF Exactly, Empty
<1>2. CASE UNCHANGED vars \/ Environment
  BY <1>1, <1>2 DEF vars, Environment, BeforeFiling
<1>3. ASSUME NEW p \in Procs, NEW m \in Msgs, Send(p, m) PROVE Proven'
  BY <1>1, <1>3 DEF Send, PublishNew, BeforeFiling
<1>4. ASSUME NEW p \in Procs,
             \/ Notify(p) \/ List(p) \/ Check(p) \/ Settle(p) \/ Abandon(p)
             \/ WithdrawPaste(p) \/ ReadCleared(p)
             \/ Report(p) \/ Relist(p) \/ Unlock(p)
             \/ TakeLock(p) \/ FindLocked(p) \/ Recheck(p) \/ Wake(p) \/ Crash(p) \/ CheckFails(p)
      PROVE  Proven'
  <2>1. UNCHANGED inbox
    BY <1>4, InboxQuiet
  <2>2. UNCHANGED harness
    BY <1>4 DEF Notify, List, Check, Settle, Abandon, WithdrawPaste, ReadCleared,
       Report, Relist, Unlock, TakeLock, FindLocked, Recheck, Wake, Crash, CheckFails, Stopped
  <2>3. /\ BeforeFiling' /\ verdict' = "delivered" => BeforeFiling /\ verdict = "delivered" /\ msg' = msg
        /\ pc' \in {"reopen", "reopened"} => pc \in {"reopen", "reopened"} /\ msg' = msg
    BY <1>4 DEF Notify, List, Check, Settle, Abandon, WithdrawPaste, ReadCleared,
       Report, Relist, Unlock, TakeLock, FindLocked, Recheck, Wake, Crash, CheckFails, Stopped,
       AfterReconcile, BeforeFiling
  <2>4. QED
    BY <1>1, <2>1, <2>2, <2>3
<1>5. ASSUME NEW p \in Procs,
             CleanResult(p) \/ CleanedResult(p) \/ File(p) \/ SaveReceipt(p) \/ Finish(p)
      PROVE  Proven'
  <2>1. UNCHANGED harness
    BY <1>5 DEF CleanResult, CleanedResult, File, SaveReceipt, Finish
  <2>2. UNCHANGED result
    <3>1. CASE CleanResult(p) \/ CleanedResult(p)
      BY <3>1 DEF CleanResult, RemoveResult, CleanedResult, ForgetResult
    <3>2. CASE File(p) \/ SaveReceipt(p) \/ Finish(p)
      BY <3>2 DEF File, FileResult, SaveReceipt, TakeReceipt, Finish, FinishInput
    <3>3. QED
      BY <1>5, <3>1, <3>2
  <2>3. /\ BeforeFiling' => BeforeFiling /\ verdict' = verdict /\ msg' = msg
        /\ pc' \notin {"reopen", "reopened"}
    BY <1>5 DEF CleanResult, CleanedResult, File, SaveReceipt, Finish, HolderTypeOK, BeforeFiling
  <2>4. QED
    BY <1>1, <2>1, <2>2, <2>3
<1>6. ASSUME NEW p \in Procs, RecoverInput(p) \/ Pick(p) PROVE Proven'
  <2>1. UNCHANGED harness /\ UNCHANGED result
    BY <1>6 DEF RecoverInput, MoveToNew, Pick, Withdraw
  <2>2. ~(BeforeFiling' /\ verdict' = "delivered") /\ pc' \notin {"reopen", "reopened"}
    BY <1>6 DEF RecoverInput, Pick, BeforeFiling
  <2>3. QED
    BY <1>1, <2>1, <2>2
<1>7. ASSUME NEW p \in Procs, Reconcile(p) PROVE Proven'
  <2>1. UNCHANGED harness /\ UNCHANGED result
    BY <1>7 DEF Reconcile, StartInput
  <2>2. CASE pc' \in {"reopen", "reopened"}
    <3>1. PICK k \in Late : msg' = last[k] /\ pc' = "reopen"
      BY <1>7, <2>2 DEF Reconcile, AfterReconcile
    <3>2. last[k] \in Msgs /\ Matches(last[k], witness)
      BY <3>1 DEF Late, InboxTypeOK, Kinds
    <3>3. Exactly(msg') \in ran
      BY <3>1, <3>2, WitnessProves
    <3>4. QED
      BY <1>1, <2>1, <3>1, <3>3 DEF BeforeFiling
  <2>3. CASE pc' \notin {"reopen", "reopened"}
    <3>1. ~BeforeFiling'
      BY <1>7, <2>3 DEF Reconcile, AfterReconcile, BeforeFiling
    <3>2. QED
      BY <1>1, <2>1, <2>3, <3>1
  <2>4. QED
    BY <2>2, <2>3
<1>8. ASSUME NEW p \in Procs, Reopen(p) \/ Reopened(p) PROVE Proven'
  <2>1. UNCHANGED harness /\ UNCHANGED result
    BY <1>8 DEF Reopen, MoveToNew, Reopened, ForgetReceipt
  <2>2. msg' = msg /\ Exactly(msg) \in ran
    BY <1>8 DEF Reopen, Reopened
  <2>3. QED
    BY <1>1, <2>1, <2>2
<1>9. ASSUME NEW p \in Procs, Rewrite(p) PROVE Proven'
  <2>1. /\ msg \in Msgs /\ pc' = "file" /\ result' = [result EXCEPT ![msg] = verdict]
        /\ UNCHANGED <<msg, verdict, ran, hooks, witness>>
    BY <1>9 DEF Rewrite, RewriteResult, Control, BeforeFiling
  <2>2. BeforeFiling
    BY <1>9 DEF Rewrite, BeforeFiling
  <2>3. QED
    BY <2>1, <2>2 DEF InboxTypeOK, Exactly, Empty
<1>10. ASSUME NEW p \in Procs, Begin(p) \/ PasteText(p) \/ PressClear(p) \/ SubmitKey(p) PROVE Proven'
  <2>1. UNCHANGED result
    BY <1>10 DEF Begin, StartInput, PasteText, PressClear, SubmitKey
  <2>2. ~(BeforeFiling' /\ verdict' = "delivered") /\ pc' \notin {"reopen", "reopened"}
    BY <1>10 DEF Begin, PasteText, PressClear, SubmitKey, BeforeFiling
  <2>3. next \in Msgs
    BY <1>10 DEF Begin, PasteText, PressClear, SubmitKey, Control, Typing
  <2>4. HarnessNext \/ Enter \/ (\E m \in Msgs : Paste(m)) \/ ClearKeys \/ ReadWitness \/ UNCHANGED harness
    BY <1>10, <2>3 DEF Begin, PasteText, PressClear, SubmitKey
  <2>5. QED
    BY <1>1, <2>1, <2>2, <2>4
<1>11. ASSUME NEW p \in Procs, AwaitReceipt(p) PROVE Proven'
  <2>1. UNCHANGED result /\ pc' \notin {"reopen", "reopened"}
    BY <1>11 DEF AwaitReceipt
  <2>2. ReadWitness \/ UNCHANGED harness
    BY <1>11 DEF AwaitReceipt
  <2>3. next \in Msgs
    BY <1>11 DEF AwaitReceipt, Control, Typing
  <2>4. BeforeFiling' /\ verdict' = "delivered" => msg' = next /\ Matches(next, witness)
    BY <1>11 DEF AwaitReceipt, BeforeFiling
  <2>5. QED
    BY <1>1, <2>1, <2>2, <2>3, <2>4, WitnessProves
<1>12. QED
  BY <1>2, <1>3, <1>4, <1>5, <1>6, <1>7, <1>8, <1>9, <1>10, <1>11 DEF Next, Run, Locked

(* A delivered receipt, from the wait or from late proof, is given only to *)
(* a message the harness submitted exactly (matchesEnvelope), whatever the *)
(* operator typed, whichever hooks were late and whoever died.             *)
THEOREM DeliveredProven == Spec => []DeliveredIsProven
<1>1. Proven => DeliveredIsProven
  BY DEF Proven, DeliveredIsProven, Filed
<1>2. QED
  BY ProvenAtFirst, ProofStep, Invariant, <1>1, PTL DEF Spec

-----------------------------------------------------------------------------
(* The senders.  Held and Reporting say what the holder's memory, the      *)
(* receipts and the files have to do with each other; Ended                *)
(* and Unnoticed, of whom a notice may already have been sent; Owing is    *)
(* SendersTold while the holder still has its report to make.              *)

Noticed(m) == <<"outcome", m>> \in notices

\* The flock and its owner agree; without one nothing is being delivered.
Held ==
  /\ \A p \in Procs : proc[p] = "hold" <=> lock = p
  /\ lock = NoProc => next = NoMsg

\* What a file and a receipt say is what the holder settles.
Reporting ==
  /\ pc = "file" \/ AfterFiling \/ pc = "notify" => result[msg] = verdict
  /\ BeforeFiling \/ AfterFiling \/ pc = "notify" =>
       /\ from \in {"failed", "accepted"} => verdict = "delivered"
       /\ from = "recover" => verdict \in {"accepted", "unverified"}
  /\ \A k \in Kinds : last[k] \notin {NoMsg, input} => Receipt(result[last[k]]) = k

\* Between the end of one delivery and its report, late proofs may be settled.
Between == {"clean", "cleaned", "recover", "rewrite", "file", "receipt", "finish",
            "notify", "reconcile", "reopen", "reopened", "report"}

\* What was settled is filed until it is reported.
Ended ==
  /\ pc = "notify" => dir[msg] \in {"cur", "failed"}
  /\ pc \in Between => next \in {NoMsg, input} \/ dir[next] \notin {"unsent", "new"}

\* No sender has heard of a message that has no outcome yet, of one that is only
\* accepted, or of a note.
Unnoticed ==
  /\ \A m \in Notes : ~Noticed(m)
  /\ \A m \in Msgs : dir[m] \in {"unsent", "new"} /\ m # input => ~Noticed(m)
  /\ \A m \in Msgs : result[m] = "accepted" => ~Noticed(m)
  /\ Typing => ~Noticed(next)
  /\ /\ BeforeFiling \/ AfterFiling
     /\ from \in {"deliver", "accepted"} \/ verdict = "accepted"
     => ~Noticed(msg)
  /\ pc \in {"reopen", "reopened"} /\ from = "accepted" => ~Noticed(msg)

\* The holder has yet to tell the sender of m, who does not hold the lock.
Owed(m) ==
  \/ next = m /\ pc \in Between /\ lock # NoProc /\ target[lock] # m
  \/ msg = m /\ pc = "notify" /\ from = "recover" /\ verdict = "unverified"

Owing ==
  /\ \A m \in Unsettled \ (untold \cup {input}) : Noticed(m) \/ m \in own \/ Owed(m)
  /\ \A m \in Filed \ (untold \cup {input}) :
       result[m] = "delivered" /\ Noticed(m) =>
         <<"delivered", m>> \in notices \/ (msg = m /\ pc = "notify" /\ from = "failed" /\ m \notin own)

Telling == Held /\ Reporting /\ Ended /\ Unnoticed /\ Owing

-----------------------------------------------------------------------------
\* A command waits, owns the flock, or is gone; Unlock and Crash forget what the owner delivered.
LEMMA HeldStep ==
  ASSUME IInv, Held, [Next]_vars
  PROVE  Held'
<1> USE DEF IInv, TypeOK, HolderTypeOK, ProcessTypeOK, Held
<1>1. CASE UNCHANGED vars \/ Environment
  BY <1>1 DEF vars, Environment
<1>2. ASSUME NEW p \in Procs, NEW m \in Msgs, Send(p, m) PROVE Held'
  BY <1>2 DEF Send, PublishNew
<1>3. ASSUME NEW p \in Procs, Wake(p) PROVE Held'
  BY <1>3 DEF Wake
<1>4. ASSUME NEW p \in Procs, TakeLock(p) PROVE Held'
  BY <1>4 DEF TakeLock
<1>5. ASSUME NEW p \in Procs, FindLocked(p) PROVE Held'
  BY <1>5 DEF FindLocked
<1>6. ASSUME NEW p \in Procs, Recheck(p) PROVE Held'
  BY <1>6 DEF Recheck
<1>7. ASSUME NEW p \in Procs, Crash(p) \/ CheckFails(p) PROVE Held'
  BY <1>7 DEF Crash, CheckFails, Stopped, At, Filed
<1>8. ASSUME NEW p \in Procs, CleanResult(p) PROVE Held'
  BY <1>8 DEF CleanResult, RemoveResult
<1>9. ASSUME NEW p \in Procs, CleanedResult(p) PROVE Held'
  BY <1>9 DEF CleanedResult, ForgetResult
<1>10. ASSUME NEW p \in Procs, Rewrite(p) PROVE Held'
  BY <1>10 DEF Rewrite, RewriteResult
<1>11. ASSUME NEW p \in Procs, File(p) PROVE Held'
  BY <1>11 DEF File, FileResult
<1>12. ASSUME NEW p \in Procs, SaveReceipt(p) PROVE Held'
  BY <1>12 DEF SaveReceipt, TakeReceipt
<1>13. ASSUME NEW p \in Procs, Finish(p) PROVE Held'
  BY <1>13 DEF Finish, FinishInput
<1>14. ASSUME NEW p \in Procs, Notify(p) PROVE Held'
  BY <1>14 DEF Notify, Tell, AfterReconcile
<1>15. ASSUME NEW p \in Procs, RecoverInput(p) PROVE Held'
  BY <1>15 DEF RecoverInput, MoveToNew
<1>16. ASSUME NEW p \in Procs, Reconcile(p) PROVE Held'
  BY <1>16 DEF Reconcile, StartInput, Late, AfterReconcile
<1>17. ASSUME NEW p \in Procs, Reopen(p) PROVE Held'
  BY <1>17 DEF Reopen, MoveToNew
<1>18. ASSUME NEW p \in Procs, Reopened(p) PROVE Held'
  BY <1>18 DEF Reopened, ForgetReceipt
<1>19. ASSUME NEW p \in Procs, List(p) PROVE Held'
  BY <1>19 DEF List
<1>20. ASSUME NEW p \in Procs, Pick(p) PROVE Held'
  BY <1>20 DEF Pick, Withdraw, Queued, Oldest
<1>21. ASSUME NEW p \in Procs, Check(p) PROVE Held'
  BY <1>21 DEF Check
<1>22. ASSUME NEW p \in Procs, Begin(p) PROVE Held'
  BY <1>22 DEF Begin, StartInput
<1>23. ASSUME NEW p \in Procs, PasteText(p) PROVE Held'
  BY <1>23 DEF PasteText
<1>24. ASSUME NEW p \in Procs, Settle(p) PROVE Held'
  BY <1>24 DEF Settle
<1>25. ASSUME NEW p \in Procs, Abandon(p) PROVE Held'
  BY <1>25 DEF Abandon
<1>26. ASSUME NEW p \in Procs, WithdrawPaste(p) PROVE Held'
  BY <1>26 DEF WithdrawPaste
<1>27. ASSUME NEW p \in Procs, PressClear(p) PROVE Held'
  BY <1>27 DEF PressClear
<1>28. ASSUME NEW p \in Procs, ReadCleared(p) PROVE Held'
  BY <1>28 DEF ReadCleared
<1>29. ASSUME NEW p \in Procs, SubmitKey(p) PROVE Held'
  BY <1>29 DEF SubmitKey
<1>30. ASSUME NEW p \in Procs, AwaitReceipt(p) PROVE Held'
  BY <1>30 DEF AwaitReceipt
<1>31. ASSUME NEW p \in Procs, Report(p) PROVE Held'
  BY <1>31 DEF Report, Tell, AfterReconcile
<1>32. ASSUME NEW p \in Procs, Relist(p) PROVE Held'
  BY <1>32 DEF Relist
<1>33. ASSUME NEW p \in Procs, Unlock(p) PROVE Held'
  BY <1>33 DEF Unlock
<1> QED
  BY <1>1, <1>2, <1>3, <1>4, <1>5, <1>6, <1>7, <1>8, <1>9, <1>10, <1>11, <1>12, <1>13, <1>14,
     <1>15, <1>16, <1>17, <1>18, <1>19, <1>20, <1>21, <1>22, <1>23, <1>24, <1>25, <1>26, <1>27,
     <1>28, <1>29, <1>30, <1>31, <1>32, <1>33 DEF Next, Run, Locked

\* Settle writes the outcome before it files and before it saves the receipt (store/inbox.go:160).
LEMMA ReportingStep ==
  ASSUME IInv, Reporting, [Next]_vars
  PROVE  Reporting'
<1> USE DEF IInv, TypeOK, InboxTypeOK, HolderTypeOK, ProcessTypeOK, Control, BeforeFiling,
        AfterFiling, Typing, Resting, Reporting, Store, Distinct
<1>1. CASE UNCHANGED vars \/ Environment
  BY <1>1 DEF vars, Environment
<1>2. ASSUME NEW p \in Procs, NEW m \in Msgs, Send(p, m) PROVE Reporting'
  BY <1>2 DEF Send, PublishNew
<1>3. ASSUME NEW p \in Procs, Wake(p) PROVE Reporting'
  BY <1>3 DEF Wake
<1>4. ASSUME NEW p \in Procs, TakeLock(p) PROVE Reporting'
  BY <1>4 DEF TakeLock
<1>5. ASSUME NEW p \in Procs, FindLocked(p) PROVE Reporting'
  BY <1>5 DEF FindLocked
<1>6. ASSUME NEW p \in Procs, Recheck(p) PROVE Reporting'
  BY <1>6 DEF Recheck
<1>7. ASSUME NEW p \in Procs, Crash(p) \/ CheckFails(p) PROVE Reporting'
  BY <1>7 DEF Crash, CheckFails, Stopped, At, Filed
<1>8. ASSUME NEW p \in Procs, CleanResult(p) PROVE Reporting'
  BY <1>8 DEF CleanResult, RemoveResult
<1>9. ASSUME NEW p \in Procs, CleanedResult(p) PROVE Reporting'
  BY <1>9 DEF CleanedResult, ForgetResult
<1>10. ASSUME NEW p \in Procs, Rewrite(p) PROVE Reporting'
  BY <1>10 DEF Rewrite, RewriteResult
<1>11. ASSUME NEW p \in Procs, File(p) PROVE Reporting'
  BY <1>11 DEF File, FileResult
<1>12. ASSUME NEW p \in Procs, SaveReceipt(p) PROVE Reporting'
  BY <1>12 DEF SaveReceipt, TakeReceipt
<1>13. ASSUME NEW p \in Procs, Finish(p) PROVE Reporting'
  <2>1. /\ input = msg /\ msg \in Msgs /\ pc' = "notify" /\ input' = NoMsg
        /\ result[msg] = verdict /\ last[Receipt(verdict)] = msg /\ dir[msg] = Directory(Receipt(verdict))
        /\ UNCHANGED <<dir, result, last, next, msg, verdict, from, notices>>
    BY <1>13 DEF Finish, FinishInput
  <2>2. Receipt(verdict) \in Kinds /\ dir[msg] \in {"cur", "failed"}
    BY <2>1, ReceiptDirectory
  <2>3. ASSUME NEW k \in Kinds, last[k] = msg PROVE k = Receipt(verdict)
    BY <2>1, <2>2, <2>3
  <2>4. ASSUME NEW k \in Kinds, last[k] # NoMsg PROVE Receipt(result[last[k]]) = k
    BY <2>1, <2>3, <2>4
  <2>5. (\A k \in Kinds : last[k] \notin {NoMsg, input} => Receipt(result[last[k]]) = k)'
    BY <2>1, <2>4
  <2>6. pc = "finish" /\ ~BeforeFiling' /\ ~AfterFiling'
    BY <1>13, <2>1 DEF Finish
  <2> QED
    BY <2>1, <2>5, <2>6
<1>14. ASSUME NEW p \in Procs, Notify(p) PROVE Reporting'
  BY <1>14 DEF Notify, Tell, AfterReconcile
<1>15. ASSUME NEW p \in Procs, RecoverInput(p) PROVE Reporting'
  BY <1>15 DEF RecoverInput, MoveToNew
<1>16. ASSUME NEW p \in Procs, Reconcile(p) PROVE Reporting'
  BY <1>16, ZenonT(40) DEF Reconcile, StartInput, Late, AfterReconcile
<1>17. ASSUME NEW p \in Procs, Reopen(p) PROVE Reporting'
  BY <1>17 DEF Reopen, MoveToNew
<1>18. ASSUME NEW p \in Procs, Reopened(p) PROVE Reporting'
  BY <1>18 DEF Reopened, ForgetReceipt
<1>19. ASSUME NEW p \in Procs, List(p) PROVE Reporting'
  BY <1>19 DEF List
<1>20. ASSUME NEW p \in Procs, Pick(p) PROVE Reporting'
  BY <1>20 DEF Pick, Withdraw, Queued, Oldest
<1>21. ASSUME NEW p \in Procs, Check(p) PROVE Reporting'
  BY <1>21 DEF Check
<1>22. ASSUME NEW p \in Procs, Begin(p) PROVE Reporting'
  BY <1>22 DEF Begin, StartInput
<1>23. ASSUME NEW p \in Procs, PasteText(p) PROVE Reporting'
  BY <1>23 DEF PasteText
<1>24. ASSUME NEW p \in Procs, Settle(p) PROVE Reporting'
  BY <1>24 DEF Settle
<1>25. ASSUME NEW p \in Procs, Abandon(p) PROVE Reporting'
  BY <1>25 DEF Abandon
<1>26. ASSUME NEW p \in Procs, WithdrawPaste(p) PROVE Reporting'
  BY <1>26 DEF WithdrawPaste
<1>27. ASSUME NEW p \in Procs, PressClear(p) PROVE Reporting'
  BY <1>27 DEF PressClear
<1>28. ASSUME NEW p \in Procs, ReadCleared(p) PROVE Reporting'
  BY <1>28 DEF ReadCleared
<1>29. ASSUME NEW p \in Procs, SubmitKey(p) PROVE Reporting'
  BY <1>29 DEF SubmitKey
<1>30. ASSUME NEW p \in Procs, AwaitReceipt(p) PROVE Reporting'
  BY <1>30 DEF AwaitReceipt
<1>31. ASSUME NEW p \in Procs, Report(p) PROVE Reporting'
  BY <1>31 DEF Report, Tell, AfterReconcile
<1>32. ASSUME NEW p \in Procs, Relist(p) PROVE Reporting'
  BY <1>32 DEF Relist
<1>33. ASSUME NEW p \in Procs, Unlock(p) PROVE Reporting'
  BY <1>33 DEF Unlock
<1> QED
  BY <1>1, <1>2, <1>3, <1>4, <1>5, <1>6, <1>7, <1>8, <1>9, <1>10, <1>11, <1>12, <1>13, <1>14,
     <1>15, <1>16, <1>17, <1>18, <1>19, <1>20, <1>21, <1>22, <1>23, <1>24, <1>25, <1>26, <1>27,
     <1>28, <1>29, <1>30, <1>31, <1>32, <1>33 DEF Next, Run, Locked

\* A drain reports its message before it lists the queue again (delivery.go:423).
LEMMA EndedStep ==
  ASSUME IInv, Held, Ended, [Next]_vars
  PROVE  Ended'
<1> USE DEF IInv, TypeOK, InboxTypeOK, HolderTypeOK, ProcessTypeOK, Control, BeforeFiling,
        AfterFiling, Typing, Resting, Held, Ended, Store, InputRecoverable, Between
<1>1. CASE UNCHANGED vars \/ Environment
  BY <1>1 DEF vars, Environment
<1>2. ASSUME NEW p \in Procs, NEW m \in Msgs, Send(p, m) PROVE Ended'
  BY <1>2 DEF Send, PublishNew
<1>3. ASSUME NEW p \in Procs, Wake(p) PROVE Ended'
  BY <1>3 DEF Wake
<1>4. ASSUME NEW p \in Procs, TakeLock(p) PROVE Ended'
  BY <1>4 DEF TakeLock
<1>5. ASSUME NEW p \in Procs, FindLocked(p) PROVE Ended'
  BY <1>5 DEF FindLocked
<1>6. ASSUME NEW p \in Procs, Recheck(p) PROVE Ended'
  BY <1>6 DEF Recheck
<1>7. ASSUME NEW p \in Procs, Crash(p) \/ CheckFails(p) PROVE Ended'
  BY <1>7 DEF Crash, CheckFails, Stopped, At, Filed
<1>8. ASSUME NEW p \in Procs, CleanResult(p) PROVE Ended'
  <2>1. UNCHANGED <<input, next, msg>> /\ pc' \in Between \ {"notify"}
    BY <1>8 DEF CleanResult, RemoveResult
  <2>2. \A m \in Msgs : dir'[m] \in {dir[m], "gone"}
    BY <1>8, ZenonT(40) DEF CleanResult, RemoveResult
  <2> QED
    BY <1>8, <2>1, <2>2 DEF CleanResult
<1>9. ASSUME NEW p \in Procs, CleanedResult(p) PROVE Ended'
  BY <1>9 DEF CleanedResult, ForgetResult
<1>10. ASSUME NEW p \in Procs, Rewrite(p) PROVE Ended'
  BY <1>10 DEF Rewrite, RewriteResult
<1>11. ASSUME NEW p \in Procs, File(p) PROVE Ended'
  BY <1>11 DEF File, FileResult
<1>12. ASSUME NEW p \in Procs, SaveReceipt(p) PROVE Ended'
  BY <1>12 DEF SaveReceipt, TakeReceipt
<1>13. ASSUME NEW p \in Procs, Finish(p) PROVE Ended'
  <2>1. /\ input = msg /\ msg \in Msgs /\ pc' = "notify" /\ input' = NoMsg
        /\ last[Receipt(verdict)] = msg /\ dir[msg] = Directory(Receipt(verdict))
        /\ UNCHANGED <<dir, result, last, next, msg, verdict, from, notices>>
    BY <1>13 DEF Finish, FinishInput
  <2>2. Receipt(verdict) \in Kinds /\ dir[msg] \in {"cur", "failed"}
    BY <2>1, ReceiptDirectory
  <2> QED
    BY <1>13, <2>1, <2>2 DEF Finish
<1>14. ASSUME NEW p \in Procs, Notify(p) PROVE Ended'
  BY <1>14 DEF Notify, Tell, AfterReconcile
<1>15. ASSUME NEW p \in Procs, RecoverInput(p) PROVE Ended'
  <2>1. UNCHANGED <<input, next>> /\ pc' \in Between \ {"notify"}
    BY <1>15 DEF RecoverInput, MoveToNew
  <2>2. \A m \in Msgs \ {input} : dir'[m] = dir[m]
    BY <1>15 DEF RecoverInput, MoveToNew
  <2> QED
    BY <1>15, <2>1, <2>2 DEF RecoverInput
<1>16. ASSUME NEW p \in Procs, Reconcile(p) PROVE Ended'
  BY <1>16 DEF Reconcile, StartInput, Late, AfterReconcile
<1>17. ASSUME NEW p \in Procs, Reopen(p) PROVE Ended'
  BY <1>17 DEF Reopen, MoveToNew
<1>18. ASSUME NEW p \in Procs, Reopened(p) PROVE Ended'
  BY <1>18 DEF Reopened, ForgetReceipt
<1>19. ASSUME NEW p \in Procs, List(p) PROVE Ended'
  BY <1>19 DEF List
<1>20. ASSUME NEW p \in Procs, Pick(p) PROVE Ended'
  BY <1>20 DEF Pick, Withdraw, Queued, Oldest
<1>21. ASSUME NEW p \in Procs, Check(p) PROVE Ended'
  BY <1>21 DEF Check
<1>22. ASSUME NEW p \in Procs, Begin(p) PROVE Ended'
  BY <1>22 DEF Begin, StartInput
<1>23. ASSUME NEW p \in Procs, PasteText(p) PROVE Ended'
  BY <1>23 DEF PasteText
<1>24. ASSUME NEW p \in Procs, Settle(p) PROVE Ended'
  BY <1>24 DEF Settle
<1>25. ASSUME NEW p \in Procs, Abandon(p) PROVE Ended'
  BY <1>25 DEF Abandon
<1>26. ASSUME NEW p \in Procs, WithdrawPaste(p) PROVE Ended'
  BY <1>26 DEF WithdrawPaste
<1>27. ASSUME NEW p \in Procs, PressClear(p) PROVE Ended'
  BY <1>27 DEF PressClear
<1>28. ASSUME NEW p \in Procs, ReadCleared(p) PROVE Ended'
  BY <1>28 DEF ReadCleared
<1>29. ASSUME NEW p \in Procs, SubmitKey(p) PROVE Ended'
  BY <1>29 DEF SubmitKey
<1>30. ASSUME NEW p \in Procs, AwaitReceipt(p) PROVE Ended'
  BY <1>30 DEF AwaitReceipt
<1>31. ASSUME NEW p \in Procs, Report(p) PROVE Ended'
  BY <1>31 DEF Report, Tell, AfterReconcile
<1>32. ASSUME NEW p \in Procs, Relist(p) PROVE Ended'
  BY <1>32 DEF Relist
<1>33. ASSUME NEW p \in Procs, Unlock(p) PROVE Ended'
  BY <1>33 DEF Unlock
<1> QED
  BY <1>1, <1>2, <1>3, <1>4, <1>5, <1>6, <1>7, <1>8, <1>9, <1>10, <1>11, <1>12, <1>13, <1>14,
     <1>15, <1>16, <1>17, <1>18, <1>19, <1>20, <1>21, <1>22, <1>23, <1>24, <1>25, <1>26, <1>27,
     <1>28, <1>29, <1>30, <1>31, <1>32, <1>33 DEF Next, Run, Locked

\* Tell sends a notice about one message, and none about a note.
LEMMA OneTold ==
  ASSUME NEW kind, NEW n, Tell(kind, n), NEW m, Noticed(m)'
  PROVE  Noticed(m) \/ (kind = "outcome" /\ m = n /\ n \notin Notes)
  BY DEF Tell, Noticed

\* Only who settled a message failed or unverified sends its sender a notice (notifySender).
LEMMA UnnoticedStep ==
  ASSUME IInv, Reporting, Ended, Unnoticed, [Next]_vars
  PROVE  Unnoticed'
<1> USE DEF IInv, TypeOK, InboxTypeOK, HolderTypeOK, ProcessTypeOK, Control, BeforeFiling,
        AfterFiling, Typing, Resting, Reporting, Ended, Unnoticed, Noticed, Between
<1>1. CASE UNCHANGED vars \/ Environment
  BY <1>1 DEF vars, Environment
<1>2. ASSUME NEW p \in Procs, NEW m \in Msgs, Send(p, m) PROVE Unnoticed'
  BY <1>2 DEF Send, PublishNew
<1>3. ASSUME NEW p \in Procs, Wake(p) PROVE Unnoticed'
  BY <1>3 DEF Wake
<1>4. ASSUME NEW p \in Procs, TakeLock(p) PROVE Unnoticed'
  BY <1>4 DEF TakeLock
<1>5. ASSUME NEW p \in Procs, FindLocked(p) PROVE Unnoticed'
  BY <1>5 DEF FindLocked
<1>6. ASSUME NEW p \in Procs, Recheck(p) PROVE Unnoticed'
  BY <1>6 DEF Recheck
<1>7. ASSUME NEW p \in Procs, Crash(p) \/ CheckFails(p) PROVE Unnoticed'
  BY <1>7 DEF Crash, CheckFails, Stopped, At, Filed
<1>8. ASSUME NEW p \in Procs, CleanResult(p) PROVE Unnoticed'
  BY <1>8, ZenonT(40) DEF CleanResult, RemoveResult
<1>9. ASSUME NEW p \in Procs, CleanedResult(p) PROVE Unnoticed'
  BY <1>9 DEF CleanedResult, ForgetResult
<1>10. ASSUME NEW p \in Procs, Rewrite(p) PROVE Unnoticed'
  BY <1>10 DEF Rewrite, RewriteResult
<1>11. ASSUME NEW p \in Procs, File(p) PROVE Unnoticed'
  BY <1>11 DEF File, FileResult
<1>12. ASSUME NEW p \in Procs, SaveReceipt(p) PROVE Unnoticed'
  BY <1>12 DEF SaveReceipt, TakeReceipt
<1>13. ASSUME NEW p \in Procs, Finish(p) PROVE Unnoticed'
  <2>1. /\ input = msg /\ msg \in Msgs /\ pc' = "notify" /\ input' = NoMsg
        /\ result[msg] = verdict /\ last[Receipt(verdict)] = msg /\ dir[msg] = Directory(Receipt(verdict))
        /\ UNCHANGED <<dir, result, last, next, msg, verdict, from, notices>>
    BY <1>13 DEF Finish, FinishInput
  <2>2. Receipt(verdict) \in Kinds /\ dir[msg] \in {"cur", "failed"}
    BY <2>1, ReceiptDirectory
  <2> QED
    BY <2>1, <2>2
<1>14. ASSUME NEW p \in Procs, Notify(p) PROVE Unnoticed'
  <2>1. /\ pc = "notify" /\ msg \in Msgs /\ dir[msg] \in {"cur", "failed"} /\ result[msg] = verdict
        /\ pc' \in {"reconcile", "report", "list"}
        /\ UNCHANGED <<inbox, next, msg, verdict, from>>
    BY <1>14 DEF Notify, AfterReconcile, inbox
  <2>2. \A m : Noticed(m)' => Noticed(m) \/ (m = msg /\ msg \notin Notes /\ verdict = "unverified")
    <3>1. \/ UNCHANGED notices \/ Tell("delivered", msg)
          \/ Tell("outcome", msg) /\ verdict = "unverified"
      BY <1>14 DEF Notify
    <3>2. CASE UNCHANGED notices
      BY <3>2 DEF Noticed
    <3>3. CASE Tell("delivered", msg)
      BY <3>3 DEF Tell, Noticed
    <3>4. CASE Tell("outcome", msg) /\ verdict = "unverified"
      <4>1. ASSUME NEW m, Noticed(m)'
            PROVE  Noticed(m) \/ (m = msg /\ msg \notin Notes)
        <5>1. Tell("outcome", msg)
          BY <3>4
        <5> QED
          BY <4>1, <5>1 DEF Tell, Noticed
      <4> QED
        BY <3>4, <4>1
    <3> QED
      BY <3>1, <3>2, <3>3, <3>4
  <2> QED
    BY <2>1, <2>2
<1>15. ASSUME NEW p \in Procs, RecoverInput(p) PROVE Unnoticed'
  BY <1>15 DEF RecoverInput, MoveToNew
<1>16. ASSUME NEW p \in Procs, Reconcile(p) PROVE Unnoticed'
  <2>1. CASE Late = {} /\ UNCHANGED inbox /\ Goto(AfterReconcile)
    BY <1>16, <2>1 DEF Reconcile, AfterReconcile
  <2>2. CASE pc' = "reopen"
    <3>1. PICK k \in Late : StartInput(last[k]) /\ msg' = last[k] /\ from' = k
      BY <1>16, <2>2 DEF Reconcile, AfterReconcile
    <3>2. k \in Kinds /\ last[k] \in Msgs /\ input = NoMsg
      BY <3>1, ZenonT(40) DEF Late, Kinds, StartInput
    <3>3. k = "accepted" => result[last[k]] = "accepted"
      BY <3>2 DEF Receipt
    <3>4. UNCHANGED <<notices, dir, result>> /\ input' = last[k]
      BY <1>16, <3>1 DEF Reconcile, StartInput
    <3> QED
      BY <2>2, <3>1, <3>2, <3>3, <3>4
  <2> QED
    BY <1>16, <2>1, <2>2 DEF Reconcile
<1>17. ASSUME NEW p \in Procs, Reopen(p) PROVE Unnoticed'
  BY <1>17 DEF Reopen, MoveToNew
<1>18. ASSUME NEW p \in Procs, Reopened(p) PROVE Unnoticed'
  BY <1>18 DEF Reopened, ForgetReceipt
<1>19. ASSUME NEW p \in Procs, List(p) PROVE Unnoticed'
  BY <1>19 DEF List
<1>20. ASSUME NEW p \in Procs, Pick(p) PROVE Unnoticed'
  BY <1>20, ZenonT(40) DEF Pick, Withdraw, Queued, Oldest
<1>21. ASSUME NEW p \in Procs, Check(p) PROVE Unnoticed'
  BY <1>21 DEF Check
<1>22. ASSUME NEW p \in Procs, Begin(p) PROVE Unnoticed'
  BY <1>22 DEF Begin, StartInput
<1>23. ASSUME NEW p \in Procs, PasteText(p) PROVE Unnoticed'
  BY <1>23 DEF PasteText
<1>24. ASSUME NEW p \in Procs, Settle(p) PROVE Unnoticed'
  BY <1>24 DEF Settle
<1>25. ASSUME NEW p \in Procs, Abandon(p) PROVE Unnoticed'
  BY <1>25 DEF Abandon
<1>26. ASSUME NEW p \in Procs, WithdrawPaste(p) PROVE Unnoticed'
  BY <1>26 DEF WithdrawPaste
<1>27. ASSUME NEW p \in Procs, PressClear(p) PROVE Unnoticed'
  BY <1>27 DEF PressClear
<1>28. ASSUME NEW p \in Procs, ReadCleared(p) PROVE Unnoticed'
  BY <1>28 DEF ReadCleared
<1>29. ASSUME NEW p \in Procs, SubmitKey(p) PROVE Unnoticed'
  BY <1>29 DEF SubmitKey
<1>30. ASSUME NEW p \in Procs, AwaitReceipt(p) PROVE Unnoticed'
  BY <1>30 DEF AwaitReceipt
<1>31. ASSUME NEW p \in Procs, Report(p) PROVE Unnoticed'
  <2>1. /\ pc = "report" /\ next \in Msgs /\ dir[next] \notin {"unsent", "new"}
        /\ pc' \in {"relist", "list"}
        /\ UNCHANGED <<inbox, next, msg, verdict, from>>
    BY <1>31 DEF Report
  <2>2. \A m : Noticed(m)' =>
          Noticed(m) \/ (m = next /\ next \notin Notes /\ result[next] \in {"failed", "unverified"})
    <3>1. \/ UNCHANGED notices
          \/ Tell("outcome", next) /\ result[next] \in {"failed", "unverified"}
      BY <1>31 DEF Report
    <3>2. CASE UNCHANGED notices
      BY <3>2 DEF Noticed
    <3>3. CASE Tell("outcome", next) /\ result[next] \in {"failed", "unverified"}
      <4>1. ASSUME NEW m, Noticed(m)'
            PROVE  Noticed(m) \/ (m = next /\ next \notin Notes)
        <5>1. Tell("outcome", next)
          BY <3>3
        <5> QED
          BY <4>1, <5>1 DEF Tell, Noticed
      <4> QED
        BY <3>3, <4>1
    <3> QED
      BY <3>1, <3>2, <3>3
  <2> QED
    BY <2>1, <2>2
<1>32. ASSUME NEW p \in Procs, Relist(p) PROVE Unnoticed'
  BY <1>32 DEF Relist
<1>33. ASSUME NEW p \in Procs, Unlock(p) PROVE Unnoticed'
  BY <1>33 DEF Unlock
<1> QED
  BY <1>1, <1>2, <1>3, <1>4, <1>5, <1>6, <1>7, <1>8, <1>9, <1>10, <1>11, <1>12, <1>13, <1>14,
     <1>15, <1>16, <1>17, <1>18, <1>19, <1>20, <1>21, <1>22, <1>23, <1>24, <1>25, <1>26, <1>27,
     <1>28, <1>29, <1>30, <1>31, <1>32, <1>33 DEF Next, Run, Locked

-----------------------------------------------------------------------------
\* A step that settles nothing and tells nobody keeps what is owed.
LEMMA OwingKept ==
  ASSUME Owing, UNCHANGED <<notices, own>>, untold \subseteq untold',
         \A m \in Msgs \ (untold' \cup {input'}) :
           dir'[m] \in {"cur", "failed"} =>
             m # input /\ dir[m] \in {"cur", "failed"} /\ result'[m] = result[m],
         \A m \in Msgs \ (untold' \cup own) : Owed(m) /\ m # input /\ dir[m] \in {"cur", "failed"} => Owed(m)',
         \A m \in Msgs \ (untold' \cup own) :
           m # input /\ dir[m] \in {"cur", "failed"} /\ msg = m /\ pc = "notify" /\ from = "failed" =>
             msg' = m /\ pc' = "notify" /\ from' = "failed"
  PROVE  Owing'
<1>1. ASSUME NEW m \in (Unsettled \ (untold \cup {input}))' PROVE (Noticed(m) \/ m \in own \/ Owed(m))'
  <2>1. m \in Unsettled \ (untold \cup {input}) /\ m \in Msgs \ untold'
    BY <1>1 DEF Unsettled, Filed
  <2>2. Noticed(m) \/ m \in own \/ Owed(m)
    BY <2>1 DEF Owing
  <2> QED
    BY <2>1, <2>2 DEF Unsettled, Filed, Noticed
<1>2. ASSUME NEW m \in (Filed \ (untold \cup {input}))', (result[m] = "delivered" /\ Noticed(m))'
      PROVE  (<<"delivered", m>> \in notices \/ (msg = m /\ pc = "notify" /\ from = "failed" /\ m \notin own))'
  <2>1. m \in Filed \ (untold \cup {input}) /\ m \in Msgs \ untold' /\ result[m] = "delivered" /\ Noticed(m)
    BY <1>2 DEF Filed, Noticed
  <2>2. <<"delivered", m>> \in notices \/ (msg = m /\ pc = "notify" /\ from = "failed" /\ m \notin own)
    BY <2>1 DEF Owing
  <2> QED
    BY <2>1, <2>2 DEF Filed
<1> QED
  BY <1>1, <1>2 DEF Owing

\* Each step settles nothing, or leaves whoever must tell with its report still to make.
LEMMA OwingStep ==
  ASSUME IInv, Held, Reporting, Unnoticed, Owing, [Next]_vars
  PROVE  Owing'
<1> USE DEF IInv, TypeOK, InboxTypeOK, HolderTypeOK, ProcessTypeOK
<1>1. CASE UNCHANGED vars \/ Environment
  <2>1. UNCHANGED <<inbox, process, holder, history>>
    BY <1>1 DEF vars, Environment
  <2> QED
    BY <2>1, OwingKept DEF Owed, history
<1>2. ASSUME NEW p \in Procs,
             \/ Wake(p) \/ TakeLock(p) \/ FindLocked(p) \/ Recheck(p) \/ Unlock(p) \/ CheckFails(p)
             \/ List(p) \/ Check(p) \/ PasteText(p) \/ Settle(p) \/ Abandon(p) \/ WithdrawPaste(p)
             \/ PressClear(p) \/ ReadCleared(p) \/ SubmitKey(p) \/ AwaitReceipt(p) \/ Relist(p)
      PROVE  Owing'
  <2>1. UNCHANGED inbox
    BY <1>2, InboxQuiet
  <2>2. UNCHANGED <<notices, own, untold>>
    BY <1>2 DEF Wake, TakeLock, FindLocked, Recheck, Unlock, CheckFails, Stopped, List, Check, PasteText, Settle, Abandon,
       WithdrawPaste, PressClear, ReadCleared, SubmitKey, AwaitReceipt, Relist
  <2>3. CASE Wake(p) \/ TakeLock(p) \/ FindLocked(p) \/ Recheck(p)
    <3>1. UNCHANGED holder /\ (lock # NoProc => UNCHANGED lock /\ target'[lock] = target[lock])
      BY <2>3 DEF Wake, TakeLock, FindLocked, Recheck, Held
    <3> QED
      BY <2>1, <2>2, <3>1, OwingKept DEF Owed, Held
  <2>4. CASE ~(Wake(p) \/ TakeLock(p) \/ FindLocked(p) \/ Recheck(p))
    <3>1. pc \notin Between
      BY <1>2, <2>4 DEF Unlock, CheckFails, List, Check, PasteText, Settle, Abandon,
         WithdrawPaste, PressClear, ReadCleared, SubmitKey, AwaitReceipt, Relist, Between
    <3>2. \A m \in Msgs : ~Owed(m)
      BY <3>1 DEF Owed, Between
    <3> QED
      BY <2>1, <2>2, <3>1, <3>2, OwingKept DEF Between
  <2> QED
    BY <2>3, <2>4
<1>3. ASSUME NEW p \in Procs, NEW n \in Msgs, Send(p, n) PROVE Owing'
  <2>1. /\ UNCHANGED <<input, result, notices, own, untold, lock, pc, msg, next, from, verdict>>
        /\ dir' = [dir EXCEPT ![n] = "new"]
    BY <1>3 DEF Send, PublishNew
  <2>2. lock # NoProc => target'[lock] = target[lock]
    BY <1>3 DEF Send, Held
  <2>3. input # n
    BY <1>3 DEF Send, PublishNew, Store, InputRecoverable
  <2> QED
    BY <2>1, <2>2, <2>3, OwingKept DEF Owed
<1>4. ASSUME NEW p \in Procs, Crash(p) PROVE Owing'
  <2>1. UNCHANGED <<inbox, notices, own>> /\ untold \subseteq untold'
    BY <1>4 DEF Crash, Stopped
  <2>2. CASE lock = p
    <3>1. \A m \in {next, msg} : m \in Msgs /\ m # input /\ dir[m] \in {"cur", "failed"} /\ m \notin own => m \in untold'
      BY <1>4, <2>2 DEF Crash, Filed
    <3>2. \A m : Owed(m) => m \in {next, msg}
      BY DEF Owed
    <3> QED
      BY <2>1, <3>1, <3>2, OwingKept
  <2>3. CASE lock # p
    <3>1. UNCHANGED <<lock, holder>> /\ (lock # NoProc => target'[lock] = target[lock])
      BY <1>4, <2>3 DEF Crash, Stopped
    <3> QED
      BY <2>1, <3>1, OwingKept DEF Owed
  <2> QED
    BY <2>2, <2>3
<1>5. ASSUME NEW p \in Procs,
             \/ CleanResult(p) \/ CleanedResult(p) \/ Rewrite(p) \/ File(p) \/ SaveReceipt(p)
             \/ RecoverInput(p) \/ Reconcile(p) \/ Reopen(p) \/ Reopened(p)
      PROVE  Owing'
  <2>1. UNCHANGED <<notices, own, untold, lock, target, next>> /\ pc \in Between \ {"notify"}
    BY <1>5 DEF CleanResult, RemoveResult, CleanedResult, ForgetResult, Rewrite, RewriteResult, File, FileResult,
       SaveReceipt, TakeReceipt, RecoverInput, MoveToNew, Reconcile, StartInput, Reopen, Reopened,
       ForgetReceipt, Between
  <2>2. pc' \in Between \/ (next = NoMsg /\ pc' = "list")
    BY <1>5 DEF CleanResult, RemoveResult, CleanedResult, ForgetResult, Rewrite, RewriteResult, File, FileResult,
       SaveReceipt, TakeReceipt, RecoverInput, MoveToNew, Reconcile, StartInput, Reopen, Reopened,
       ForgetReceipt, Between, AfterReconcile
  <2>3. input' = input \/ (input = NoMsg /\ UNCHANGED <<dir, result>>)
    BY <1>5 DEF CleanResult, RemoveResult, CleanedResult, ForgetResult, Rewrite, RewriteResult, File, FileResult,
       SaveReceipt, TakeReceipt, RecoverInput, MoveToNew, Reconcile, StartInput, Reopen, Reopened,
       ForgetReceipt
  <2>4. \A m \in Msgs \ {input} : dir'[m] \in {dir[m], "gone"} /\ result'[m] = result[m]
    <3>1. CASE CleanResult(p) \/ CleanedResult(p) \/ SaveReceipt(p) \/ Reconcile(p) \/ Reopened(p)
      BY <3>1 DEF CleanResult, RemoveResult, CleanedResult, ForgetResult, SaveReceipt, TakeReceipt, Reconcile,
         StartInput, Reopened, ForgetReceipt
    <3>2. CASE Rewrite(p) \/ File(p)
      <4>1. input = msg
        BY <3>2 DEF Rewrite, File, Control, BeforeFiling
      <4> QED
        BY <3>2, <4>1 DEF Rewrite, RewriteResult, File, FileResult
    <3>3. CASE RecoverInput(p) \/ Reopen(p)
      <4>1. Reopen(p) => input = msg
        BY DEF Reopen, Control
      <4>2. UNCHANGED result /\ (UNCHANGED dir \/ dir' = [dir EXCEPT ![input] = "new"])
        BY <3>3, <4>1 DEF RecoverInput, MoveToNew, Reopen
      <4> QED
        BY <4>2
    <3> QED
      BY <1>5, <3>1, <3>2, <3>3
  <2>5. \A m \in Msgs : Owed(m) => Owed(m)'
    BY <2>1, <2>2 DEF Owed
  <2> QED
    BY <2>1, <2>3, <2>4, <2>5, OwingKept, ZenonT(40)
<1>6. ASSUME NEW p \in Procs, Pick(p) \/ Begin(p) PROVE Owing'
  <2>1. UNCHANGED <<notices, own, untold, result>> /\ pc \notin Between
    BY <1>6 DEF Pick, Withdraw, Begin, StartInput, Between
  <2>2. \A m \in Msgs \ {input'} : m # input /\ dir'[m] \in {dir[m], "gone"}
    <3>1. input = NoMsg /\ NoMsg \notin Msgs
      BY <1>6 DEF Pick, Begin, Control, Resting
    <3>2. CASE Pick(p)
      <4>1. input' = input /\ (dir' = dir \/ \E n : dir' = [dir EXCEPT ![n] = "gone"])
        BY <3>2, ZenonT(40) DEF Pick, Withdraw, inbox
      <4>2. \A m \in Msgs : dir'[m] \in {dir[m], "gone"}
        BY <4>1 DEF InboxTypeOK
      <4> QED
        BY <3>1, <4>1, <4>2
    <3>3. CASE Begin(p)
      BY <3>1, <3>3 DEF Begin, StartInput
    <3> QED
      BY <1>6, <3>2, <3>3
  <2>3. \A m \in Msgs : ~Owed(m)
    BY <2>1 DEF Owed, Between
  <2> QED
    BY <2>1, <2>2, <2>3, OwingKept DEF Between
<1>7. ASSUME NEW p \in Procs, Finish(p) PROVE Owing'
  <2>1. /\ input = msg /\ msg \in Msgs /\ pc = "finish" /\ pc' = "notify" /\ input' = NoMsg
        /\ result[msg] = verdict /\ lock = p
        /\ UNCHANGED <<dir, result, last, lock, target, next, msg, verdict, from, notices, untold>>
    BY <1>7 DEF Finish, FinishInput, Control, AfterFiling, Reporting
  <2>2. /\ own' = IF from = "deliver" /\ msg = target[p] THEN own \cup {msg} ELSE own \ {msg}
        /\ from = "deliver" => next = msg
        /\ from \in {"failed", "accepted"} => verdict = "delivered"
        /\ from = "recover" => verdict \in {"accepted", "unverified"}
        /\ from \in {"deliver", "accepted"} => ~Noticed(msg)
    BY <1>7 DEF Finish, Control, AfterFiling, Reporting, Unnoticed
  <2>3. from \in {"deliver", "recover", "failed", "accepted"}
    BY DEF Behalf
  <2>4. ASSUME NEW m \in (Unsettled \ (untold \cup {input}))' PROVE (Noticed(m) \/ m \in own \/ Owed(m))'
    <3>1. m \in Unsettled \ untold /\ m \in Msgs
      BY <2>1, <2>4 DEF Unsettled, Filed
    <3>2. CASE m = msg
      BY <2>1, <2>2, <2>3, <3>1, <3>2 DEF Owed, Between, Unsettled
    <3>3. CASE m # msg
      <4>1. Noticed(m) \/ m \in own \/ Owed(m)
        BY <2>1, <3>1, <3>3 DEF Owing
      <4> QED
        BY <2>1, <2>2, <3>3, <4>1 DEF Owed, Between, Noticed
    <3> QED
      BY <3>2, <3>3
  <2>5. ASSUME NEW m \in (Filed \ (untold \cup {input}))', (result[m] = "delivered" /\ Noticed(m))'
        PROVE  (<<"delivered", m>> \in notices \/ (msg = m /\ pc = "notify" /\ from = "failed" /\ m \notin own))'
    <3>1. m \in Filed \ untold /\ m \in Msgs /\ result[m] = "delivered" /\ Noticed(m)
      BY <2>1, <2>5 DEF Filed, Noticed
    <3>2. CASE m = msg
      BY <2>1, <2>2, <2>3, <3>1, <3>2
    <3>3. CASE m # msg
      BY <2>1, <3>1, <3>3 DEF Owing
    <3> QED
      BY <3>2, <3>3
  <2> QED
    BY <2>4, <2>5 DEF Owing
<1>8. ASSUME NEW p \in Procs, Notify(p) \/ Report(p) PROVE Owing'
  <2>1. /\ UNCHANGED <<dir, result, input, lock, target, next, msg, verdict, from, own, untold>>
        /\ lock = p /\ notices \subseteq notices'
    BY <1>8, InboxQuiet DEF Notify, Report, Tell
  <2>2. \A m \in Msgs : Owed(m) /\ m \notin Notes /\ result[m] \in {"failed", "unverified"} => Noticed(m)' \/ Owed(m)'
    <3>1. CASE Notify(p)
      BY <2>1, <3>1 DEF Notify, AfterReconcile, Tell, Noticed, Owed, Between
    <3>2. CASE Report(p)
      BY <2>1, <3>2 DEF Report, Tell, Noticed, Owed
    <3> QED
      BY <1>8, <3>1, <3>2
  <2>3. \A m \in Msgs : result[m] = "delivered" /\ Noticed(m)' => Noticed(m)
    <3>1. CASE Notify(p)
      <4>1. verdict = "unverified" => result[msg] = "unverified"
        BY <3>1 DEF Notify, Reporting
      <4>2. UNCHANGED notices \/ Tell("delivered", msg) \/ (Tell("outcome", msg) /\ verdict = "unverified")
        BY <3>1 DEF Notify
      <4> QED
        BY <4>1, <4>2, OneTold, ZenonT(40) DEF Noticed
    <3>2. CASE Report(p)
      <4>1. UNCHANGED notices \/ (Tell("outcome", next) /\ result[next] \in {"failed", "unverified"})
        BY <3>2 DEF Report
      <4>2. ASSUME NEW m \in Msgs, result[m] = "delivered", Noticed(m)' PROVE Noticed(m)
        BY <4>1, <4>2, OneTold DEF Noticed
      <4> QED
        BY <4>2
    <3> QED
      BY <1>8, <3>1, <3>2
  <2>4. msg \notin Notes /\ pc = "notify" /\ from = "failed" => <<"delivered", msg>> \in notices'
    BY <1>8 DEF Notify, Report, Tell
  <2>5. ASSUME NEW m \in (Unsettled \ (untold \cup {input}))' PROVE (Noticed(m) \/ m \in own \/ Owed(m))'
    <3>1. m \in Unsettled \ (untold \cup {input}) /\ m \in Msgs \ Notes /\ result[m] \in {"failed", "unverified"}
      BY <2>1, <2>5 DEF Unsettled, Filed
    <3>2. Noticed(m) \/ m \in own \/ Owed(m)
      BY <3>1 DEF Owing
    <3> QED
      BY <2>1, <2>2, <3>1, <3>2 DEF Noticed
  <2>6. ASSUME NEW m \in (Filed \ (untold \cup {input}))', (result[m] = "delivered" /\ Noticed(m))'
        PROVE  (<<"delivered", m>> \in notices \/ (msg = m /\ pc = "notify" /\ from = "failed" /\ m \notin own))'
    <3>1. m \in Filed \ (untold \cup {input}) /\ m \in Msgs /\ result[m] = "delivered"
      BY <2>1, <2>6 DEF Filed
    <3>2. Noticed(m)
      BY <2>3, <2>6, <3>1
    <3>3. m \notin Notes
      BY <3>2 DEF Unnoticed
    <3>4. <<"delivered", m>> \in notices \/ (msg = m /\ pc = "notify" /\ from = "failed" /\ m \notin own)
      BY <3>1, <3>2 DEF Owing
    <3> QED
      BY <2>1, <2>4, <3>3, <3>4
  <2> QED
    BY <2>5, <2>6 DEF Owing
<1> QED
  BY <1>1, <1>2, <1>3, <1>4, <1>5, <1>6, <1>7, <1>8 DEF Next, Run, Locked

-----------------------------------------------------------------------------
LEMMA TellingAtFirst == Init => Telling
<1> SUFFICES ASSUME Init PROVE Telling
  OBVIOUS
<1> USE DEF Init, InboxInit
<1>1. Held /\ Reporting
  BY DEF Held, Reporting, AfterFiling, BeforeFiling
<1>2. Ended /\ Unnoticed
  BY DEF Ended, Unnoticed, Noticed, AfterFiling, BeforeFiling, Typing
<1>3. Owing
  BY DEF Owing, Unsettled, Filed
<1> QED
  BY <1>1, <1>2, <1>3 DEF Telling

(* With the agent unlocked every sender of a failed or unverified message  *)
(* was told, and told again when proof came after all, unless the owner    *)
(* that settled it died first (delivery.go:423, late_delivery.go:33).      *)
THEOREM SendersAlwaysTold == Spec => []SendersTold
<1>1. IInv /\ Telling /\ [Next]_vars => Telling'
  BY HeldStep, ReportingStep, EndedStep, UnnoticedStep, OwingStep DEF Telling
<1>2. IInv /\ Telling => SendersTold
  <2> SUFFICES ASSUME IInv, Telling PROVE SendersTold
    OBVIOUS
  <2>1. lock = NoProc => pc # "notify" /\ \A m \in Msgs : ~Owed(m)
    BY DEF IInv, Control, Telling, Held, Owed
  <2> QED
    BY <2>1 DEF Telling, Owing, SendersTold, SenderTold, ConfirmationTold, Noticed, Unsettled, Filed
<1> QED
  BY TellingAtFirst, <1>1, <1>2, Invariant, PTL DEF Spec

-----------------------------------------------------------------------------
(* The table of receipts (MessageReceipts): every durable write, key and   *)
(* crash is a step of docs/concepts.md's table, or leaves it alone.        *)
(*                                                                         *)
(* What a step of the table needs to know besides: a filed envelope has    *)
(* its outcome, an accepted one had its key pressed, a receipt is deleted  *)
(* only to make way for the open input, and whatever carries a message to  *)
(* the harness was pasted.                                                 *)

Recorded ==
  /\ \A m \in Msgs : dir[m] \in {"cur", "failed"} /\ m # input => result[m] \in Outcomes
  /\ pc = "file" \/ AfterFiling => result[msg] = verdict
  /\ cleanup # {} => input # NoMsg
  /\ \A x, y \in cleanup : x = y

Accepted ==
  /\ \A m \in Msgs : result[m] = "accepted" => m \in keyed
  /\ BeforeFiling /\ verdict = "accepted" => msg \in keyed
  /\ pc = "await" => next \in keyed

Carried ==
  /\ Typing /\ pc # "paste" => pastes[next] > 0
  /\ \A t \in queue \cup {composer} : t.msg \in Msgs => pastes[t.msg] > 0
  /\ pc = "submit" => composer.msg \in {next, NoMsg}

Details == Recorded /\ Accepted /\ Carried

LEMMA DetailsAtFirst == Init => Details
<1> SUFFICES ASSUME Init PROVE Details
  OBVIOUS
<1> USE DEF Init, InboxInit, HarnessInit
<1>1. Recorded
  BY DEF Recorded, AfterFiling
<1>2. Accepted
  BY DEF Accepted, BeforeFiling
<1>3. Carried
  <2>1. queue \cup {composer} = {Empty} /\ Empty.msg = NoMsg
    BY DEF Empty
  <2>2. QED
    BY <2>1 DEF Carried, Typing
<1>4. QED
  BY <1>1, <1>2, <1>3 DEF Details

LEMMA RecordedStep ==
  ASSUME IInv, Recorded, [Next]_vars
  PROVE  Recorded'
<1> USE DEF IInv, TypeOK, Recorded
<1>1. ASSUME UNCHANGED inbox,
             pc' = "file" \/ AfterFiling' =>
               (pc = "file" \/ AfterFiling) /\ msg' = msg /\ verdict' = verdict
      PROVE  Recorded'
  BY <1>1
<1>2. CASE UNCHANGED vars \/ Environment
  BY <1>1, <1>2 DEF vars, Environment, AfterFiling
<1>3. ASSUME NEW p \in Procs, NEW m \in Msgs, Send(p, m) PROVE Recorded'
  BY <1>3 DEF Send, PublishNew, InboxTypeOK, AfterFiling
<1>4. ASSUME NEW p \in Procs,
             \/ Notify(p) \/ List(p) \/ Check(p) \/ PasteText(p) \/ Settle(p) \/ Abandon(p)
             \/ WithdrawPaste(p) \/ PressClear(p) \/ ReadCleared(p) \/ SubmitKey(p)
             \/ AwaitReceipt(p) \/ Report(p) \/ Relist(p) \/ Unlock(p)
             \/ TakeLock(p) \/ FindLocked(p) \/ Recheck(p) \/ Wake(p) \/ Crash(p) \/ CheckFails(p)
      PROVE  Recorded'
  <2>1. UNCHANGED inbox
    BY <1>4, InboxQuiet
  <2>2. pc' = "file" \/ AfterFiling' =>
          (pc = "file" \/ AfterFiling) /\ msg' = msg /\ verdict' = verdict
    BY <1>4 DEF Notify, List, Check, PasteText, Settle, Abandon, WithdrawPaste, PressClear, ReadCleared,
       SubmitKey, AwaitReceipt, Report, Relist, Unlock, TakeLock, FindLocked, Recheck, Wake, Crash, CheckFails, Stopped,
       AfterReconcile, AfterFiling
  <2>3. QED
    BY <1>1, <2>1, <2>2
<1>5. ASSUME NEW p \in Procs, CleanResult(p) PROVE Recorded'
  <2>1. pc' = "file" \/ AfterFiling' => AfterFiling /\ msg' = msg /\ verdict' = verdict
    BY <1>5 DEF CleanResult, HolderTypeOK, AfterFiling
  <2>2. /\ UNCHANGED <<result, input, cleanup>>
        /\ \A m \in Msgs : dir'[m] \in {"cur", "failed"} => dir'[m] = dir[m]
    BY <1>5 DEF CleanResult, RemoveResult
  <2>3. QED
    BY <2>1, <2>2
<1>6. ASSUME NEW p \in Procs, CleanedResult(p) PROVE Recorded'
  <2>1. pc' = "file" \/ AfterFiling' => AfterFiling /\ msg' = msg /\ verdict' = verdict
    BY <1>6 DEF CleanedResult, HolderTypeOK, AfterFiling
  <2>2. UNCHANGED <<dir, result, input>> /\ cleanup' = {}
    BY <1>6 DEF CleanedResult, ForgetResult
  <2>3. QED
    BY <2>1, <2>2
<1>7. ASSUME NEW p \in Procs, Rewrite(p) PROVE Recorded'
  <2>1. /\ msg \in Msgs /\ input = msg /\ result' = [result EXCEPT ![msg] = verdict]
        /\ pc' = "file" /\ UNCHANGED <<dir, input, cleanup, msg, verdict>>
    BY <1>7 DEF Rewrite, RewriteResult, Control, BeforeFiling
  <2>2. QED
    BY <2>1 DEF InboxTypeOK
<1>8. ASSUME NEW p \in Procs, File(p) PROVE Recorded'
  <2>1. /\ msg \in Msgs /\ input = msg /\ pc = "file"
        /\ \A m \in Msgs : m # msg => dir'[m] = dir[m]
        /\ UNCHANGED <<result, input, cleanup, msg, verdict>>
    BY <1>8 DEF File, FileResult, Control, BeforeFiling, InboxTypeOK
  <2>2. QED
    BY <2>1
<1>9. ASSUME NEW p \in Procs, SaveReceipt(p) PROVE Recorded'
  <2>1. /\ UNCHANGED <<dir, result, input, msg, verdict>> /\ AfterFiling /\ input = msg /\ msg \in Msgs
        /\ cleanup' = cleanup \/ \E x : cleanup' = {x}
    BY <1>9 DEF SaveReceipt, TakeReceipt, Control, AfterFiling
  <2>2. QED
    BY <2>1
<1>10. ASSUME NEW p \in Procs, Finish(p) PROVE Recorded'
  <2>1. /\ msg \in Msgs /\ input = msg /\ result[msg] = verdict /\ cleanup = {}
        /\ pc' = "notify" /\ UNCHANGED <<dir, result, cleanup>>
    BY <1>10 DEF Finish, FinishInput, Control, AfterFiling
  <2>2. verdict \in Outcomes
    BY DEF HolderTypeOK
  <2>3. QED
    BY <2>1, <2>2 DEF AfterFiling
<1>11. ASSUME NEW p \in Procs, RecoverInput(p) PROVE Recorded'
  <2>1. /\ UNCHANGED <<result, input, cleanup>>
        /\ UNCHANGED dir \/ dir' = [dir EXCEPT ![input] = "new"]
    BY <1>11 DEF RecoverInput, MoveToNew
  <2>2. pc' # "file" /\ ~AfterFiling'
    BY <1>11 DEF RecoverInput, AfterFiling
  <2>3. QED
    BY <2>1, <2>2 DEF InboxTypeOK
<1>12. ASSUME NEW p \in Procs, Reconcile(p) PROVE Recorded'
  <2>1. /\ UNCHANGED <<dir, result, cleanup>>
        /\ UNCHANGED input \/ input = NoMsg
    BY <1>12 DEF Reconcile, StartInput
  <2>2. pc' # "file" /\ ~AfterFiling'
    BY <1>12 DEF Reconcile, AfterReconcile, AfterFiling
  <2>3. input = NoMsg => cleanup = {}
    OBVIOUS
  <2>4. UNCHANGED input \/ input' # NoMsg
    BY <1>12 DEF Reconcile, StartInput, Late
  <2>5. QED
    BY <2>1, <2>2, <2>3, <2>4
<1>13. ASSUME NEW p \in Procs, Reopen(p) \/ Reopened(p) PROVE Recorded'
  <2>1. input = msg
    BY <1>13 DEF Reopen, Reopened, Control
  <2>2. /\ UNCHANGED <<result, input, cleanup>>
        /\ UNCHANGED dir \/ dir' = [dir EXCEPT ![msg] = "new"]
    BY <1>13 DEF Reopen, MoveToNew, Reopened, ForgetReceipt
  <2>3. pc' # "file" /\ ~AfterFiling'
    BY <1>13 DEF Reopen, Reopened, AfterFiling
  <2>4. QED
    BY <2>1, <2>2, <2>3 DEF InboxTypeOK
<1>14. ASSUME NEW p \in Procs, Pick(p) PROVE Recorded'
  <2>1. /\ UNCHANGED <<result, input, cleanup>>
        /\ \A m \in Msgs : dir'[m] = dir[m] \/ dir'[m] = "gone"
    BY <1>14 DEF Pick, Withdraw, InboxTypeOK
  <2>2. pc' # "file" /\ ~AfterFiling'
    BY <1>14 DEF Pick, AfterFiling
  <2>3. QED
    BY <2>1, <2>2
<1>15. ASSUME NEW p \in Procs, Begin(p) PROVE Recorded'
  <2>1. input = NoMsg /\ UNCHANGED <<dir, result, cleanup>>
    BY <1>15 DEF Begin, StartInput
  <2>2. pc' # "file" /\ ~AfterFiling'
    BY <1>15 DEF Begin, AfterFiling
  <2>3. QED
    BY <2>1, <2>2
<1>16. QED
  BY <1>2, <1>3, <1>4, <1>5, <1>6, <1>7, <1>8, <1>9, <1>10, <1>11, <1>12, <1>13, <1>14, <1>15
     DEF Next, Run, Locked

LEMMA AcceptedStep ==
  ASSUME IInv, Accepted, [Next]_vars
  PROVE  Accepted'
<1> USE DEF IInv, TypeOK, Accepted
<1>1. ASSUME UNCHANGED result, keyed \subseteq keyed',
             BeforeFiling' /\ verdict' = "accepted" =>
               \/ BeforeFiling /\ verdict = "accepted" /\ msg' = msg
               \/ msg' \in keyed,
             pc' = "await" => next' \in keyed'
      PROVE  Accepted'
  BY <1>1
<1>2. CASE UNCHANGED vars \/ Environment
  BY <1>1, <1>2 DEF vars, Environment, BeforeFiling
<1>3. ASSUME NEW p \in Procs, NEW m \in Msgs, Send(p, m) PROVE Accepted'
  BY <1>1, <1>3 DEF Send, PublishNew, BeforeFiling
<1>4. ASSUME NEW p \in Procs,
             \/ Notify(p) \/ List(p) \/ Check(p) \/ PasteText(p) \/ Settle(p) \/ Abandon(p)
             \/ WithdrawPaste(p) \/ PressClear(p) \/ ReadCleared(p)
             \/ AwaitReceipt(p) \/ Report(p) \/ Relist(p) \/ Unlock(p)
             \/ TakeLock(p) \/ FindLocked(p) \/ Recheck(p) \/ Wake(p) \/ Crash(p) \/ CheckFails(p)
      PROVE  Accepted'
  <2>1. UNCHANGED inbox
    BY <1>4, InboxQuiet
  <2>2. UNCHANGED keyed
    BY <1>4 DEF Notify, List, Check, PasteText, Settle, Abandon, WithdrawPaste, PressClear, ReadCleared,
       AwaitReceipt, Report, Relist, Unlock, TakeLock, FindLocked, Recheck, Wake, Crash, CheckFails, Stopped
  <2>3. pc' = "await" => pc = "await" /\ next' = next
    BY <1>4 DEF Notify, List, Check, PasteText, Settle, Abandon, WithdrawPaste, PressClear, ReadCleared,
       AwaitReceipt, Report, Relist, Unlock, TakeLock, FindLocked, Recheck, Wake, Crash, CheckFails, Stopped, AfterReconcile
  <2>4. BeforeFiling' /\ verdict' = "accepted" =>
          \/ BeforeFiling /\ verdict = "accepted" /\ msg' = msg
          \/ pc = "await" /\ msg' = next
    BY <1>4 DEF Notify, List, Check, PasteText, Settle, Abandon, WithdrawPaste, PressClear, ReadCleared,
       AwaitReceipt, Report, Relist, Unlock, TakeLock, FindLocked, Recheck, Wake, Crash, CheckFails, Stopped,
       AfterReconcile, BeforeFiling
  <2>5. QED
    BY <1>1, <2>1, <2>2, <2>3, <2>4
<1>5. ASSUME NEW p \in Procs,
             CleanResult(p) \/ CleanedResult(p) \/ File(p) \/ SaveReceipt(p) \/ Finish(p)
      PROVE  Accepted'
  <2>1. UNCHANGED keyed
    BY <1>5 DEF CleanResult, CleanedResult, File, SaveReceipt, Finish
  <2>2. UNCHANGED result
    <3>1. CASE CleanResult(p) \/ CleanedResult(p)
      BY <3>1 DEF CleanResult, RemoveResult, CleanedResult, ForgetResult
    <3>2. CASE File(p) \/ SaveReceipt(p) \/ Finish(p)
      BY <3>2 DEF File, FileResult, SaveReceipt, TakeReceipt, Finish, FinishInput
    <3>3. QED
      BY <1>5, <3>1, <3>2
  <2>3. /\ BeforeFiling' => BeforeFiling /\ verdict' = verdict /\ msg' = msg
        /\ pc' # "await"
    BY <1>5 DEF CleanResult, CleanedResult, File, SaveReceipt, Finish, HolderTypeOK, BeforeFiling
  <2>4. QED
    BY <1>1, <2>1, <2>2, <2>3
<1>6. ASSUME NEW p \in Procs, RecoverInput(p) PROVE Accepted'
  <2>1. UNCHANGED <<result, keyed>> /\ pc' # "await"
    BY <1>6 DEF RecoverInput, MoveToNew
  <2>2. BeforeFiling' /\ verdict' = "accepted" => msg' \in Msgs /\ result[msg'] = "accepted"
    BY <1>6 DEF RecoverInput, BeforeFiling, InboxTypeOK
  <2>3. QED
    BY <1>1, <2>1, <2>2
<1>7. ASSUME NEW p \in Procs, Reconcile(p) \/ Reopen(p) \/ Reopened(p) \/ Pick(p) \/ Begin(p)
      PROVE  Accepted'
  <2>1. UNCHANGED <<result, keyed>>
    BY <1>7 DEF Reconcile, StartInput, Reopen, MoveToNew, Reopened, ForgetReceipt, Pick, Withdraw, Begin
  <2>2. ~(BeforeFiling' /\ verdict' = "accepted") /\ pc' # "await"
    BY <1>7 DEF Reconcile, Reopen, Reopened, Pick, Begin, AfterReconcile, BeforeFiling
  <2>3. QED
    BY <1>1, <2>1, <2>2
<1>8. ASSUME NEW p \in Procs, Rewrite(p) PROVE Accepted'
  <2>1. /\ msg \in Msgs /\ BeforeFiling /\ result' = [result EXCEPT ![msg] = verdict]
        /\ pc' = "file" /\ UNCHANGED <<msg, verdict, keyed>>
    BY <1>8 DEF Rewrite, RewriteResult, Control, BeforeFiling
  <2>2. QED
    BY <2>1 DEF InboxTypeOK
<1>9. ASSUME NEW p \in Procs, SubmitKey(p) PROVE Accepted'
  <2>1. keyed' = keyed \cup {next} /\ UNCHANGED <<result, next>>
    BY <1>9 DEF SubmitKey
  <2>2. ~(BeforeFiling' /\ verdict' = "accepted")
    BY <1>9 DEF SubmitKey, BeforeFiling
  <2>3. QED
    BY <1>1, <2>1, <2>2
<1>10. QED
  BY <1>2, <1>3, <1>4, <1>5, <1>6, <1>7, <1>8, <1>9 DEF Next, Run, Locked

\* Only a paste puts a message in the composer.
LEMMA HarnessCarries ==
  ASSUME HarnessNext \/ Enter \/ ClearKeys \/ ReadWitness \/ UNCHANGED harness
  PROVE  queue' \subseteq queue \cup {composer} /\ composer' \in {composer, Empty, Draft}
<1>1. CASE Enter \/ ClearKeys \/ ReadWitness \/ UNCHANGED harness
  BY <1>1 DEF Enter, ClearKeys, ReadWitness
<1>2. CASE OperatorTypes \/ OperatorSubmits \/ OperatorClears \/ SurfaceChanges
  BY <1>2 DEF OperatorTypes, OperatorSubmits, OperatorClears, SurfaceChanges, Enter, ClearKeys
<1>3. ASSUME NEW t \in Text, RunQueued(t) \/ HookWrites(t) \/ HookLost(t)
      PROVE  queue' \subseteq queue \cup {composer} /\ composer' \in {composer, Empty, Draft}
  BY <1>3 DEF RunQueued, HookWrites, HookLost
<1>4. QED
  BY <1>1, <1>2, <1>3 DEF HarnessNext

LEMMA CarriedStep ==
  ASSUME IInv, Carried, [Next]_vars
  PROVE  Carried'
<1> USE DEF IInv, TypeOK, Carried
<1>0. Empty.msg = NoMsg /\ Draft.msg = NoMsg
  BY DEF Empty, Draft
<1>1. ASSUME HarnessNext \/ Enter \/ ClearKeys \/ ReadWitness \/ UNCHANGED harness,
             UNCHANGED pastes,
             Typing' /\ pc' # "paste" => Typing /\ pc # "paste" /\ next' = next,
             pc' = "submit" => pc = "submit" \/ composer.msg = next
      PROVE  Carried'
  <2>1. queue' \subseteq queue \cup {composer} /\ composer' \in {composer, Empty, Draft}
    BY <1>1, HarnessCarries
  <2>2. \A t \in queue' \cup {composer'} : t.msg \in Msgs => pastes'[t.msg] > 0
    BY <1>0, <1>1, <2>1
  <2>3. pc' = "submit" => composer'.msg \in {next', NoMsg}
    BY <1>0, <1>1, <2>1 DEF Typing
  <2>4. Typing' /\ pc' # "paste" => pastes'[next'] > 0
    BY <1>1
  <2>5. QED
    BY <2>2, <2>3, <2>4
<1>2. CASE UNCHANGED vars \/ Environment
  BY <1>1, <1>2 DEF vars, Environment, Typing
<1>3. ASSUME NEW p \in Procs, NEW m \in Msgs, Send(p, m) PROVE Carried'
  BY <1>1, <1>3 DEF Send, Typing
<1>4. ASSUME NEW p \in Procs,
             \/ Notify(p) \/ List(p) \/ Check(p) \/ Settle(p) \/ Abandon(p)
             \/ WithdrawPaste(p) \/ PressClear(p) \/ ReadCleared(p) \/ SubmitKey(p)
             \/ AwaitReceipt(p) \/ Report(p) \/ Relist(p) \/ Unlock(p)
             \/ TakeLock(p) \/ FindLocked(p) \/ Recheck(p) \/ Wake(p) \/ Crash(p) \/ CheckFails(p)
      PROVE  Carried'
  <2>1. UNCHANGED pastes
    BY <1>4 DEF Notify, List, Check, Settle, Abandon, WithdrawPaste, PressClear, ReadCleared,
       SubmitKey, AwaitReceipt, Report, Relist, Unlock, TakeLock, FindLocked, Recheck, Wake, Crash, CheckFails, Stopped
  <2>2. Enter \/ ClearKeys \/ ReadWitness \/ UNCHANGED harness
    BY <1>4 DEF Notify, List, Check, Settle, Abandon, WithdrawPaste, PressClear, ReadCleared,
       SubmitKey, AwaitReceipt, Report, Relist, Unlock, TakeLock, FindLocked, Recheck, Wake, Crash, CheckFails, Stopped
  <2>3. Typing' /\ pc' # "paste" => Typing /\ pc # "paste" /\ next' = next
    BY <1>4 DEF Notify, List, Check, Settle, Abandon, WithdrawPaste, PressClear, ReadCleared,
       SubmitKey, AwaitReceipt, Report, Relist, Unlock, TakeLock, FindLocked, Recheck, Wake, Crash, CheckFails, Stopped,
       AfterReconcile, Typing
  <2>4. pc' = "submit" => pc = "submit" \/ composer.msg = next
    BY <1>4 DEF Notify, List, Check, Settle, Abandon, WithdrawPaste, PressClear, ReadCleared,
       SubmitKey, AwaitReceipt, Report, Relist, Unlock, TakeLock, FindLocked, Recheck, Wake, Crash, CheckFails, Stopped,
       AfterReconcile, PasteShown
  <2>5. QED
    BY <1>1, <2>1, <2>2, <2>3, <2>4
<1>5. ASSUME NEW p \in Procs,
             \/ CleanResult(p) \/ CleanedResult(p) \/ Rewrite(p) \/ File(p) \/ SaveReceipt(p) \/ Finish(p)
             \/ RecoverInput(p) \/ Reconcile(p) \/ Reopen(p) \/ Reopened(p) \/ Pick(p)
      PROVE  Carried'
  <2>1. UNCHANGED harness /\ UNCHANGED pastes
    BY <1>5 DEF CleanResult, CleanedResult, Rewrite, File, SaveReceipt, Finish, RecoverInput, Reconcile,
       Reopen, Reopened, Pick
  <2>2. ~Typing'
    BY <1>5 DEF CleanResult, CleanedResult, Rewrite, File, SaveReceipt, Finish, RecoverInput, Reconcile,
       Reopen, Reopened, Pick, AfterReconcile, HolderTypeOK, Typing
  <2>3. QED
    BY <1>1, <2>1, <2>2 DEF Typing
<1>6. ASSUME NEW p \in Procs, Begin(p) PROVE Carried'
  BY <1>1, <1>6 DEF Begin, Typing
<1>7. ASSUME NEW p \in Procs, PasteText(p) PROVE Carried'
  <2>1. /\ next \in Msgs /\ next' = next /\ pc' # "submit"
        /\ Paste(next) \/ UNCHANGED harness
    BY <1>7 DEF PasteText, Control, Typing
  <2>2. \A m \in Msgs : pastes'[m] > 0 <=> m = next \/ pastes[m] > 0
    BY <1>7, <2>1 DEF PasteText, HistoryTypeOK
  <2>3. \A t \in queue' \cup {composer'} : t.msg = next \/ t \in queue \cup {composer}
    BY <2>1 DEF Paste
  <2>4. QED
    BY <2>1, <2>2, <2>3
<1>8. QED
  BY <1>2, <1>3, <1>4, <1>5, <1>6, <1>7 DEF Next, Run, Locked

\* Everything known of delivery, in one invariant.
AllKnown == IInv /\ Unkeyed /\ Proven /\ Details

LEMMA AllInductive == AllKnown /\ [Next]_vars => AllKnown'
  BY Inductive, KeyStep, ProofStep, RecordedStep, AcceptedStep, CarriedStep DEF AllKnown, Details

-----------------------------------------------------------------------------
(* The refinement mapping.  Status depends on the files and the open input *)
(* alone, so most steps only have to say what they do to those.            *)

LEMMA StatusTypes ==
  ASSUME TypeOK, NEW m \in Msgs
  PROVE  Status(m) = "open" <=> input = m
  BY DEF TypeOK, InboxTypeOK, Status, Outcomes, Kinds

Stutters == UNCHANGED Promise!vars

LEMMA NothingSeen ==
  ASSUME UNCHANGED <<pastes, keyed, ran>>, \A m \in Msgs : Status(m)' = Status(m)
  PROVE  Stutters
<1>1. [m \in Msgs |-> Status(m)]' = [m \in Msgs |-> Status(m)]
  OBVIOUS
<1>2. {m \in Msgs : pastes[m] > 0}' = {m \in Msgs : pastes[m] > 0}
  OBVIOUS
<1>3. {m \in Msgs : Exactly(m) \in ran}' = {m \in Msgs : Exactly(m) \in ran}
  BY DEF Exactly
<1>4. QED
  BY <1>1, <1>2, <1>3 DEF Stutters, Promise!vars

\* One message moves in the table and nothing is typed, keyed or submitted.
LEMMA OneMoves ==
  ASSUME UNCHANGED <<pastes, keyed, ran>>, NEW m \in Msgs, NEW s,
         Status(m)' = s, \A n \in Msgs \ {m} : Status(n)' = Status(n)
  PROVE  /\ Promise!Becomes(m, s)
         /\ UNCHANGED <<{n \in Msgs : pastes[n] > 0}, keyed, {n \in Msgs : Exactly(n) \in ran}>>
<1>1. [n \in Msgs |-> Status(n)]' = [[n \in Msgs |-> Status(n)] EXCEPT ![m] = s]
  OBVIOUS
<1>2. {n \in Msgs : Exactly(n) \in ran}' = {n \in Msgs : Exactly(n) \in ran}
  BY DEF Exactly
<1>3. QED
  BY <1>1, <1>2 DEF Promise!Becomes

\* What the harness submits, it was given by a paste.
LEMMA Submits ==
  ASSUME AllKnown, NEW t \in queue \cup {composer}, ran' = ran \cup {t},
         UNCHANGED <<inbox, pastes, keyed>>
  PROVE  Promise!Next \/ Stutters
<1> USE DEF AllKnown, IInv, TypeOK
<1>1. \A m \in Msgs : Status(m)' = Status(m)
  BY DEF Status
<1>2. [m \in Msgs |-> Status(m)]' = [m \in Msgs |-> Status(m)]
  BY <1>1
<1>3. {m \in Msgs : pastes[m] > 0}' = {m \in Msgs : pastes[m] > 0}
  OBVIOUS
<1>4. CASE \E m \in Msgs : t = Exactly(m)
  <2>1. PICK m \in Msgs : t = Exactly(m)
    BY <1>4
  <2>2. pastes[m] > 0
    BY <2>1 DEF Details, Carried, Exactly
  <2>3. \A n \in Msgs : Exactly(n) = Exactly(m) => n = m
    BY DEF Exactly
  <2>4. {n \in Msgs : Exactly(n) \in ran}' = {n \in Msgs : Exactly(n) \in ran} \cup {m}
    <3>1. \A n \in Msgs : Exactly(n)' \in ran' <=> Exactly(n) \in ran \/ n = m
      BY <2>1, <2>3 DEF Exactly
    <3>2. QED
      BY <3>1
  <2>5. Promise!Prove(m)
    BY <1>2, <1>3, <2>2, <2>4 DEF Promise!Prove
  <2>6. QED
    BY <2>5 DEF Promise!Next
<1>5. CASE ~ \E m \in Msgs : t = Exactly(m)
  <2>1. {n \in Msgs : Exactly(n) \in ran}' = {n \in Msgs : Exactly(n) \in ran}
    <3>1. \A n \in Msgs : Exactly(n)' \in ran' <=> Exactly(n) \in ran
      BY <1>5 DEF Exactly
    <3>2. QED
      BY <3>1
  <2>2. QED
    BY <1>2, <1>3, <2>1 DEF Stutters, Promise!vars
<1>6. QED
  BY <1>4, <1>5

LEMMA EnvironmentKeeps ==
  ASSUME AllKnown, Environment
  PROVE  Promise!Next \/ Stutters
<1>1. UNCHANGED <<inbox, pastes, keyed>>
  BY DEF Environment
<1>2. ran' = ran \/ \E t \in queue \cup {composer} : ran' = ran \cup {t}
  <2>1. CASE OperatorTypes \/ OperatorClears \/ SurfaceChanges
    BY <2>1 DEF OperatorTypes, OperatorClears, SurfaceChanges, ClearKeys
  <2>2. CASE OperatorSubmits
    BY <2>2 DEF OperatorSubmits, Enter
  <2>3. ASSUME NEW t \in Text, RunQueued(t) \/ HookWrites(t) \/ HookLost(t)
        PROVE  ran' = ran \/ \E u \in queue \cup {composer} : ran' = ran \cup {u}
    BY <2>3 DEF RunQueued, HookWrites, HookLost
  <2>4. QED
    BY <2>1, <2>2, <2>3 DEF Environment, HarnessNext
<1>3. CASE ran' = ran
  <2>1. \A m \in Msgs : Status(m)' = Status(m)
    BY <1>1 DEF Status
  <2>2. QED
    BY <1>1, <1>3, <2>1, NothingSeen
<1>4. QED
  BY <1>1, <1>2, <1>3, Submits

\* The steps of the holder that only remember, look or press a clear key.
LEMMA QuietKeeps ==
  ASSUME NEW p \in Procs,
         \/ Notify(p) \/ List(p) \/ Check(p) \/ Settle(p) \/ Abandon(p)
         \/ WithdrawPaste(p) \/ PressClear(p) \/ ReadCleared(p)
         \/ AwaitReceipt(p) \/ Report(p) \/ Relist(p) \/ Unlock(p)
         \/ TakeLock(p) \/ FindLocked(p) \/ Recheck(p) \/ Wake(p) \/ Crash(p) \/ CheckFails(p)
  PROVE  Stutters
<1>1. UNCHANGED inbox
  BY InboxQuiet
<1>2. UNCHANGED <<pastes, keyed>>
  BY DEF Notify, List, Check, Settle, Abandon, WithdrawPaste, PressClear, ReadCleared,
     AwaitReceipt, Report, Relist, Unlock, TakeLock, FindLocked, Recheck, Wake, Crash, CheckFails, Stopped
<1>3. UNCHANGED ran
  BY DEF Notify, List, Check, Settle, Abandon, WithdrawPaste, PressClear, ReadCleared, ClearKeys,
     AwaitReceipt, ReadWitness, Report, Relist, Unlock, TakeLock, FindLocked, Recheck, Wake, Crash, CheckFails, Stopped
<1>4. \A m \in Msgs : Status(m)' = Status(m)
  BY <1>1 DEF Status
<1>5. QED
  BY <1>2, <1>3, <1>4, NothingSeen

\* Files of the open input move, and the holder's record of them changes.
LEMMA OpenInputKeeps ==
  ASSUME AllKnown, NEW p \in Procs,
         \/ CleanedResult(p) \/ Rewrite(p) \/ File(p) \/ SaveReceipt(p)
         \/ RecoverInput(p) \/ Reopen(p) \/ Reopened(p)
  PROVE  Stutters
<1> USE DEF AllKnown, IInv, TypeOK
<1>1. UNCHANGED <<pastes, keyed, ran, input>>
  <2>1. CASE CleanedResult(p) \/ Rewrite(p) \/ File(p) \/ SaveReceipt(p)
    BY <2>1 DEF CleanedResult, ForgetResult, Rewrite, RewriteResult, File, FileResult, SaveReceipt, TakeReceipt
  <2>2. CASE RecoverInput(p) \/ Reopen(p) \/ Reopened(p)
    BY <2>2 DEF RecoverInput, Reopen, MoveToNew, Reopened, ForgetReceipt
  <2>3. QED
    BY <2>1, <2>2
<1>2. \A m \in Msgs \ {input} : dir'[m] = dir[m] /\ result'[m] = result[m]
  <2>1. CASE CleanedResult(p) \/ SaveReceipt(p) \/ Reopened(p)
    BY <2>1 DEF CleanedResult, ForgetResult, SaveReceipt, TakeReceipt, Reopened, ForgetReceipt
  <2>2. CASE Rewrite(p) \/ File(p)
    <3>1. input = msg
      BY <2>2 DEF Rewrite, File, Control, BeforeFiling
    <3>2. QED
      BY <2>2, <3>1 DEF Rewrite, RewriteResult, File, FileResult, InboxTypeOK
  <2>3. CASE RecoverInput(p)
    BY <2>3 DEF RecoverInput, MoveToNew, InboxTypeOK
  <2>4. CASE Reopen(p)
    <3>1. input = msg
      BY <2>4 DEF Reopen, Control
    <3>2. QED
      BY <2>4, <3>1 DEF Reopen, MoveToNew, InboxTypeOK
  <2>5. QED
    BY <2>1, <2>2, <2>3, <2>4
<1>3. \A m \in Msgs : Status(m)' = Status(m)
  BY <1>1, <1>2 DEF Status
<1>4. QED
  BY <1>1, <1>3, NothingSeen

\* Publication, withdrawal and the start and end of an input.
LEMMA SendKeeps ==
  ASSUME AllKnown, NEW p \in Procs, NEW m \in Msgs, Send(p, m)
  PROVE  Promise!Next
<1> USE DEF AllKnown, IInv, TypeOK
<1>1. /\ UNCHANGED <<pastes, keyed, ran, input, result>>
      /\ dir[m] = "unsent" /\ dir' = [dir EXCEPT ![m] = "new"]
  BY DEF Send, PublishNew
<1>2. m # input
  BY <1>1 DEF Store, InputRecoverable
<1>3. Status(m) = "unsent" /\ Status(m)' = "queued" /\ \A n \in Msgs \ {m} : Status(n)' = Status(n)
  BY <1>1, <1>2 DEF Status, InboxTypeOK
<1>4. Promise!Publish(m)
  BY <1>1, <1>3, OneMoves DEF Promise!Publish
<1>5. QED
  BY <1>4 DEF Promise!Next

LEMMA PickKeeps ==
  ASSUME AllKnown, NEW p \in Procs, Pick(p)
  PROVE  Promise!Next \/ Stutters
<1> USE DEF AllKnown, IInv, TypeOK
<1>1. UNCHANGED <<pastes, keyed, ran, input, result>>
  BY DEF Pick, Withdraw
<1>2. CASE UNCHANGED dir
  <2>1. \A m \in Msgs : Status(m)' = Status(m)
    BY <1>1, <1>2 DEF Status
  <2>2. QED
    BY <1>1, <2>1, NothingSeen
<1>3. CASE ~ UNCHANGED dir
  <2>1. PICK m \in Msgs : dir[m] = "new" /\ dir' = [dir EXCEPT ![m] = "gone"]
    BY <1>3 DEF Pick, Oldest, Withdraw, Queued
  <2>2. input = NoMsg
    BY DEF Pick, Control, Resting
  <2>3. Status(m) = "queued" /\ Status(m)' = "gone" /\ \A n \in Msgs \ {m} : Status(n)' = Status(n)
    BY <1>1, <2>1, <2>2 DEF Status, InboxTypeOK
  <2>4. Promise!Expire(m)
    BY <1>1, <2>3, OneMoves DEF Promise!Expire
  <2>5. QED
    BY <2>4 DEF Promise!Next
<1>4. QED
  BY <1>2, <1>3

LEMMA Opens ==
  ASSUME AllKnown, NEW m \in Msgs, StartInput(m), UNCHANGED <<pastes, keyed, ran>>,
         \/ dir[m] = "new"
         \/ dir[m] \in {"cur", "failed"} /\ result[m] \in {"accepted", "unverified"} /\ Exactly(m) \in ran
  PROVE  Promise!Next
<1> USE DEF AllKnown, IInv, TypeOK
<1>1. input = NoMsg /\ input' = m /\ UNCHANGED <<dir, result>>
  BY DEF StartInput
<1>2. \A n \in Msgs : Status(n) # "open"
  BY <1>1, StatusTypes
<1>3. Status(m)' = "open" /\ \A n \in Msgs \ {m} : Status(n)' = Status(n)
  BY <1>1 DEF Status
<1>4. \/ Status(m) = "queued"
      \/ Status(m) \in {"accepted", "unverified"} /\ Exactly(m) \in ran
  BY <1>1 DEF Status
<1>5. Promise!Open(m)
  BY <1>2, <1>3, <1>4, OneMoves DEF Promise!Open, Promise!NoneOpen
<1>6. QED
  BY <1>5 DEF Promise!Next

LEMMA ReconcileKeeps ==
  ASSUME AllKnown, NEW p \in Procs, Reconcile(p)
  PROVE  Promise!Next \/ Stutters
<1> USE DEF AllKnown, IInv, TypeOK
<1>1. UNCHANGED <<pastes, keyed, ran>>
  BY DEF Reconcile
<1>2. CASE UNCHANGED inbox
  <2>1. \A m \in Msgs : Status(m)' = Status(m)
    BY <1>2 DEF Status
  <2>2. QED
    BY <1>1, <2>1, NothingSeen
<1>3. ASSUME NEW k \in Late, StartInput(last[k])
      PROVE  Promise!Next
  <2>1. /\ k \in {"failed", "accepted"} /\ last[k] # NoMsg
        /\ result[last[k]] \in {"unverified", "accepted"} /\ Matches(last[k], witness)
    BY DEF Late
  <2>2. last[k] \in Msgs
    BY <2>1 DEF InboxTypeOK, Kinds
  <2>3. input = NoMsg
    BY <1>3 DEF StartInput
  <2>4. dir[last[k]] \in {"cur", "failed"}
    BY <2>1, <2>2, <2>3, ReceiptDirectory DEF Store, ReceiptsResolve, Kinds
  <2>5. Exactly(last[k]) \in ran
    BY <2>1, <2>2, WitnessProves
  <2>6. QED
    BY <1>1, <1>3, <2>1, <2>2, <2>4, <2>5, Opens
<1>4. QED
  BY <1>2, <1>3 DEF Reconcile

LEMMA BeginKeeps ==
  ASSUME AllKnown, NEW p \in Procs, Begin(p)
  PROVE  Promise!Next
<1>1. next \in Msgs /\ dir[next] = "new"
  BY DEF AllKnown, IInv, Control, Begin
<1>2. StartInput(next) /\ UNCHANGED <<pastes, keyed, ran>>
  BY DEF Begin, ReadWitness
<1>3. QED
  BY <1>1, <1>2, Opens

LEMMA FinishKeeps ==
  ASSUME AllKnown, NEW p \in Procs, Finish(p)
  PROVE  Promise!Next
<1> USE DEF AllKnown, IInv, TypeOK, Details
<1>1. AfterFiling
  BY DEF Finish, AfterFiling
<1>2. /\ msg \in Msgs /\ input = msg /\ dir[msg] \in {"cur", "failed"}
      /\ result[msg] = verdict /\ verdict \in Outcomes
  BY <1>1, ReceiptDirectory DEF Control, Recorded, HolderTypeOK
<1>3. UNCHANGED <<dir, result, pastes, keyed, ran>> /\ input' = NoMsg
  BY DEF Finish, FinishInput
<1>4. PICK m \in Msgs : m = msg
  BY <1>2
<1>5. PICK o \in Outcomes : o = verdict
  BY <1>2
<1>6. Status(m) = "open" /\ Status(m)' = o /\ \A n \in Msgs \ {m} : Status(n)' = Status(n)
  <2>1. Status(m) = "open"
    BY <1>2, <1>4 DEF Status
  <2>2. Status(m)' = o
    BY <1>2, <1>3, <1>4, <1>5 DEF Status
  <2>3. \A n \in Msgs \ {m} : Status(n)' = Status(n)
    BY <1>2, <1>3, <1>4 DEF Status
  <2>4. QED
    BY <2>1, <2>2, <2>3
<1>7. /\ o = "delivered" => Exactly(m) \in ran
      /\ o = "accepted" => m \in keyed
      /\ o = "failed" => m \notin keyed
  BY <1>2, <1>4, <1>5 DEF Proven, Accepted, Unkeyed
<1>8. /\ Promise!Becomes(m, o)
      /\ UNCHANGED <<{n \in Msgs : pastes[n] > 0}, keyed, {n \in Msgs : Exactly(n) \in ran}>>
  BY <1>3, <1>6, OneMoves
<1>9. Promise!Close(m)
  BY <1>6, <1>7, <1>8 DEF Promise!Close, Outcomes, Kinds
<1>10. QED
  BY <1>9 DEF Promise!Next

LEMMA CleanKeeps ==
  ASSUME AllKnown, NEW p \in Procs, CleanResult(p)
  PROVE  Promise!Next \/ Stutters
<1> USE DEF AllKnown, IInv, TypeOK, Details
<1>1. UNCHANGED <<pastes, keyed, ran, input, result>>
  BY DEF CleanResult, RemoveResult
<1>2. CASE UNCHANGED dir
  <2>1. \A m \in Msgs : Status(m)' = Status(m)
    BY <1>1, <1>2 DEF Status
  <2>2. QED
    BY <1>1, <2>1, NothingSeen
<1>3. CASE ~ UNCHANGED dir
  <2>1. /\ cleanup # {}
        /\ dir' = [m \in Msgs |-> IF <<m, dir[m]>> \in cleanup THEN "gone" ELSE dir[m]]
    BY <1>3 DEF CleanResult, RemoveResult
  <2>2. PICK m \in Msgs : <<m, dir[m]>> \in cleanup
    BY <1>3, <2>1 DEF InboxTypeOK
  <2>3. \A n \in Msgs \ {m} : <<n, dir[n]>> \notin cleanup
    BY <2>2 DEF Recorded
  <2>4. /\ dir'[m] = "gone" /\ dir[m] \in {"cur", "failed"}
        /\ \A n \in Msgs \ {m} : dir'[n] = dir[n]
    BY <2>1, <2>2, <2>3 DEF InboxTypeOK
  <2>5. input \in Msgs /\ input # m
    BY <2>1, <2>2, <2>4 DEF Recorded, Store, Superseded, InboxTypeOK
  <2>6. /\ Status(m) \in Outcomes /\ Status(m)' = "gone"
        /\ \A n \in Msgs \ {m} : Status(n)' = Status(n)
    BY <1>1, <2>4, <2>5 DEF Status, Recorded
  <2>7. Status(input) = "open"
    BY <2>5 DEF Status
  <2>8. Promise!Discard(m)
    BY <1>1, <2>5, <2>6, <2>7, OneMoves DEF Promise!Discard, Outcomes, Kinds
  <2>9. QED
    BY <2>8 DEF Promise!Next
<1>4. QED
  BY <1>2, <1>3

\* The two keystrokes that matter: the paste and the submit key.
LEMMA PasteKeeps ==
  ASSUME AllKnown, NEW p \in Procs, PasteText(p)
  PROVE  Promise!Next
<1> USE DEF AllKnown, IInv, TypeOK
<1>1. next \in Msgs /\ input = next /\ pastes[next] = 0
  BY DEF PasteText, Control, Typing, Untyped
<1>2. UNCHANGED <<inbox, keyed, ran>>
  BY DEF PasteText, Paste
<1>3. PICK n \in Msgs : n = next
  BY <1>1
<1>4. \A m \in Msgs : pastes'[m] > 0 <=> m = n \/ pastes[m] > 0
  BY <1>1, <1>3 DEF PasteText, HistoryTypeOK
<1>5. {m \in Msgs : pastes[m] > 0}' = {m \in Msgs : pastes[m] > 0} \cup {n}
  BY <1>4
<1>6. n \notin {m \in Msgs : pastes[m] > 0}
  <2>1. ~ (pastes[n] > 0)
    BY <1>1, <1>3
  <2>2. QED
    BY <2>1
<1>7. [m \in Msgs |-> Status(m)]' = [m \in Msgs |-> Status(m)]
  BY <1>2 DEF Status
<1>8. {m \in Msgs : Exactly(m) \in ran}' = {m \in Msgs : Exactly(m) \in ran}
  BY <1>2 DEF Exactly
<1>9. Status(n) = "open"
  BY <1>1, <1>3 DEF Status
<1>10. Promise!Type(n)
  BY <1>2, <1>5, <1>6, <1>7, <1>8, <1>9 DEF Promise!Type
<1>11. QED
  BY <1>10 DEF Promise!Next

LEMMA SubmitKeeps ==
  ASSUME AllKnown, NEW p \in Procs, SubmitKey(p)
  PROVE  Promise!Next
<1> USE DEF AllKnown, IInv, TypeOK, Details
<1>1. /\ next \in Msgs /\ input = next /\ pastes[next] > 0 /\ next \notin keyed
      /\ composer.msg \in {next, NoMsg}
  BY DEF SubmitKey, Control, Typing, Carried, Unkeyed, Unsubmitted
<1>2. UNCHANGED <<inbox, pastes>> /\ keyed' = keyed \cup {next}
  BY DEF SubmitKey
<1>3. ran' = ran \/ ran' = ran \cup {composer}
  BY DEF SubmitKey, Enter
<1>4. [m \in Msgs |-> Status(m)]' = [m \in Msgs |-> Status(m)]
  BY <1>2 DEF Status
<1>5. {m \in Msgs : pastes[m] > 0}' = {m \in Msgs : pastes[m] > 0}
  BY <1>2
<1>6. {m \in Msgs : Exactly(m) \in ran}' \in
        {{m \in Msgs : Exactly(m) \in ran}, {m \in Msgs : Exactly(m) \in ran} \cup {next}}
  <2>1. \A m \in Msgs : Exactly(m) = composer => m = next
    BY <1>1 DEF Exactly
  <2>2. \A m \in Msgs : Exactly(m)' = Exactly(m)
    BY DEF Exactly
  <2>3. CASE ran' = ran \cup {composer} /\ Exactly(next) = composer
    <3>1. \A m \in Msgs : Exactly(m)' \in ran' <=> Exactly(m) \in ran \/ m = next
      BY <2>1, <2>2, <2>3
    <3>2. {m \in Msgs : Exactly(m) \in ran}' = {m \in Msgs : Exactly(m) \in ran} \cup {next}
      BY <1>1, <3>1
    <3>3. QED
      BY <3>2
  <2>4. CASE ~ (ran' = ran \cup {composer} /\ Exactly(next) = composer)
    <3>1. \A m \in Msgs : Exactly(m)' \in ran' <=> Exactly(m) \in ran
      BY <1>1, <1>3, <2>1, <2>2, <2>4
    <3>2. {m \in Msgs : Exactly(m) \in ran}' = {m \in Msgs : Exactly(m) \in ran}
      BY <3>1
    <3>3. QED
      BY <3>2
  <2>5. QED
    BY <2>3, <2>4
<1>7. Status(next) = "open"
  BY <1>1 DEF Status
<1>8. Promise!Key(next)
  BY <1>1, <1>2, <1>4, <1>5, <1>6, <1>7 DEF Promise!Key
<1>9. QED
  BY <1>1, <1>8 DEF Promise!Next

LEMMA Simulates ==
  ASSUME AllKnown, [Next]_vars
  PROVE  Promise!Next \/ Stutters
<1>1. CASE UNCHANGED vars
  <2>1. \A m \in Msgs : Status(m)' = Status(m)
    BY <1>1 DEF vars, Status
  <2>2. UNCHANGED <<pastes, keyed, ran>>
    BY <1>1 DEF vars
  <2>3. QED
    BY <2>1, <2>2, NothingSeen
<1>2. CASE Environment
  BY <1>2, EnvironmentKeeps
<1>3. ASSUME NEW p \in Procs, Run(p) \/ Wake(p) \/ Crash(p) \/ CheckFails(p)
      PROVE  Promise!Next \/ Stutters
  BY <1>3, QuietKeeps, OpenInputKeeps, PickKeeps, ReconcileKeeps, BeginKeeps, FinishKeeps, CleanKeeps,
     PasteKeeps, SubmitKeeps DEF Run, Locked
<1>4. ASSUME NEW p \in Procs, NEW m \in Msgs, Send(p, m)
      PROVE  Promise!Next \/ Stutters
  BY <1>4, SendKeeps
<1>5. QED
  BY <1>1, <1>2, <1>3, <1>4 DEF Next

LEMMA NonePositive == ~ (0 > 0)
  OBVIOUS

LEMMA PromisedAtFirst == Init => Promise!Init
<1> SUFFICES ASSUME Init PROVE Promise!Init
  OBVIOUS
<1> USE DEF Init, InboxInit, HarnessInit
<1>1. [m \in Msgs |-> Status(m)] = [m \in Msgs |-> "unsent"]
  BY DEF Status
<1>2. {m \in Msgs : pastes[m] > 0} = {}
  <2>1. \A m \in Msgs : pastes[m] = 0
    OBVIOUS
  <2>2. QED
    BY <2>1, NonePositive
<1>3. {m \in Msgs : Exactly(m) \in ran} = {}
  OBVIOUS
<1>4. QED
  BY <1>1, <1>2, <1>3 DEF Promise!Init

(* With any number of messages, commands and crashes, whatever the         *)
(* operator does, delivery keeps to the table of receipts in               *)
(* docs/concepts.md: one message at a time is open, it is typed at most    *)
(* once, delivered, accepted and failed mean what the table says, and a    *)
(* receipt goes only to make way for another's.                            *)
THEOREM ReceiptsKept == Spec => KeepsReceipts
<1>1. Init => AllKnown
  BY Initially, UnkeyedAtFirst, ProvenAtFirst, DetailsAtFirst DEF AllKnown
<1>2. AllKnown /\ [Next]_vars => [Promise!Next]_Promise!vars
  BY Simulates DEF Stutters
<1>3. QED
  BY <1>1, <1>2, PromisedAtFirst, AllInductive, PTL DEF Spec, KeepsReceipts, Promise!Spec

================================================================================
