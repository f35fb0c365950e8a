------------------------------ MODULE Delivery ------------------------------
(***************************************************************************)
(* Delivering messages to one agent: every command that sends or wakes is  *)
(* a process; whoever takes the agent lock first finishes what a dead      *)
(* owner left (acquireAgent), then types queued messages into the          *)
(* harness's composer one at a time (drainLocked, deliver), then unlocks   *)
(* and looks again for arrivals (drainFrom).  One action per durable       *)
(* write, keystroke, read or wait; a process may die before any of them,   *)
(* and its drain may err.                                                  *)
(***************************************************************************)
EXTENDS Inbox, Harness, FiniteSets, Naturals

CONSTANTS Procs, NoProc,
          Rank,        \* the order of CreatedAt, then ID
          Notes,       \* Gangline's own context notes; the rest are agents' messages
          Hazardous,   \* messages the harness would not take as pasted text
          Expiring,    \* messages with a NotAfter
          MidTurn,     \* the collar takes input, and shows its queue, mid-turn
          MaxMishaps   \* bound: commands that die or whose drain errs

ASSUME NoProcAssumption == NoProc \notin Procs
ASSUME RankAssumption ==
  /\ Rank \in [Msgs -> Nat]
  /\ \A m, n \in Msgs : Rank[m] = Rank[n] => m = n
ASSUME SetsAssumption ==
  /\ Notes \subseteq Msgs /\ Hazardous \subseteq Msgs /\ Expiring \subseteq Msgs
  /\ MidTurn \in BOOLEAN /\ MaxMishaps \in Nat

VARIABLES lock,      \* the process that holds the agent's flock
          proc,      \* "idle", "lock" (about to try the lock), "hold", "recheck"
          target,    \* the message a sending command waits for
          waiting,   \* the queue the process last listed
          pc,        \* the lock holder's next step
          then,      \* where CleanResult returns to
          next,      \* the message the drain is delivering
          msg,       \* the message being settled, its outcome and on whose behalf
          verdict, from,
          pastes, keyed,     \* history: pastes of each message; submit key sent
          notices,   \* the notices senders were sent
          own,       \* messages whose outcome their own sending command reached
          untold,    \* settled for another sender by an owner that then died
          mishaps

holder == <<pc, then, next, msg, verdict, from>>
process == <<lock, proc, target, waiting>>
history == <<pastes, keyed, notices, own, untold, mishaps>>
vars == <<inbox, harness, process, holder, history>>

Steps == {"clean", "cleaned", "recover", "rewrite", "file", "receipt", "finish",
          "notify", "reconcile", "reopen", "reopened", "list", "pick", "check",
          "begin", "paste", "settle", "abandon", "withdraw", "clearing", "cleared",
          "submit", "await", "report", "relist", "unlock"}
Behalf == {"deliver", "recover", "failed", "accepted"}

HolderTypeOK ==
  /\ pc \in Steps /\ then \in {"recover", "rewrite", "finish"}
  /\ next \in Msgs \cup {NoMsg}
  /\ msg \in Msgs \cup {NoMsg}
  /\ verdict \in Outcomes /\ from \in Behalf

ProcessTypeOK ==
  /\ lock \in Procs \cup {NoProc}
  /\ proc \in [Procs -> {"idle", "lock", "hold", "recheck"}]
  /\ target \in [Procs -> Msgs \cup {NoMsg}]
  /\ waiting \in [Procs -> SUBSET Msgs]

HistoryTypeOK ==
  /\ pastes \in [Msgs -> 0..2] /\ keyed \subseteq Msgs
  /\ notices \subseteq {"outcome", "delivered"} \X Msgs
  /\ own \subseteq Msgs /\ untold \subseteq Msgs
  /\ mishaps \in 0..MaxMishaps

TypeOK == InboxTypeOK /\ HarnessTypeOK /\ HolderTypeOK /\ ProcessTypeOK /\ HistoryTypeOK

Init ==
  /\ InboxInit /\ HarnessInit
  /\ lock = NoProc
  /\ proc = [p \in Procs |-> "idle"]
  /\ target = [p \in Procs |-> NoMsg]
  /\ waiting = [p \in Procs |-> {}]
  /\ pc = "clean" /\ then = "recover"
  /\ next = NoMsg /\ msg = NoMsg /\ verdict = "unverified" /\ from = "deliver"
  /\ pastes = [m \in Msgs |-> 0] /\ keyed = {}
  /\ notices = {} /\ own = {} /\ untold = {} /\ mishaps = 0

-----------------------------------------------------------------------------
\* The holder p moves from step "at" to step "to" and keeps the rest.
At(p, at) == lock = p /\ pc = at
Goto(to) == pc' = to /\ UNCHANGED <<process, then, next, msg, verdict, from>>

\* finishInput: settle m with an outcome, starting with Settle's CleanResult.
Settling(m, outcome, behalf) ==
  /\ pc' = "clean" /\ then' = "rewrite"
  /\ msg' = m /\ verdict' = outcome /\ from' = behalf
  /\ UNCHANGED <<process, next>>

\* Without an owner nothing of the last one's memory is left.
HolderReset ==
  /\ pc' = "clean" /\ then' = "recover"
  /\ next' = NoMsg /\ msg' = NoMsg /\ verdict' = "unverified" /\ from' = "deliver"

Ends(outcome) == Settling(next, outcome, "deliver")

\* notifySender publishes at most one notice of each kind, only to an agent.
Tell(kind, m) == notices' = IF m \in Notes THEN notices ELSE notices \cup {<<kind, m>>}

\* Defect: the message may appear anywhere in the submitted prompt.
Contains(m, text) == text.msg = m

Matches(m, text) == text = Exactly(m)

-----------------------------------------------------------------------------
(* Outside the lock.                                                       *)

Send(p, m) ==
  /\ proc[p] = "idle"
  /\ PublishNew(m)
  /\ proc' = [proc EXCEPT ![p] = "lock"]
  /\ target' = [target EXCEPT ![p] = m]
  /\ UNCHANGED <<harness, holder, lock, waiting, history>>

\* A tick from a hook or the watchdog, or a later command.
Wake(p) ==
  /\ proc[p] = "idle"
  /\ proc' = [proc EXCEPT ![p] = "lock"]
  /\ UNCHANGED <<inbox, harness, holder, lock, target, waiting, history>>

TakeLock(p) ==
  /\ proc[p] = "lock" /\ lock = NoProc
  /\ lock' = p
  /\ proc' = [proc EXCEPT ![p] = "hold"]
  /\ UNCHANGED <<inbox, harness, holder, target, waiting, history>>

\* A drain that finds the agent locked leaves its message to the owner.
FindLocked(p) ==
  /\ proc[p] = "lock" /\ lock # NoProc
  /\ proc' = [proc EXCEPT ![p] = "idle"]
  /\ target' = [target EXCEPT ![p] = NoMsg]
  /\ waiting' = [waiting EXCEPT ![p] = {}]
  /\ UNCHANGED <<inbox, harness, holder, lock, history>>

Unlock(p) ==
  /\ At(p, "unlock")
  /\ lock' = NoProc
  /\ proc' = [proc EXCEPT ![p] = "recheck"]
  /\ HolderReset
  /\ UNCHANGED <<inbox, harness, target, waiting, history>>

\* Defect: the owner leaves once it has unlocked.
Leave(p) ==
  /\ proc[p] = "recheck"
  /\ proc' = [proc EXCEPT ![p] = "idle"]
  /\ target' = [target EXCEPT ![p] = NoMsg]
  /\ waiting' = [waiting EXCEPT ![p] = {}]
  /\ UNCHANGED <<inbox, harness, holder, lock, history>>

Recheck(p) ==
  /\ proc[p] = "recheck"
  /\ IF Queued \subseteq waiting[p]
     THEN /\ proc' = [proc EXCEPT ![p] = "idle"]
          /\ target' = [target EXCEPT ![p] = NoMsg]
          /\ waiting' = [waiting EXCEPT ![p] = {}]
     ELSE /\ proc' = [proc EXCEPT ![p] = "lock"]
          /\ UNCHANGED <<target, waiting>>
  /\ UNCHANGED <<inbox, harness, holder, lock, history>>

Stopped(p) ==
  /\ mishaps < MaxMishaps
  /\ mishaps' = mishaps + 1
  /\ proc' = [proc EXCEPT ![p] = "idle"]
  /\ target' = [target EXCEPT ![p] = NoMsg]
  /\ waiting' = [waiting EXCEPT ![p] = {}]

\* The kernel drops a dead owner's flock; its files stay as they are.  A drain
\* that errs over a write leaves the same: it unlocks and returns.
Crash(p) ==
  /\ proc[p] # "idle" /\ Stopped(p)
  /\ IF lock = p
     THEN /\ lock' = NoProc
          /\ untold' = untold \cup (({next, msg} \cap Filed) \ ({input} \cup own))
          /\ HolderReset
     ELSE UNCHANGED <<lock, holder, untold>>
  /\ UNCHANGED <<inbox, harness, pastes, keyed, notices, own>>

\* The pane cannot be captured or read: the drain unlocks and returns its error,
\* without the second look.
CheckFails(p) ==
  /\ At(p, "check") /\ Stopped(p)
  /\ lock' = NoProc
  /\ HolderReset
  /\ UNCHANGED <<inbox, harness, pastes, keyed, notices, own, untold>>

-----------------------------------------------------------------------------
(* Settling an outcome: CleanResult, then Settle, then input_finished.     *)

CleanResult(p) ==
  /\ At(p, "clean")
  /\ \/ cleanup = {} /\ Goto(then) /\ UNCHANGED inbox
     \/ RemoveResult /\ Goto("cleaned")
  /\ UNCHANGED <<harness, history>>

CleanedResult(p) ==
  /\ At(p, "cleaned")
  /\ ForgetResult /\ Goto(then)
  /\ UNCHANGED <<harness, history>>

Rewrite(p) ==
  /\ At(p, "rewrite")
  /\ RewriteResult(msg, verdict) /\ Goto("file")
  /\ UNCHANGED <<harness, history>>

File(p) ==
  /\ At(p, "file")
  /\ FileResult(msg, verdict) /\ Goto("receipt")
  /\ UNCHANGED <<harness, history>>

\* Recovery has dropped the envelope from every receipt in its own copy.
SaveReceipt(p) ==
  /\ At(p, "receipt")
  /\ TakeReceipt(msg, verdict,
       IF from = "recover" THEN [k \in Kinds |-> IF last[k] = msg THEN NoMsg ELSE last[k]]
       ELSE last)
  /\ pc' = "clean" /\ then' = "finish"
  /\ UNCHANGED <<process, next, msg, verdict, from, harness, history>>

Finish(p) ==
  /\ At(p, "finish")
  /\ FinishInput(msg) /\ Goto("notify")
  /\ own' = IF from = "deliver" /\ msg = target[p] THEN own \cup {msg} ELSE own \ {msg}
  /\ UNCHANGED <<harness, pastes, keyed, notices, untold, mishaps>>

AfterReconcile == IF next = NoMsg THEN "list" ELSE "report"

\* What the caller of finishInput does next.
Notify(p) ==
  /\ At(p, "notify")
  /\ \/ /\ from = "recover"
        /\ IF verdict = "unverified" THEN Tell("outcome", msg) ELSE UNCHANGED notices
        /\ Goto("reconcile")
     \/ /\ from = "failed"
        /\ Tell("delivered", msg) /\ Goto(AfterReconcile)
     \/ /\ from = "accepted"
        /\ UNCHANGED notices /\ Goto(AfterReconcile)
     \/ /\ from = "deliver"
        /\ UNCHANGED notices
        /\ Goto(IF verdict = "unverified" THEN "reconcile" ELSE "report")
  /\ UNCHANGED <<inbox, harness, pastes, keyed, own, untold, mishaps>>

-----------------------------------------------------------------------------
(* What a new owner finishes first (acquireAgent).                         *)

\* Defect: a started input is put back in the queue.
RequeueInput(p) ==
  /\ At(p, "recover")
  /\ input' = NoMsg /\ UNCHANGED <<dir, result, last, cleanup>>
  /\ Goto("reconcile")
  /\ UNCHANGED <<harness, history>>

\* A started input whose owner died is never typed again: it is settled.
RecoverInput(p) ==
  /\ At(p, "recover")
  /\ \/ input = NoMsg /\ UNCHANGED inbox /\ Goto("reconcile")
     \/ /\ input # NoMsg /\ MoveToNew(input)
        /\ Settling(input, IF result[input] = "accepted" THEN "accepted" ELSE "unverified", "recover")
  /\ UNCHANGED <<harness, history>>

\* Retained receipts the witness file now proves.
Late == {k \in {"failed", "accepted"} :
           /\ last[k] # NoMsg
           /\ result[last[k]] \in {"unverified", "accepted"}
           /\ Matches(last[k], witness)}

Reconcile(p) ==
  /\ At(p, "reconcile")
  /\ \/ Late = {} /\ UNCHANGED inbox /\ Goto(AfterReconcile)
     \/ \E k \in Late :
          /\ k = "failed" \/ "failed" \notin Late
          /\ StartInput(last[k])
          /\ pc' = "reopen" /\ msg' = last[k] /\ from' = k
          /\ UNCHANGED <<process, then, next, verdict>>
  /\ UNCHANGED <<harness, history>>

Reopen(p) ==
  /\ At(p, "reopen")
  /\ MoveToNew(msg) /\ Goto("reopened")
  /\ UNCHANGED <<harness, history>>

Reopened(p) ==
  /\ At(p, "reopened")
  /\ ForgetReceipt(from) /\ Settling(msg, "delivered", from)
  /\ UNCHANGED <<harness, history>>

-----------------------------------------------------------------------------
(* drainLocked: choose the oldest queued message, then look at the pane.   *)

List(p) ==
  /\ At(p, "list")
  /\ waiting' = [waiting EXCEPT ![p] = Queued]
  /\ pc' = "pick" /\ next' = NoMsg
  /\ UNCHANGED <<inbox, harness, lock, proc, target, then, msg, verdict, from, history>>

Oldest(S) == {m \in S : \A n \in S : Rank[m] <= Rank[n]}

Pick(p) ==
  /\ At(p, "pick")
  /\ LET due == waiting[p] \cap Queued
     IN \/ due = {} /\ UNCHANGED inbox /\ Goto("unlock")
        \/ \E m \in Oldest(due) \cap Expiring : Withdraw(m) /\ Goto("pick")
        \/ \E m \in Oldest(due) :
             /\ next' = m /\ pc' = "check"
             /\ UNCHANGED <<inbox, process, then, msg, verdict, from>>
  /\ UNCHANGED <<harness, history>>

FreeComposer ==
  /\ composer = Empty
  /\ surface \in {"idle"} \cup IF MidTurn THEN {"busy"} ELSE {}

Check(p) ==
  /\ At(p, "check")
  /\ Goto(IF FreeComposer THEN "begin" ELSE "unlock")
  /\ UNCHANGED <<inbox, harness, history>>

-----------------------------------------------------------------------------
(* deliver: intent, paste, settle, submit key, receipt.                    *)

\* The old witness is read just before the intent is saved; a hook between the
\* two is as fresh as one just after them.
Begin(p) ==
  /\ At(p, "begin")
  /\ StartInput(next) /\ ReadWitness
  /\ IF next \in Hazardous THEN Ends("failed") ELSE Goto("paste")
  /\ UNCHANGED history

PasteText(p) ==
  /\ At(p, "paste")
  /\ pastes' = [pastes EXCEPT ![next] = IF @ = 2 THEN 2 ELSE @ + 1]
  /\ \/ Paste(next) /\ Goto("settle")
     \/ Paste(next) /\ Goto("abandon")
     \/ UNCHANGED harness /\ Goto("abandon")
  /\ UNCHANGED <<inbox, keyed, notices, own, untold, mishaps>>

\* What settlePaste can read back.  Words ahead of the paste may pass for it
\* in the default wait and are refused where the screen must show its start.
PasteShown == composer.msg = next /\ surface # "prompt"
ComposerReplaced == composer \notin {Empty, Exactly(next)}

\* Only a composer that shows the paste, with no native prompt, gets the key.
\* One that emptied or holds other text is left alone; any read may fail.
Settle(p) ==
  /\ At(p, "settle")
  /\ \/ PasteShown /\ Goto("submit")
     \/ (composer = Empty \/ ComposerReplaced) /\ Ends("unverified")
     \/ Goto("abandon")
  /\ UNCHANGED <<inbox, harness, history>>

\* Gangline's own input is never withdrawn.
Abandon(p) ==
  /\ At(p, "abandon")
  /\ IF next \in Notes THEN Ends("unverified") ELSE Goto("withdraw")
  /\ UNCHANGED <<inbox, harness, history>>

\* withdrawPaste leaves the paste where it cannot see it or a prompt owns it.
WithdrawPaste(p) ==
  /\ At(p, "withdraw")
  /\ \/ surface # "prompt" /\ composer # Empty /\ Goto("clearing")
     \/ Ends("unverified")
  /\ UNCHANGED <<inbox, harness, history>>

PressClear(p) ==
  /\ At(p, "clearing")
  /\ ClearKeys /\ Goto("cleared")
  /\ UNCHANGED <<inbox, history>>

ReadCleared(p) ==
  /\ At(p, "cleared")
  /\ \/ composer = Empty /\ Ends("failed")
     \/ composer # Empty /\ Goto("clearing")
     \/ Ends("unverified")
  /\ UNCHANGED <<inbox, harness, history>>

\* Defect: a failed key press withdraws the paste, whether or not it arrived.
SubmitOrWithdraw(p) ==
  /\ At(p, "submit")
  /\ keyed' = keyed \cup {next}
  /\ \/ Enter /\ Goto("await")
     \/ UNCHANGED harness /\ Goto("withdraw")
  /\ UNCHANGED <<inbox, pastes, notices, own, untold, mishaps>>

SubmitKey(p) ==
  /\ At(p, "submit")
  /\ keyed' = keyed \cup {next}
  /\ \/ Enter /\ Goto("await")
     \/ UNCHANGED harness /\ Ends("unverified")
  /\ UNCHANGED <<inbox, pastes, notices, own, untold, mishaps>>

\* awaitReceipt: a new witness first, then the harness's visible queue, until
\* the operation's deadline.  An earlier message's hook does not end the wait.
AwaitReceipt(p) ==
  /\ At(p, "await")
  /\ \/ fresh /\ Matches(next, witness) /\ Ends("delivered") /\ UNCHANGED harness
     \/ /\ fresh /\ ~Matches(next, witness)
        /\ MidTurn /\ next \notin Notes
        /\ ReadWitness /\ Goto("await")
     \/ fresh /\ ~Matches(next, witness) /\ Ends("unverified") /\ UNCHANGED harness
     \/ /\ ~fresh /\ MidTurn /\ next \notin Notes /\ Exactly(next) \in queue
        /\ Ends("accepted") /\ UNCHANGED harness
     \/ ~fresh /\ Ends("unverified") /\ UNCHANGED harness
  /\ UNCHANGED <<inbox, history>>

\* Defect: only failures are reported to the sender.
ReportFailed(p) ==
  /\ At(p, "report")
  /\ IF next # target[p] /\ result[next] = "failed"
     THEN Tell("outcome", next)
     ELSE UNCHANGED notices
  /\ Goto(IF result[next] = "failed" /\ next \notin Hazardous THEN "relist" ELSE "list")
  /\ UNCHANGED <<inbox, harness, pastes, keyed, own, untold, mishaps>>

\* The sending command reports its own message; anyone else sends a notice.  A
\* withdrawn paste ends this drain.
Report(p) ==
  /\ At(p, "report")
  /\ IF next # target[p] /\ result[next] \in {"failed", "unverified"}
     THEN Tell("outcome", next)
     ELSE UNCHANGED notices
  /\ Goto(IF result[next] = "failed" /\ next \notin Hazardous THEN "relist" ELSE "list")
  /\ UNCHANGED <<inbox, harness, pastes, keyed, own, untold, mishaps>>

Relist(p) ==
  /\ At(p, "relist")
  /\ waiting' = [waiting EXCEPT ![p] = Queued]
  /\ pc' = "unlock"
  /\ UNCHANGED <<inbox, harness, lock, proc, target, then, next, msg, verdict, from, history>>

-----------------------------------------------------------------------------
Locked(p) ==
  \/ CleanResult(p) \/ CleanedResult(p) \/ Rewrite(p) \/ File(p) \/ SaveReceipt(p)
  \/ Finish(p) \/ Notify(p)
  \/ RecoverInput(p) \/ Reconcile(p) \/ Reopen(p) \/ Reopened(p)
  \/ List(p) \/ Pick(p) \/ Check(p)
  \/ Begin(p) \/ PasteText(p) \/ Settle(p) \/ Abandon(p)
  \/ WithdrawPaste(p) \/ PressClear(p) \/ ReadCleared(p)
  \/ SubmitKey(p) \/ AwaitReceipt(p) \/ Report(p) \/ Relist(p) \/ Unlock(p)

Run(p) == TakeLock(p) \/ FindLocked(p) \/ Locked(p) \/ Recheck(p)

Environment == HarnessNext /\ UNCHANGED <<inbox, process, holder, history>>

Next ==
  \/ \E p \in Procs : Run(p) \/ Wake(p) \/ Crash(p) \/ CheckFails(p) \/ (\E m \in Msgs : Send(p, m))
  \/ Environment

Spec == Init /\ [][Next]_vars

\* A command that has started runs until it finishes: no wait in it is
\* unbounded (operationTimeout), and the kernel schedules it.
RunSpec == Spec /\ \A p \in Procs : WF_vars(Run(p))

-----------------------------------------------------------------------------
(* "Recovery records the uncertainty and does not automatically paste the  *)
(* message again" (docs/internals.md): no crash, retry or late proof ever  *)
(* makes Gangline paste one message twice.                                 *)
PastedOnce == \A m \in Msgs : pastes[m] <= 1

(* A receipt says delivered only when the harness submitted exactly that   *)
(* message, whatever the operator typed and whichever hooks came late.     *)
DeliveredIsProven ==
  \A m \in Filed : result[m] = "delivered" => Exactly(m) \in ran

(* A message is filed failed only when Gangline never pressed its submit   *)
(* key (withdrawPaste, the paste hazard).                                  *)
FailedNeverKeyed == \A m \in Filed : result[m] = "failed" => m \notin keyed

Unsettled == {m \in Filed \ Notes : result[m] \in {"failed", "unverified"}}

(* "When a later operation, not the sending command, ends a message failed *)
(* or unverified, Gangline queues a notice" (docs/concepts.md:86): with    *)
(* the agent unlocked, every such sender was told, unless the operation    *)
(* that settled the message died before it could.                          *)
SenderTold ==
  lock = NoProc =>
    \A m \in Unsettled \ (untold \cup {input}) :
      <<"outcome", m>> \in notices \/ m \in own

(* A sender once told "unverified" is told when proof arrives after all.   *)
ConfirmationTold ==
  lock = NoProc =>
    \A m \in Filed \ (untold \cup {input}) :
      result[m] = "delivered" /\ <<"outcome", m>> \in notices => <<"delivered", m>> \in notices

(* Unlocking and looking again loses no arrival: with no tick to help, a   *)
(* queued message is taken from the queue unless a drain died or erred,    *)
(* something holds the composer or a message failed.                       *)
NoLostArrival ==
  \A m \in Msgs :
    dir[m] = "new" ~>
      \/ dir[m] # "new" \/ ~FreeComposer \/ mishaps > 0
      \/ \E n \in Msgs : result[n] = "failed"

(* While the watchdog's ticks come a message is settled though owners die  *)
(* and drains err, unless an abandoned paste stays in the composer.        *)
QueuedIsSettled ==
  (\A p \in Procs : WF_vars(Wake(p))) =>
    \A m \in Msgs : dir[m] = "new" ~> dir[m] # "new" \/ composer.msg # NoMsg

-----------------------------------------------------------------------------
(* The receipts of docs/concepts.md, whatever dies or errs: delivery implements *)
(* MessageReceipts.  A message is open from input_started to               *)
(* input_finished, whichever directory its file is passing through.        *)
Status(m) ==
  IF input = m THEN "open"
  ELSE IF dir[m] = "new" THEN "queued"
  ELSE IF dir[m] \in {"cur", "failed"} THEN result[m]
  ELSE dir[m]

Promise == INSTANCE MessageReceipts WITH
  status <- [m \in Msgs |-> Status(m)],
  typed <- {m \in Msgs : pastes[m] > 0},
  proved <- {m \in Msgs : Exactly(m) \in ran}

KeepsReceipts == Promise!Spec

(* No sender is left to believe what was corrected or never reported       *)
(* (delivery.go:423, late_delivery.go:33).                                 *)
SendersTold == SenderTold /\ ConfirmationTold

(* Nothing that arrives stays behind: not at an unlock, nor in the queue   *)
(* while ticks keep coming (runtime.go:193, delivery.go:608).              *)
ArrivalsSettle == NoLostArrival /\ QueuedIsSettled
=============================================================================
