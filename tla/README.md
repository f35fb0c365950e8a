# A TLA+ development of gangline

gangline (`gang`) lets terminal coding agents in tmux panes send each other
messages.  There is no server: every command, hook and watchdog tick is a short
process that reads and replaces files under `STATE_ROOT/teams/TEAM/` and types
into a pane.  What makes it correct is therefore the order of its durable
writes, its locks, and what the next process makes of what a dead one left.
This directory models that, checks it with TLC on small instances and proves
much of its safety with TLAPS for every instance.

## The system: components, state, operations, hazards

| Component | State | Operations | What makes it correct | Modules |
| --- | --- | --- | --- | --- |
| Message delivery (`cmd/gang/delivery.go`, `runtime.go`, `late_witness.go`) | the agent lock, `Agent.Input`, what the holder remembers | send, wake, acquire, recover, reconcile, drain, paste, settle, withdraw, submit, await, report | a message is pasted at most once; a receipt says only what is known; its sender is told; none is stranded in the queue | Delivery, Harness, MessageReceipts |
| Inbox and receipts (`store/inbox.go`) | `inbox/{new,cur,failed}`, `LastDelivered/Accepted/Failed`, `Cleanup`, the witness slot | publish, withdraw, settle, clean, reopen | files and receipts agree after any crash, and stay bounded | Envelopes, Inbox |
| Compaction (`cmd/gang/compaction.go`, `recover.go`) | `Agent.Compaction`, the resume envelope | request, start, submit, admit, complete, fail, interrupt | the resume note is submitted once, only for a compaction that ran, and what is said of it is true | Compaction |
| Native clear (`cmd/gang/clear.go`, `store/clear.go`) | `Agent.Clear`, the session-start file | reserve, enter, admit, reconcile | `/clear` and its continuation happen once; the record is about the new conversation | Clear |
| Status hooks, turn boundaries (`store/hooks.go`, `status_hooks.go`, `recover.go`, `turn_close.go`) | `status-hooks`, `HookSequence`, the turn part of the record | write, reconcile, observe, acknowledge, prune | no recorded end is lost before its handlers; open turn, failure and activity are those of the native program | Turns |
| Native pending proofs (`claude_native.go`, `native_pending.go`) | `native-pending/` | begin, write, witness, settle, retire | a message is entered once and every proof reaches its sender | Peer |
| Registration, names, drop, rehitch (`hitches.go`, `team.go`, `rehitch.go`, `rehitch_stopped.go`, `store/store.go`, tmux `registration.go`) | `names/`, `agents/`, panes, processes | hitch, up, drop, down, rename, restart, recover | one native process per agent; every pane, process and name leads to its record | Registry |
| Watchdog (`cmd/gang/watchdog.go`) | the recorded timer, the outage marker, the scheduler lock | replace, disarm, note | a team with agents keeps a timer, or knows it has none; no timer escapes the record | Watchdog |
| Snoozes and usage wakes (`snooze.go`, `usage_state.go`, `auto_cap.go`) | the team's usage state | set, clear, route, publish, judge, re-arm | a wake goes in once, is judged by its own turn and never lost | Wakes |
| Team-idle notice (`store/team_idle.go`, `team_idle.go`) | publication ledger, latch, window, notice | publish, observe, reserve, flush, settle | one notice per episode of work, after quiet, to its own lead | TeamIdle |
| Outside agents (`store/outside.go`, `outside*.go`, `mcpauth`, `mcpevents`) | mailboxes, credentials, `oauth.json`, `events.json` | register, rotate, remove, send, acknowledge, grant, subscribe, watch | keyed sends happen once, mail and credentials are not lost, the revoked do nothing more | Mailbox, Grants, Subscriptions, Outside |

The components interact through the files: a hook writes a witness, a session
start, a status record or a permission mark without the agent lock and starts a
detached `tick`; every command that takes the lock reads them all first
(`acquireAgent`), and delivers what is queued on its way out (`drainFrom`).  The
models follow the same seams: each has the writes of its own component, and what
the others do to it as actions of an environment (a turn that ends, mail that
comes in between, an owner that dies).

`PROJECT.json` lists every component, modelled or not, the code each definition
stands for, and every hazard at its line with the properties that watch it.

## Modules and code

**Envelopes** declares envelope identities.  **Inbox** has one operator per
durable write of `store/inbox.go`: `dir` says in which directory the envelope's
file is (it only moves by rename), `result` the outcome written into it,
`input`, `last` and `cleanup` are `Agent.Input`, the three receipts and
`Agent.Cleanup`.  `Settle` is three writes (`RewriteResult`, `FileResult`,
`TakeReceipt`), `CleanResult` two, so a process may die between any of them.

**Harness** is the part outside the repository that `delivery.go` guards
against: the native composer, its visible queue, the prompts it submits, its
submit hooks, and the operator at the same keyboard.  A text is the operator's
words, a pasted message, or words with a message behind them; only a text that
begins with the message carries its token where `matchesEnvelope` looks.  Hooks
are processes without the agent lock; they finish in any order or not at all.

**Delivery** is the agent lock and its holder.  A process is idle, about to try
the lock, holding it, or looking again after the unlock.  `pc` is the holder's
next step; a crash forgets everything but the files and the harness:

| Code | Actions |
| --- | --- |
| `publishMessage`, `PublishNew` | `Send` |
| tick, later commands | `Wake`, `TakeLock`, `FindLocked` |
| `acquireAgent`: `CleanResult`, `recoverInput`, `reconcileDelivery` | `CleanResult`, `CleanedResult`, `RecoverInput`, `Reconcile`, `Reopen`, `Reopened` |
| `finishInput`, `settleReceipt`, `Settle` | `Rewrite`, `File`, `SaveReceipt`, `Finish`, `Notify` |
| `drainLocked` | `List`, `Pick`, `Check`, `Report`, `Relist` |
| `deliver`, `settlePaste`, `withdrawPaste`, `awaitReceipt` | `Begin`, `PasteText`, `Settle`, `Abandon`, `WithdrawPaste`, `PressClear`, `ReadCleared`, `SubmitKey`, `AwaitReceipt` |
| `drainFrom` after the unlock | `Unlock`, `Recheck`; `CheckFails` |

Any paste or key press may fail, and a failed key press may have reached the
pane.  A look at the pane that fails before the input is recorded (`CheckFails`),
like any write that fails (`Crash`), ends the drain with its error: it unlocks and
returns without the second look.

**MessageReceipts** is the table of receipts of `docs/concepts.md` as a
transition system with four variables and eight actions; `Delivery!Promise`
maps to it (`Status`, what was pasted, keyed and submitted).

**Watchdog** is `updateWatchdog` step by step: read the outage marker, stat and
open the lock file, lock it (waiting, or not, as the caller does), check that it
is still the file at that path, list the agents, disarm, remove or write the
recorded generation, arm, unmark; and its error path.  Callers are hooks' scoped
ticks, sweeps, the timer's own tick, hitches, drops and downs.  The directory is
removed by a down and made anew by a hitch, so lock files have generations.

**TeamIdle** is `idle.json` (ledger, latch, notice), `idle-window.json`, the
hooks and deliveries that disturb them, sweeps that observe each worker under
its lock and then evaluate all of them, and the notice's way through the lead's
inbox: `Flush`, `Retire`, `Paste`, `Settle`, `File`, `LateProof`, `Prune`.

**Compaction** is `Agent.Compaction`, its note and its notices.  `comp` is the
record, `holder` the lock's owner with what it read, `screen` the native program
with its composer and queue, `hooks` the hook processes that admit the note or
record the native end.  The note, the witness, the status record and the
transcript report in any order; both shipped collars are in the initial states:
`codex` withdraws a staged command and shows its queue and a refusal, `claude`
does none of these.

**Clear** is the reserved `/clear`: `agent.clear` with its status, the session
the record is bound to, the admission file the submit hook writes without the
agent lock, and the native program whose conversation ends and begins, eager or
not about its session-start hook.  `FinishInput`'s saves (receipt, input, request)
are steps of their own, and `Recover` takes each of the three ways of
`startup_recovery.go`: Enter on a held paste, `Wipe` and a new paste for a
collapsed one, a new paste into an empty composer; each looks at the admission
file again before its Enter (`SubmitPossible`).  What an acquisition itself
repairs is one step, since the next owner would repeat it.

**Turns** has the native program's turns (typed, folded into a running turn, or
run from its queue), the hook processes with their clock, witness and record,
and `TickBegin`, `Observe`, `ObserveOutcomes`, `Acknowledge`, `Prune`, which are
`reconcileStatusHooks`, `observe*`, `observeStatusOutcomes`,
`acknowledgeStatusHooks` and `PruneStatusHooks`.  `AfterWitness`, `AfterEnd` and
`AfterRecord` are `reconcileNativeBoundary` as pure functions of the record.

**Peer** is delivery through a native program's peer socket: the evidence saved
before the write, a write that may be taken though it failed, the hook's proof,
and the owners that settle, tell and only then remove.

**Registry** has three processes (a command with the team lock, a tick or
`--recover`, a rename) over claims, records, panes and native processes; each
takes one write per step and may be killed between any two.  `gens` counts tmux
servers, which reuse pane numbers.  A launch may make its pane and err all the
same, its registration may fail with or without the removal, and it may be unable
to see the server's or the native's process; `strays` are the panes that no record
will ever name.

**Wakes** has the usage lock's sections as single steps up to their save, the
lines of the team log as steps after it, and the publication of what is due as one
step per recipient; `usage` is the team's usage state, `files` the recipients'
inboxes and `native` the turns that run and judge it.  Its three parts (a caller's
wakes, automatic wakes after a cap, usage bands) share the state and are explored
one at a time.

**Mailbox**, **Grants** and **Subscriptions** are `store/outside.go` with its
commands and tools, `internal/mcpauth` and `internal/mcpevents`; **Outside**
composes them: they share registrations, the server process, its deaths and its
requests, and a behaviour exercises one of them beside the operator's commands.

The `MC*` modules are the instances, the `*Proofs` modules the proofs.  Operators
marked `Defect:` are plausible bugs; they are in no next-state relation and are
there to show that each property notices one.


## Runs

Every run passes; a property is listed with the run that checks it.

| Run | Instance | Properties | Shows |
| --- | --- | --- | --- |
| `delivery_crash` | 2 messages (one expires, one is Gangline's own and a paste hazard), 2 commands, 1 death or error | `FilesKept`, `PastedOnce`, `SendersTold`, `ArrivalsSettle` | a death or a failed call at any step pastes nothing twice, leaves files and receipts in agreement and senders told; the unlock and the second look lose no arrival but one behind a drain that died or erred, which the ticks find; ticks settle what is queued |
| `delivery_operator` | an agent's message, which may be withdrawn, and a notice of Gangline's own that is a paste hazard, all screens, all operator actions, mid-turn input, 1 death or error | `TypeOK`, `FailedNeverKeyed`, `DeliveredIsProven`, `KeepsReceipts` | receipts say what happened, and Delivery implements the table of receipts |
| `watchdog` | 2 processes, 2 generations, 2 teams, 1 mishap | `NoStrayTimer`, `TimerOrOutage`, `TimersFollowAgents` | no timer escapes the record, and timers come and go with the agents |
| `team_idle` | 2 workers, 1 sweep, 1 message, 2 notices, 2 turns, 2 leads, 1 crash | `CountedOnce`, `NoticeOnce`, `NoticeIsDue` | publications count once; a notice is sent once, after work and quiet, to its own lead |
| `compaction` | 2 compactions, both collars, 1 mishap, 2 native starts or ends | `NotesRun`, `NoticesAreTrue`, `CompletionIsOwn` | the note runs once, and what is recorded and said of a compaction is true |
| `registry` | 2 agents, 2 names, 3 commands, 1 mishap | `OneNative`, `RecordsHold`, `OwnPanesOnly` | no native process runs twice, none that was registered is lost to its record, and no command touches another's pane |
| `registry_live` | 1 agent, 2 names, 3 commands, 2 mishaps | `StartupsEnd` | ticks alone end every startup, and every hold on a pane whose end can be known |
| `outside` | 2 registrations, 1 name, 1 key, 1 mail, 2 requests, 3 commands, 2 calls, 6 tokens, 1 fault | `MailOnce`, `PrincipalsHold`, `GrantsHold`, `AnswersStand`, `EventsArrive` | a keyed send happens once and keeps its answer, mail, names, credentials and receipts survive, no grant is used twice, mail wakes its subscriber |
| `turns` | 2 turns, 1 twist | `BoundaryKept`, `OpenTurnIsReal`, `VerdictsAreReal` | no recorded end is lost before its handlers, and the record tells what the native program does |
| `clear` | 2 clears, 3 prompts, 2 twists | `OnceEach`, `OwnConversation`, `ClearCompletes` | `/clear` and its continuation happen once, and the record is about the new conversation |
| `peer` | 2 messages, 2 twists | `EnteredAsTold`, `ProofsCount`, `ProofSettles` | a message is entered once, proofs are kept, settled and count for what they prove |
| `wakes` | a caller's wakes, its caps, or usage bands; 3 turns, 2 instants (3 for bands), 2 windows, 2 twists | `WakesOnce`, `OutcomesInOrder`, `SharedStateKept`, `BandsKept`, `WakesEnd` | a wake goes in once, is judged by its own turn, is not lost before its end is saved, does not wait for ever for one that can take it, and has an outcome; a band of a window is announced once, and no late reading takes the account back |

### Bounds

*Delivery.*  Two messages let a receipt be superseded while another is settled;
two commands are the least that meet at the lock, so that one finds it taken and
the other looks again.  The crash strikes at every step, recovery included.
Each run has a message whose sender is told and one of Gangline's own, which has
none; the one that would not survive a paste takes the early failure, the other
the withdrawal.  A death and a drain that errs share one budget, since what the
second leaves behind is what the first does.
`MidTurn` is the collar's setting and takes both values over the runs.

*Watchdog.*  Two processes contend; two generations are the recorded one and its
replacement, either of which may be left a stray; two teams give one removed
lock file.

*TeamIdle.*  Two workers let one be dropped while the other idles; two notices
tell an old one from its successor; two leads, the replaced from the replacing.
The verdicts are `delivered` and `unverified`: `accepted` and `failed` end a
notice as those two do.

*Compaction, Clear, Peer, Wakes, Turns, Registry, Outside.*  Two of each subject
are the least that let an end, a proof or a write of the older meet the newer.
Wakes has a third turn for the one a wake is typed into, and a third instant for
usage bands, so that a reading of the old window is observed, or observed again,
after one of the new; a reading is one of the twists there.
A mishap, twist or fault is one act out of the ordinary course (a dead owner or
hook, a failed call, an act of the operator, a lost session); the budget is the
number in one behaviour, and it may be spent at any step.  The properties are
about what one such act breaks; two are allowed where the state space is
small enough (Clear, Peer, Wakes, `registry_live`).  A third name, agent or
registration would only repeat what one of two does.

`CHECK_DEADLOCK FALSE` is stated where turns, generations, commands or the clock
run out and the modelled system really may stop.  In Delivery, TeamIdle and
Clear some command, sweep or owner can always start.

### Fairness

Processes that run go on: no wait in them is unbounded (`operationTimeout`) and
the kernel schedules them (weak fairness of a process's steps: `RunSpec`,
`FairSpec`, `Fairness`).  Ticks come again and again while the watchdog is there,
which is Watchdog's own subject; they need the agent lock, which comes and goes,
so they are strongly fair (`Acquire`, `TickBegin`, `Tick`), and so are timers
that are armed and hooks in Watchdog.  Turns of a native program end in Clear and
Wakes, and its submit hooks run.  Nothing is assumed of the operator, of mishaps
or of further commands.  Each liveness property names what ends its promise: an
abandoned paste that holds the composer (`ArrivalsSettle`), a twist
(`ClearCompletes`), a turn's end nobody saw (`WakesEnd`), a server nobody saw
(`StartupsEnd`).

## Where a property has an exception

The models follow the code, and where the code does less than a doc or comment
could be read to promise, the property states the exception:

- *An Enter of the operator during a withdrawal.*  `withdrawPaste` captures,
  clears and captures again.  The operator may submit the paste in between, and
  the message is then filed failed although it reached the native program.
  `FailedNeverKeyed` therefore speaks of Gangline's own key.
- *A death or a failed write between an outcome and its notice.*  Nobody resumes
  the notice to another sender (`untold` in `SendersTold`; `crashes = 0` in
  `FailureToldUncrashed`).
- *A drain that dies or errs* does not look again: what was published behind its
  lock waits for the next tick (`mishaps` in `NoLostArrival`).
- *A timer that elapses before the call that armed it returns* may have its
  outage mark removed with the older one.  `PromptArm` excludes it.
- *A team removed and made anew under a running replacement* can have two
  replacements at once: the lock file is compared with its path before the
  agents are listed (`watchdog.go:195`, 209).  A down and a hitch in between leave
  the caller with the lock of a removed file and the agents of the new team, beside
  the hitch, which holds the new lock, although `docs/internals.md:347` has the
  scheduler lock serialize timer replacement.  The timer of one is then a stray
  until it fires.  `PromptSweep` excludes this race: the run and the theorems speak
  of the timers of systems without it.
- *A restart with an unfinished rename* loses one end of the rename, and so does
  an agent whose claim `up` superseded in one: the next rename of its retained
  record forgets the other end (`cut` in `NoForgottenNameUncut`).
- *A launch that was killed before it recorded its pane, that erred after tmux
  had made it, or whose registration and removal both failed* leaves a pane no
  record names (`strays` in `PaneIsRecorded`).
- *A process that the hitch cannot see* is not witnessed.  A native so launched
  may outlive its pane beyond any record's reach (`Reachable` in `OneNative`); a
  pane whose server was not witnessed is never known to be closed once that server
  is gone, and its record keeps the hold until a drop (`ServerUnknown` in
  `HoldEnds`).  What was witnessed is assumed to stay visible to ticks; a teardown
  that cannot see it warns and gives the witness up (`WitnessKept`).
- *A newer prompt whose hook has read its clock but not written its witness* lets
  an older turn's finish close it (`late` in `RunningIsOpen`); a failure's hook
  slower than the whole turn queued behind it misplaces the failure.
- *A submit hook that died* leaves a continuation unadmitted (`dead` in Clear).  A
  continuation that ran, whose owner died before its receipt and whose witness was
  overwritten since, stays unverified: `ClearCompletes` is about behaviours
  without twists.
- *A wake rerouted to another ID* leaves its first copy in the inbox of the agent
  that stopped, which submits it when it starts again: the caller's wake then
  runs twice, or after its withdrawal (`astray` in `SubmittedOnce`,
  `WithdrawnStays` and `FollowUpWaits`; not excused in `WakesEnd`).
- *A wake whose paste was not confirmed* stays unverified, as Gangline's own input
  does, until its caller or a lead clears it or its recipient goes: `WakeSent`
  speaks of wakes that were never typed and of recipients that can take them.
- *A wake's end is saved before it is logged* (`usage_state.go:757`): a death in
  between, or a failed append, leaves the end out of the team log
  (`log.missed` in `NoSilentLoss`), where `docs/reference.md:1079` has every stage.
- *A callback whose 2xx answer cannot be read* is posted again, up to three times,
  so its subscriber may have an event more than once without a death or a failed
  write (`RepeatedOnlyByFault` counts from an answer that was read).

## Proofs

The theorems hold for every set of messages, processes, workers or generations,
every order, collar setting, operator and set of screens, and every value of the
bounds, crashes included.  Their assumptions are the named `ASSUME`s of the
modules they are about, which TLC evaluates in every run.  None of the
properties is inductive; each module states the strengthening its proof needs as
a conjunction of named parts, goes through the actions once per part, and draws
the properties from it.  Each strengthening was checked by TLC on the
configurations above before it was proved.

*DeliveryProofs.*  That a message is typed once depends on which input is open,
where its file is, and what the holder is about to do.  `IInv` is

- `TypeOK`;
- `Store`, about the durable files alone, so that a crash cannot disturb it: the
  three file invariants, `Superseded` (what is to be deleted is neither a
  receipt nor open) and `Distinct` (a message is the receipt of one outcome);
- `Control`: for each step of the holder, which input is open and where its file
  is; a new holder knows nothing, which is exactly what recovery may assume;
- `Untyped`: a message that is still queued and not open was never typed;
- `PastedOnce`.

`TypeStep`, `StoreStep`, `ControlStep` and `PasteStep` each go through the
actions; `InboxWrites`, `ReceiptsWritten`, `FileMoved`, `InputOpened` and
`HarnessMoves` say once what a write or a key does.  It gives `TypeCorrect`,
`NeverPastedAgain` and `FilesAlwaysKept`.

For what receipts say, `Unkeyed` (a message whose key may still be pressed has no
outcome; "failed" is only on its way for one whose key was not) gives
`FailedUnkeyed`; `Proven` (hooks and the witness only hold what was submitted; a
holder that settles or reopens as delivered has seen that witness) gives
`DeliveredProven`.

For the senders: `SendersTold` speaks of an unlocked agent; what the holder
still owes is in `Telling`: an unsettled message is told, its sender's own
command's, the open input, or the one the holder is on its way to report
(`Owing`); notices are only about what was recorded (`Reporting`), and an
operation that ends without a notice has nothing to tell (`Ended`, `Unnoticed`).
It gives `SendersAlwaysTold`.  For the table of receipts: `Recorded`, `Accepted`
and `Carried` add what a step of the abstract table needs; each action is then
one abstract step or a stutter (`Simulates`), which gives `ReceiptsKept`:
`Spec => KeepsReceipts`.

*WatchdogProofs.*  `IInv` says what a holder of a lock file may rely on.  `Locks`:
a process past the flock holds the file it opened, and once it has compared it
with the team's it is the team's; `Downs`: a down works alone, with the team
lock and no agent left; `Closing`: when it erases the team nobody is arming a
timer or going to; `Olds`: what the holder read is still recorded while it acts
on it.  The theorems assume `PromptSweep`, and `OutageIsKnown` also `PromptArm`,
which exclude the two races described above: with the first, the timer of one of
two replacements is a stray until it fires; with the second, an outage can go
unmarked.  That replacements are serialized is no theorem, for it is false.  Both are
boolean constants, so a theorem with the hypothesis is about the systems in
which that race does not occur, and any other schedule is covered.  `OutageIsKnown`
needs one more part, `Tended`: a recorded timer is armed, its outage marked, or
some process is on its way to do one of the two.

*TeamIdleProofs.*  `CountedOnce` follows from `Absent` (nothing is left of a
dropped worker and nothing awaits one that never joined) and the counting lemmas
`PublishCounts`, `ReadKeeps`, `DropCounts` and `JoinCounts`: every other step
leaves both the count that a reader would make and the set of what was published
alone (`CountsKept`).  `PastedOnce` rests on `Unpasted`: an envelope is linked
only while its notice has no outcome and was never pasted.  `NoticesAreDue`, an
action property, is drawn from `Active` (evidence of work is evidence of a turn
since the last notice) and `Watched` (an unmoved window shows every hook and link
since it began); `ReserveIsDue` applies both at the only step that takes a
notice.

*ClearProofs.*  Two things carry it.  A submitted prompt's number belongs to one
conversation (`Own`), so what was recorded of a turn stays true (`Seen`,
`TurnsAreOwn`).  Admission only grows: a continuation above it began no turn, and
one that its hook let through is at most it (`Admitted`), so none goes through
twice.  `Record` says what binds: a conversation bound to a request has begun
with the continuation (`First`), is beginning with it (`Beginning`) or has no
turn and awaits it (`Awaiting`), and an admitted continuation is of the bound
conversation (`Binding`); hence a request cannot be completed while its
conversation awaits (`ProvenIsBegun`), and while its receipt is saved and its
request is not, the continuation has begun (`Begun`).  The steps of the native program and its
hooks are taken one by one; those of the owner and the operator leave that side
alone (`StillKeeps`), and each function that changes the record keeps `Record`
(`ReconciledKept`, `RecoveredKept`, `ProvenKept`, `ObservedKept`,
`SettledKept`).  It gives `HappensOnce` and `ConversationIsItsOwn`.

*PeerProofs.*  `EnteredAsTold` needs the whole life of an attempt.  `OneAttempt`
and `Causes` tie the saved evidence, the native program's prompts and the hooks'
proofs to the write that caused them; `Control` says what each step of an owner
has settled; `Queue` and `Copies` where the message's file is, and that a second
write is only begun when the first cannot have been taken; `Kept` and `Timely`
that a proof stays until the receipt and the sender have it and that a settling
proof ends a capacity episode only from a later turn.  It gives `EntersAsTold`
and `EveryProofCounts`.

*OutsideProofs.*  The invariant is three parts about the three components, for
any client beside them: `BoxStepping` reduces every step of grants and
subscriptions to one that counts, dies or leaves the mailboxes alone.  `Locks`
makes the team lock's holder the only one that writes (except a rename, which
claims names without it); `Admin` says what a command's earlier writes left for
the next; `Fresh`, that a registration that was never used has no mail, send or
receipt, which is why a claimed name cannot reveal any; `SendsHold` and
`RequestsHold`, that the intent of a send tells what became of its envelope and
that a request under the lock still speaks for its principal.  `Issuance`, of the
grants in memory and of those in the file, is kept by each change on its own
(`ConsentIsNew`, `CodeIsNew`, `TokensAreNew`, `FewerGrants`), so a commit may
reach either.  It gives `MailIsHandedOnOnce`, `RegisteredCanLogIn`,
`GrantsAreUsedOnce` and the action property `AnswersAreKept`.

*CompactionProofs.*  The record, the note and the queue change at different
times, so `IInv` says step by step what an owner may rely on.  `Control`: the
status, the input and the note for each step of the lock's holder; `Named` and
`Texted`: an id that no compaction has is not about, and a note's text, altered
or not, is of a note that was pasted.  `Reserved` carries `NoteOnce`: a pasted
note has left the queue or its input is still recorded, and only what was pasted
is admitted.  `Unstranded` and `Telling` are about behaviours without a crash:
a queued note is the one being entered or withdrawn, and a failure with no
notice yet is the one the holder is about to tell.  `Timed` ties the record's
start to the native end it waits for.  `Typed` is about behaviours in which
nobody else is at the keyboard: what is in the composer at each step, and that a
counted refusal is of a command that did not run.  What the native program does
with a key is said once (`EnterDoes`, `RunDoes`, `OperatorDoes`), and so is what
a reading of the record may change (`RecordRead`, `NoteRead`, `TakeLockKeeps`);
one lemma per action (`...Keeps`) does the rest.  It gives `NotesRunOnce`,
`NoticesTellTheTruth` and `CompletionsAreOwn`.

*RegistryProofs.*  A record, its claims, its pane and its process are written one
at a time, by three kinds of process and past any death, so `IInv` says what each
still owes the others.  `Server` and `Owning`: pane ids are given out once per
server (`Used`), and a pane or process that a record names is that agent's own.
`Naming`: a record that can still be used (`Live`) holds the claim of its name,
and an unfinished rename names both of its ends.  `OpLocks` and `OtherLocks`:
which step of which process holds an agent's lock.  The command's own parts say
what it found and left behind: `First` (a first launch has its id to itself),
`Superseding`, `Ending` (a restart or drop has ended what its record says before
it writes the next one), `Starts` and `Registered` (what is launched is alone and
its own), `Emptying` (what `down` has not dropped is on its list, or there is
nothing left to find).  `Strayless` is the check for unregistered panes, kept
until the launch it was made for; `Budget` counts launches against the commands
that asked for them, which bounds processes and servers by `MaxOps`.  Whoever
takes an agent's lock first finishes its rename and its deadlines (`RenamedIs`,
`TakenKeeps`); a step that keeps what a record names is `OpPuts` or `TickPuts`,
one that ends panes or processes `LessOp`, one that writes a record anew
`ReplaceKeeps`, which needs the old record bare and its process dead.  One lemma
per action (`...Keeps`) does the rest.  It gives `OneProcess`, `RecordsLead` and
the action property `PanesAreOwn`.  The proof brought out two things that the
model has since then: the end of a rename that a superseded agent's record
forgets (`cut` above), and a rename whose record `down` removed under it, which
may still claim a name of the next team (`RenameClaim`).

### Only model-checked

- Liveness and everything with `ENABLED` is beyond the proof system:
  `ArrivalsSettle`, `TimersFollowAgents`, `EventsArrive`, `ClearCompletes`,
  `ProofSettles`, `StartupsEnd`, `WakesEnd`.
- `OpenTurnIsReal` and `VerdictsAreReal` (Turns) fold over the record of hooks:
  what a fold computes needs induction over its data, which the provers cannot
  instantiate.
- `OutcomesInOrder`, `SharedStateKept`, `WakesOnce` and `BandsKept` of Wakes and `BoundaryKept`
  of Turns are checked on the instances above and not proved.

## What the plan has left

In order: `BoundaryKept` of Turns, whose proof needs the acknowledged sequence as
a field of its own; then `OutcomesInOrder` and `SharedStateKept` of Wakes.

## Not modelled

- *Capacity and context notices*: one agent's own record under its own lock.
- *Collars, screens and tmux text*: parsing of captures is text processing.
  Harness, Compaction and Registry state what a reading can mean and let any
  capture fail or be stale; window placement, quoting and launch arguments are
  left out.
- *Peer hosts*: `gang` over SSH to another host keeps no state here.
- *Evidence, log and prose*: append-only records and reports that no decision
  reads back.
- Within modelled components: sealing a dropped agent's inbox, the secret and its
  rotation, request validation and cryptography of the outside server, permission
  prompts, the wording of notices and readings as numbers, and the recovery of a
  startup contract's paste (Clear has that of a continuation, which goes the same
  ways under one more check).  The notes in `PROJECT.json` name them component by
  component.
