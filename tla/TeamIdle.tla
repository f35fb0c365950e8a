------------------------------ MODULE TeamIdle ------------------------------
(***************************************************************************)
(* The team-idle notice (store/team_idle.go, cmd/gang/team_idle.go): when  *)
(* the workers of a team have been quiet for a while after some work, the  *)
(* team's lead gets one message.                                           *)
(*                                                                         *)
(* idle.json holds the publication ledger, the latch and the notice;       *)
(* idle-window.json what sweeps observed.  Every step below that reads     *)
(* them holds idle.lock; a step that replaces both files may die between   *)
(* them.  A worker's lock is held by the sweep that observes it, by its    *)
(* deliveries and by the evaluation of the whole team, so each is a step.  *)
(***************************************************************************)
EXTENDS Naturals, FiniteSets, Sequences

CONSTANTS Workers,
          Sweeps,       \* processes that run whole-team ticks
          Msgs, NoMsg,  \* ordinary messages to workers
          Verdicts,     \* how the lead's receipt of a notice may end
          MaxNotices, MaxTurns, MaxLeads, MaxCrashes

ASSUME MsgsAssumption == IsFiniteSet(Msgs) /\ NoMsg \notin Msgs
ASSUME VerdictsAssumption == Verdicts \subseteq {"delivered", "accepted", "failed", "unverified"}
ASSUME BoundsAssumption ==
  MaxNotices \in Nat /\ MaxTurns \in Nat /\ MaxLeads \in Nat \ {0} /\ MaxCrashes \in Nat

VARIABLES
  members,  \* the registered workers
  gone,     \* those dropped
  lead,     \* the registration of the team's lead, 0 once it is dropped
  turn,     \* the native turn of each worker; a turn waits for the hook that opens it
  early,    \* workers whose opening hook was stamped before the last notice
  hooks,    \* status hooks of each worker that no tick has reconciled
  activity, \* the recorded Activity of each worker
  to, place, \* each message's recipient, and its place in the inbox
  pending, work, \* the ledger: a publication under way, publications counted
  known, armed,  \* the last membership evaluated, [lead, members], and the latch
  notice, outcome, bound, \* the notice reserved last, its outcome, each notice's lead
  window,   \* the observation window: [open, old, lead, members, work, moved]
  sweep,    \* what each whole-team tick holds
  env,      \* the place of each notice's envelope in the lead's inbox
  input, stage, \* the notice in the lead's composer
  pasted,   \* history: the leads each notice was pasted to
  touched,  \* history: workers with a hook or a message since the window began
  worked,   \* history: workers whose turn ran since the last notice
  turns, crashes

people == <<members, gone, lead>>
native == <<turn, early, hooks, turns>>
inbox == <<to, place>>
ledger == <<pending, work>>
latch == <<known, armed>>
intent == <<notice, outcome, bound>>
delivery == <<env, input, stage, pasted>>
history == <<touched, worked>>
vars == <<people, native, activity, inbox, ledger, latch, intent, window, sweep, delivery,
          history, crashes>>

Notices == 1..MaxNotices
Settled(o) == o \in {"delivered", "failed", "recipient-gone", "recipient-changed"}
None == [w \in Workers |-> 0]
NoWindow == [open |-> FALSE, old |-> FALSE, lead |-> 0, members |-> {}, work |-> None, moved |-> FALSE]
NoSweep == [on |-> "no", lead |-> 0, members |-> {}, work |-> None, observed |-> {}]

Counts == [Workers -> 0..Cardinality(Msgs)]
TypeOK ==
  /\ members \subseteq Workers /\ gone \subseteq Workers /\ lead \in 0..MaxLeads
  /\ turn \in [Workers -> {"idle", "opening", "busy", "closing"}]
  /\ early \subseteq Workers /\ hooks \in [Workers -> SUBSET {"start", "late", "end"}]
  /\ activity \in [Workers -> {"idle", "busy"}]
  /\ to \in [Msgs -> Workers] /\ place \in [Msgs -> {"unsent", "new", "filed", "gone"}]
  /\ pending \in Msgs \cup {NoMsg} /\ work \in Counts
  /\ known \in [lead : 0..MaxLeads, members : SUBSET Workers] /\ armed \in BOOLEAN
  /\ notice \in 0..MaxNotices /\ bound \in [Notices -> 0..MaxLeads]
  /\ window \in [open : BOOLEAN, old : BOOLEAN, lead : 0..MaxLeads, members : SUBSET Workers,
                 work : Counts, moved : BOOLEAN]
  /\ sweep \in [Sweeps -> [on : {"no", "observe", "flush"}, lead : 0..MaxLeads,
                           members : SUBSET Workers, work : Counts, observed : SUBSET Workers]]
  /\ env \in [Notices -> {"none", "new", "filed", "gone"}]
  /\ input \in 0..MaxNotices /\ stage \in {"none", "pasted", "settled"}

Init ==
  /\ members = {} /\ gone = {} /\ lead = 1
  /\ turn = [w \in Workers |-> "idle"] /\ early = {} /\ hooks = [w \in Workers |-> {}]
  /\ activity = [w \in Workers |-> "idle"]
  /\ to \in [Msgs -> Workers] /\ place = [m \in Msgs |-> "unsent"]
  /\ pending = NoMsg /\ work = None
  /\ known = [lead |-> 0, members |-> {}] /\ armed = FALSE
  /\ notice = 0 /\ outcome = "none" /\ bound = [n \in Notices |-> 0]
  /\ window = NoWindow /\ sweep = [p \in Sweeps |-> NoSweep]
  /\ env = [n \in Notices |-> "none"] /\ input = 0 /\ stage = "none"
  /\ pasted = [n \in Notices |-> <<>>] /\ touched = {} /\ worked = {}
  /\ turns = 0 /\ crashes = 0

-----------------------------------------------------------------------------
(* The publication ledger.                                                 *)

Touched(w) == IF window.open THEN touched \cup {w} ELSE touched

Linked(m) == m # NoMsg /\ place[m] \in {"new", "filed"} /\ to[m] \in members

\* Read: a publication under way counts when its envelope was linked, and a
\* dropped worker's count goes.
Counted ==
  [w \in Workers |-> IF w \notin members THEN 0
                     ELSE IF Linked(pending) /\ to[pending] = w THEN work[w] + 1 ELSE work[w]]

Read == pending' = NoMsg /\ work' = Counted

\* PublishNew saves the publication and links the envelope, or dies between.
Publish(m) ==
  /\ place[m] = "unsent" /\ to[m] \in members
  /\ work' = Counted /\ pending' = m
  /\ \/ /\ place' = [place EXCEPT ![m] = "new"]
        /\ touched' = Touched(to[m])
        /\ UNCHANGED crashes
     \/ /\ crashes < MaxCrashes /\ crashes' = crashes + 1
        /\ UNCHANGED <<place, touched>>
  /\ UNCHANGED <<people, native, activity, to, latch, intent, window, sweep, delivery, worked>>

\* Defect: the envelope is removed under a publication that nobody counted.
RemoveUncounted(m) ==
  /\ place[m] \in {"new", "filed"}
  /\ place' = [place EXCEPT ![m] = "gone"]
  /\ UNCHANGED <<people, native, activity, to, ledger, latch, intent, window, sweep, delivery,
                 history, crashes>>

\* Withdraw, ClearScheduled and CleanResult.
Remove(m) ==
  /\ place[m] \in {"new", "filed"}
  /\ Read
  /\ place' = [place EXCEPT ![m] = "gone"]
  /\ UNCHANGED <<people, native, activity, to, latch, intent, window, sweep, delivery, history,
                 crashes>>

-----------------------------------------------------------------------------
(* Membership and the native programs.                                     *)

Join(w) ==
  /\ w \notin members \cup gone
  /\ members' = members \cup {w}
  /\ UNCHANGED <<gone, lead, native, activity, inbox, ledger, latch, intent, window, sweep,
                 delivery, history, crashes>>

Drop(w) ==
  /\ w \in members
  /\ members' = members \ {w} /\ gone' = gone \cup {w}
  /\ place' = [m \in Msgs |-> IF to[m] = w /\ place[m] # "unsent" THEN "gone" ELSE place[m]]
  /\ turn' = [turn EXCEPT ![w] = "idle"] /\ hooks' = [hooks EXCEPT ![w] = {}]
  /\ activity' = [activity EXCEPT ![w] = "idle"] /\ early' = early \ {w}
  /\ UNCHANGED <<lead, turns, to, ledger, latch, intent, window, sweep, delivery, history,
                 crashes>>

\* A rehitch or a new native session of the lead, or its drop.
ChangeLead ==
  /\ lead > 0 /\ input = 0
  /\ \/ lead < MaxLeads /\ lead' = lead + 1 /\ UNCHANGED env
     \/ lead' = 0 /\ env' = [n \in Notices |-> IF env[n] = "none" THEN "none" ELSE "gone"]
  /\ UNCHANGED <<members, gone, native, activity, inbox, ledger, latch, intent, window, sweep,
                 input, stage, pasted, history, crashes>>

\* The native program opens a turn, which waits for its hook.
Open(w) ==
  /\ w \in members /\ turn[w] = "idle" /\ turns < MaxTurns
  /\ turn' = [turn EXCEPT ![w] = "opening"]
  /\ turns' = turns + 1 /\ worked' = worked \cup {w}
  /\ UNCHANGED <<people, early, hooks, activity, inbox, ledger, latch, intent, window, sweep, delivery,
                 touched, crashes>>

HookOpens(w) ==
  /\ turn[w] = "opening"
  /\ turn' = [turn EXCEPT ![w] = "busy"]
  /\ hooks' = [hooks EXCEPT ![w] = @ \cup {IF w \in early THEN "late" ELSE "start"}]
  /\ touched' = Touched(w) /\ early' = early \ {w}
  /\ UNCHANGED <<people, turns, activity, inbox, ledger, latch, intent, window, sweep, delivery,
                 worked, crashes>>

HookCloses(w) ==
  /\ turn[w] = "busy"
  /\ turn' = [turn EXCEPT ![w] = "idle"]
  /\ hooks' = [hooks EXCEPT ![w] = @ \cup {"end"}]
  /\ touched' = Touched(w)
  /\ UNCHANGED <<people, early, turns, activity, inbox, ledger, latch, intent, window, sweep,
                 delivery, worked, crashes>>

\* A delivery into an idle worker: the submit hook opens a turn and proves it.
Deliver(m) ==
  LET w == to[m] IN
  /\ place[m] = "new" /\ turn[w] = "idle" /\ turns < MaxTurns
  /\ place' = [place EXCEPT ![m] = "filed"]
  /\ turn' = [turn EXCEPT ![w] = "busy"] /\ turns' = turns + 1
  /\ hooks' = [hooks EXCEPT ![w] = @ \cup {"start"}]
  /\ Read
  /\ touched' = Touched(w) /\ worked' = worked \cup {w}
  /\ UNCHANGED <<people, early, activity, to, latch, intent, window, sweep, delivery, crashes>>

-----------------------------------------------------------------------------
(* Ticks.                                                                  *)

\* armIdleActivity: a known worker's hook, stamped after the last notice.
Arms(w) == "start" \in hooks[w] /\ known.lead # 0 /\ w \in known.members

\* A tick consumes a worker's hooks.  noteIdleActivity runs first and may die
\* between the window and the latch, or before the worker is saved.
Reconcile(w) ==
  /\ IF hooks[w] \cap {"start", "late"} # {} THEN Read ELSE UNCHANGED ledger
  /\ \/ /\ armed' = (armed \/ Arms(w))
        /\ window' = IF Arms(w) THEN NoWindow
                     ELSE IF hooks[w] # {} /\ window.open THEN [window EXCEPT !.moved = TRUE] ELSE window
        /\ hooks' = [hooks EXCEPT ![w] = {}]
        /\ activity' = [activity EXCEPT ![w] = IF turn[w] = "busy" THEN "busy" ELSE "idle"]
        /\ UNCHANGED crashes
     \/ /\ crashes < MaxCrashes /\ crashes' = crashes + 1
        /\ Arms(w) /\ window' = NoWindow /\ armed' \in {armed, TRUE}
        /\ UNCHANGED <<hooks, activity>>
  /\ UNCHANGED <<people, turn, early, turns, inbox, known, intent, delivery, history>>

\* A tick started by the worker's own hook.
HookTick(w) == w \in members /\ hooks[w] # {} /\ Reconcile(w) /\ UNCHANGED sweep

StartSweep(p) ==
  /\ sweep[p].on = "no"
  /\ Read
  /\ sweep' = [sweep EXCEPT ![p] = [on |-> "observe", lead |-> lead, members |-> members,
                                    work |-> Counted, observed |-> {}]]
  /\ UNCHANGED <<people, native, activity, inbox, latch, intent, window, delivery, history, crashes>>

Observe(p, w) ==
  /\ sweep[p].on = "observe" /\ w \in (sweep[p].members \cap members) \ sweep[p].observed
  /\ Reconcile(w) /\ UNCHANGED crashes
  /\ sweep' = [sweep EXCEPT ![p].observed = @ \cup {w}]

\* An agent or the team was locked, or one of its steps failed.
GiveUp(p) ==
  /\ sweep[p].on = "observe"
  /\ \/ sweep' = [sweep EXCEPT ![p].on = "flush"]
     \/ sweep' = [sweep EXCEPT ![p] = NoSweep]
  /\ UNCHANGED <<people, native, activity, inbox, ledger, latch, intent, window, delivery, history,
                 crashes>>

Age ==
  /\ window.open /\ ~window.moved /\ ~window.old
  /\ window' = [window EXCEPT !.old = TRUE]
  /\ UNCHANGED <<people, native, activity, inbox, ledger, latch, intent, sweep, delivery, history,
                 crashes>>

-----------------------------------------------------------------------------
(* The evaluation of the team (reserveIdleNotice), under every agent lock. *)

\* advanceIdleEpisode, then a worker seen busy: a change of membership is a
\* baseline, never an end of work.
Latched ==
  \/ armed /\ known = [lead |-> lead, members |-> members]
  \/ \E w \in members : activity[w] = "busy"

Quiet(w) ==
  /\ activity[w] = "idle" /\ hooks[w] = {}
  /\ \A m \in Msgs : place[m] = "new" => to[m] # w

\* Permission prompts, uncertain receipts, wakes and limits are left to chance.
Ready(latched) ==
  /\ members # {} /\ latched
  /\ notice = 0 \/ Settled(outcome)
  /\ \A w \in members : Quiet(w)

NewWindow == [open |-> TRUE, old |-> FALSE, lead |-> lead, members |-> members,
              work |-> Counted, moved |-> FALSE]

\* Defect: a window forgets what was published to the workers.
SameMembers == window.open /\ ~window.moved /\ window.lead = lead /\ window.members = members

\* advanceIdleWindow
SameWindow == ~window.moved /\ [NewWindow EXCEPT !.old = window.old] = window

\* idle.json is saved before the window: a tick may die between.
SaveWindow(next) ==
  \/ window' = next /\ touched' = (IF next = NewWindow THEN {} ELSE touched) /\ UNCHANGED crashes
  \/ crashes < MaxCrashes /\ crashes' = crashes + 1 /\ UNCHANGED <<window, touched>>

KeepWaiting ==
  /\ armed' = Latched
  /\ UNCHANGED <<intent, early, worked>>
  /\ \/ SaveWindow(NoWindow)
     \/ Ready(Latched) /\ SaveWindow(NewWindow)
     \/ Ready(Latched) /\ SameWindow /\ ~window.old /\ SaveWindow(window)

Reserve ==
  /\ Ready(Latched) /\ SameWindow /\ window.old /\ notice < MaxNotices
  /\ notice' = notice + 1 /\ outcome' = "none" /\ bound' = [bound EXCEPT ![notice'] = lead]
  /\ armed' = FALSE
  /\ early' = {w \in Workers : turn[w] = "opening"}
  /\ worked' = {w \in Workers : turn[w] # "idle"}
  /\ SaveWindow(NoWindow)

Evaluate(p) ==
  LET s == sweep[p] IN
  /\ s.on = "observe" /\ s.observed = members /\ s.members = members /\ s.lead = lead /\ lead # 0
  /\ Read
  /\ \/ /\ Counted = s.work
        /\ known' = [lead |-> lead, members |-> members]
        /\ KeepWaiting \/ Reserve
     \/ /\ Counted # s.work
        /\ UNCHANGED <<latch, intent, window, early, history, crashes>>
  /\ sweep' = [sweep EXCEPT ![p] = [NoSweep EXCEPT !.on = IF crashes' = crashes THEN "flush" ELSE "no"]]
  /\ UNCHANGED <<people, turn, hooks, turns, activity, inbox, delivery>>

-----------------------------------------------------------------------------
(* The notice's way to the lead.                                           *)

\* flushIdleNotice
Flush(p) ==
  /\ sweep[p].on = "flush"
  /\ sweep' = [sweep EXCEPT ![p] = NoSweep]
  /\ IF notice = 0 \/ Settled(outcome) \/ input # 0
     THEN UNCHANGED <<outcome, env>>
     ELSE \/ lead = 0 /\ outcome' = "recipient-gone" /\ UNCHANGED env
          \/ lead \notin {0, bound[notice]} /\ outcome' = "recipient-changed" /\ UNCHANGED env
          \/ /\ lead = bound[notice]
             /\ env' = IF outcome = "none" /\ env[notice] \in {"none", "gone"}
                       THEN [env EXCEPT ![notice] = "new"] ELSE env
             /\ UNCHANGED outcome
  /\ UNCHANGED <<people, native, activity, inbox, ledger, latch, notice, bound, window, input,
                 stage, pasted, history, crashes>>

\* Defect: any registration of the lead will do.
CurrentNotice(n) == n = notice /\ outcome = "none"

Current(n) == n = notice /\ outcome = "none" /\ lead = bound[n]

\* retireIdleEnvelope
Retire(n) ==
  /\ env[n] = "new" /\ input = 0 /\ lead # 0 /\ ~Current(n)
  /\ env' = [env EXCEPT ![n] = "gone"]
  /\ outcome' = IF n = notice /\ outcome = "none" THEN "recipient-changed" ELSE outcome
  /\ UNCHANGED <<people, native, activity, inbox, ledger, latch, notice, bound, window, sweep,
                 input, stage, pasted, history, crashes>>

Paste(n) ==
  /\ env[n] = "new" /\ input = 0 /\ lead # 0 /\ Current(n)
  /\ input' = n /\ stage' = "pasted"
  /\ pasted' = [pasted EXCEPT ![n] = Append(@, lead)]
  /\ UNCHANGED <<people, native, activity, inbox, ledger, latch, intent, window, sweep, env,
                 history, crashes>>

\* Defect: only the receipt keeps the outcome.
SettleReceipt ==
  /\ stage = "pasted"
  /\ stage' = "settled"
  /\ UNCHANGED <<people, native, activity, inbox, ledger, latch, intent, window, sweep,
                 env, input, pasted, history, crashes>>

\* settleReceipt records the notice's outcome before the receipt is filed; an
\* owner that died is followed by one that settles again.
Settle ==
  /\ input # 0
  /\ \/ stage = "pasted" /\ UNCHANGED crashes
     \/ stage = "settled" /\ crashes < MaxCrashes /\ crashes' = crashes + 1
  /\ \E o \in IF stage = "pasted" THEN Verdicts ELSE Verdicts \ {"failed"} :
       outcome' = IF input = notice THEN o ELSE outcome
  /\ stage' = "settled"
  /\ UNCHANGED <<people, native, activity, inbox, ledger, latch, notice, bound, window, sweep,
                 env, input, pasted, history>>

File ==
  /\ stage = "settled"
  /\ env' = [env EXCEPT ![input] = "filed"]
  /\ input' = 0 /\ stage' = "none"
  /\ UNCHANGED <<people, native, activity, inbox, ledger, latch, intent, window, sweep, pasted,
                 history, crashes>>

\* Proof that comes late settles the notice again.
LateProof ==
  /\ notice # 0 /\ env[notice] = "filed" /\ input = 0 /\ lead # 0
  /\ outcome \in {"unverified", "accepted"} /\ outcome' = "delivered"
  /\ UNCHANGED <<people, native, activity, inbox, ledger, latch, notice, bound, window, sweep,
                 delivery, history, crashes>>

\* A later receipt of the lead takes the place of the notice's.
Prune(n) ==
  /\ env[n] = "filed"
  /\ env' = [env EXCEPT ![n] = "gone"]
  /\ UNCHANGED <<people, native, activity, inbox, ledger, latch, intent, window, sweep, input,
                 stage, pasted, history, crashes>>

-----------------------------------------------------------------------------
Lead == Settle \/ File \/ LateProof \/ \E n \in Notices : Retire(n) \/ Paste(n) \/ Prune(n)

Next ==
  \/ \E m \in Msgs : Publish(m) \/ Remove(m) \/ Deliver(m)
  \/ \E w \in Workers : Join(w) \/ Drop(w) \/ Open(w) \/ HookOpens(w) \/ HookCloses(w) \/ HookTick(w)
  \/ \E p \in Sweeps : \/ StartSweep(p) \/ GiveUp(p) \/ Evaluate(p) \/ Flush(p)
                       \/ \E w \in Workers : Observe(p, w)
  \/ Age \/ ChangeLead \/ Lead

Spec == Init /\ [][Next]_vars

-----------------------------------------------------------------------------
(* "A crash after the link but before this point must still count the      *)
(* accepted publication exactly once" (store/team_idle.go:190): whatever   *)
(* is withdrawn, pruned or interrupted, a worker's work revision is the    *)
(* number of its publications.                                             *)
CountedOnce ==
  \A w \in members :
    Counted[w] = Cardinality({m \in Msgs : to[m] = w /\ place[m] # "unsent"})

(* "A missing old receipt cannot cause another paste"                      *)
(* (docs/internals.md:227), and a notice meant for a lead that was         *)
(* replaced never reaches its successor.                                   *)
NoticeOnce == \A n \in Notices : pasted[n] \in {<<>>, <<bound[n]>>}

(* One notice for one episode: between two notices a worker that is still  *)
(* registered had a turn, and never does a worker's departure complete the *)
(* team ("never completion by subtraction", cmd/gang/team_idle.go:57).     *)
NoticeEndsWork == [][notice' # notice => worked \cap members # {}]_vars

(* "Changed evidence restarts the delay even if activity returned idle     *)
(* between sweeps" (docs/internals.md:205): no worker had a hook or a      *)
(* message since the window of a notice began.                             *)
NoticeAfterQuiet == [][notice' # notice => touched \cap members = {}]_vars

(* A notice is due when it is reserved: after work, and after a whole      *)
(* delay of quiet (team_idle.go:281).                                      *)
NoticeIsDue == NoticeEndsWork /\ NoticeAfterQuiet
=============================================================================
