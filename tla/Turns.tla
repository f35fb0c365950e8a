-------------------------------- MODULE Turns --------------------------------
(* What gang knows of a native agent's turns: store/hooks.go and the turn  *)
(* part of cmd/gang/recover.go, status_hooks.go, turn_close.go, activity.go *)
(* and events.go.                                                           *)
(*                                                                          *)
(* A hook process writes a witness (a submitted prompt) or a status record; *)
(* it has no agent lock, runs late or dies. A tick reads the retained       *)
(* records under the agent lock, brings the record of the agent up to date, *)
(* lets the outcome handlers see them and only then acknowledges them. A    *)
(* roster does the same without handlers or acknowledgment. The native      *)
(* program's transcript orders its turns and tells their ends.              *)
EXTENDS Naturals, FiniteSets, SequencesExt, FiniteSetsExt

CONSTANTS
    MaxTurns,   \* bound: turns of the native program
    MaxTwists   \* bound: folded prompts, rosters, killed hooks and ticks

ASSUME TurnsAssumption == MaxTurns \in Nat /\ MaxTwists \in Nat

VARIABLES
    native,     \* the native program: its turn, phase and queue
    turns,      \* the transcript: how each turn began and ended
    hooks,      \* hook processes
    witness,    \* the last submitted prompt's witness
    file,       \* status-hooks, the retained records
    agent,      \* the native part of the agent's record
    gang,       \* the turn whose witness a delivery holds the agent lock for
    tick,       \* the tick or roster that holds it
    now,        \* the clock
    used,       \* twists so far
    unhandled,  \* ghost: turn ends a hook wrote and no outcome handler saw
    lost,       \* ghost: turns with a hook that died
    late,       \* ghost: races that misplaced the end of an older turn
    view        \* ghost: "current" once a tick saw everything there is

vars == <<native, turns, hooks, witness, file, agent, gang, tick, now, used,
          unhandled, lost, late, view>>
world == <<native, turns, hooks, witness, file, lost>>

Turns == 1..MaxTurns
NoTurn == 0
Ends == {"turn-finished", "turn-failed"}

NoWitness == [at |-> 0, turn |-> NoTurn]
NoTick == [pc |-> "none", kind |-> "none", ended |-> {}, seq |-> 0]

Init ==
    /\ native = [turn |-> 0, phase |-> "idle", queue |-> 0]
    /\ turns = [t \in Turns |-> [from |-> "none", end |-> "none", at |-> 0]]
    /\ hooks = {} /\ witness = NoWitness /\ file = {}
    /\ agent = [submitted |-> 0, turn |-> NoTurn, finished |-> 0, failure |-> "none",
                failed |-> NoTurn, seq |-> 0, hookAt |-> 0, hookKind |-> "none",
                activity |-> "idle", probe |-> 0]
    /\ gang = NoTurn /\ tick = NoTick
    /\ now = 0 /\ used = 0
    /\ unhandled = {} /\ lost = {} /\ late = {} /\ view = "stale"

-----------------------------------------------------------------------------
(* The native program and its transcript.                                  *)

Begun(t) == t \in Turns /\ turns[t].from # "none"

Unlocked == gang = NoTurn /\ tick.pc = "none"

\* A prompt is submitted, by gang's delivery under the agent lock or by the
\* operator; the submit hook runs before the turn does.
Submit(by) ==
    /\ native.phase = "idle" /\ native.queue = 0 /\ native.turn < MaxTurns
    /\ IF by = "gang" THEN Unlocked /\ gang' = native.turn + 1 ELSE UNCHANGED gang
    /\ native' = [native EXCEPT !.turn = @ + 1, !.phase = "prompting"]
    /\ hooks' = hooks \cup {[kind |-> "turn-started", turn |-> native.turn + 1, pc |-> "run", at |-> 0]}
    /\ view' = "stale"
    /\ UNCHANGED <<turns, witness, file, agent, tick, now, used, unhandled, late, lost>>

Starting(h) == h.kind = "turn-started"
Run == /\ native.phase = "prompting" /\ ~\E h \in hooks : Starting(h)
       /\ native' = [native EXCEPT !.phase = "running"]
       /\ turns' = [turns EXCEPT ![native.turn].from = "typed"]
       /\ view' = "stale"
       /\ UNCHANGED <<hooks, witness, file, agent, gang, tick, now, used, unhandled, late, lost>>

\* A prompt typed during a turn waits in the queue: the running turn takes it
\* in and its submit hook carries that turn's id, or it runs as a turn of its
\* own, with no submit hook.
Queue == /\ native.phase = "running" /\ native.queue = 0 /\ native.turn < MaxTurns
         /\ native' = [native EXCEPT !.queue = 1]
         /\ view' = "stale"
         /\ UNCHANGED <<turns, hooks, witness, file, agent, gang, tick, now, used, unhandled, late, lost>>
Fold == /\ native.phase = "running" /\ native.queue = 1 /\ used < MaxTwists
        /\ native' = [native EXCEPT !.queue = 0, !.phase = "folding"]
        /\ hooks' = hooks \cup {[kind |-> "turn-started", turn |-> native.turn, pc |-> "run", at |-> 0]}
        /\ used' = used + 1
        /\ view' = "stale"
        /\ UNCHANGED <<turns, witness, file, agent, gang, tick, now, unhandled, late, lost>>
Folded == /\ native.phase = "folding" /\ ~\E h \in hooks : Starting(h)
          /\ native' = [native EXCEPT !.phase = "running"]
          /\ view' = "stale"
          /\ UNCHANGED <<turns, hooks, witness, file, agent, gang, tick, now, used, unhandled, late, lost>>

\* A turn ends: its hook is asynchronous. Escape fires no hook and pulls the
\* queue back into the composer.
End(end) ==
    /\ native.phase = "running"
    /\ now' = now + 1
    /\ native' = [native EXCEPT !.phase = "idle", !.queue = IF end = "interrupted" THEN 0 ELSE @]
    /\ turns' = [turns EXCEPT ![native.turn].end = end, ![native.turn].at = now']
    /\ hooks' = IF end = "interrupted" THEN hooks
                ELSE hooks \cup {[kind |-> end, turn |-> native.turn, pc |-> "run", at |-> 0]}
    /\ view' = "stale"
    /\ UNCHANGED <<witness, file, agent, gang, tick, used, unhandled, late, lost>>
RunQueued ==
    /\ native.phase = "idle" /\ native.queue = 1 /\ native.turn < MaxTurns
    /\ native' = [turn |-> native.turn + 1, phase |-> "running", queue |-> 0]
    /\ turns' = [turns EXCEPT ![native'.turn].from = "queued"]
    /\ view' = "stale"
    /\ UNCHANGED <<hooks, witness, file, agent, gang, tick, now, used, unhandled, late, lost>>

\* TurnRanAfter, QueuedTurnPending and TurnClosed, of what is recorded.
RanAfter(earlier, later) == Begun(earlier) /\ Begun(later) /\ later > earlier
QueuedPending(t) == native.queue = 1 \/ \E u \in Turns : RanAfter(t, u) /\ turns[u].from = "queued"
LastBegun == Max({0} \cup {t \in Turns : Begun(t)})
Closed(t) == Begun(t) /\ native.queue = 0 /\ turns[LastBegun].end # "none"

-----------------------------------------------------------------------------
(* The hook processes.                                                     *)

\* The hook reads the clock; a submit hook writes its witness next.
HookRuns(h) ==
    /\ h.pc = "run" /\ now' = now + 1
    /\ hooks' = (hooks \ {h}) \cup {[h EXCEPT !.at = now', !.pc = IF Starting(h) THEN "witness" ELSE "status"]}
    /\ view' = "stale"
    /\ UNCHANGED <<native, turns, witness, file, agent, gang, tick, used, unhandled, late, lost>>
WriteWitness(h) ==
    /\ h.pc = "witness"
    /\ witness' = [at |-> h.at, turn |-> h.turn]
    /\ hooks' = (hooks \ {h}) \cup {[h EXCEPT !.pc = "status"]}
    /\ view' = "stale"
    /\ UNCHANGED <<native, turns, file, agent, gang, tick, now, used, unhandled, late, lost>>

\* Defect: a record replaces its kind.
RetainedLatest(h) ==
    LET seq == 1 + Max({0} \cup {n.seq : n \in file})
    IN {n \in file : n.kind # h.kind} \cup {[kind |-> h.kind, turn |-> h.turn, at |-> h.at, seq |-> seq]}

\* WriteStatusHook: an end replaces the acknowledged ends of its kind; any
\* other record replaces its kind unless it is older.
Retained(h) ==
    LET seq == 1 + Max({0} \cup {n.seq : n \in file})
        kept == {n \in file : n.kind # h.kind \/ (h.kind \in Ends /\ n.seq > agent.seq)}
    IN IF h.kind \notin Ends /\ \E n \in file : n.kind = h.kind /\ n.at > h.at THEN file
       ELSE kept \cup {[kind |-> h.kind, turn |-> h.turn, at |-> h.at, seq |-> seq]}
\* The hook of a failed turn outlasts the whole turn queued behind it.
Outlasted(t) == \E u \in Turns : u > t /\ turns[u].from = "queued" /\ turns[u].end = "turn-finished"

\* The hook then starts a tick of its own.
WriteStatusHook(h) ==
    /\ h.pc = "status"
    /\ file' = Retained(h)
    /\ hooks' = hooks \ {h}
    /\ unhandled' = IF h.kind \in Ends THEN unhandled \cup {h.turn} ELSE unhandled
    /\ view' = "stale"
    /\ late' = IF h.kind = "turn-failed" /\ Outlasted(h.turn) THEN late \cup {"failure"} ELSE late
    /\ UNCHANGED <<native, turns, witness, agent, gang, tick, now, used, lost>>

HookDies(h) ==
    /\ used < MaxTwists /\ used' = used + 1
    /\ hooks' = hooks \ {h}
    /\ lost' = lost \cup {h.turn}
    /\ view' = "stale"
    /\ UNCHANGED <<native, turns, witness, file, agent, gang, tick, now, unhandled, late>>

\* A newer prompt's hook has read its clock, and its witness is not there yet.
Unwitnessed(t) == \E h \in hooks : Starting(h) /\ h.turn > t /\ h.pc = "witness"

\* gang's delivery saw the witness of its own prompt, or waited in vain.
Delivered ==
    /\ gang # NoTurn /\ witness.turn = gang
    /\ now' = now + 1 /\ gang' = NoTurn
    /\ agent' = [agent EXCEPT !.turn = gang, !.submitted = now', !.activity = "busy"]
    /\ late' = IF Unwitnessed(gang) THEN late \cup {"witness"} ELSE late
    /\ view' = "stale"
    /\ UNCHANGED <<native, turns, hooks, witness, file, tick, used, unhandled, lost>>
Unverified ==
    /\ gang # NoTurn /\ gang \in lost
    /\ gang' = NoTurn
    /\ agent' = [agent EXCEPT !.activity = "unknown"]
    /\ view' = "stale"
    /\ UNCHANGED <<native, turns, hooks, witness, file, tick, now, used, unhandled, late, lost>>

-----------------------------------------------------------------------------
(* Ticks and rosters.                                                      *)

\* reconcileNativeBoundary: a newer witness opens a turn; a distinct one ends
\* the failure before it, unless that ran from the queue after it.
AfterWitness(a, w) ==
    LET opened == IF w.at > a.submitted THEN [a EXCEPT !.submitted = w.at, !.turn = w.turn] ELSE a
    IN IF a.failed # NoTurn /\ w.turn \notin {NoTurn, a.failed} /\ ~RanAfter(w.turn, a.failed)
       THEN [opened EXCEPT !.failure = "none", !.failed = NoTurn] ELSE opened

\* Defects: a turn's end closes what is open, whichever turn that is; a finish
\* clears any failure.
AfterEndAnyTurn(a, n, w) ==
    IF n.kind = "turn-failed" THEN [a EXCEPT !.failure = "failed", !.failed = n.turn]
    ELSE [a EXCEPT !.finished = Max({a.finished, n.at})]
AfterEndClearsAny(a, n, w) ==
    IF n.kind = "turn-failed"
    THEN [a EXCEPT !.finished = n.at, !.failure = "failed", !.failed = n.turn]
    ELSE [a EXCEPT !.finished = n.at, !.failure = "none", !.failed = NoTurn]

\* The rest of it, for the end of a turn: which turn it ends, and what it
\* says of a failure.
AfterEnd(a, n, w) ==
    LET older == a.failed \notin {NoTurn, n.turn} /\ RanAfter(n.turn, a.failed)
        current == w.turn \in {NoTurn, n.turn} \/ RanAfter(w.turn, n.turn)
        finished == IF n.turn = w.turn /\ a.submitted > n.at THEN a.submitted ELSE n.at
        closed == IF /\ current /\ finished > a.finished
                     /\ ~(n.kind = "turn-finished" /\ QueuedPending(n.turn))
                  THEN [a EXCEPT !.finished = finished] ELSE a
        witnessed == w.turn # NoTurn
    IN CASE older -> a
         [] ~older /\ n.kind = "turn-failed" ->
              IF witnessed /\ (n.turn = w.turn \/ RanAfter(w.turn, n.turn))
              THEN [closed EXCEPT !.failure = "failed", !.failed = n.turn]
              ELSE IF witnessed THEN closed
              ELSE [closed EXCEPT !.failure = "failed", !.failed = NoTurn]
         [] OTHER ->
              IF closed.failure = "none" THEN closed
              ELSE IF closed.failed = NoTurn
              THEN IF witnessed /\ (n.turn = w.turn \/ RanAfter(w.turn, n.turn))
                   THEN [closed EXCEPT !.failure = "none"] ELSE closed
              ELSE IF RanAfter(closed.failed, n.turn)
              THEN [closed EXCEPT !.failure = "none", !.failed = NoTurn] ELSE closed

\* A record also moves the last hook seen, if it is of the current turn.
AfterRecord(a, n) ==
    LET opened == AfterWitness(a, witness)
        b == IF n.kind \in Ends THEN AfterEnd(opened, n, witness) ELSE opened
        current == n.turn = NoTurn \/ b.turn \in {NoTurn, n.turn} \/ RanAfter(b.turn, n.turn)
    IN IF current /\ n.at >= b.hookAt THEN [b EXCEPT !.hookAt = n.at, !.hookKind = n.kind] ELSE b

\* The end of a turn is read and the witness of a newer one is not there.
WitnessMissed(n) == n.kind \in Ends /\ witness.turn <= n.turn /\ Unwitnessed(n.turn)

Unread == {n \in file : n.seq > agent.seq}

\* acquire and reconcileStatusHooks: the witness, then each record since the
\* last acknowledged one. The watchdog, a roster or any hook starts a tick; a
\* hook's own notice repeats its record, unless that was pruned and handled. (A
\* tick after one that saw everything repeats it; a hook's tick with nothing to
\* read looks less than the watchdog's.)
TickBegin(kind) ==
    /\ Unlocked /\ view # "current" /\ (kind = "hook" => Unread # {})
    /\ used' = IF kind = "roster" THEN used + 1 ELSE used
    /\ used' <= MaxTwists
    /\ LET todo == SetToSortSeq(Unread, LAMBDA n, o : n.seq < o.seq)
       IN /\ agent' = FoldLeft(AfterRecord, AfterWitness(agent, witness), todo)
          /\ tick' = [pc |-> "observe", kind |-> kind,
                      ended |-> {n.turn : n \in {o \in Unread : o.kind \in Ends}},
                      seq |-> Max({agent.seq} \cup {n.seq : n \in Unread})]
    /\ late' = IF \E n \in Unread : WitnessMissed(n) THEN late \cup {"witness"} ELSE late
    /\ view' = IF kind = "plain" THEN "reading" ELSE view
    /\ UNCHANGED <<world, gang, now, unhandled>>

Open(a) == a.submitted > a.finished

\* observeTranscriptTurn, in a tick no hook started: the transcript's end
\* closes a turn whose hook never came.
AfterTranscript(a) ==
    LET at == turns[LastBegun].at
    IN IF tick.kind = "hook" \/ ~Open(a) \/ ~Closed(a.turn) THEN a
       ELSE [a EXCEPT !.finished = IF a.submitted > at THEN a.submitted ELSE at,
                      !.activity = IF @ = "busy" THEN "idle" ELSE @]

\* observeHookStatus: fresh hooks say what the agent does.
HookStatus(a) ==
    LET ended == a.finished > a.hookAt /\ ~Open(a) /\ a.hookKind \notin Ends
    IN IF a.failure = "none" /\ a.hookAt <= a.probe THEN a
       ELSE [a EXCEPT !.activity = IF a.failure # "none" THEN "unknown"
                                   ELSE IF ended \/ (a.hookKind = "turn-finished" /\ ~Open(a)) THEN "idle"
                                   ELSE "busy"]

\* observeScreen: a running turn may look idle, so an idle screen leaves an
\* open turn busy until it has been unchanged for open_turn_quiet. A roster
\* reads for display and postpones no sweep's probe.
Looks == IF native.phase = "idle" /\ native.queue = 0 THEN {"idle", "quiet"} ELSE {"idle", "busy"}
ScreenStatus(a, looks) ==
    LET b == IF looks = "quiet" /\ Open(a) THEN [a EXCEPT !.finished = now] ELSE a
    IN [b EXCEPT !.probe = IF tick.kind = "roster" THEN @ ELSE now,
                 !.activity = IF a.failure # "none" THEN "unknown"
                              ELSE IF looks # "busy" /\ ~Open(b) THEN "idle" ELSE "busy"]

\* The screen is read when hooks are absent, or old. Hooks older than the last
\* screen say nothing.
Observe ==
    /\ tick.pc = "observe"
    /\ LET a == AfterTranscript(agent) IN
       \/ /\ a.hookAt # 0 /\ agent' = HookStatus(a)
          /\ view' = IF a.failure = "none" /\ a.hookAt <= a.probe THEN "stale" ELSE view
       \/ /\ \E looks \in Looks : agent' = ScreenStatus(a, looks)
          /\ UNCHANGED view
    /\ tick' = IF tick.kind = "roster" THEN NoTick ELSE [tick EXCEPT !.pc = "outcomes"]
    /\ UNCHANGED <<world, gang, now, used, unhandled, late>>

\* observeStatusOutcomes: wakes, usage waits and capacity see the ends.
ObserveOutcomes ==
    /\ tick.pc = "outcomes"
    /\ unhandled' = unhandled \ tick.ended
    /\ tick' = [tick EXCEPT !.pc = "acknowledge", !.ended = {}]
    /\ UNCHANGED <<world, agent, gang, now, used, late, view>>

Finish == IF view = "reading" /\ tick.kind = "plain" THEN "current" ELSE view

\* acknowledgeStatusHooks, when records were read, then PruneStatusHooks, which
\* keeps what is not acknowledged and the latest of each kind.
Acknowledge ==
    /\ tick.pc = "acknowledge"
    /\ agent' = [agent EXCEPT !.seq = tick.seq]
    /\ IF tick.seq = agent.seq THEN tick' = NoTick /\ view' = Finish
       ELSE tick' = [tick EXCEPT !.pc = "prune"] /\ UNCHANGED view
    /\ UNCHANGED <<world, gang, now, used, unhandled, late>>
Prune ==
    /\ tick.pc = "prune"
    /\ file' = {n \in file : n.seq > tick.seq \/ \A o \in file : o.kind = n.kind => o.seq <= n.seq}
    /\ tick' = NoTick /\ view' = Finish
    /\ UNCHANGED <<native, turns, hooks, witness, agent, gang, now, used, unhandled, late, lost>>

TickDies ==
    /\ tick.pc # "none" /\ used < MaxTwists
    /\ used' = used + 1
    /\ tick' = NoTick /\ view' = "stale"
    /\ UNCHANGED <<world, agent, gang, now, unhandled, late>>

-----------------------------------------------------------------------------
World == \/ \E by \in {"gang", "operator"} : Submit(by)
         \/ Run \/ Queue \/ Fold \/ Folded \/ RunQueued
         \/ \E end \in Ends \cup {"interrupted"} : End(end)
Hooks == \E h \in hooks : HookRuns(h) \/ WriteWitness(h) \/ WriteStatusHook(h) \/ HookDies(h)
TickStep == Observe \/ ObserveOutcomes \/ Acknowledge \/ Prune
Next == \/ World \/ Hooks \/ Delivered \/ Unverified
        \/ \E kind \in {"plain", "hook", "roster"} : TickBegin(kind)
        \/ TickStep \/ TickDies

Spec == Init /\ [][Next]_vars

-----------------------------------------------------------------------------
(* Properties.                                                             *)

\* Every variable keeps its type; the agent lock has one holder.
TypeOK ==
    /\ native \in [turn : 0..MaxTurns, phase : {"idle", "prompting", "running", "folding"}, queue : 0..1]
    /\ witness \in [at : Nat, turn : 0..MaxTurns]
    /\ gang = NoTurn \/ tick.pc = "none"
    /\ \A n, o \in file : n.seq = o.seq => n = o
    /\ agent.turn \in 0..MaxTurns /\ agent.failed \in 0..MaxTurns

\* The end of a turn that a hook wrote stays among the records until the
\* outcome handlers saw it, whatever was killed (status_hooks.go:31).
BoundaryKept == \A t \in unhandled : \E n \in file : n.turn = t /\ n.kind \in Ends

Quiet == native.phase = "idle" /\ native.queue = 0
Told == hooks = {} /\ gang = NoTurn

\* Once a tick has seen everything, a turn that runs is open, or counts as the
\* failed one's ...
RunningOpen ==
    view = "current" /\ native.phase = "running" /\ Told /\ lost = {} =>
        Open(agent) \/ agent.failure # "none"
\* (Native prompt identity rejects a delayed finish from an older turn:
\* internals.md:164. It does not, when the newer prompt's hook has read the
\* clock and its witness is not there yet: the finish is then the later one.)
RunningIsOpen == "witness" \notin late => RunningOpen
\* ... and no turn is open when none runs, hooks or no hooks (turn_close.go:11).
QuietIsClosed ==
    view = "current" /\ Quiet /\ Told => ~Open(agent)

\* A recorded failure is the latest failed turn's, and nothing but queued turns
\* that did not succeed followed it: no late hook of an older turn hides a
\* failure or brings one back (recover.go:365, 400, 424), unless a failure's
\* hook is slower than the whole turn queued behind it.
FailureIsLast ==
    view = "current" /\ Told /\ lost = {} /\ "failure" \notin late /\ native.phase \in {"idle", "running"} =>
        (agent.failure # "none" <=>
            \E t \in Turns : /\ turns[t].end = "turn-failed"
                             /\ \A u \in Turns : u > t /\ Begun(u) =>
                                    turns[u].from = "queued" /\ turns[u].end \in {"none", "interrupted"})

\* The agent's activity is what the native program does.
ActivityIsReal ==
    view = "current" /\ Told /\ lost = {} /\ late = {} =>
        /\ native.phase = "running" => agent.activity # "idle"
        /\ Quiet => agent.activity # "busy"

\* What the record says of a turn is so once a tick has seen everything: it is
\* open while it runs and closed when nothing does (turn_close.go:11).
OpenTurnIsReal == TypeOK /\ RunningIsOpen /\ QuietIsClosed

\* So are the failure and the activity (recover.go:365, 424).
VerdictsAreReal == FailureIsLast /\ ActivityIsReal
=============================================================================
