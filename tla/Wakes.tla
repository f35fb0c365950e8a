-------------------------------- MODULE Wakes --------------------------------
(* gang snooze, the automatic wake after a provider cap, and the usage-band   *)
(* notices: cmd/gang/snooze.go, usage_state.go, auto_cap.go, team_usage.go.   *)
(*                                                                            *)
(* One agent ("w") asks for wakes; "l" is the team's only lead. The team's    *)
(* usage state is changed under the usage lock only, one step per section;    *)
(* what an agent is typed, and its inbox, only under its own lock. A tick     *)
(* lists the agents, routes what is due under the usage lock, and publishes   *)
(* it under the locks of the recipients, one after the other: meanwhile wakes *)
(* are delivered, proved, judged, replaced and cleared, recipients stop and   *)
(* start again, and any process may die.                                      *)
(*                                                                            *)
(* An ID is <<n, g>>: wake or notice n, under its g-th replacement ID.        *)
EXTENDS Naturals, Sequences, FiniteSets

CONSTANTS
    Parts,      \* what is explored, each on its own: "wakes", "caps", "bands"
    MaxTurns,   \* bound: turns of one native program, fewer about caps and bands
    MaxNow,     \* bound: the clock, an instant less for wakes and caps
    MaxTwists   \* bound: faults, failed turns, commands after the first

ASSUME WakesAssumption ==
    /\ Parts \subseteq {"wakes", "caps", "bands"}
    /\ {MaxTurns, MaxNow, MaxTwists} \subseteq Nat /\ 2 * MaxNow <= MaxTwists + 4

VARIABLES
    part,     \* which of the parts
    status,   \* agents: "active", "stopped" (Failed) or "dropped"
    usage,    \* usage.json
    files,    \* where each agent's inbox holds an ID
    native,   \* the native programs
    reading,  \* each agent's last native usage reading
    witness,  \* each agent's last submit witness
    notices,  \* each agent's unread turn hooks, in order
    owner,    \* the process that holds each agent's lock
    flush,    \* a tick's flushUsageWork
    cmd,      \* a gang snooze command
    now, made, used,
    typed,    \* ghost: how often an ID was submitted to a native program
    astray,   \* ghost: IDs rerouted while a copy stayed in a stopped agent's inbox
    gone,     \* ghost: IDs withdrawn before submission
    log,      \* the team log: wakes whose end it has; ghosts: those it misses
              \* because their process died before it, IDs judged completed
    fired,    \* ghost: how often a band of a window was announced
    lost      \* ghost: a turn's end was lost, or was not read for the wake

ghosts == <<typed, astray, gone, log, fired, lost>>
clock == <<now, made, used>>
agents == <<status, native, reading, witness, notices>>
vars == <<part, agents, usage, files, owner, flush, cmd, clock, ghosts>>

Agents == {"w", "l"}
Ids == (1..(MaxTwists + 2)) \X (0..MaxTwists)
NoId == <<0, 0>>
Turns == 1..MaxTurns
Bands == {1, 2}
First(n) == <<n, 0>>

\* usageSnooze: "at" 0 is a reset not known yet. What became of its turn is
\* known once it is in Recent: a candidate is a rate limit not confirmed yet.
None == [id |-> NoId, at |-> 0, to |-> "none", sub |-> "none", auto |-> FALSE, rearms |-> 0,
         turn |-> 0, cand |-> "none", rejected |-> FALSE, failed |-> FALSE]
Wake(n, at, auto) == [None EXCEPT !.id = First(n), !.at = at, !.auto = auto]
Again(s) == [None EXCEPT !.id = <<s.id[1], s.id[2] + 1>>, !.at = s.at, !.auto = s.auto, !.rearms = s.rearms]
Notice(n, reset) == [id |-> First(n), to |-> "none", sub |-> "none", reset |-> reset]
Is(s) == s.id # NoId
Pending(s) == Is(s) /\ ~s.rejected /\ ~s.failed
Due(s) == Is(s) /\ s.at # 0 /\ s.at <= now

Quiet == [turn |-> 0, kind |-> "none"]
Unread == [when |-> "stale", pct |-> 0, at |-> 0, reset |-> 0]
Free == [op |-> "none", pc |-> "none", then |-> "none", id |-> NoId, outcome |-> "none", turn |-> 0,
         hook |-> Quiet, ends |-> {}]
NoOne == [id |-> NoId, to |-> "none"]
NoFlush == [pc |-> "idle", seen |-> {}, list |-> {}, cur |-> NoOne, ends |-> {}]
NoCmd == [op |-> "none", pc |-> "none", by |-> "none", to |-> "none", id |-> NoId, ends |-> {}]

Init ==
    /\ part \in Parts
    /\ status = [a \in Agents |-> "active"]
    /\ usage = [snooze |-> None, recent |-> None, notices |-> {}, capped |-> 0, cand |-> "none",
                window |-> [reset |-> 0, at |-> 0, pct |-> 0, fired |-> {}]]
    /\ files = [a \in Agents |-> [i \in Ids |-> "none"]]
    /\ native = [a \in Agents |-> [turn |-> 0, running |-> FALSE, queue |-> {}, pulled |-> {},
                                   own |-> [i \in Ids |-> 0], in |-> [i \in Ids |-> 0],
                                   ends |-> [t \in Turns |-> "none"], hooks |-> {}]]
    /\ reading = [a \in Agents |-> Unread]
    /\ witness = [a \in Agents |-> [id |-> NoId, turn |-> 0]]
    /\ notices = [a \in Agents |-> <<>>]
    /\ owner = [a \in Agents |-> Free]
    /\ flush = NoFlush /\ cmd = NoCmd
    /\ now = 1 /\ made = 0
    /\ used = 0
    /\ typed = [i \in Ids |-> 0]
    /\ astray = {} /\ gone = {} /\ lost = FALSE
    /\ log = [ended |-> {}, missed |-> {}, completed |-> {}]
    /\ fired = [b \in (2..MaxNow) \X Bands |-> 0]

In(a, places) == {i \in Ids : files[a][i] \in places}

Twist == used < MaxTwists /\ used' = used + 1 /\ UNCHANGED <<now, made>>
Mishap == part = "wakes" /\ Twist
Last == IF part = "bands" THEN MaxNow ELSE MaxNow - 1
Most == CASE part = "wakes" -> MaxTurns [] part = "caps" -> MaxTurns - 1 [] part = "bands" -> 1
Change(a, state) == native' = [native EXCEPT ![a] = state]

-----------------------------------------------------------------------------
(* The native programs, as Claude Code's transcript and hooks show them.     *)

\* Input begins a turn, or joins the queue of the one that runs. Its submit
\* hook names the turn running then.
Begun(n, ids) == [n EXCEPT !.turn = @ + 1, !.running = TRUE, !.queue = @ \ ids, !.pulled = @ \ ids,
                           !.own = [i \in Ids |-> IF i \in ids THEN n.turn + 1 ELSE @[i]],
                           !.in = [i \in Ids |-> IF i \in ids THEN n.turn + 1 ELSE @[i]]]
Hooked(n, id) == [n EXCEPT !.hooks = @ \cup {[id |-> id, turn |-> n.turn]}]
Busy(n) == n.running \/ n.queue # {}
Entered(n, id) == Hooked(IF Busy(n) THEN [n EXCEPT !.queue = @ \cup {id}] ELSE Begun(n, {id}), id)
Room(n) == n.turn + (IF n.queue = {} THEN 0 ELSE 1) < Most  \* bound: a turn of its own

\* A submission makes every reading one from before it.
Older(a) == reading' = [reading EXCEPT ![a].when = IF @ = "stale" THEN @ ELSE "before"]

Absorb(a, id) ==
    /\ native[a].running /\ id \in native[a].queue
    /\ Change(a, [native[a] EXCEPT !.queue = @ \ {id}, !.in[id] = native[a].turn])
    /\ UNCHANGED <<part, status, reading, witness, notices, usage, files, owner, flush, cmd, clock, ghosts>>
Dequeue(a) ==
    /\ ~native[a].running /\ native[a].queue # {}
    /\ Change(a, Begun(native[a], native[a].queue))
    /\ UNCHANGED <<part, status, reading, witness, notices, usage, files, owner, flush, cmd, clock, ghosts>>
SubmitHook(a) ==
    /\ \E h \in native[a].hooks :
         /\ Change(a, [native[a] EXCEPT !.hooks = @ \ {h}])
         /\ witness' = [witness EXCEPT ![a] = h]
    /\ Older(a)
    /\ UNCHANGED <<part, status, notices, usage, files, owner, flush, cmd, clock, ghosts>>

\* A turn ends well, fails, or fails with an explicit or a generic cap; with a
\* provider block or a native error it ends as if it had finished.
Ends(kind) ==
    CASE part = "bands" -> kind = "ok"
      [] part = "wakes" -> kind \in {"ok", "blocked", "failed"}
      [] part = "caps" -> kind \in {"ok", "failed", "cap", "rate"}
TurnEnds(a, kind) ==
    /\ native[a].running /\ native[a].hooks = {} /\ Ends(kind)
    /\ IF kind = "ok" THEN UNCHANGED clock ELSE Twist
    /\ LET t == native[a].turn IN
       /\ Change(a, [native[a] EXCEPT !.running = FALSE, !.ends[t] = kind])
       /\ notices' = [notices EXCEPT ![a] = Append(@, [turn |-> t, kind |-> kind])]
    /\ reading' = [reading EXCEPT ![a].when = IF @ = "ended" THEN "running" ELSE @]
    /\ UNCHANGED <<part, status, witness, usage, files, owner, flush, cmd, ghosts>>

\* The operator's own prompt; he pulls the queue into the composer, and submits
\* it again; hooks that die.
Prompted(a) ==
    /\ Twist /\ (part = "caps" => a = "w") /\ ~Busy(native[a]) /\ native[a].turn + 1 < Most
    /\ Change(a, Hooked(Begun(native[a], {}), NoId))
    /\ UNCHANGED <<part, status, reading, witness, notices, usage, files, owner, flush, cmd, ghosts>>
Pulled(a) ==
    /\ Mishap /\ native[a].queue # {}
    /\ Change(a, [native[a] EXCEPT !.queue = {}, !.pulled = @ \cup native[a].queue])
    /\ lost' = TRUE
    /\ UNCHANGED <<part, status, reading, witness, notices, usage, files, owner, flush, cmd,
                   typed, astray, gone, log, fired>>
Resubmitted(a) ==
    /\ ~Busy(native[a]) /\ native[a].turn + 1 < Most
    /\ \E id \in native[a].pulled : Change(a, Hooked(Begun(native[a], {id}), id))
    /\ UNCHANGED <<part, status, reading, witness, notices, usage, files, owner, flush, cmd, clock, ghosts>>
HookLost(a) ==
    /\ Mishap
    /\ \E h \in native[a].hooks : Change(a, [native[a] EXCEPT !.hooks = @ \ {h}])
    /\ UNCHANGED <<part, status, reading, witness, notices, usage, files, owner, flush, cmd, ghosts>>
EndUnseen(a) ==
    /\ Mishap /\ native[a].running /\ native[a].hooks = {}
    /\ Change(a, [native[a] EXCEPT !.running = FALSE, !.ends[native[a].turn] = "ok"])
    /\ lost' = TRUE
    /\ UNCHANGED <<part, status, reading, witness, notices, usage, files, owner, flush, cmd,
                   typed, astray, gone, log, fired>>

\* A provider reading: percent 2 is a window at its limit. What matters to a cap
\* is when it was read; to the bands, of which window.
CapReading(a) == [Unread EXCEPT !.when = IF native[a].running THEN "running" ELSE "ended"]
Read(a, pct, reset) ==
    /\ status[a] = "active" /\ owner[a] = Free
    /\ LET r == IF part = "bands" THEN [Unread EXCEPT !.pct = pct, !.at = now, !.reset = reset]
                ELSE [CapReading(a) EXCEPT !.pct = pct] IN
       /\ r # reading[a]
       /\ reading' = [reading EXCEPT ![a] = r]
    /\ \/ part = "bands" /\ reset > now /\ Twist
       \/ part = "caps" /\ a = "w" /\ reset = Last /\ UNCHANGED clock
    /\ UNCHANGED <<part, status, native, witness, notices, usage, files, owner, flush, cmd, ghosts>>

\* The owner that finds the native program gone has recovered its input.
Stop(a) ==
    /\ part # "caps" /\ Twist /\ status[a] = "active" /\ owner[a] = Free /\ In(a, {"input"}) = {}
    /\ status' = [status EXCEPT ![a] = "stopped"]
    /\ Change(a, [native[a] EXCEPT !.running = FALSE, !.queue = {}, !.pulled = {}, !.hooks = {}])
    /\ notices' = [notices EXCEPT ![a] = <<>>]
    /\ witness' = [witness EXCEPT ![a] = [id |-> NoId, turn |-> 0]]
    /\ lost' = TRUE
    /\ UNCHANGED <<part, reading, usage, files, owner, flush, cmd, typed, astray, gone, log, fired>>
\* gang rehitch keeps the inbox; gang drop does not.
Restart(a) ==
    /\ status[a] = "stopped" /\ owner[a] = Free
    /\ status' = [status EXCEPT ![a] = "active"]
    /\ UNCHANGED <<part, native, reading, witness, notices, usage, files, owner, flush, cmd, clock, ghosts>>
Drop(a) ==
    /\ Twist /\ status[a] = "stopped" /\ owner[a] = Free
    /\ status' = [status EXCEPT ![a] = "dropped"]
    /\ files' = [files EXCEPT ![a] = [i \in Ids |-> "none"]]
    /\ UNCHANGED <<part, native, reading, witness, notices, usage, owner, flush, cmd, ghosts>>

\* More than five minutes pass; or the time a wake or a reset waits for.
Stale == IF part = "caps" THEN [a \in Agents |-> Unread] ELSE reading
Aged(c) == IF c = "fresh" THEN "stale" ELSE c
Ages == usage' = [usage EXCEPT !.recent.cand = Aged(@), !.cand = Aged(@)]
Wait ==
    /\ part = "caps"
    /\ reading' = Stale /\ Ages
    /\ <<reading, usage>> # <<reading', usage'>>
    /\ UNCHANGED <<part, status, native, witness, notices, files, owner, flush, cmd, clock, ghosts>>
TimePasses ==
    /\ now < Last /\ now' = now + 1
    /\ reading' = Stale /\ Ages
    /\ UNCHANGED <<part, status, native, witness, notices, files, owner, flush, cmd, made, used, ghosts>>

-----------------------------------------------------------------------------
(* The usage lock's sections.                                                *)

Now(u) == usage' = u
\* What the saved state ends is logged by the next step: wakes, by number.
Logs(ends) == log' = [log EXCEPT !.ended = @ \cup ends]
Misses(ends) == log' = [log EXCEPT !.missed = @ \cup ends]

\* Proof of submission ends a notice and moves a wake to its outcome slot.
Delivered(u, a, w) ==
    [u EXCEPT !.notices = {n \in @ : ~(n.id = w.id /\ n.to = a)},
              !.snooze = IF @.id = w.id /\ @.to = a THEN None ELSE @,
              !.recent = IF u.snooze.id = w.id /\ u.snooze.to = a
                         THEN [u.snooze EXCEPT !.sub = "none", !.turn = w.turn] ELSE @]

\* acknowledgeUsageDelivery.
Acknowledged(u, a, id, outcome, turn) ==
    IF outcome = "delivered" THEN Delivered(u, a, [id |-> id, turn |-> turn])
    ELSE [u EXCEPT !.notices = {IF n.id = id /\ n.to = a THEN [n EXCEPT !.sub = outcome] ELSE n : n \in @},
                     !.snooze = IF @.id = id /\ @.to = a THEN [@ EXCEPT !.sub = outcome] ELSE @]

\* reconcileUsageSubmission: the witness proves an intent already submitted.
Submitted(u, a) == {i \in {u.snooze} \cup u.notices : i.to = a /\ i.sub # "none"}
Reconciled(u, a) ==
    IF \E i \in Submitted(u, a) : i.id = witness[a].id THEN Delivered(u, a, witness[a]) ELSE u

\* Defect: a queued prompt's own turn is not looked for.
OwnTurnUnseen(a, id) == 0
\* PromptTurn: the turn that began with a queued prompt, if one did.
OwnTurn(a, id) == native[a].own[id]

\* observeSnoozeTurn, for one notice of a turn's end or none.
Capped(a) == reading[a].pct = 2 /\ reading[a].when \in {"running", "ended"}
Recent(a) == reading[a].when # "stale"
Reset == now + 1
Judged(u, a, n) ==
    LET old == u.recent
        ends == n.kind # "none"
        own == OwnTurn(a, old.id)
        s == IF ends /\ own # 0 THEN [old EXCEPT !.turn = own] ELSE old
        mine == ends /\ n.turn = s.turn
        capped == Capped(a)
        confirmed == mine \/ (s.cand = "fresh" /\ capped)
        r == IF confirmed /\ ~s.rejected
             THEN [s EXCEPT !.rejected = TRUE, !.cand = IF @ = "fresh" /\ capped THEN "none" ELSE @] ELSE old
        again == r.rejected /\ (r.rearms = 0 \/ r.auto) /\ (capped \/ (r.auto /\ Recent(a)))
        Keep(kept) == [u |-> [u EXCEPT !.recent = kept], ended |-> {}, completed |-> {}]
    IN CASE ~Is(old) \/ old.to # a \/ old.turn = 0 -> Keep(old)
         [] ends /\ old.id \in native[a].queue -> Keep(old)
         [] ends /\ old.id \in native[a].pulled -> Keep([old EXCEPT !.failed = TRUE])
         [] mine /\ n.kind = "ok" ->
              [u |-> [u EXCEPT !.recent = None], ended |-> {old.id[1]}, completed |-> {<<a, old.id>>}]
         [] mine /\ n.kind \in {"blocked", "failed"} -> Keep([s EXCEPT !.failed = TRUE])
         [] mine /\ n.kind = "rate" /\ ~capped -> Keep([s EXCEPT !.cand = "fresh"])
         [] OTHER -> IF s.cand = "stale" THEN Keep([s EXCEPT !.cand = "none", !.failed = TRUE])
                     ELSE IF ~again THEN Keep(r)
                     ELSE [u |-> [u EXCEPT !.recent = None,
                                           !.snooze = IF Is(@) THEN @
                                                      ELSE [Again(r) EXCEPT !.at = Reset, !.rearms = @ + 1]],
                           ended |-> IF Is(u.snooze) THEN {old.id[1]} ELSE {}, completed |-> {}]

\* Defect: a cap schedules over the wake there is.
ScheduledOver(u, at) ==
    IF Is(u.recent) THEN u ELSE [u EXCEPT !.snooze = Wake(made + 1, at, TRUE)]

\* observeAutoCap, of the agent that asks for wakes: a cap no wake of its own
\* answers schedules one, at a reset perhaps not known yet.
Scheduled(u, at) ==
    IF Is(u.snooze) \/ Is(u.recent) THEN u ELSE [u EXCEPT !.snooze = Wake(made + 1, at, TRUE)]
AtReset(u) ==
    LET s == u.snooze
        at == CASE ~(Is(s) /\ s.auto /\ s.at = 0 /\ Recent("w")) -> s.at
                [] reading["w"].pct = 2 -> Reset
                [] reading["w"].when = "ended" -> now
                [] OTHER -> 0
    IN [u EXCEPT !.snooze.at = at]
AutoCapped(u, n) ==
    LET capped == Capped("w")
        new == n.kind \in {"cap", "rate"} /\ n.turn > u.capped
        waits == n.kind = "rate" /\ ~capped
        u1 == IF ~new THEN u
              ELSE IF waits THEN [u EXCEPT !.capped = n.turn, !.cand = "fresh"]
              ELSE Scheduled([u EXCEPT !.capped = n.turn, !.cand = "none"], IF Recent("w") THEN Reset ELSE 0)
        u2 == CASE u1.cand = "stale" -> [u1 EXCEPT !.cand = "none"]
                [] u1.cand = "fresh" /\ capped -> Scheduled([u1 EXCEPT !.cand = "none"], Reset)
                [] OTHER -> u1
    IN AtReset(u2)

\* Defect: only readings of the same window are told from late ones.
StalledInWindow(r, win) ==
    \/ r.at < win.at
    \/ win.reset = r.reset /\ r.at = win.at /\ r.pct <= win.pct
\* observeUsageBands: one crossing state for the account, whoever read it last.
Stalled(r, win) ==
    \/ win.reset > r.reset
    \/ r.at < win.at
    \/ win.reset # r.reset /\ r.at <= win.at
    \/ win.reset = r.reset /\ r.at = win.at /\ r.pct <= win.pct
Crossed(r, win) == {b \in Bands : b <= r.pct} \ (IF win.reset = r.reset THEN win.fired ELSE {})
Observed(u, r) ==
    LET new == Crossed(r, u.window)
        all == new \cup (IF u.window.reset = r.reset THEN u.window.fired ELSE {})
        n == 2 * (r.reset - 2) + (IF 2 \in new THEN 2 ELSE 1)
    IN [u EXCEPT !.window = [reset |-> r.reset, at |-> r.at, pct |-> r.pct, fired |-> all],
                 !.notices = IF new = {} THEN @ ELSE @ \cup {Notice(n, r.reset)}]

\* flushUsageWork: what an inactive recipient held gets a new ID if it was
\* submitted to it, and keeps the old one if it was not.
Rerouted(i, seen) ==
    IF i.to \in seen THEN i
    ELSE [i EXCEPT !.id = IF i.to # "none" /\ i.sub # "none" THEN <<@[1], @[2] + 1>> ELSE @,
                   !.to = "none", !.sub = "none"]
\* Defect: the next agent in line takes no wake.
RoutedToFirst(i, seen, first) ==
    LET r == Rerouted(i, seen)
    IN IF r.to = "none" /\ first \in seen THEN [r EXCEPT !.to = first] ELSE r
Routed(i, seen, first) ==
    LET r == Rerouted(i, seen)
        to == IF first \in seen THEN first ELSE IF "l" \in seen THEN "l" ELSE "none"
    IN IF r.to = "none" THEN [r EXCEPT !.to = to] ELSE r
Orphaned(u, seen) ==
    IF ~Is(u.recent) \/ u.recent.to \in seen THEN u
    ELSE [u EXCEPT !.recent = None, !.snooze = IF Is(@) THEN @ ELSE Again(u.recent)]
Warned(u, seen) ==
    [u EXCEPT !.notices = {n \in {Routed(i, seen, "l") : i \in @} : n.sub # "none" \/ n.reset > now}]
Woken(u, seen) ==
    IF ~Due(u.snooze) \/ Pending(u.recent) THEN u
    ELSE [u EXCEPT !.recent = None, !.snooze = Routed(@, seen, "w")]
Flushed(u, seen) == Woken(Warned(Orphaned(u, seen), seen), seen)
Publishable(u) ==
    {i \in u.notices : i.to # "none" /\ i.sub = "none"}
      \cup {s \in {u.snooze} : Due(s) /\ ~Pending(u.recent) /\ s.to # "none" /\ s.sub = "none"}

-----------------------------------------------------------------------------
(* The owner of an agent's lock: what every owner finishes first, the tick,  *)
(* and input.                                                                *)

At(a, pc) == owner[a].pc = pc
Go(a, pc) == owner' = [owner EXCEPT ![a].pc = pc]
Lock(a, op) == owner[a] = Free /\ owner' = [owner EXCEPT ![a] = [Free EXCEPT !.op = op, !.pc = "recover"]]
Settles(a, id, outcome, then) ==
    owner' = [owner EXCEPT ![a] = [@ EXCEPT !.pc = "ack", !.then = then, !.id = id, !.outcome = outcome,
                                           !.turn = IF outcome = "delivered" THEN witness[a].turn ELSE 0]]

\* An owner that died left an input that is uncertain, unless the witness, which
\* also proves older receipts and intents, shows that it was submitted.
Provable(a) == witness[a].id \in In(a, {"accepted", "unverified"})
Recover(a) ==
    /\ At(a, "recover")
    /\ CASE In(a, {"input"}) # {} ->
              (\E id \in In(a, {"input"}) : Settles(a, id, "unverified", "recover")) /\ UNCHANGED usage
         [] In(a, {"input"}) = {} /\ Provable(a) ->
              Settles(a, witness[a].id, "delivered", "recover") /\ UNCHANGED usage
         [] OTHER ->
              /\ Now(Reconciled(usage, a))
              /\ Go(a, CASE owner[a].op = "withdraw" -> "withdraw"
                         [] status[a] # "active" -> "release"
                         [] owner[a].op = "publish" -> "publish"
                         [] OTHER -> "observe")
    /\ UNCHANGED <<part, agents, files, flush, cmd, clock, ghosts>>

\* A tick judges each turn's end it finds unread, or looks again without one.
Hook(a) == IF notices[a] = <<>> THEN Quiet ELSE Head(notices[a])
Early(a, n) ==
    LET s == usage.snooze IN
    n.kind # "none" /\ s.to = a /\ s.sub # "none" /\ native[a].in[s.id] = n.turn
Judgement(a) == CASE a = "w" /\ part = "caps" -> "auto" [] notices[a] = <<>> -> "bands" [] OTHER -> "read"
ObserveTurn(a) ==
    /\ At(a, "observe")
    /\ LET j == Judged(usage, a, Hook(a)) IN
       /\ Now(j.u)
       /\ log' = [log EXCEPT !.completed = @ \cup j.completed]
       /\ owner' = [owner EXCEPT ![a].hook = Hook(a), ![a].ends = j.ended,
                                 ![a].pc = IF j.ended # {} THEN "log" ELSE Judgement(a)]
    /\ lost' = (lost \/ Early(a, Hook(a)))
    /\ UNCHANGED <<part, agents, files, flush, cmd, clock, typed, astray, gone, fired>>
LogTurn(a) ==
    /\ At(a, "log")
    /\ Logs(owner[a].ends)
    /\ owner' = [owner EXCEPT ![a].ends = {}, ![a].pc = Judgement(a)]
    /\ UNCHANGED <<part, agents, usage, files, flush, cmd, clock, typed, astray, gone, fired, lost>>
ObserveAuto(a) ==
    /\ At(a, "auto")
    /\ Now(AutoCapped(usage, owner[a].hook))
    /\ made' = IF usage'.snooze.id = First(made + 1) THEN made + 1 ELSE made
    /\ Go(a, IF owner[a].hook = Quiet THEN "bands" ELSE "read")
    /\ UNCHANGED <<part, agents, files, flush, cmd, now, used, ghosts>>
ReadHook(a) ==
    /\ At(a, "read")
    /\ notices' = [notices EXCEPT ![a] = Tail(@)]
    /\ owner' = [owner EXCEPT ![a].hook = Quiet,
                              ![a].pc = IF Len(notices[a]) > 1 THEN "observe" ELSE "bands"]
    /\ UNCHANGED <<part, status, native, reading, witness, usage, files, flush, cmd, clock, ghosts>>
Fresh(a) == part = "bands" /\ reading[a].reset > now /\ ~Stalled(reading[a], usage.window)
ObserveBands(a) ==
    /\ At(a, "bands")
    /\ IF Fresh(a)
       THEN /\ Now(Observed(usage, reading[a]))
            /\ fired' = [x \in DOMAIN fired |->
                 IF x[1] = reading[a].reset /\ x[2] \in Crossed(reading[a], usage.window)
                 THEN fired[x] + 1 ELSE fired[x]]
       ELSE UNCHANGED <<usage, fired>>
    /\ Go(a, "drain")
    /\ UNCHANGED <<part, agents, files, flush, cmd, clock, typed, astray, gone, log, lost>>

\* Ticks that would find nothing to do are left out.
Work(a) ==
    \/ notices[a] # <<>> \/ In(a, {"new", "input"}) # {} \/ Provable(a) \/ Fresh(a)
    \/ Reconciled(usage, a) # usage \/ Judged(usage, a, Quiet).u # usage
    \/ (a = "w" /\ part = "caps" /\ AutoCapped(usage, Quiet) # usage)
Tick(a) ==
    /\ status[a] = "active" /\ Work(a) /\ Lock(a, "tick")
    /\ UNCHANGED <<part, agents, usage, files, flush, cmd, clock, ghosts>>

\* drainLocked: an expired notice is withdrawn, else the input is started.
Expired(id) == part = "bands" /\ (id[1] + 3) \div 2 <= now
Drain(a) ==
    /\ At(a, "drain")
    /\ \/ /\ In(a, {"new"}) = {} \/ ~Room(native[a])
          /\ Go(a, "release") /\ UNCHANGED files
       \/ \E id \in In(a, {"new"}) :
            IF Expired(id) THEN files' = [files EXCEPT ![a][id] = "gone"] /\ UNCHANGED owner
            ELSE /\ Room(native[a])
                 /\ files' = [files EXCEPT ![a][id] = "input"]
                 /\ owner' = [owner EXCEPT ![a] = [@ EXCEPT !.pc = "type", !.id = id]]
    /\ UNCHANGED <<part, agents, usage, flush, cmd, clock, ghosts>>
Type(a) ==
    /\ At(a, "type")
    /\ Change(a, Entered(native[a], owner[a].id))
    /\ typed' = [typed EXCEPT ![owner[a].id] = @ + 1]
    /\ Go(a, "await")
    /\ UNCHANGED <<part, status, reading, witness, notices, usage, files, flush, cmd, clock,
                   astray, gone, log, fired, lost>>
\* Input that is not submitted is uncertain too: an agent's message may be
\* withdrawn from the composer and fail, Gangline's own input may not. What is
\* left in the composer the operator may submit.
Refused(a) ==
    /\ Mishap /\ At(a, "type")
    /\ \E left \in {{}, {owner[a].id}} : Change(a, [native[a] EXCEPT !.pulled = @ \cup left])
    /\ Settles(a, owner[a].id, "unverified", "drain")
    /\ UNCHANGED <<part, status, reading, witness, notices, usage, files, flush, cmd, ghosts>>
Await(a) ==
    /\ At(a, "await")
    /\ \/ witness[a].id = owner[a].id /\ Settles(a, owner[a].id, "delivered", "drain") /\ UNCHANGED clock
       \/ owner[a].id \in native[a].queue /\ Settles(a, owner[a].id, "accepted", "drain") /\ UNCHANGED clock
       \/ /\ \E h \in native[a].hooks : h.id = owner[a].id
          /\ Mishap /\ Settles(a, owner[a].id, "unverified", "drain")
       \/ /\ witness[a].id # owner[a].id /\ \A h \in native[a].hooks : h.id # owner[a].id
          /\ Settles(a, owner[a].id, "unverified", "drain") /\ UNCHANGED clock
    /\ UNCHANGED <<part, agents, usage, files, flush, cmd, ghosts>>

\* settleReceipt: the intent first, then the receipt, which supersedes another.
Acknowledge(a) ==
    /\ At(a, "ack")
    /\ Now(Acknowledged(usage, a, owner[a].id, owner[a].outcome, owner[a].turn))
    /\ Go(a, "settle")
    /\ UNCHANGED <<part, agents, files, flush, cmd, clock, ghosts>>
Settle(a) ==
    /\ At(a, "settle")
    /\ files' = [files EXCEPT ![a] = [i \in Ids |-> CASE i = owner[a].id -> owner[a].outcome
                                                      [] files[a][i] = owner[a].outcome -> "gone"
                                                      [] OTHER -> files[a][i]]]
    /\ owner' = [owner EXCEPT ![a] = [Free EXCEPT !.op = owner[a].op, !.pc = owner[a].then]]
    /\ UNCHANGED <<part, agents, usage, flush, cmd, clock, ghosts>>
\* An ordinary message takes the receipt's place.
Superseded(a) ==
    /\ Mishap /\ owner[a] = Free
    /\ \E slot \in {"delivered", "accepted", "unverified"} :
         /\ In(a, {slot}) # {}
         /\ files' = [files EXCEPT ![a] = [i \in Ids |-> IF files[a][i] = slot THEN "gone" ELSE files[a][i]]]
    /\ UNCHANGED <<part, agents, usage, owner, flush, cmd, ghosts>>

\* The end of the lock, or of the flush's turn with this recipient. A command
\* logs what it ended without the lock.
Freed == IF cmd.ends = {} THEN NoCmd ELSE [cmd EXCEPT !.pc = "log"]
Release(a) ==
    /\ At(a, "release")
    /\ owner' = [owner EXCEPT ![a] = Free]
    /\ IF owner[a].op = "publish" THEN flush' = [flush EXCEPT !.pc = "publish", !.cur = NoOne] ELSE UNCHANGED flush
    /\ IF owner[a].op = "withdraw" THEN cmd' = Freed ELSE UNCHANGED cmd
    /\ UNCHANGED <<part, agents, usage, files, clock, ghosts>>
Dies(a) ==
    /\ Twist /\ owner[a] # Free /\ (part # "wakes" => owner[a].pc \in {"log", "auto", "read"})
    /\ Misses(owner[a].ends \cup IF owner[a].op = "withdraw" THEN cmd.ends ELSE {})
    /\ owner' = [owner EXCEPT ![a] = Free]
    /\ IF owner[a].op = "publish" THEN flush' = NoFlush ELSE UNCHANGED flush
    /\ IF owner[a].op = "withdraw" THEN cmd' = NoCmd ELSE UNCHANGED cmd
    /\ UNCHANGED <<part, agents, usage, files, typed, astray, gone, fired, lost>>

-----------------------------------------------------------------------------
(* flushUsageWork.                                                           *)

Active == {a \in Agents : status[a] = "active"}
\* A flush that would find nothing to do is left out.
List ==
    /\ flush.pc = "idle" /\ (Flushed(usage, Active) # usage \/ Publishable(usage) # {})
    /\ flush' = [flush EXCEPT !.pc = "route", !.seen = Active]
    /\ UNCHANGED <<part, agents, usage, files, owner, cmd, clock, ghosts>>
Names(S) == {s.id[1] : s \in {x \in S : Is(x)}}
\* What moves to another recipient, or to none, may have a copy where it was.
Left(u, next) ==
    {i.id : i \in {j \in {u.snooze} \cup u.notices :
        /\ j.to # "none" /\ files[j.to][j.id] \in {"new", "input"}
        /\ \E k \in {next.snooze} \cup next.notices : k.id = j.id /\ k.to # j.to}}
Route ==
    /\ flush.pc = "route"
    /\ LET u == Flushed(usage, flush.seen)
           over == {n \in Names({usage.recent}) : ~Is(u.recent) /\ u.snooze.id[1] # n}
       IN /\ Now(u)
          /\ flush' = [flush EXCEPT !.pc = IF over = {} THEN "publish" ELSE "log", !.seen = {}, !.ends = over,
                                    !.list = {[id |-> i.id, to |-> i.to] : i \in Publishable(u)}]
          /\ astray' = astray \cup Left(usage, u)
    /\ UNCHANGED <<part, agents, files, owner, cmd, clock, typed, gone, log, fired, lost>>
LogRouted ==
    /\ flush.pc = "log"
    /\ Logs(flush.ends)
    /\ flush' = [flush EXCEPT !.pc = "publish", !.ends = {}]
    /\ UNCHANGED <<part, agents, usage, files, owner, cmd, clock, typed, astray, gone, fired, lost>>
\* Between two recipients the tick holds no agent's lock.
FlushDies ==
    /\ part # "bands" /\ Twist /\ flush.pc \in {"log", "publish"}
    /\ flush' = NoFlush /\ Misses(flush.ends)
    /\ UNCHANGED <<part, agents, usage, files, owner, cmd, typed, astray, gone, fired, lost>>
\* Each in turn; a busy or dropped recipient is left for another tick.
FlushStep ==
    /\ flush.pc = "publish"
    /\ \/ flush.list = {} /\ flush' = NoFlush /\ UNCHANGED owner
       \/ \E e \in flush.list :
            LET rest == [flush EXCEPT !.list = @ \ {e}] IN
            IF owner[e.to] # Free \/ status[e.to] = "dropped" THEN flush' = rest /\ UNCHANGED owner
            ELSE Lock(e.to, "publish") /\ flush' = [rest EXCEPT !.pc = "locked", !.cur = e]
    /\ UNCHANGED <<part, agents, usage, files, cmd, clock, ghosts>>
\* Defect: what was listed is published.
ReadyAsListed(u, a, id) == TRUE
\* publishUsageEnvelope: the intent is read again under the recipient's lock.
Ready(u, a, id) == \E i \in {u.snooze} \cup u.notices : i.id = id /\ i.to = a /\ i.sub = "none"
Publish(a) ==
    /\ At(a, "publish")
    /\ LET id == flush.cur.id IN
       IF ~Ready(usage, a, id) THEN Go(a, "release") /\ UNCHANGED files
       ELSE /\ Go(a, "drain")
            /\ files' = IF files[a][id] \in {"none", "gone"} THEN [files EXCEPT ![a][id] = "new"] ELSE files
    /\ UNCHANGED <<part, agents, usage, flush, cmd, clock, ghosts>>

-----------------------------------------------------------------------------
(* gang snooze: schedule and clear by the agent, clear by the lead.          *)

Queued(s) == IF s.sub = "none" THEN s.to ELSE "none"
Recipient(c) ==
    IF c.op = "review" /\ ~(usage.snooze.id = c.id /\ usage.snooze.to = "l") THEN "none" ELSE Queued(usage.snooze)
Ask(op, by, id) ==
    /\ IF op = "schedule" /\ made = 0 THEN UNCHANGED clock ELSE Twist
    /\ cmd = NoCmd /\ status[by] = "active"
    /\ LET to == Recipient([op |-> op, id |-> id])
           pc == IF to = "none" THEN "change" ELSE IF status[to] = "dropped" THEN "change" ELSE "lock"
       IN cmd' = [op |-> op, pc |-> pc, by |-> by, to |-> to, id |-> id, ends |-> {}]
    /\ UNCHANGED <<part, agents, usage, files, owner, flush, ghosts>>
Snooze == part # "bands" /\ now < Last /\ Ask("schedule", "w", NoId)
Clear == part = "wakes" /\ (Is(usage.snooze) \/ Is(usage.recent)) /\ Ask("clear", "w", NoId)
Review ==
    part # "caps" /\ \E i \in {usage.snooze, usage.recent} \cup {n \in usage.notices : n.sub # "none"} :
        i.to = "l" /\ Ask("review", "l", i.id)

\* The recipient's lock is waited for within bounds.
LockRecipient ==
    /\ cmd.pc = "lock"
    /\ IF owner[cmd.to] = Free /\ status[cmd.to] # "dropped"
       THEN Lock(cmd.to, "withdraw") /\ cmd' = [cmd EXCEPT !.pc = "locked"]
       ELSE cmd' = NoCmd /\ UNCHANGED owner
    /\ UNCHANGED <<part, agents, usage, files, flush, clock, ghosts>>

\* The change, and the end of the envelope the locked recipient has not taken.
Locked == cmd.pc = "locked"
Withdrawn(s) ==
    IF Locked /\ Queued(s) = cmd.to /\ files[cmd.to][s.id] = "new"
    THEN [files EXCEPT ![cmd.to][s.id] = "gone"] ELSE files
Done(ends) ==
    IF Locked THEN Go(cmd.to, "release") /\ cmd' = [cmd EXCEPT !.ends = ends]
    ELSE /\ cmd' = IF ends = {} THEN NoCmd ELSE [cmd EXCEPT !.pc = "log", !.ends = ends]
         /\ UNCHANGED owner
Held == cmd.pc = "change" \/ (Locked /\ At(cmd.to, "withdraw"))
Turn == Held /\ Recipient(cmd) = cmd.to
Refuse ==
    /\ Held
    /\ \/ Recipient(cmd) # cmd.to
       \/ cmd.op = "schedule" /\ usage.snooze.to # "none" /\ usage.snooze.sub # "none"
    /\ Done({})
    /\ UNCHANGED <<part, agents, usage, files, flush, clock, ghosts>>

Unsent(s) == IF s.sub = "none" THEN {s.id} \ {NoId} ELSE {}
DoSchedule ==
    LET s == usage.snooze r == usage.recent over == r.rejected \/ r.failed IN
    /\ cmd.op = "schedule" /\ Turn /\ ~(s.to # "none" /\ s.sub # "none")
    /\ files' = Withdrawn(s)
    /\ Now([usage EXCEPT !.snooze = Wake(made + 1, now + 1, FALSE), !.recent = IF over THEN None ELSE @])
    /\ made' = made + 1
    /\ gone' = gone \cup Unsent(s)
    /\ Done(Names({s} \cup IF over THEN {r} ELSE {}))
    /\ UNCHANGED <<part, agents, flush, now, used, typed, astray, log, fired, lost>>
DoClear ==
    LET s == usage.snooze IN
    /\ cmd.op = "clear" /\ Turn
    /\ files' = Withdrawn(s)
    /\ Now([usage EXCEPT !.snooze = None, !.recent = None, !.cand = "none"])
    /\ gone' = gone \cup Unsent(s)
    /\ Done(Names({s, usage.recent}))
    /\ UNCHANGED <<part, agents, flush, clock, typed, astray, log, fired, lost>>
DoReview ==
    LET s == usage.snooze r == usage.recent
        Mine(i) == i.id = cmd.id /\ i.to = "l"
        notice == {n \in usage.notices : Mine(n) /\ n.sub # "none"}
    IN
    /\ cmd.op = "review" /\ Turn
    /\ files' = IF Mine(s) THEN Withdrawn(s) ELSE files
    /\ Now([usage EXCEPT !.notices = @ \ notice, !.snooze = IF Mine(s) THEN None ELSE @,
                         !.recent = IF Mine(r) /\ ~Mine(s) THEN None ELSE @])
    /\ gone' = gone \cup IF Mine(s) THEN Unsent(s) ELSE {}
    /\ Done(Names({i \in {s, r} : Mine(i)}))
    /\ UNCHANGED <<part, agents, flush, clock, typed, astray, log, fired, lost>>
\* The command's events follow its change.
LogChange ==
    /\ cmd.pc = "log"
    /\ Logs(cmd.ends)
    /\ cmd' = NoCmd
    /\ UNCHANGED <<part, agents, usage, files, owner, flush, clock, typed, astray, gone, fired, lost>>
CmdDies ==
    /\ cmd.pc = "log" /\ Twist
    /\ cmd' = NoCmd /\ Misses(cmd.ends)
    /\ UNCHANGED <<part, agents, usage, files, owner, flush, typed, astray, gone, fired, lost>>

-----------------------------------------------------------------------------
NativeStep(a) ==
    \/ \E id \in native[a].queue : Absorb(a, id)
    \/ Dequeue(a) \/ SubmitHook(a) \/ \E k \in {"ok", "blocked", "failed", "cap", "rate"} : TurnEnds(a, k)
    \/ Prompted(a) \/ Pulled(a) \/ Resubmitted(a) \/ HookLost(a) \/ EndUnseen(a)
    \/ \E pct \in 1..2, reset \in 2..MaxNow : Read(a, pct, reset)
World(a) == Stop(a) \/ Restart(a) \/ Drop(a) \/ Superseded(a) \/ Dies(a)
OwnerStep(a) ==
    \/ Recover(a) \/ ObserveTurn(a) \/ LogTurn(a) \/ ObserveAuto(a) \/ ReadHook(a)
    \/ ObserveBands(a) \/ Drain(a) \/ Type(a) \/ Await(a) \/ Acknowledge(a) \/ Settle(a)
    \/ Publish(a) \/ Release(a)
FlushWork == List \/ Route \/ LogRouted \/ FlushStep
CmdStep == LockRecipient \/ Refuse \/ DoSchedule \/ DoClear \/ DoReview \/ LogChange
Next ==
    \/ Wait \/ TimePasses \/ FlushWork \/ CmdStep \/ Snooze \/ Clear \/ Review \/ FlushDies \/ CmdDies
    \/ \E a \in Agents : NativeStep(a) \/ World(a) \/ Tick(a) \/ Refused(a) \/ OwnerStep(a)

\* Turns end, hooks run, owners and flushes go on and ticks come; five minutes
\* pass. Nothing is promised of the operator.
Fairness ==
    /\ WF_vars(FlushWork) /\ WF_vars(CmdStep) /\ WF_vars(Wait)
    /\ \A a \in Agents :
         /\ WF_vars(OwnerStep(a)) /\ SF_vars(Tick(a))
         /\ WF_vars(SubmitHook(a)) /\ WF_vars(Dequeue(a)) /\ WF_vars(TurnEnds(a, "ok"))
Spec == Init /\ [][Next]_vars /\ Fairness

-----------------------------------------------------------------------------
TypeOK ==
    /\ \A s \in {usage.snooze, usage.recent} :
         /\ s.id \in Ids \cup {NoId} /\ s.to \in Agents \cup {"none"}
         /\ s.sub \in {"none", "accepted", "unverified"} /\ s.cand \in {"none", "fresh", "stale"}
    /\ usage.recent.sub = "none"
    /\ \A a \in Agents : owner[a].id \in Ids \cup {NoId}
    /\ \A e \in flush.list : e.id \in Ids /\ e.to \in Agents

(* An ID is submitted to a native program at most once, however often it is   *)
(* listed, published, recovered and proved; the copy a rerouted wake leaves   *)
(* in the inbox of an agent that starts again is the exception.               *)
SubmittedOnce == \A i \in Ids \ astray : typed[i] <= 1

(* What --clear or a replacement withdrew before its submission never reaches *)
(* a native program (same exception).                                         *)
WithdrawnStays == [][\A i \in gone \ astray : typed'[i] = typed[i]]_vars

(* While an earlier wake's outcome is unknown, the caller's next one is given  *)
(* to nobody: it is in no inbox and in no native queue (same exception).      *)
FollowUpWaits ==
    Pending(usage.recent) =>
        /\ usage.snooze.to = "none"
        /\ Is(usage.snooze) /\ usage.snooze.id \notin astray =>
              \A a \in Agents : files[a][usage.snooze.id] \notin {"new", "input"}

(* A wake is completed, and a cap is held against it, only by the turn that   *)
(* ran its prompt: one typed into a running turn may run in that turn or in   *)
(* one of its own, which no hook announces.                                   *)
Ended(a, id) == IF native[a].in[id] = 0 THEN "none" ELSE native[a].ends[native[a].in[id]]
OutcomeIsReal ==
    /\ \A c \in log.completed : Ended(c[1], c[2]) = "ok"
    /\ LET r == usage.recent IN r.rejected => Ended(r.to, r.id) \in {"cap", "rate"}

(* A wake is in the usage state until its end is logged, or about to be, or   *)
(* missed by a process that died in between: neither a reroute, a re-arm, an  *)
(* automatic wake nor a late proof overwrites another.                        *)
Unlogged == UNION {owner[a].ends : a \in Agents} \cup flush.ends \cup cmd.ends \cup log.missed
NoSilentLoss == \A n \in 1..made : n \in Names({usage.snooze, usage.recent}) \cup log.ended \cup Unlogged

(* However late an agent's reading is observed, a band of a window is         *)
(* announced once.                                                            *)
BandOnce == \A x \in DOMAIN fired : fired[x] <= 1

(* No reading, late or of another agent, takes the account back to a window   *)
(* or a time before the one it is at.                                         *)
WindowForward ==
    [][usage'.window # usage.window =>
          /\ usage'.window.reset >= usage.window.reset /\ usage'.window.at >= usage.window.at
          /\ usage'.window.reset = usage.window.reset => usage.window.fired \subseteq usage'.window.fired]_vars

(* What is due does not wait for ever, untyped and unsubmitted, for a         *)
(* recipient that can take it; nor does what was submitted stay with one that *)
(* is gone.                                                                   *)
Takes(a, i) == status[a] = "active" /\ i.to = a /\ Room(native[a])
Waits(i) ==
    \/ i.to = "none" /\ \E a \in Agents : status[a] = "active"
    \/ i.sub = "none" /\ typed[i.id] = 0 /\ \E a \in Agents : Takes(a, i)
    \/ i.sub # "none" /\ status[i.to] # "active"
WakeSent == []<>~(Due(usage.snooze) /\ ~Pending(usage.recent) /\ Waits(usage.snooze))

(* The outcome of a delivered wake is known in the end, if every turn's end   *)
(* is seen.                                                                   *)
OutcomeKnown == []<>(lost \/ ~Pending(usage.recent))

(* An ID goes in once, and not at all once it was withdrawn                *)
(* (usage_state.go:577, 652).                                              *)
WakesOnce == []TypeOK /\ []SubmittedOnce /\ WithdrawnStays

(* A caller's wakes come one after another, each judged by its own turn    *)
(* (usage_state.go:318).                                                   *)
OutcomesInOrder == FollowUpWaits /\ OutcomeIsReal

(* Wakes share a slot that late writers leave as it is                     *)
(* (usage_state.go:727).                                                   *)
SharedStateKept == NoSilentLoss

(* The account's crossing state moves forward, whoever read it and         *)
(* whenever (usage_state.go:508).                                          *)
BandsKept == []BandOnce /\ WindowForward

(* A wake gets its turn, and its caller an outcome (usage_state.go:318).   *)
WakesEnd == WakeSent /\ OutcomeKnown
=============================================================================
