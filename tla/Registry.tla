------------------------------ MODULE Registry ------------------------------
(* Registration of agents: cmd/gang/hitches.go, rehitch.go,                *)
(* rehitch_stopped.go, stale_claim.go, team.go (down), recover.go's        *)
(* startup half, store/store.go (claims, records, renames) and             *)
(* substrate/tmux/registration.go.                                         *)
(*                                                                         *)
(* Three processes work on the same directory and the same tmux server: a  *)
(* command that holds the team lock (`op`: hitch, up, rehitch, rehitch     *)
(* --stopped, drop, down), a tick or a --recover (`tick`), and a rename    *)
(* (`ren`).  Any of them may be killed between two of its writes; native   *)
(* processes exit, and the tmux server dies and is replaced by one that    *)
(* reuses its pane numbers.                                                *)
EXTENDS Naturals, FiniteSets

CONSTANTS
    Ids,          \* hitch ids, one per CreateAgent
    Names,        \* agent names
    None,         \* no id, no name, no pane, no process
    MaxOps,       \* bound: commands run, renames and recoveries included
    MaxMishaps    \* bound: crashes, native exits, server deaths, calls that err
                  \* and processes out of a command's sight

ASSUME RegistryAssumption ==
    /\ None \notin Ids \cup Names \cup Nat \cup [gen : Nat, num : Nat]
    /\ MaxOps \in Nat
    /\ MaxMishaps \in Nat

VARIABLES
    agent,     \* the records on disk
    names,     \* the name symlinks
    lock,      \* who holds each agent's lock
    panes,     \* the panes of the running tmux server
    gens,      \* server generations so far; the last is the running one
    born,      \* native processes started so far
    native,    \* what each native process is and shows
    op, tick, ren,
    ops, mishaps,
    strays,    \* ghost: processes whose hitch was killed, or failed and could not
               \* remove them, before it recorded their pane
    cut        \* ghost: agents restarted or superseded with a rename unfinished

vars == <<agent, names, lock, panes, gens, born, native, op, tick, ren, ops,
          mishaps, strays, cut>>
world == <<panes, gens, born, native, strays, cut>>

Starting == "starting"
Booting  == "booting"
Active   == "active"
Failed   == "failed"
Dropping == "dropping"

MaxNatives == MaxOps
Pids == 1..MaxNatives
PaneIds == [gen : 1..MaxNatives, num : 1..MaxNatives]

\* A record: `boot` is its deadline, `verdict` says the deadline failed it.
Record == [here : BOOLEAN, status : {Starting, Booting, Active, Failed, Dropping},
           name : Names \cup {None}, from : Names \cup {None}, to : Names \cup {None},
           pane : PaneIds \cup {None}, held : BOOLEAN, server : BOOLEAN,
           proc : Pids \cup {None}, teardown : BOOLEAN, blocked : BOOLEAN,
           boot : {"none", "running", "past"}, verdict : BOOLEAN, rehitch : BOOLEAN]

NoRecord == [here |-> FALSE, status |-> Failed, name |-> None, from |-> None,
             to |-> None, pane |-> None, held |-> FALSE, server |-> FALSE,
             proc |-> None, teardown |-> FALSE, blocked |-> FALSE,
             boot |-> "none", verdict |-> FALSE, rehitch |-> FALSE]

\* The record a hitch writes before it has a pane.
Fresh(name) == [NoRecord EXCEPT !.here = TRUE, !.status = Starting, !.name = name,
                                !.boot = "running"]

Quiet == [pc |-> "none", kind |-> "none", id |-> None, name |-> None,
          exists |-> FALSE, pane |-> None, pid |-> None, todo |-> {}]
Rest  == [pc |-> "none", id |-> None, to |-> None]

Init ==
    /\ agent = [h \in Ids |-> NoRecord]
    /\ names = [n \in Names |-> None]
    /\ lock = [h \in Ids |-> "free"]
    /\ panes = {} /\ gens = 0 /\ born = 0
    /\ native = [k \in Pids |-> [alive |-> FALSE, of |-> None, gen |-> 0,
                                 screen |-> "starting", witnessed |-> FALSE]]
    /\ op = Quiet /\ tick = Rest /\ ren = Rest
    /\ ops = 0 /\ mishaps = 0
    /\ strays = {} /\ cut = {}

-----------------------------------------------------------------------------
(* The tmux server, as registration.go reads it.                           *)

Exists == panes # {}
PaneAt(id) == CHOOSE p \in panes : p.id = id
Present(id) == \E p \in panes : p.id = id

\* CheckPane: the number may now name a pane of a later server.
CheckPane(id) ==
    IF Present(id) THEN "present"
    ELSE IF \E p \in panes : p.id.num = id.num THEN "replaced"
    ELSE "absent"

\* PaneClosed: the registering server answers without the pane, or it is
\* witnessed gone.
PaneClosed(a) ==
    /\ ~Present(a.pane)
    /\ (Exists /\ a.pane.gen = gens) \/ a.server

\* captureRegistered: a held pane shows its native's exit, not a screen.
Capture(a) ==
    IF a.pane = None \/ ~Present(a.pane) THEN "error"
    ELSE LET k == PaneAt(a.pane).pid IN
         IF native[k].alive THEN native[k].screen ELSE "exited"

\* RemoveRegisteredPane: the identity is checked in the removal's own queue.
Without(id) == {p \in panes : p.id # id}

\* The processes still alive once the pane `id` is removed: a native may
\* outlive the hangup until the teardown stops it.
Hangup(id, survive) ==
    [k \in Pids |-> IF ~survive /\ (\E p \in panes : p.id = id /\ p.pid = k)
                    THEN [native[k] EXCEPT !.alive = FALSE] ELSE native[k]]

-----------------------------------------------------------------------------
(* Records and names.                                                      *)

Listed == {h \in Ids : agent[h].here /\ agent[h].name # None /\ names[agent[h].name] = h}

FailedBy(a) == [a EXCEPT !.status = Failed, !.blocked = FALSE, !.verdict = FALSE]

\* FinishRename: the claim of the new name decides whether it happened.
MayClaim(h, a) == names[a.to] \in {None, h}
Renamed(h, a) ==
    IF a.to = None THEN a
    ELSE IF MayClaim(h, a) THEN [a EXCEPT !.name = a.to, !.from = None, !.to = None]
    ELSE [a EXCEPT !.from = None, !.to = None]
RenamedNames(h, a) ==
    IF a.to = None \/ ~MayClaim(h, a) THEN names
    ELSE [n \in Names |-> IF n = a.to THEN h
                          ELSE IF n = a.from /\ names[n] = h THEN None ELSE names[n]]

\* RemoveName removes a claim only while it is this agent's.
Freed(ns, dead, h) == [n \in Names |-> IF n \in dead /\ ns[n] = h THEN None ELSE ns[n]]

\* forgetPane and the boot half of checkDeadlines.
Forgotten(a) ==
    IF a.status = Failed THEN [a EXCEPT !.pane = None]
    ELSE [FailedBy(a) EXCEPT !.pane = None]
Overdue(a) ==
    IF a.boot = "past" /\ a.status \in {Starting, Booting}
    THEN [a EXCEPT !.status = Failed, !.verdict = TRUE] ELSE a
Deadlines(a) ==
    IF a.status = Booting /\ a.pane # None /\ (a.boot = "past" \/ a.blocked)
    THEN LET s == Capture(a) IN
         CASE s = "exited" -> FailedBy(a)
           [] s = "error" /\ PaneClosed(a) -> Forgotten(a)
           [] s = "error" /\ ~PaneClosed(a) -> Overdue(a)
           [] s = "prompt" /\ a.boot = "past" -> [a EXCEPT !.blocked = TRUE, !.boot = "none"]
           [] s = "starting" -> Overdue(a)
           [] OTHER -> a
    ELSE Overdue(a)

Put(h, a) == agent' = [agent EXCEPT ![h] = a]

-----------------------------------------------------------------------------
(* hitch: preflight under the team lock.                                   *)

\* Defect: panes no record owns are not looked for.
UnregisteredIgnored == FALSE

\* A pane no record owns whose native still runs refuses every hitch.
Owned(p) == \E h \in Listed : agent[h].pane = p.id
Unregistered == \E p \in panes : ~Owned(p) /\ native[p.pid].alive

\* rehitchReady's lifecycle half; the turn's half belongs to the status hooks.
Ready(a) == a.here /\ a.rehitch /\ a.status = Active

\* stoppedRehitchState, and the operator's attestation that nothing runs that
\* the record does not witness.
Stoppable(h, a) ==
    /\ a.here /\ a.status # Dropping /\ ~a.teardown /\ a.to = None /\ ~a.rehitch
    /\ \A k \in Pids : native[k].of = h /\ native[k].alive => k = a.proc

\* A hitch needs a fresh id; the replacing kinds reuse their record's.
HitchBegin(kind, h, n) ==
    /\ op.pc = "none" /\ ops < MaxOps
    /\ ~(Exists /\ Unregistered)
    /\ CASE kind \in {"hitch", "up"} ->
              /\ ~agent[h].here /\ ren.id # h
              /\ \A k \in Pids : native[k].of # h
              /\ \A m \in Names : names[m] # h
         [] kind = "stopped" -> Stoppable(h, agent[h]) /\ names[n] = h
                                /\ n = agent[h].name
    /\ op' = [Quiet EXCEPT !.pc = IF kind \in {"hitch", "up"} THEN "mkdir" ELSE "prepare",
                           !.kind = kind, !.id = h, !.name = n, !.exists = Exists]
    /\ ops' = ops + 1
    /\ UNCHANGED <<agent, names, lock, world, tick, ren, mishaps>>

\* rehitchPending: the end of a tick starts a queued restart.  A team lock that
\* is taken defers it to the next tick.
RehitchPending ==
    /\ tick.pc = "rehitch"
    /\ LET a == agent[tick.id] IN
       op' = IF op.pc = "none" /\ Ready(a)
             THEN [Quiet EXCEPT !.pc = IF Exists /\ Unregistered THEN "report" ELSE "prepare",
                                !.kind = "rehitch", !.id = tick.id, !.name = a.name,
                                !.exists = Exists]
             ELSE op
    /\ tick' = Rest
    /\ UNCHANGED <<agent, names, lock, world, ren, ops, mishaps>>

\* The launch of a queued restart can fail before anything is stopped.
PreflightFails ==
    /\ op.pc = "prepare" /\ op.kind = "rehitch"
    /\ mishaps < MaxMishaps
    /\ op' = [op EXCEPT !.pc = "report"]
    /\ mishaps' = mishaps + 1
    /\ UNCHANGED <<agent, names, lock, world, tick, ren, ops>>

\* CreateAgent writes the record and its lock before it claims the name.
CreateAgent ==
    /\ op.pc = "mkdir"
    /\ Put(op.id, Fresh(op.name))
    /\ lock' = [lock EXCEPT ![op.id] = "op"]
    /\ op' = [op EXCEPT !.pc = "name"]
    /\ UNCHANGED <<names, world, tick, ren, ops, mishaps>>

ClaimName ==
    /\ op.pc = "name" /\ names[op.name] = None
    /\ names' = [names EXCEPT ![op.name] = op.id]
    /\ op' = [op EXCEPT !.pc = "spawn"]
    /\ UNCHANGED <<agent, lock, world, tick, ren, ops, mishaps>>

\* The claim is taken: the directory goes again, and only `gang up` of a team
\* with no tmux session looks further.
NameTaken ==
    /\ op.pc = "name" /\ names[op.name] # None
    /\ Put(op.id, NoRecord)
    /\ lock' = [lock EXCEPT ![op.id] = "free"]
    /\ op' = IF op.kind = "up" /\ ~op.exists THEN [op EXCEPT !.pc = "supersede"] ELSE Quiet
    /\ UNCHANGED <<names, world, tick, ren, ops, mishaps>>

\* supersedeStoppedClaim: fails the retained record of a team whose server and
\* recorded process are gone, then takes its name.  A process it cannot see is
\* not known to be gone.
Superseded(old, visible) ==
    /\ lock[old] = "free" /\ agent[old].here /\ ~Exists
    /\ agent[old].status # Dropping /\ ~agent[old].teardown
    /\ agent[old].proc # None => visible /\ ~native[agent[old].proc].alive

Supersede ==
    /\ op.pc = "supersede"
    /\ \E visible \in BOOLEAN :
       LET old == names[op.name] IN
       IF old # None /\ Superseded(old, visible)
       THEN /\ Put(old, [FailedBy(agent[old]) EXCEPT !.pane = None])
            /\ lock' = [lock EXCEPT ![old] = "op"]
            /\ op' = [op EXCEPT !.pc = "free", !.todo = {old}]
            /\ cut' = IF agent[old].to = None THEN cut ELSE cut \cup {old}
       ELSE /\ op' = Quiet
            /\ UNCHANGED <<agent, lock, cut>>
    /\ UNCHANGED <<names, panes, gens, born, native, strays, tick, ren, ops, mishaps>>

\* Its RemoveName and the second CreateAgent, still under the old lock.
FreeStaleName ==
    /\ op.pc = "free" /\ op.kind = "up"
    /\ LET old == CHOOSE h \in op.todo : TRUE IN
       /\ names' = Freed(names, {op.name}, old)
       /\ lock' = [lock EXCEPT ![old] = "free"]
    /\ op' = [op EXCEPT !.pc = "mkdir", !.kind = "hitch", !.todo = {}]
    /\ UNCHANGED <<agent, world, tick, ren, ops, mishaps>>

-----------------------------------------------------------------------------
(* Restarts: the record keeps its id and its name.                         *)

\* prepareRehitch consumes the request before anything is stopped; a record
\* that changed since the tick read it defers the restart.
PrepareRehitch ==
    /\ op.pc = "prepare" /\ op.kind = "rehitch"
    /\ LET a == agent[op.id]
           same == lock[op.id] = "free" /\ Ready(a) /\ a.name = op.name
       IN CASE same /\ Capture(a) = "ready" ->
                 /\ Put(op.id, [a EXCEPT !.rehitch = FALSE])
                 /\ lock' = [lock EXCEPT ![op.id] = "op"]
                 /\ op' = [op EXCEPT !.pc = "acquire"]
            [] same /\ Capture(a) \in {"error", "exited"} ->
                 op' = [op EXCEPT !.pc = "report"] /\ UNCHANGED <<agent, lock>>
            [] OTHER -> op' = Quiet /\ UNCHANGED <<agent, lock>>
    /\ UNCHANGED <<names, world, tick, ren, ops, mishaps>>

\* The record of the next launch. It carries neither half of a rename.
SaveNext ==
    /\ op.pc = "next"
    /\ Put(op.id, Fresh(op.name))
    /\ op' = [op EXCEPT !.pc = "spawn", !.exists = Exists]
    /\ cut' = IF agent[op.id].to = None THEN cut ELSE cut \cup {op.id}
    /\ UNCHANGED <<names, lock, panes, gens, born, native, strays, tick, ren, ops, mishaps>>

\* Defect: the recorded process is not looked for.
PrepareStoppedBlind ==
    /\ op.pc = "prepare" /\ op.kind = "stopped"
    /\ LET a == agent[op.id] IN
       IF lock[op.id] = "free" /\ Stoppable(op.id, a) /\ a.name = op.name
       THEN /\ Put(op.id, [Fresh(op.name) EXCEPT !.proc = a.proc, !.server = a.server])
            /\ lock' = [lock EXCEPT ![op.id] = "op"]
            /\ op' = [op EXCEPT !.pc = "spawn", !.exists = Exists]
       ELSE op' = Quiet /\ UNCHANGED <<agent, lock>>
    /\ UNCHANGED <<names, world, tick, ren, ops, mishaps>>

\* prepareStoppedRehitch refuses while its pane or its process is still there,
\* and retains the old witness until a new pane is registered.
PrepareStopped ==
    /\ op.pc = "prepare" /\ op.kind = "stopped"
    /\ LET a == agent[op.id] IN
       IF /\ lock[op.id] = "free" /\ Stoppable(op.id, a)
          /\ a.name = op.name /\ names[op.name] = op.id
          /\ a.pane # None => CheckPane(a.pane) # "present"
          /\ a.proc # None => ~native[a.proc].alive
       THEN /\ Put(op.id, [Fresh(op.name) EXCEPT !.proc = a.proc, !.server = a.server])
            /\ lock' = [lock EXCEPT ![op.id] = "op"]
            /\ op' = [op EXCEPT !.pc = "spawn", !.exists = Exists]
       ELSE /\ op' = Quiet
            /\ UNCHANGED <<agent, lock>>
    /\ UNCHANGED <<names, world, tick, ren, ops, mishaps>>

\* rehitchError consumes the request once and tells its owner.
ReportRehitch ==
    /\ op.pc = "report"
    /\ IF agent[op.id].here
       THEN /\ lock[op.id] = "free"
            /\ Put(op.id, [Deadlines(Renamed(op.id, agent[op.id])) EXCEPT !.rehitch = FALSE])
            /\ names' = RenamedNames(op.id, agent[op.id])
       ELSE UNCHANGED <<agent, names>>
    /\ op' = Quiet
    /\ UNCHANGED <<lock, world, tick, ren, ops, mishaps>>

-----------------------------------------------------------------------------
(* The launch: pane, registration, witnesses, startup.                     *)

\* A command may run in another process namespace than the tmux server.
Sight(visible) ==
    /\ mishaps' = mishaps + (IF visible THEN 0 ELSE 1)
    /\ ~visible => mishaps < MaxMishaps

\* The command returns: both locks go.  A queued restart that failed reports.
Return(failed) ==
    /\ lock' = IF lock[op.id] = "op" THEN [lock EXCEPT ![op.id] = "free"] ELSE lock
    /\ op' = IF failed /\ op.kind = "rehitch" THEN [op EXCEPT !.pc = "report"] ELSE Quiet

\* A window cannot be added to a session that ended since it was seen.
SpawnFails ==
    /\ op.pc = "spawn" /\ op.exists # Exists
    /\ Put(op.id, FailedBy(agent[op.id]))
    /\ Return(TRUE)
    /\ UNCHANGED <<names, world, tick, ren, ops, mishaps>>

\* The pane is held from its first moment; its number is the next one of its
\* server.
NextPane(g) == [gen |-> g, num |-> 1 + Cardinality({k \in 1..born : native[k].gen = g})]
MakePane(g) ==
    LET k == born + 1
    IN /\ gens' = g /\ born' = k
       /\ panes' = panes \cup {[id |-> NextPane(g), pid |-> k, held |-> TRUE]}
       /\ native' = [native EXCEPT ![k].alive = TRUE, ![k].of = op.id, ![k].gen = g]

\* Only the command that made a pane knows its id.
LaunchIn(g) ==
    /\ MakePane(g)
    /\ op' = [op EXCEPT !.pc = "register", !.pane = NextPane(g), !.pid = born + 1]
    /\ UNCHANGED <<agent, names, lock, tick, ren, ops, mishaps, strays, cut>>

\* A first pane starts a server, whose numbers begin again.
NextServer == IF Exists THEN gens ELSE gens + 1

\* The call that makes the pane errs.  tmux may have made it all the same: the
\* record says failed, and nothing names the pane.
SpawnErrs ==
    /\ op.pc = "spawn" /\ op.exists = Exists
    /\ mishaps < MaxMishaps
    /\ \/ UNCHANGED <<panes, gens, born, native, strays>>
       \/ MakePane(NextServer) /\ strays' = strays \cup {born + 1}
    /\ Put(op.id, FailedBy(agent[op.id]))
    /\ Return(TRUE)
    /\ mishaps' = mishaps + 1
    /\ UNCHANGED <<names, cut, tick, ren, ops>>

CreateSession ==
    /\ op.pc = "spawn" /\ ~op.exists /\ ~Exists
    /\ LaunchIn(NextServer)
SpawnWindow ==
    /\ op.pc = "spawn" /\ op.exists /\ Exists
    /\ LaunchIn(NextServer)

\* RegisterPane and hitch_spawned: the record owns the pane from here on.
Register ==
    /\ op.pc = "register"
    /\ IF Present(op.pane)
       THEN /\ Put(op.id, [agent[op.id] EXCEPT !.pane = op.pane, !.held = TRUE,
                            !.proc = None, !.server = FALSE, !.status = Booting])
            /\ op' = [op EXCEPT !.pc = "server"]
            /\ UNCHANGED lock
       ELSE /\ Put(op.id, FailedBy(agent[op.id]))
            /\ Return(TRUE)
    /\ UNCHANGED <<names, world, tick, ren, ops, mishaps>>

\* RegisterPane errs although the pane is there.  The pane is killed by the
\* identity it was born with, or that errs too and it stays.
RegisterFails ==
    /\ op.pc = "register" /\ Present(op.pane)
    /\ mishaps < MaxMishaps
    /\ \/ /\ panes' = Without(op.pane)
          /\ \E survive \in BOOLEAN : native' = Hangup(op.pane, survive)
          /\ UNCHANGED strays
       \/ /\ strays' = strays \cup {op.pid}
          /\ UNCHANGED <<panes, native>>
    /\ Put(op.id, FailedBy(agent[op.id]))
    /\ Return(TRUE)
    /\ mishaps' = mishaps + 1
    /\ UNCHANGED <<names, gens, born, cut, tick, ren, ops>>

\* ServerIdentity: a server that is gone fails the launch; one whose process
\* this command cannot see, from another process namespace, has no witness.
WitnessServer ==
    /\ op.pc = "server"
    /\ IF Present(op.pane)
       THEN /\ \E visible \in BOOLEAN :
                 /\ Sight(visible)
                 /\ Put(op.id, [agent[op.id] EXCEPT !.server = visible])
            /\ op' = [op EXCEPT !.pc = "identity"]
       ELSE /\ Put(op.id, FailedBy(agent[op.id]))
            /\ op' = [op EXCEPT !.pc = "remove"]
            /\ UNCHANGED mishaps
    /\ UNCHANGED <<names, lock, world, tick, ren, ops>>

\* Identity: an exit read here fails the launch with nothing left to clean up.
\* A process that cannot be seen, nor is it where its server was not, is noted
\* and goes unwitnessed.
WitnessProcess ==
    /\ op.pc = "identity"
    /\ \E visible \in {FALSE, agent[op.id].server} :
       /\ Sight(visible \/ ~agent[op.id].server)
       /\ CASE Present(op.pane) /\ visible /\ native[op.pid].alive ->
                 /\ Put(op.id, [agent[op.id] EXCEPT !.proc = op.pid])
                 /\ native' = [native EXCEPT ![op.pid].witnessed = TRUE]
                 /\ op' = [op EXCEPT !.pc = "await"]
            [] Present(op.pane) /\ ~visible ->
                 /\ op' = [op EXCEPT !.pc = "await"]
                 /\ UNCHANGED <<agent, native>>
            [] OTHER ->
                 /\ Put(op.id, FailedBy(agent[op.id]))
                 /\ op' = [op EXCEPT !.pc = "remove"]
                 /\ UNCHANGED native
    /\ UNCHANGED <<names, lock, panes, gens, born, tick, ren, ops, strays, cut>>

\* Defect: an exited startup is forgotten with its pane still there.
AwaitExitForgets ==
    /\ op.pc = "await" /\ Capture(agent[op.id]) = "exited"
    /\ Put(op.id, FailedBy(agent[op.id]))
    /\ op' = [op EXCEPT !.pc = "forget"]
    /\ UNCHANGED <<names, lock, world, tick, ren, ops, mishaps>>

\* awaitHitchStartup reads a held exit, a prompt, a ready composer, or runs
\* out of time with neither; an interrupt fails it in any of these.
AwaitExit ==
    /\ op.pc = "await" /\ Capture(agent[op.id]) = "exited"
    /\ Put(op.id, FailedBy(agent[op.id]))
    /\ op' = [op EXCEPT !.pc = "remove"]
    /\ UNCHANGED <<names, lock, world, tick, ren, ops, mishaps>>
Interrupted ==
    /\ op.pc = "await" /\ mishaps < MaxMishaps
    /\ Put(op.id, FailedBy(agent[op.id]))
    /\ op' = [op EXCEPT !.pc = "remove"]
    /\ mishaps' = mishaps + 1
    /\ UNCHANGED <<names, lock, world, tick, ren, ops>>
AwaitPrompt ==
    /\ op.pc = "await" /\ Capture(agent[op.id]) = "prompt"
    /\ Put(op.id, [agent[op.id] EXCEPT !.blocked = TRUE, !.boot = "none"])
    /\ Return(TRUE)
    /\ UNCHANGED <<names, world, tick, ren, ops, mishaps>>
AwaitNothing ==
    /\ op.pc = "await" /\ Capture(agent[op.id]) \in {"starting", "error"}
    /\ op' = [op EXCEPT !.pc = "release"]
    /\ UNCHANGED <<agent, names, lock, world, tick, ren, ops, mishaps>>

\* hitch_ready, then the startup message is drained, which ends with the
\* agent's lock released.
AwaitReady ==
    /\ op.pc = "await" /\ Capture(agent[op.id]) = "ready"
    /\ Put(op.id, [agent[op.id] EXCEPT !.status = Active, !.blocked = FALSE, !.boot = "none"])
    /\ lock' = [lock EXCEPT ![op.id] = "free"]
    /\ op' = [op EXCEPT !.pc = "release"]
    /\ UNCHANGED <<names, world, tick, ren, ops, mishaps>>

\* The deferred release reads the record again under its lock.
Relock ==
    /\ op.pc = "release" /\ lock[op.id] = "free"
    /\ IF /\ agent[op.id].here /\ agent[op.id].held /\ agent[op.id].pane = op.pane
       THEN lock' = [lock EXCEPT ![op.id] = "op"] /\ UNCHANGED op
       ELSE op' = Quiet /\ UNCHANGED lock
    /\ UNCHANGED <<agent, names, world, tick, ren, ops, mishaps>>

\* ReleaseExit: an exit already made fails the agent and removes its pane;
\* a pane that is gone leaves the record to the tick.
ReleaseHold ==
    /\ op.pc = "release" /\ lock[op.id] = "op"
    /\ CASE ~Present(op.pane) ->
              /\ Return(TRUE) /\ UNCHANGED <<agent, panes>>
         [] Present(op.pane) /\ ~native[op.pid].alive ->
              /\ Put(op.id, FailedBy(agent[op.id]))
              /\ op' = [op EXCEPT !.pc = "remove"]
              /\ UNCHANGED <<lock, panes>>
         [] OTHER ->
              /\ panes' = {IF p.id = op.pane THEN [p EXCEPT !.held = FALSE] ELSE p : p \in panes}
              /\ op' = [op EXCEPT !.pc = "released"]
              /\ UNCHANGED <<agent, lock>>
    /\ UNCHANGED <<names, gens, born, native, strays, cut, tick, ren, ops, mishaps>>
SaveReleased ==
    /\ op.pc = "released"
    /\ Put(op.id, [agent[op.id] EXCEPT !.held = FALSE])
    /\ Return(FALSE)
    /\ UNCHANGED <<names, world, tick, ren, ops, mishaps>>

\* A failed launch removes the pane it registered and then forgets it.
RemoveFailed ==
    /\ op.pc = "remove"
    /\ panes' = Without(op.pane)
    /\ \E survive \in BOOLEAN :
         /\ native' = Hangup(op.pane, survive)
         /\ mishaps' = mishaps + (IF survive THEN 1 ELSE 0)
         /\ survive => mishaps < MaxMishaps /\ Present(op.pane) /\ native[op.pid].alive
    /\ op' = [op EXCEPT !.pc = "forget"]
    /\ UNCHANGED <<agent, names, lock, gens, born, strays, cut, tick, ren, ops>>
ForgetFailed ==
    /\ op.pc = "forget"
    /\ Put(op.id, [agent[op.id] EXCEPT !.pane = None, !.held = FALSE])
    /\ Return(TRUE)
    /\ UNCHANGED <<names, world, tick, ren, ops, mishaps>>

-----------------------------------------------------------------------------
(* drop and down.                                                          *)

\* drop resolves the name under the team lock.  A name that leads to no record
\* is all there is to remove.
DropBegin(n) ==
    /\ op.pc = "none" /\ ops < MaxOps /\ names[n] # None
    /\ op' = [Quiet EXCEPT !.pc = IF agent[names[n]].here THEN "acquire" ELSE "free",
                           !.kind = "drop", !.id = names[n], !.name = n,
                           !.todo = IF agent[names[n]].here THEN {} ELSE {names[n]}]
    /\ ops' = ops + 1
    /\ UNCHANGED <<agent, names, lock, world, tick, ren, mishaps>>

\* The dangling claim goes.  (FreeStaleName frees the claim `up` supersedes.)
RemoveDangling ==
    /\ op.pc = "free" /\ op.kind = "drop"
    /\ names' = Freed(names, {op.name}, op.id)
    /\ op' = Quiet
    /\ UNCHANGED <<agent, lock, world, tick, ren, ops, mishaps>>

\* down drops every listed agent, then removes the team's directory.
DownBegin ==
    /\ op.pc = "none" /\ ops < MaxOps
    /\ op' = [Quiet EXCEPT !.pc = "next_drop", !.kind = "down", !.todo = Listed]
    /\ ops' = ops + 1
    /\ UNCHANGED <<agent, names, lock, world, tick, ren, mishaps>>
DownNext ==
    /\ op.pc = "next_drop" /\ op.todo # {}
    /\ \E h \in op.todo : op' = [op EXCEPT !.pc = "acquire", !.id = h, !.todo = @ \ {h}]
    /\ UNCHANGED <<agent, names, lock, world, tick, ren, ops, mishaps>>
DownWipe ==
    /\ op.pc = "next_drop" /\ op.todo = {}
    /\ agent' = [h \in Ids |-> NoRecord]
    /\ names' = [n \in Names |-> None]
    /\ op' = Quiet
    /\ UNCHANGED <<lock, world, tick, ren, ops, mishaps>>

\* dropAgent waits for the agent's lock; a rehitch arrives with it held.
LockForDrop ==
    /\ op.pc = "acquire" /\ op.kind \in {"drop", "down"} /\ lock[op.id] = "free"
    /\ lock' = [lock EXCEPT ![op.id] = "op"]
    /\ UNCHANGED <<agent, names, world, op, tick, ren, ops, mishaps>>

\* endNative reads the process it is about to end and saves it before the pane
\* goes: afterwards nothing else would name it.  Where it cannot see processes
\* it warns that it ends none.
Acquire ==
    /\ op.pc = "acquire" /\ lock[op.id] = "op"
    /\ \E visible \in BOOLEAN :
       LET a == agent[op.id]
           seen == /\ visible /\ a.pane # None /\ CheckPane(a.pane) = "present"
                   /\ native[PaneAt(a.pane).pid].alive
           proc == IF seen /\ a.proc = None THEN PaneAt(a.pane).pid ELSE a.proc
       IN /\ Sight(visible)
          /\ Put(op.id, IF seen THEN [a EXCEPT !.proc = proc, !.teardown = TRUE] ELSE a)
          /\ native' = IF seen THEN [native EXCEPT ![proc].witnessed = TRUE] ELSE native
          /\ op' = [op EXCEPT !.pc = "remove_pane", !.pane = a.pane,
                              !.pid = IF visible THEN proc ELSE None]
    /\ UNCHANGED <<names, lock, panes, gens, born, strays, cut, tick, ren, ops>>

\* A pane replaced by another server's is left alone.
RemovePane ==
    /\ op.pc = "remove_pane"
    /\ \E survive \in BOOLEAN :
         /\ survive => /\ mishaps < MaxMishaps
                       /\ \E p \in panes : p.id = op.pane /\ native[p.pid].alive
         /\ mishaps' = mishaps + (IF survive THEN 1 ELSE 0)
         /\ IF op.pane # None /\ CheckPane(op.pane) # "replaced"
            THEN panes' = Without(op.pane) /\ native' = Hangup(op.pane, survive)
            ELSE UNCHANGED <<panes, native>>
    /\ op' = [op EXCEPT !.pc = "stop"]
    /\ UNCHANGED <<agent, names, lock, gens, born, strays, cut, tick, ren, ops>>

\* Owned.Stop ends what the pinned identity still names.  A teardown that could
\* not see a recorded process gives its witness up.
StopNative ==
    /\ op.pc = "stop"
    /\ LET proc == agent[op.id].proc IN
       native' = CASE op.pid # None -> [native EXCEPT ![op.pid].alive = FALSE]
                   [] op.pid = None /\ proc # None -> [native EXCEPT ![proc].witnessed = FALSE]
                   [] OTHER -> native
    /\ op' = [op EXCEPT !.pc = IF op.kind = "rehitch" THEN "next" ELSE "drop_started"]
    /\ UNCHANGED <<agent, names, lock, panes, gens, born, strays, cut, tick, ren, ops, mishaps>>

DropStarted ==
    /\ op.pc = "drop_started"
    /\ Put(op.id, [agent[op.id] EXCEPT !.status = Dropping])
    /\ op' = [op EXCEPT !.pc = "unname"]
    /\ UNCHANGED <<names, lock, world, tick, ren, ops, mishaps>>

\* The other names of an unfinished rename go before the record does.
RemoveRenameNames ==
    /\ op.pc = "unname"
    /\ LET a == agent[op.id] IN
       names' = Freed(names, {a.from, a.to} \ {a.name}, op.id)
    /\ op' = [op EXCEPT !.pc = "remove_dir", !.name = agent[op.id].name]
    /\ UNCHANGED <<agent, lock, world, tick, ren, ops, mishaps>>
RemoveDirectory ==
    /\ op.pc = "remove_dir"
    /\ Put(op.id, NoRecord)
    /\ lock' = [lock EXCEPT ![op.id] = "free"]
    /\ op' = [op EXCEPT !.pc = "release_name"]
    /\ UNCHANGED <<names, world, tick, ren, ops, mishaps>>
RemoveName ==
    /\ op.pc = "release_name"
    /\ names' = Freed(names, {op.name}, op.id)
    /\ op' = IF op.kind = "down" THEN [op EXCEPT !.pc = "next_drop"] ELSE Quiet
    /\ UNCHANGED <<agent, lock, world, tick, ren, ops, mishaps>>

-----------------------------------------------------------------------------
(* rename: the claim decides, and whoever next takes the lock finishes it. *)

RenameBegin(h, to) ==
    /\ ren.pc = "none" /\ ops < MaxOps /\ h \in Listed
    /\ ren' = [pc |-> "intent", id |-> h, to |-> to]
    /\ ops' = ops + 1
    /\ UNCHANGED <<agent, names, lock, world, op, tick, mishaps>>

RenameIntent ==
    /\ ren.pc = "intent"
    /\ IF ~agent[ren.id].here
       THEN ren' = Rest /\ UNCHANGED <<agent, names, lock>>
       ELSE /\ lock[ren.id] = "free"
            /\ LET a == Deadlines(Renamed(ren.id, agent[ren.id])) IN
               /\ names' = RenamedNames(ren.id, agent[ren.id])
               /\ IF a.name = ren.to
                  THEN Put(ren.id, a) /\ ren' = Rest /\ UNCHANGED lock
                  ELSE /\ Put(ren.id, [a EXCEPT !.from = a.name, !.to = ren.to])
                       /\ lock' = [lock EXCEPT ![ren.id] = "ren"]
                       /\ ren' = [ren EXCEPT !.pc = "claim"]
    /\ UNCHANGED <<world, op, tick, ops, mishaps>>

\* A rename whose record `down` removed fails at its next write.
RenameLost ==
    /\ lock' = [lock EXCEPT ![ren.id] = "free"]
    /\ ren' = Rest
    /\ UNCHANGED <<agent, names>>

\* Its claim may still reach the names of the next team.
RenameClaim ==
    /\ ren.pc = "claim"
    /\ \E lost \in {FALSE, ~agent[ren.id].here} :
         IF lost THEN RenameLost
         ELSE IF names[ren.to] \in {None, ren.id}
         THEN /\ names' = [names EXCEPT ![ren.to] = ren.id]
              /\ ren' = [ren EXCEPT !.pc = "name"]
              /\ UNCHANGED <<agent, lock>>
         ELSE /\ Put(ren.id, [agent[ren.id] EXCEPT !.from = None, !.to = None])
              /\ lock' = [lock EXCEPT ![ren.id] = "free"]
              /\ ren' = Rest
              /\ UNCHANGED names
    /\ UNCHANGED <<world, op, tick, ops, mishaps>>
RenameName ==
    /\ ren.pc = "name"
    /\ IF ~agent[ren.id].here THEN RenameLost
       ELSE /\ Put(ren.id, [agent[ren.id] EXCEPT !.name = ren.to])
            /\ ren' = [ren EXCEPT !.pc = "free"]
            /\ UNCHANGED <<names, lock>>
    /\ UNCHANGED <<world, op, tick, ops, mishaps>>
RenameFree ==
    /\ ren.pc = "free"
    /\ names' = Freed(names, {agent[ren.id].from}, ren.id)
    /\ ren' = [ren EXCEPT !.pc = "clear"]
    /\ UNCHANGED <<agent, lock, world, op, tick, ops, mishaps>>
RenameClear ==
    /\ ren.pc = "clear"
    /\ IF ~agent[ren.id].here THEN RenameLost
       ELSE /\ Put(ren.id, [agent[ren.id] EXCEPT !.from = None, !.to = None])
            /\ lock' = [lock EXCEPT ![ren.id] = "free"]
            /\ ren' = Rest
            /\ UNCHANGED names
    /\ UNCHANGED <<world, op, tick, ops, mishaps>>

\* The agent asks for its own restart.
RequestRehitch(h) ==
    /\ ops < MaxOps /\ h \in Listed /\ lock[h] = "free"
    /\ LET a == Deadlines(Renamed(h, agent[h])) IN
       /\ a.status = Active /\ ~a.rehitch
       /\ Capture(a) = "ready"
       /\ Put(h, [a EXCEPT !.rehitch = TRUE])
    /\ names' = RenamedNames(h, agent[h])
    /\ ops' = ops + 1
    /\ UNCHANGED <<lock, world, op, tick, ren, mishaps>>

-----------------------------------------------------------------------------
(* tick: deadlines, closed panes, the rest of a startup its hitch left.    *)

\* Acquire, checkDeadlines and forgetClosedPane; a record that is ending, or
\* has no pane, is not observed.
TickBegin(h) ==
    /\ tick.pc = "none" /\ h \in Listed /\ lock[h] = "free"
    /\ LET b == Deadlines(Renamed(h, agent[h]))
           a == IF b.status = Failed /\ b.pane # None /\ PaneClosed(b) THEN Forgotten(b) ELSE b
       IN /\ Put(h, a)
          /\ IF a.status \in {Dropping, Failed} \/ a.pane = None
             THEN UNCHANGED <<tick, lock>>
             ELSE /\ tick' = [Rest EXCEPT !.pc = "observe", !.id = h]
                  /\ lock' = [lock EXCEPT ![h] = "tick"]
    /\ names' = RenamedNames(h, agent[h])
    /\ UNCHANGED <<world, op, ren, ops, mishaps>>

\* The tick ends: its lock goes, and a queued restart follows.
TickEnds ==
    /\ lock' = [lock EXCEPT ![tick.id] = "free"]
    /\ tick' = IF agent[tick.id].rehitch THEN [tick EXCEPT !.pc = "rehitch"] ELSE Rest

\* Defect: only a booting agent's hold is looked at.
TickObserveBoot ==
    /\ tick.pc = "observe"
    /\ LET a == agent[tick.id]
           s == Capture(a)
       IN CASE s = "ready" /\ a.status = Booting ->
                 tick' = [tick EXCEPT !.pc = "release"] /\ UNCHANGED <<agent, lock>>
            [] s = "exited" -> Put(tick.id, FailedBy(a)) /\ TickEnds
            [] s = "error" /\ PaneClosed(a) -> Put(tick.id, Forgotten(a)) /\ TickEnds
            [] OTHER -> TickEnds /\ UNCHANGED agent
    /\ UNCHANGED <<names, world, op, ren, ops, mishaps>>

\* A held exit or a closed pane ends the agent; a prompt is recorded; a pane
\* that cannot be read proves nothing.
TickObserve ==
    /\ tick.pc = "observe"
    /\ LET a == agent[tick.id]
           s == Capture(a)
           settled == \/ s = "ready" /\ a.status = Booting
                      \/ s \notin {"exited", "error"} /\ a.status = Active /\ a.held
       IN CASE settled ->
                 tick' = [tick EXCEPT !.pc = "release"] /\ UNCHANGED <<agent, lock>>
            [] s = "exited" ->
                 Put(tick.id, FailedBy(a)) /\ TickEnds
            [] s = "error" /\ PaneClosed(a) ->
                 Put(tick.id, Forgotten(a)) /\ TickEnds
            [] s = "prompt" /\ a.status = Booting ->
                 Put(tick.id, [a EXCEPT !.blocked = TRUE, !.boot = "none"]) /\ TickEnds
            [] OTHER -> TickEnds /\ UNCHANGED agent
    /\ UNCHANGED <<names, world, op, ren, ops, mishaps>>

\* ReleaseRegisteredExit: identity and release in one tmux queue.
TickRelease ==
    /\ tick.pc = "release"
    /\ LET a == agent[tick.id] IN
       CASE CheckPane(a.pane) = "replaced" ->
              /\ IF a.status = Booting /\ (a.blocked \/ a.boot = "past")
                 THEN Put(tick.id, FailedBy(a)) ELSE UNCHANGED agent
              /\ TickEnds /\ UNCHANGED panes
         [] CheckPane(a.pane) = "absent" ->
              TickEnds /\ UNCHANGED <<agent, panes>>
         [] Capture(a) = "exited" ->
              Put(tick.id, FailedBy(a)) /\ TickEnds /\ UNCHANGED panes
         [] OTHER ->
              /\ panes' = {IF p.id = a.pane THEN [p EXCEPT !.held = FALSE] ELSE p : p \in panes}
              /\ tick' = [tick EXCEPT !.pc = "ready"]
              /\ UNCHANGED <<agent, lock>>
    /\ UNCHANGED <<names, gens, born, native, strays, cut, op, ren, ops, mishaps>>
TickReady ==
    /\ tick.pc = "ready"
    /\ LET a == [agent[tick.id] EXCEPT !.held = FALSE] IN
       Put(tick.id, IF a.status = Booting
                    THEN [a EXCEPT !.status = Active, !.blocked = FALSE, !.boot = "none"]
                    ELSE a)
    /\ TickEnds
    /\ UNCHANGED <<names, world, op, ren, ops, mishaps>>

\* hitch --recover reopens what only the boot deadline failed, once the pane
\* shows a startup it recognizes, and ticks it.
ReopenBoot(h) ==
    /\ tick.pc = "none" /\ ops < MaxOps /\ h \in Listed /\ lock[h] = "free"
    /\ LET a == Deadlines(Renamed(h, agent[h])) IN
       /\ a.status = Failed /\ a.verdict /\ a.pane # None
       /\ Capture(a) \in {"ready", "prompt"}
       /\ Put(h, [a EXCEPT !.status = Booting, !.blocked = FALSE, !.verdict = FALSE,
                           !.boot = "running"])
    /\ names' = RenamedNames(h, agent[h])
    /\ ops' = ops + 1
    /\ UNCHANGED <<lock, world, op, tick, ren, mishaps>>

-----------------------------------------------------------------------------
(* The world.                                                              *)

\* A boot deadline passes.
DeadlinePasses(h) ==
    /\ agent[h].here /\ agent[h].boot = "running"
    /\ Put(h, [agent[h] EXCEPT !.boot = "past"])
    /\ UNCHANGED <<names, lock, world, op, tick, ren, ops, mishaps>>

\* A startup screen turns into a prompt or a ready composer; the operator
\* answers a prompt.
Shows(k, s) ==
    /\ native[k].alive
    /\ <<native[k].screen, s>> \in {<<"starting", "prompt">>, <<"starting", "ready">>,
                                    <<"prompt", "ready">>}
    /\ native' = [native EXCEPT ![k].screen = s]
    /\ UNCHANGED <<agent, names, lock, panes, gens, born, strays, cut, op, tick, ren, ops, mishaps>>

\* A native exits: only a held pane outlives it.
NativeExits(k) ==
    /\ mishaps < MaxMishaps /\ native[k].alive
    /\ native' = [native EXCEPT ![k].alive = FALSE]
    /\ panes' = {p \in panes : p.pid = k => p.held}
    /\ mishaps' = mishaps + 1
    /\ UNCHANGED <<agent, names, lock, gens, born, strays, cut, op, tick, ren, ops>>

\* The server dies with every pane; a native may outlive the hangup.
ServerDies(kept) ==
    /\ mishaps < MaxMishaps /\ Exists
    /\ kept \subseteq {k \in Pids : native[k].alive}
    /\ panes' = {}
    /\ native' = [k \in Pids |-> IF k \in kept THEN native[k]
                                 ELSE [native[k] EXCEPT !.alive = FALSE]]
    /\ mishaps' = mishaps + 1
    /\ UNCHANGED <<agent, names, lock, gens, born, strays, cut, op, tick, ren, ops>>

\* A process is killed: its locks go with it, its writes stay.
Crash(who) ==
    /\ mishaps < MaxMishaps
    /\ CASE who = "op" ->
              /\ op.pc # "none"
              /\ op' = Quiet
              /\ strays' = IF op.pc = "register" THEN strays \cup {op.pid} ELSE strays
              /\ UNCHANGED <<tick, ren>>
         [] who = "tick" -> tick.pc # "none" /\ tick' = Rest /\ UNCHANGED <<op, ren, strays>>
         [] who = "ren" -> ren.pc # "none" /\ ren' = Rest /\ UNCHANGED <<op, tick, strays>>
    /\ lock' = [h \in Ids |-> IF lock[h] = who THEN "free" ELSE lock[h]]
    /\ mishaps' = mishaps + 1
    /\ UNCHANGED <<agent, names, panes, gens, born, native, cut, ops>>

-----------------------------------------------------------------------------
Launch == \/ SpawnFails \/ CreateSession \/ SpawnWindow \/ Register \/ WitnessServer \/ WitnessProcess
          \/ AwaitExit \/ AwaitPrompt \/ AwaitNothing \/ AwaitReady
          \/ Relock \/ ReleaseHold \/ SaveReleased \/ RemoveFailed \/ ForgetFailed
OpStep == \/ CreateAgent \/ ClaimName \/ NameTaken \/ Supersede \/ FreeStaleName
          \/ PrepareRehitch \/ SaveNext \/ PrepareStopped \/ ReportRehitch \/ Launch
          \/ RemoveDangling \/ DownNext \/ DownWipe \/ LockForDrop \/ Acquire
          \/ RemovePane \/ StopNative \/ DropStarted \/ RemoveRenameNames
          \/ RemoveDirectory \/ RemoveName
RenStep == RenameIntent \/ RenameClaim \/ RenameName \/ RenameFree \/ RenameClear
TickStep == TickObserve \/ TickRelease \/ TickReady \/ RehitchPending

Next ==
    \/ \E h \in Ids, n \in Names, kind \in {"hitch", "up", "stopped"} :
         HitchBegin(kind, h, n)
    \/ \E n \in Names : DropBegin(n)
    \/ DownBegin
    \/ \E h \in Ids, n \in Names : RenameBegin(h, n)
    \/ \E h \in Ids : \/ RequestRehitch(h) \/ TickBegin(h) \/ ReopenBoot(h)
                      \/ DeadlinePasses(h)
    \/ OpStep \/ RenStep \/ TickStep
    \/ PreflightFails \/ SpawnErrs \/ RegisterFails \/ Interrupted
    \/ \E k \in Pids : NativeExits(k) \/ \E s \in {"prompt", "ready"} : Shows(k, s)
    \/ \E kept \in SUBSET Pids : ServerDies(kept)
    \/ \E who \in {"op", "tick", "ren"} : Crash(who)

\* The watchdog ticks every listed agent; deadlines pass; a command that is not
\* killed returns.
Fairness ==
    /\ WF_vars(OpStep) /\ WF_vars(RenStep) /\ WF_vars(TickStep)
    /\ \A h \in Ids : SF_vars(TickBegin(h)) /\ WF_vars(DeadlinePasses(h))

Spec == Init /\ [][Next]_vars
FairSpec == Spec /\ Fairness

-----------------------------------------------------------------------------
(* Properties.                                                             *)

\* Every variable keeps its type: a record never holds a pane of a server
\* that was never started, and locks belong to one of the three processes.
TypeOK ==
    /\ agent \in [Ids -> Record]
    /\ names \in [Names -> Ids \cup {None}]
    /\ lock \in [Ids -> {"free", "op", "tick", "ren"}]
    /\ \A p \in panes : p.id \in PaneIds /\ p.id.gen = gens /\ p.pid \in 1..born
    /\ gens \in 0..MaxNatives /\ born \in 0..MaxNatives
    /\ strays \subseteq 1..born
    /\ ops \in 0..MaxOps /\ mishaps \in 0..MaxMishaps

\* One agent never has two native processes at once: a restart (rehitch.go,
\* rehitch_stopped.go) starts the next one only after the previous one ended,
\* whatever crash or exit came between its writes.  A process that nobody
\* witnessed and that outlives its pane is beyond any record's reach.
Reachable(k) == native[k].alive /\ (native[k].witnessed \/ \E p \in panes : p.pid = k)
OneNative ==
    \A j, k \in Pids : Reachable(j) /\ Reachable(k) /\ native[j].of = native[k].of => j = k

\* A pane whose launch returned is in its agent's record, so a tick probes it
\* and a drop removes it (hitches.go:514): no record names a pane only when its
\* launch was killed before it recorded it, or failed to make, register and
\* remove it.
PaneIsRecorded ==
    \A p \in panes : \/ p.pid \in strays
                     \/ op.pc = "register" /\ op.pid = p.pid
                     \/ agent[native[p.pid].of].here /\ agent[native[p.pid].of].pane = p.id

\* A process whose identity was saved stays findable while it lives: the
\* record still names it, so a drop or a restart can end it, until a teardown
\* that cannot see it warns that it leaves it.
WitnessKept ==
    \A k \in Pids : native[k].alive /\ native[k].witnessed
                    => agent[native[k].of].here /\ agent[native[k].of].proc = k

\* A name never leads to a record that has forgotten it (store.go:230): each
\* claim is the record's name or one end of its unfinished rename.
Knows(h, n) == n \in {agent[h].name, agent[h].from, agent[h].to}
NoForgottenName ==
    \A n \in Names : names[n] # None /\ agent[names[n]].here => Knows(names[n], n)

\* As the code has it: all but an agent that restarted itself with a rename
\* unfinished, whose next record carries neither end of it (hitches.go:152), or
\* was superseded in one: the end that `up` did not take is forgotten by a later
\* rename of the retained record (stale_claim.go:77, store.go:239).
NoForgottenNameUncut ==
    \A n \in Names : names[n] # None /\ agent[names[n]].here
                     => Knows(names[n], n) \/ names[n] \in cut

\* A command removes no pane but its own agent's, though a new tmux server
\* reuses the numbers of the old one (registration.go:263).
OwnPaneOnly ==
    [][op.pc \in {"register", "remove", "remove_pane"} /\ op' # op
       => \A p \in panes \ panes' : native[p.pid].of = op.id]_vars

\* While a native runs in a pane no record will ever name, no command adds
\* another pane to its session (hitches.go:299).
NoPaneBesideStray ==
    [][born' # born => \A p \in panes : p.pid \in strays => ~native[p.pid].alive]_vars

\* Every startup is settled by ticks alone, whoever was killed: it becomes
\* active, failed or blocked on a prompt, or its agent is dropped.
Settled(h) == \/ ~agent[h].here \/ h \notin Listed
              \/ agent[h].status \in {Active, Failed, Dropping}
              \/ agent[h].blocked
BootSettles == \A h \in Ids : ~Settled(h) ~> Settled(h)

\* The hold on an active agent's pane ends, though its hitch was killed before
\* the release (hitches.go:549).  Only a pane whose server went unwitnessed is
\* never known to be closed: its record keeps the hold until a drop
\* (registration.go:190).
Held(h) == agent[h].status = Active /\ agent[h].held
ServerUnknown(a) == a.pane # None /\ ~Present(a.pane) /\ ~PaneClosed(a)
HoldEnds == \A h \in Ids : Held(h) ~> ~Held(h) \/ ServerUnknown(agent[h])

\* Panes, processes and names lead to the records that can end or free them,
\* whatever was killed (hitches.go:514, store.go:230).
RecordsHold == TypeOK /\ PaneIsRecorded /\ WitnessKept /\ NoForgottenNameUncut

\* Commands keep off panes that are not their agent's (registration.go:263,
\* hitches.go:299).
OwnPanesOnly == OwnPaneOnly /\ NoPaneBesideStray

\* Ticks alone bring every startup and every hold to an end (core/step.go:20,
\* hitches.go:549).
StartupsEnd == BootSettles /\ HoldEnds
=============================================================================
