------------------------------ MODULE Watchdog ------------------------------
(***************************************************************************)
(* The team's watchdog timer (cmd/gang/watchdog.go).  A one-shot timer of  *)
(* the user's scheduler runs a tick, which replaces the timer before it    *)
(* sweeps the team; hitches, hooks, drops and downs also come by.  The     *)
(* recorded generation, the outage marker and the scheduler lock are files *)
(* of the team directory, which down removes and the next hitch recreates. *)
(*                                                                         *)
(* One action per read, write, lock or scheduler call of updateWatchdog.   *)
(***************************************************************************)
EXTENDS Naturals

CONSTANTS Procs, NoProc,
          Gens, NoGen,   \* generation tokens, drawn at random by the code
          MaxTeams,      \* bound: how often the team directory is created
          MaxMishaps,    \* bound: calls that fail, crashes and teams made anew
          Cancels,       \* Disarm stops a timer (the process watchdog's does not)
          PromptArm,     \* no timer elapses before the call that armed it is done
          PromptSweep    \* no team is made anew while a replacement of the old one's timer runs:
                         \* SameFile (watchdog.go:195) looks at the path before the agents are
                         \* listed, so the old one could go on with the new team's agents

ASSUME NoneAssumption == NoProc \notin Procs /\ NoGen \notin Gens
ASSUME BoundsAssumption ==
  /\ MaxTeams \in Nat \ {0} /\ MaxMishaps \in Nat
  /\ Cancels \in BOOLEAN /\ PromptArm \in BOOLEAN /\ PromptSweep \in BOOLEAN

VARIABLES agents,    \* the team has a registered agent
          teams,     \* team directories created so far; the last is the lock file's inode
          exists,    \* the team directory is there
          intent,    \* the file "watchdog"
          marker,    \* the file "watchdog-unavailable"
          held,      \* the owner of each lock file's flock
          teamLock,  \* the owner of the team lock
          timers,    \* generations the scheduler will fire
          job,       \* what a process is: "scoped", "sweep", "tick", "hitch", "drop", "down"
          pc, gen, fd,
          old,       \* the generation the lock holder read
          outage,    \* the marker as the process last read it
          seen,      \* the lock holder's reading of the agents
          deferred,  \* history: a cleanup warned that it left the timer armed
          failures, crashes

team == <<agents, teams, exists, teamLock>>
files == <<intent, marker>>
memory == <<job, gen, fd, old, outage, seen>>
budget == <<failures, crashes>>
vars == <<team, files, held, timers, pc, memory, deferred, budget>>

Jobs == {"scoped", "sweep", "tick", "hitch", "drop", "down"}
Steps == {"idle", "outage", "stat", "current", "open", "flock", "contended", "wait", "same",
          "list", "disarm", "remove", "write", "arm", "unmark", "release", "quit", "fail",
          "note", "erase"}

\* Past the look at the lock file.
Replacement == {"disarm", "remove", "write", "arm", "unmark"}
Transaction == Replacement \cup {"list"}

TypeOK ==
  /\ agents \in BOOLEAN /\ exists \in BOOLEAN /\ deferred \in BOOLEAN
  /\ teams \in 0..MaxTeams
  /\ intent \in Gens \cup {NoGen} /\ marker \in BOOLEAN
  /\ held \in [1..MaxTeams -> Procs \cup {NoProc}]
  /\ teamLock \in Procs \cup {NoProc}
  /\ timers \subseteq Gens
  /\ job \in [Procs -> Jobs] /\ pc \in [Procs -> Steps]
  /\ gen \in [Procs -> Gens \cup {NoGen}] /\ old \in [Procs -> Gens \cup {NoGen}]
  /\ fd \in [Procs -> 0..MaxTeams]
  /\ outage \in [Procs -> BOOLEAN] /\ seen \in [Procs -> BOOLEAN]
  /\ failures \in 0..MaxMishaps /\ crashes \in 0..MaxMishaps

Init ==
  /\ agents = FALSE /\ exists = FALSE /\ deferred = FALSE /\ teams = 0
  /\ intent = NoGen /\ marker = FALSE
  /\ held = [i \in 1..MaxTeams |-> NoProc] /\ teamLock = NoProc
  /\ timers = {}
  /\ job = [p \in Procs |-> "scoped"] /\ pc = [p \in Procs |-> "idle"]
  /\ gen = [p \in Procs |-> NoGen] /\ old = [p \in Procs |-> NoGen]
  /\ fd = [p \in Procs |-> 0]
  /\ outage = [p \in Procs |-> FALSE] /\ seen = [p \in Procs |-> FALSE]
  /\ failures = 0 /\ crashes = 0

-----------------------------------------------------------------------------
Cleanup(p) == job[p] \in {"drop", "down"}
Reset(p) == job[p] \in {"tick", "sweep"}

\* The bound: the first team is no mishap.
Spare == failures + crashes + teams < MaxMishaps + 1

Goto(p, step) == pc' = [pc EXCEPT ![p] = step]

\* The command is over: it lets go of the team lock and is forgotten.
Exit(p) ==
  /\ Goto(p, "idle")
  /\ teamLock' = IF teamLock = p THEN NoProc ELSE teamLock
  /\ job' = [job EXCEPT ![p] = "scoped"] /\ gen' = [gen EXCEPT ![p] = NoGen]
  /\ fd' = [fd EXCEPT ![p] = 0] /\ old' = [old EXCEPT ![p] = NoGen]
  /\ outage' = [outage EXCEPT ![p] = FALSE] /\ seen' = [seen EXCEPT ![p] = FALSE]

\* updateWatchdog returns: a down that succeeded removes the team next.
Leave(p, succeeded) ==
  /\ IF job[p] = "down" /\ succeeded
     THEN Goto(p, "erase") /\ UNCHANGED <<teamLock, memory>>
     ELSE Exit(p)
  /\ UNCHANGED <<agents, teams, exists, deferred>>

Unlocks(p) == held' = [i \in 1..MaxTeams |-> IF held[i] = p THEN NoProc ELSE held[i]]

-----------------------------------------------------------------------------
(* Who comes by.                                                           *)

Enter(p, j, g) ==
  /\ pc[p] = "idle"
  /\ Goto(p, "outage")
  /\ job' = [job EXCEPT ![p] = j]
  /\ gen' = [gen EXCEPT ![p] = g]
  /\ UNCHANGED <<fd, old, outage, seen, files, held, deferred, budget>>

\* A hook's tick, or a snooze that ensures a timer.
Scoped(p) == exists /\ Enter(p, "scoped", NoGen) /\ UNCHANGED <<team, timers>>

\* An operator's whole-team tick.
Sweep(p) == exists /\ Enter(p, "sweep", NoGen) /\ UNCHANGED <<team, timers>>

\* A timer fires once: it runs a tick that carries its generation.
Elapse(p, g) ==
  /\ g \in timers
  /\ PromptArm => \A q \in Procs : pc[q] # "unmark"
  /\ timers' = timers \ {g}
  /\ Enter(p, "tick", g)
  /\ UNCHANGED team

\* Under the team lock an agent is registered, in a new team directory if
\* need be, and the hitch comes by unless its native process fails to start.
Hitch(p) ==
  /\ teamLock = NoProc /\ ~agents
  /\ exists \/ teams = 0 \/ (Spare /\ teams < MaxTeams)
  /\ PromptSweep => exists \/ \A q \in Procs : pc[q] \notin Transaction
  /\ agents' = TRUE /\ exists' = TRUE
  /\ teams' = IF exists THEN teams ELSE teams + 1
  /\ \/ teamLock' = p /\ Enter(p, "hitch", NoGen)
     \/ /\ pc[p] = "idle"
        /\ UNCHANGED <<teamLock, files, held, pc, memory, deferred, budget>>
  /\ UNCHANGED timers

\* The last agent is removed, still under the team lock.
Drop(p) ==
  /\ teamLock = NoProc /\ agents
  /\ agents' = FALSE /\ teamLock' = p
  /\ Enter(p, "drop", NoGen)
  /\ UNCHANGED <<teams, exists, timers>>

Down(p) ==
  /\ teamLock = NoProc /\ exists
  /\ agents' = FALSE /\ teamLock' = p
  /\ Enter(p, "down", NoGen)
  /\ UNCHANGED <<teams, exists, timers>>

\* os.RemoveAll of the team directory.
Erase(p) ==
  /\ pc[p] = "erase"
  /\ exists' = FALSE /\ intent' = NoGen /\ marker' = FALSE
  /\ Exit(p)
  /\ UNCHANGED <<agents, teams, held, timers, deferred, budget>>

-----------------------------------------------------------------------------
(* Before the scheduler lock.                                              *)

ReadOutage(p) ==
  /\ pc[p] = "outage"
  /\ outage' = [outage EXCEPT ![p] = marker]
  /\ Goto(p, IF Cleanup(p) \/ Reset(p) \/ marker THEN "current" ELSE "stat")
  /\ UNCHANGED <<team, files, held, timers, job, gen, fd, old, seen, deferred, budget>>

\* A scoped caller leaves a recorded timer alone.
Stat(p) ==
  /\ pc[p] = "stat"
  /\ \/ intent # NoGen /\ Leave(p, TRUE)
     \/ intent = NoGen /\ Goto(p, "current") /\ UNCHANGED <<team, memory, deferred>>
  /\ UNCHANGED <<files, held, timers, budget>>

\* A superseded timer's tick leaves before it takes the lock.
Current(p) ==
  /\ pc[p] = "current"
  /\ \/ gen[p] \notin {NoGen, intent} /\ Leave(p, TRUE)
     \/ gen[p] \in {NoGen, intent} /\ Goto(p, "open") /\ UNCHANGED <<team, memory, deferred>>
  /\ UNCHANGED <<files, held, timers, budget>>

Open(p) ==
  /\ pc[p] = "open"
  /\ \/ ~exists /\ Leave(p, TRUE)
     \/ /\ exists
        /\ fd' = [fd EXCEPT ![p] = teams]
        /\ Goto(p, "flock")
        /\ UNCHANGED <<team, job, gen, old, outage, seen, deferred>>
  /\ UNCHANGED <<files, held, timers, budget>>

Take(p) ==
  /\ held[fd[p]] = NoProc
  /\ held' = [held EXCEPT ![fd[p]] = p]
  /\ Goto(p, "same")
  /\ UNCHANGED <<team, memory, deferred>>

\* Only cleanup waits for the lock, and only an elapsed timer's tick minds.
Flock(p) ==
  /\ pc[p] = "flock"
  /\ \/ Take(p)
     \/ /\ held[fd[p]] # NoProc
        /\ \/ Cleanup(p) /\ Goto(p, "wait") /\ UNCHANGED <<team, memory, deferred>>
           \/ ~Cleanup(p) /\ gen[p] = NoGen /\ Leave(p, TRUE)
           \/ ~Cleanup(p) /\ gen[p] # NoGen /\ Goto(p, "contended") /\ UNCHANGED <<team, memory, deferred>>
        /\ UNCHANGED held
  /\ UNCHANGED <<files, timers, budget>>

Contended(p) ==
  /\ pc[p] = "contended"
  /\ \/ intent # gen[p] /\ Leave(p, TRUE)
     \/ intent = gen[p] /\ Goto(p, "note") /\ UNCHANGED <<team, memory, deferred>>
  /\ UNCHANGED <<files, held, timers, budget>>

\* waitSchedulerLock: for at most schedulerLockTimeout.
Wait(p) ==
  /\ pc[p] = "wait"
  /\ \/ Take(p)
     \/ held[fd[p]] # NoProc /\ Leave(p, FALSE) /\ UNCHANGED held
  /\ UNCHANGED <<files, timers, budget>>

-----------------------------------------------------------------------------
(* Under the scheduler lock.                                               *)

\* Defect: any lock file will do.
SameAny(p) ==
  /\ pc[p] = "same"
  /\ IF gen[p] \notin {NoGen, intent}
     THEN Goto(p, "release") /\ UNCHANGED memory
     ELSE /\ Goto(p, "list")
          /\ old' = [old EXCEPT ![p] = intent]
          /\ outage' = [outage EXCEPT ![p] = marker]
          /\ UNCHANGED <<job, gen, fd, seen>>
  /\ UNCHANGED <<team, files, held, timers, deferred, budget>>

\* The lock file is still the team's, and the generation still current.
Same(p) ==
  /\ pc[p] = "same"
  /\ IF ~exists \/ fd[p] # teams \/ gen[p] \notin {NoGen, intent}
     THEN Goto(p, "release") /\ UNCHANGED memory
     ELSE /\ Goto(p, "list")
          /\ old' = [old EXCEPT ![p] = intent]
          /\ outage' = [outage EXCEPT ![p] = marker]
          /\ UNCHANGED <<job, gen, fd, seen>>
  /\ UNCHANGED <<team, files, held, timers, deferred, budget>>

Keeps(p) == \/ Cleanup(p) /\ agents
            \/ old[p] # NoGen /\ ~Reset(p) /\ ~Cleanup(p) /\ ~outage[p] /\ agents

\* Lists the agents and probes the scheduler, the pane's processes and tmux.
List(p) ==
  /\ pc[p] = "list"
  /\ seen' = [seen EXCEPT ![p] = agents]
  /\ \/ /\ Goto(p, CASE Keeps(p) -> "release"
                     [] ~Keeps(p) /\ old[p] # NoGen -> "disarm"
                     [] ~Keeps(p) /\ old[p] = NoGen ->
                          IF Cleanup(p) \/ ~agents THEN "release" ELSE "write")
        /\ UNCHANGED <<failures, deferred>>
     \/ /\ Spare /\ failures' = failures + 1
        /\ \/ /\ Goto(p, IF gen[p] = NoGen THEN "quit" ELSE "fail")             \* an error
              /\ UNCHANGED deferred
           \/ /\ Goto(p, IF agents \/ old[p] # NoGen THEN "note" ELSE "release") \* no scheduler
              /\ deferred' = (deferred \/ (Cleanup(p) /\ old[p] # NoGen))
           \/ /\ old[p] # NoGen /\ gen[p] = NoGen /\ ~Cleanup(p)                \* no process view
              /\ Goto(p, "release") /\ UNCHANGED deferred
  /\ UNCHANGED <<team, files, held, timers, job, gen, fd, old, outage, crashes>>

\* A failed call may still have taken effect.
Disarm(p) ==
  /\ pc[p] = "disarm"
  /\ \/ /\ timers' = IF Cancels THEN timers \ {old[p]} ELSE timers
        /\ Goto(p, "remove") /\ UNCHANGED failures
     \/ /\ Spare /\ failures' = failures + 1
        /\ timers' \in {timers, timers \ {old[p]}}
        /\ Goto(p, "fail")
  /\ UNCHANGED <<team, files, held, memory, deferred, crashes>>

\* Defect: a tick re-arms whatever it saw.
RemoveAndArm(p) ==
  /\ pc[p] = "remove"
  /\ intent' = NoGen
  /\ Goto(p, IF intent = NoGen THEN "fail" ELSE IF Cleanup(p) THEN "release" ELSE "write")
  /\ UNCHANGED <<team, marker, held, timers, memory, deferred, budget>>

Remove(p) ==
  /\ pc[p] = "remove"
  /\ intent' = NoGen
  /\ Goto(p, CASE intent = NoGen -> "fail"
                [] intent # NoGen /\ (Cleanup(p) \/ ~seen[p]) -> "release"
                [] intent # NoGen /\ ~Cleanup(p) /\ seen[p] -> "write")
  /\ UNCHANGED <<team, marker, held, timers, memory, deferred, budget>>

InUse == timers \cup {intent} \cup {gen[p] : p \in Procs} \cup {old[p] : p \in Procs}

\* "Intent survives a failed/uncertain launch so drop can still clean it up."
Write(p) ==
  /\ pc[p] = "write"
  /\ \/ exists /\ Goto(p, "arm") /\ \E g \in Gens \ InUse : intent' = g
     \/ ~exists /\ Goto(p, "fail") /\ UNCHANGED intent
  /\ UNCHANGED <<team, marker, held, timers, memory, deferred, budget>>

Arm(p) ==
  /\ pc[p] = "arm"
  /\ \/ timers' = timers \cup {intent} /\ Goto(p, "unmark") /\ UNCHANGED failures
     \/ /\ Spare /\ failures' = failures + 1
        /\ timers' \in {timers, timers \cup {intent}}
        /\ Goto(p, "fail")
  /\ UNCHANGED <<team, files, held, memory, deferred, crashes>>

Unmark(p) ==
  /\ pc[p] = "unmark"
  /\ marker' = FALSE
  /\ Goto(p, "release")
  /\ UNCHANGED <<team, intent, held, timers, memory, deferred, budget>>

Release(p) ==
  /\ pc[p] \in {"release", "quit"}
  /\ Unlocks(p) /\ Leave(p, pc[p] = "release")
  /\ UNCHANGED <<files, timers, budget>>

\* The deferred calls run in reverse: the lock is let go of first.
Fail(p) ==
  /\ pc[p] = "fail"
  /\ Unlocks(p) /\ Goto(p, "note")
  /\ UNCHANGED <<team, files, timers, memory, deferred, budget>>

\* Defect: an outage is only logged.
LogOnly(p) ==
  /\ pc[p] = "note"
  /\ Unlocks(p) /\ Leave(p, FALSE)
  /\ UNCHANGED <<files, timers, budget>>

\* noteWatchdogOutage.  A lock holder that found no scheduler has not failed.
Note(p) ==
  /\ pc[p] = "note"
  /\ marker' = exists
  /\ Unlocks(p) /\ Leave(p, \E i \in 1..MaxTeams : held[i] = p)
  /\ UNCHANGED <<intent, timers, budget>>

-----------------------------------------------------------------------------
Crash(p) ==
  /\ pc[p] # "idle" /\ Spare
  /\ crashes' = crashes + 1
  /\ Unlocks(p) /\ Exit(p)
  /\ UNCHANGED <<agents, teams, exists, files, timers, deferred, failures>>

Run(p) ==
  \/ ReadOutage(p) \/ Stat(p) \/ Current(p) \/ Open(p) \/ Flock(p) \/ Contended(p) \/ Wait(p)
  \/ Same(p) \/ List(p) \/ Disarm(p) \/ Remove(p) \/ Write(p) \/ Arm(p) \/ Unmark(p)
  \/ Release(p) \/ Fail(p) \/ Note(p) \/ Erase(p)

Next ==
  \E p \in Procs :
    \/ Run(p) \/ Crash(p) \/ Scoped(p) \/ Sweep(p) \/ Hitch(p) \/ Drop(p) \/ Down(p)
    \/ \E g \in Gens : Elapse(p, g)

Spec == Init /\ [][Next]_vars

\* Commands run on, timers fire, and the agents' hooks keep coming.
FairSpec ==
  /\ Spec
  /\ \A p \in Procs : WF_vars(Run(p))
  /\ \A g \in Gens : SF_vars(\E p \in Procs : Elapse(p, g))
  /\ SF_vars(\E p \in Procs : Scoped(p))

-----------------------------------------------------------------------------
Idle == \A p \in Procs : pc[p] = "idle"

(* "Intent survives a failed/uncertain launch so drop can still clean it   *)
(* up" (watchdog.go:318): no timer is armed whose generation is not the    *)
(* recorded one, even when a command dies between two steps, and a down    *)
(* that did not warn of it leaves none behind.                             *)
NoStrayTimer == Cancels /\ ~deferred => timers \subseteq {intent}

(* "An elapsed timer's tick that cannot re-arm it, because another tick    *)
(* holds the scheduler lock or the transaction fails, also marks the       *)
(* outage so the next caller that can arm replaces it.  So does any caller *)
(* whose disarm or arm fails" (docs/internals.md:369): a team with agents  *)
(* that records a timer has it, or knows that it has not, unless a command *)
(* died between the record and the timer.                                  *)
TimerOrOutage == crashes = 0 /\ Idle /\ agents /\ intent # NoGen => intent \in timers \/ marker

(* A team without agents ends without timers: no tick re-arms for ever.    *)
Quiesces == <>[]~agents => <>[](timers = {})

(* Hooks that keep coming repair every outage once calls succeed again.    *)
KeepsTicking == <>[](agents /\ crashes = 0) => []<>(timers # {})

(* Timers come and go with the agents they are for (watchdog.go:297, 308). *)
TimersFollowAgents == Quiesces /\ KeepsTicking
=============================================================================
