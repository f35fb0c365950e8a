--------------------------- MODULE WatchdogProofs ---------------------------
(***************************************************************************)
(* Theorems about Watchdog, for any number of processes, generations,      *)
(* teams, failures and crashes.  None of its safety properties is          *)
(* inductive.  IInv adds what each holder of a lock file may rely on.      *)
(***************************************************************************)
EXTENDS Watchdog, TLAPS

USE NoneAssumption, BoundsAssumption
USE DEF team, files, memory, budget, Goto, Cleanup, Reset

Holding == Transaction \cup {"same", "release", "quit", "fail"}
Opened == Holding \cup {"flock", "wait", "contended"}

USE DEF Holding, Opened, Transaction, Replacement

\* The files live and die with the team directory.
Started ==
  /\ agents => exists
  /\ exists => teams # 0
  /\ intent # NoGen => exists
  /\ teams = 0 => timers = {} /\ \A p \in Procs : pc[p] = "idle"

\* A process past the flock holds the file it opened, and once it has compared
\* that with the team's it is the team's.
Locks ==
  \A p \in Procs :
    /\ pc[p] \in Opened => fd[p] \in 1..teams
    /\ pc[p] \in Holding => held[fd[p]] = p
    /\ pc[p] \in Transaction => fd[p] = teams

\* A down works alone: it has the team lock, and no agent is left.
Downs ==
  \A p \in Procs :
    /\ pc[p] = "erase" => job[p] = "down"
    /\ job[p] = "down" => /\ teamLock = p /\ exists /\ ~agents /\ gen[p] = NoGen
                          /\ pc[p] \in Opened => fd[p] = teams
                          /\ pc[p] \notin {"idle", "stat", "contended", "write", "arm", "unmark"}

\* When it erases the team nobody is arming a timer, nor going to, and unless it
\* warned of a timer none is recorded.
Closing ==
  \A p \in Procs : job[p] = "down" =>
    /\ pc[p] \in {"release", "erase"} => deferred \/ intent = NoGen
    /\ pc[p] = "note" /\ (\E i \in 1..MaxTeams : held[i] = p) =>
         held[teams] = p /\ (deferred \/ intent = NoGen)
    /\ pc[p] = "erase" => \A q \in Procs :
         /\ pc[q] \notin {"write", "arm", "unmark"}
         /\ pc[q] \in {"disarm", "remove"} => ~seen[q]

\* What the holder read is still recorded while it acts on it.
Olds ==
  \A p \in Procs :
    /\ pc[p] \in {"list", "disarm", "remove"} => old[p] = intent \/ (deferred /\ intent = NoGen)
    /\ pc[p] \in {"disarm", "remove"} => old[p] # NoGen
    /\ pc[p] = "write" => intent = NoGen
    /\ pc[p] \in {"arm", "unmark"} => intent # NoGen
    /\ pc[p] = "remove" /\ Cancels /\ ~deferred => timers = {}

IInv == TypeOK /\ Started /\ Locks /\ Downs /\ Closing /\ Olds /\ NoStrayTimer

-----------------------------------------------------------------------------

\* What a command that leaves does to its memory.
MemoryOK ==
  /\ teamLock \in Procs \cup {NoProc}
  /\ job \in [Procs -> Jobs] /\ pc \in [Procs -> Steps]
  /\ gen \in [Procs -> Gens \cup {NoGen}] /\ old \in [Procs -> Gens \cup {NoGen}]
  /\ fd \in [Procs -> 0..MaxTeams]
  /\ outage \in [Procs -> BOOLEAN] /\ seen \in [Procs -> BOOLEAN]

LEMMA LeaveTypes ==
  ASSUME TypeOK, NEW p \in Procs, Exit(p) \/ Leave(p, TRUE) \/ Leave(p, FALSE)
  PROVE  MemoryOK'
<1>1. CASE Exit(p)
  BY <1>1 DEF Exit, MemoryOK, TypeOK, Jobs, Steps
<1>2. CASE job[p] = "down" /\ Goto(p, "erase") /\ UNCHANGED <<teamLock, memory>>
  BY <1>2 DEF MemoryOK, TypeOK, Steps
<1> QED
  BY <1>1, <1>2 DEF Leave

\* A call fails, or a command dies, only once there is a team.
LEMMA Spared ==
  ASSUME TypeOK, Started, Spare, NEW p \in Procs, pc[p] # "idle"
  PROVE  failures + 1 \in 0..MaxMishaps /\ crashes + 1 \in 0..MaxMishaps
  BY DEF TypeOK, Started, Spare

LEMMA TypeStep ==
  ASSUME PromptSweep, IInv, [Next]_vars
  PROVE  TypeOK'
<1> USE DEF IInv, TypeOK
<1>1. CASE UNCHANGED vars
  BY <1>1 DEF vars
<1>2. ASSUME NEW p \in Procs, ReadOutage(p) PROVE TypeOK'
  BY <1>2 DEF ReadOutage, Steps
<1>3. ASSUME NEW p \in Procs,
             Stat(p) \/ Current(p) \/ Open(p) \/ Contended(p) \/ Flock(p) \/ Wait(p) \/ Release(p) \/ Note(p)
      PROVE  TypeOK'
  <2>1. CASE Leave(p, TRUE) \/ Leave(p, FALSE)
    <3>1. MemoryOK' /\ UNCHANGED <<agents, teams, exists, deferred>>
      BY <2>1, LeaveTypes DEF Leave
    <3>2. UNCHANGED <<intent, timers, failures, crashes>> /\ (marker' = marker \/ marker' = exists)
      BY <1>3 DEF Stat, Current, Open, Contended, Flock, Wait, Release, Note
    <3>3. held' \in [1..MaxTeams -> Procs \cup {NoProc}]
      BY <1>3 DEF Stat, Current, Open, Contended, Flock, Wait, Release, Note, Take, Unlocks
    <3> QED
      BY <3>1, <3>2, <3>3 DEF MemoryOK
  <2>2. CASE Stat(p) /\ ~Leave(p, TRUE)
    BY <2>2 DEF Stat, Steps
  <2>3. CASE Current(p) /\ ~Leave(p, TRUE)
    BY <2>3 DEF Current, Steps
  <2>4. CASE Open(p) /\ ~Leave(p, TRUE)
    <3>1. pc' \in [Procs -> Steps]
      BY <2>4 DEF Open, Steps
    <3>2. fd' \in [Procs -> 0..MaxTeams]
      BY <2>4 DEF Open
    <3> QED
      BY <2>4, <3>1, <3>2 DEF Open
  <2>5. CASE Contended(p) /\ ~Leave(p, TRUE)
    BY <2>5 DEF Contended, Steps
  <2>6. CASE Flock(p) /\ ~Leave(p, TRUE)
    <3>1. held' \in [1..MaxTeams -> Procs \cup {NoProc}]
      BY <2>6 DEF Flock, Take
    <3>2. pc' \in [Procs -> Steps]
      BY <2>6, ZenonT(40) DEF Flock, Take, Steps
    <3> QED
      BY <2>6, <3>1, <3>2 DEF Flock, Take
  <2>7. CASE Wait(p) /\ ~Leave(p, FALSE)
    <3>1. held' \in [1..MaxTeams -> Procs \cup {NoProc}]
      BY <2>7 DEF Wait, Take
    <3>2. pc' \in [Procs -> Steps]
      BY <2>7 DEF Wait, Take, Steps
    <3> QED
      BY <2>7, <3>1, <3>2 DEF Wait, Take
  <2>8. CASE Release(p) \/ Note(p)
    <3>1. Leave(p, TRUE) \/ Leave(p, FALSE)
      BY <2>8 DEF Release, Note, Leave
    <3> QED
      BY <2>1, <3>1
  <2> QED
    BY <1>3, <2>1, <2>2, <2>3, <2>4, <2>5, <2>6, <2>7, <2>8
<1>4. ASSUME NEW p \in Procs, Same(p) PROVE TypeOK'
  <2>1. CASE Goto(p, "release") /\ UNCHANGED memory
    BY <1>4, <2>1 DEF Same, Steps
  <2>2. CASE /\ Goto(p, "list") /\ UNCHANGED <<job, gen, fd, seen>>
             /\ old' = [old EXCEPT ![p] = intent]
             /\ outage' = [outage EXCEPT ![p] = marker]
    BY <1>4, <2>2 DEF Same, Steps
  <2> QED
    BY <1>4, <2>1, <2>2 DEF Same
<1>5. ASSUME NEW p \in Procs, List(p) PROVE TypeOK'
  <2>1. pc' \in [Procs -> Steps]
    BY <1>5, ZenonT(40) DEF List, Steps
  <2>2. seen' \in [Procs -> BOOLEAN]
    BY <1>5 DEF List
  <2>3. failures' \in 0..MaxMishaps
    BY <1>5, Spared DEF List
  <2>4. deferred' \in BOOLEAN
    BY <1>5 DEF List
  <2> QED
    BY <1>5, <2>1, <2>2, <2>3, <2>4 DEF List
<1>6. ASSUME NEW p \in Procs, Disarm(p) PROVE TypeOK'
  <2>1. pc' \in [Procs -> Steps]
    BY <1>6 DEF Disarm, Steps
  <2>2. failures' \in 0..MaxMishaps
    BY <1>6, Spared DEF Disarm
  <2>3. timers' \subseteq Gens
    BY <1>6 DEF Disarm
  <2> QED
    BY <1>6, <2>1, <2>2, <2>3 DEF Disarm
<1>7. ASSUME NEW p \in Procs, Arm(p) PROVE TypeOK'
  <2>1. pc' \in [Procs -> Steps]
    BY <1>7 DEF Arm, Steps
  <2>2. failures' \in 0..MaxMishaps
    BY <1>7, Spared DEF Arm
  <2>3. timers' \subseteq Gens
    BY <1>7 DEF Arm, Olds
  <2> QED
    BY <1>7, <2>1, <2>2, <2>3 DEF Arm
<1>8. ASSUME NEW p \in Procs, Remove(p) \/ Unmark(p) PROVE TypeOK'
  BY <1>8 DEF Remove, Unmark, Steps
<1>9. ASSUME NEW p \in Procs, Write(p) PROVE TypeOK'
  BY <1>9 DEF Write, Steps
<1>10. ASSUME NEW p \in Procs, Fail(p) PROVE TypeOK'
  BY <1>10 DEF Fail, Unlocks, Steps
<1>11. ASSUME NEW p \in Procs, Erase(p) PROVE TypeOK'
  BY <1>11, LeaveTypes DEF Erase, MemoryOK
<1>12. ASSUME NEW p \in Procs, Crash(p) PROVE TypeOK'
  <2>1. MemoryOK' /\ crashes' \in 0..MaxMishaps
    BY <1>12, LeaveTypes, Spared DEF Crash
  <2>2. held' \in [1..MaxTeams -> Procs \cup {NoProc}]
    BY <1>12 DEF Crash, Unlocks
  <2> QED
    BY <1>12, <2>1, <2>2 DEF Crash, MemoryOK
<1>13. ASSUME NEW p \in Procs, Scoped(p) \/ Sweep(p) \/ Drop(p) \/ Down(p) PROVE TypeOK'
  <2>1. CASE Scoped(p)
    BY <2>1 DEF Scoped, Enter, Jobs, Steps
  <2>2. CASE Sweep(p)
    BY <2>2 DEF Sweep, Enter, Jobs, Steps
  <2>3. CASE Drop(p)
    BY <2>3 DEF Drop, Enter, Jobs, Steps
  <2>4. CASE Down(p)
    BY <2>4 DEF Down, Enter, Jobs, Steps
  <2> QED
    BY <1>13, <2>1, <2>2, <2>3, <2>4
<1>14. ASSUME NEW p \in Procs, Hitch(p) PROVE TypeOK'
  <2>1. teams' \in 0..MaxTeams
    BY <1>14 DEF Hitch, Started
  <2>2. CASE Enter(p, "hitch", NoGen)
    BY <1>14, <2>1, <2>2 DEF Hitch, Enter, Jobs, Steps
  <2>3. CASE UNCHANGED <<teamLock, files, held, pc, memory, deferred, budget>>
    BY <1>14, <2>1, <2>3 DEF Hitch
  <2> QED
    BY <1>14, <2>2, <2>3 DEF Hitch
<1>15. ASSUME NEW p \in Procs, NEW g \in Gens, Elapse(p, g) PROVE TypeOK'
  BY <1>15 DEF Elapse, Enter, Jobs, Steps
<1> QED
  BY <1>1, <1>2, <1>3, <1>4, <1>5, <1>6, <1>7, <1>8, <1>9, <1>10, <1>11, <1>12, <1>13, <1>14, <1>15
  DEF Next, Run

\* The files of the team come and go with its directory: drop, down and hitch hold the team lock.
LEMMA StartedStep ==
  ASSUME PromptSweep, IInv, [Next]_vars
  PROVE  Started'
<1> USE DEF IInv, TypeOK, Started, Locks, Downs
<1>1. CASE UNCHANGED vars
  BY <1>1 DEF vars
<1>2. ASSUME NEW p \in Procs, ReadOutage(p) PROVE Started'
  BY <1>2 DEF ReadOutage
<1>3. ASSUME NEW p \in Procs, Stat(p) PROVE Started'
  BY <1>3 DEF Stat, Leave, Exit
<1>4. ASSUME NEW p \in Procs, Current(p) PROVE Started'
  BY <1>4 DEF Current, Leave, Exit
<1>5. ASSUME NEW p \in Procs, Open(p) PROVE Started'
  BY <1>5 DEF Open, Leave, Exit
<1>6. ASSUME NEW p \in Procs, Flock(p) PROVE Started'
  BY <1>6 DEF Flock, Take, Leave, Exit
<1>7. ASSUME NEW p \in Procs, Contended(p) PROVE Started'
  BY <1>7 DEF Contended, Leave, Exit
<1>8. ASSUME NEW p \in Procs, Wait(p) PROVE Started'
  BY <1>8 DEF Wait, Take, Leave, Exit
<1>9. ASSUME NEW p \in Procs, Same(p) PROVE Started'
  BY <1>9 DEF Same
<1>10. ASSUME NEW p \in Procs, List(p) PROVE Started'
  BY <1>10 DEF List, Keeps, Spare
<1>11. ASSUME NEW p \in Procs, Disarm(p) PROVE Started'
  BY <1>11 DEF Disarm, Spare
<1>12. ASSUME NEW p \in Procs, Remove(p) PROVE Started'
  BY <1>12 DEF Remove
<1>13. ASSUME NEW p \in Procs, Write(p) PROVE Started'
  BY <1>13 DEF Write, InUse
<1>14. ASSUME NEW p \in Procs, Arm(p) PROVE Started'
  BY <1>14 DEF Arm, Spare
<1>15. ASSUME NEW p \in Procs, Unmark(p) PROVE Started'
  BY <1>15 DEF Unmark
<1>16. ASSUME NEW p \in Procs, Release(p) PROVE Started'
  BY <1>16 DEF Release, Unlocks, Leave, Exit
<1>17. ASSUME NEW p \in Procs, Fail(p) PROVE Started'
  BY <1>17 DEF Fail, Unlocks
<1>18. ASSUME NEW p \in Procs, Note(p) PROVE Started'
  BY <1>18 DEF Note, Unlocks, Leave, Exit
<1>19. ASSUME NEW p \in Procs, Erase(p) PROVE Started'
  BY <1>19 DEF Erase, Exit
<1>20. ASSUME NEW p \in Procs, Crash(p) PROVE Started'
  BY <1>20 DEF Crash, Unlocks, Exit, Spare
<1>21. ASSUME NEW p \in Procs, Scoped(p) PROVE Started'
  BY <1>21 DEF Scoped, Enter
<1>22. ASSUME NEW p \in Procs, Sweep(p) PROVE Started'
  BY <1>22 DEF Sweep, Enter
<1>23. ASSUME NEW p \in Procs, Hitch(p) PROVE Started'
  BY <1>23 DEF Hitch, Enter, Spare
<1>24. ASSUME NEW p \in Procs, Drop(p) PROVE Started'
  BY <1>24 DEF Drop, Enter
<1>25. ASSUME NEW p \in Procs, Down(p) PROVE Started'
  BY <1>25 DEF Down, Enter
<1>26. ASSUME NEW p \in Procs, NEW g \in Gens, Elapse(p, g) PROVE Started'
  BY <1>26 DEF Elapse, Enter
<1> QED
  BY <1>1, <1>2, <1>3, <1>4, <1>5, <1>6, <1>7, <1>8, <1>9, <1>10, <1>11, <1>12, <1>13, <1>14,
     <1>15, <1>16, <1>17, <1>18, <1>19, <1>20, <1>21, <1>22, <1>23, <1>24, <1>25, <1>26 DEF Next, Run

\* A lock file that is the team's stays so while its holder is past the comparison (SameFile).
LEMMA LocksStep ==
  ASSUME PromptSweep, IInv, [Next]_vars
  PROVE  Locks'
<1> USE DEF IInv, TypeOK, Started, Locks, Downs
<1>1. CASE UNCHANGED vars
  BY <1>1 DEF vars
<1>2. ASSUME NEW p \in Procs, ReadOutage(p) PROVE Locks'
  BY <1>2 DEF ReadOutage
<1>3. ASSUME NEW p \in Procs, Stat(p) PROVE Locks'
  BY <1>3 DEF Stat, Leave, Exit
<1>4. ASSUME NEW p \in Procs, Current(p) PROVE Locks'
  BY <1>4 DEF Current, Leave, Exit
<1>5. ASSUME NEW p \in Procs, Open(p) PROVE Locks'
  BY <1>5 DEF Open, Leave, Exit
<1>6. ASSUME NEW p \in Procs, Flock(p) PROVE Locks'
  BY <1>6 DEF Flock, Take, Leave, Exit
<1>7. ASSUME NEW p \in Procs, Contended(p) PROVE Locks'
  BY <1>7 DEF Contended, Leave, Exit
<1>8. ASSUME NEW p \in Procs, Wait(p) PROVE Locks'
  BY <1>8 DEF Wait, Take, Leave, Exit
<1>9. ASSUME NEW p \in Procs, Same(p) PROVE Locks'
  BY <1>9 DEF Same
<1>10. ASSUME NEW p \in Procs, List(p) PROVE Locks'
  BY <1>10 DEF List, Keeps, Spare
<1>11. ASSUME NEW p \in Procs, Disarm(p) PROVE Locks'
  BY <1>11 DEF Disarm, Spare
<1>12. ASSUME NEW p \in Procs, Remove(p) PROVE Locks'
  BY <1>12 DEF Remove
<1>13. ASSUME NEW p \in Procs, Write(p) PROVE Locks'
  BY <1>13 DEF Write, InUse
<1>14. ASSUME NEW p \in Procs, Arm(p) PROVE Locks'
  BY <1>14 DEF Arm, Spare
<1>15. ASSUME NEW p \in Procs, Unmark(p) PROVE Locks'
  BY <1>15 DEF Unmark
<1>16. ASSUME NEW p \in Procs, Release(p) PROVE Locks'
  BY <1>16 DEF Release, Unlocks, Leave, Exit
<1>17. ASSUME NEW p \in Procs, Fail(p) PROVE Locks'
  BY <1>17 DEF Fail, Unlocks
<1>18. ASSUME NEW p \in Procs, Note(p) PROVE Locks'
  BY <1>18 DEF Note, Unlocks, Leave, Exit
<1>19. ASSUME NEW p \in Procs, Erase(p) PROVE Locks'
  BY <1>19 DEF Erase, Exit
<1>20. ASSUME NEW p \in Procs, Crash(p) PROVE Locks'
  BY <1>20 DEF Crash, Unlocks, Exit, Spare
<1>21. ASSUME NEW p \in Procs, Scoped(p) PROVE Locks'
  BY <1>21 DEF Scoped, Enter
<1>22. ASSUME NEW p \in Procs, Sweep(p) PROVE Locks'
  BY <1>22 DEF Sweep, Enter
<1>23. ASSUME NEW p \in Procs, Hitch(p) PROVE Locks'
  BY <1>23 DEF Hitch, Enter, Spare
<1>24. ASSUME NEW p \in Procs, Drop(p) PROVE Locks'
  BY <1>24 DEF Drop, Enter
<1>25. ASSUME NEW p \in Procs, Down(p) PROVE Locks'
  BY <1>25 DEF Down, Enter
<1>26. ASSUME NEW p \in Procs, NEW g \in Gens, Elapse(p, g) PROVE Locks'
  BY <1>26 DEF Elapse, Enter
<1> QED
  BY <1>1, <1>2, <1>3, <1>4, <1>5, <1>6, <1>7, <1>8, <1>9, <1>10, <1>11, <1>12, <1>13, <1>14,
     <1>15, <1>16, <1>17, <1>18, <1>19, <1>20, <1>21, <1>22, <1>23, <1>24, <1>25, <1>26 DEF Next, Run

\* Nobody registers an agent, nor removes one, while a down has the team lock.
LEMMA DownsStep ==
  ASSUME PromptSweep, IInv, [Next]_vars
  PROVE  Downs'
<1> USE DEF IInv, TypeOK, Started, Locks, Downs
<1>1. CASE UNCHANGED vars
  BY <1>1 DEF vars
<1>2. ASSUME NEW p \in Procs, ReadOutage(p) PROVE Downs'
  BY <1>2 DEF ReadOutage
<1>3. ASSUME NEW p \in Procs, Stat(p) PROVE Downs'
  BY <1>3 DEF Stat, Leave, Exit
<1>4. ASSUME NEW p \in Procs, Current(p) PROVE Downs'
  BY <1>4 DEF Current, Leave, Exit
<1>5. ASSUME NEW p \in Procs, Open(p) PROVE Downs'
  BY <1>5 DEF Open, Leave, Exit
<1>6. ASSUME NEW p \in Procs, Flock(p) PROVE Downs'
  BY <1>6 DEF Flock, Take, Leave, Exit
<1>7. ASSUME NEW p \in Procs, Contended(p) PROVE Downs'
  BY <1>7 DEF Contended, Leave, Exit
<1>8. ASSUME NEW p \in Procs, Wait(p) PROVE Downs'
  BY <1>8 DEF Wait, Take, Leave, Exit
<1>9. ASSUME NEW p \in Procs, Same(p) PROVE Downs'
  BY <1>9 DEF Same
<1>10. ASSUME NEW p \in Procs, List(p) PROVE Downs'
  BY <1>10 DEF List, Keeps, Spare
<1>11. ASSUME NEW p \in Procs, Disarm(p) PROVE Downs'
  BY <1>11 DEF Disarm, Spare
<1>12. ASSUME NEW p \in Procs, Remove(p) PROVE Downs'
  BY <1>12 DEF Remove
<1>13. ASSUME NEW p \in Procs, Write(p) PROVE Downs'
  BY <1>13 DEF Write, InUse
<1>14. ASSUME NEW p \in Procs, Arm(p) PROVE Downs'
  BY <1>14 DEF Arm, Spare
<1>15. ASSUME NEW p \in Procs, Unmark(p) PROVE Downs'
  BY <1>15 DEF Unmark
<1>16. ASSUME NEW p \in Procs, Release(p) PROVE Downs'
  BY <1>16 DEF Release, Unlocks, Leave, Exit
<1>17. ASSUME NEW p \in Procs, Fail(p) PROVE Downs'
  BY <1>17 DEF Fail, Unlocks
<1>18. ASSUME NEW p \in Procs, Note(p) PROVE Downs'
  BY <1>18 DEF Note, Unlocks, Leave, Exit
<1>19. ASSUME NEW p \in Procs, Erase(p) PROVE Downs'
  BY <1>19 DEF Erase, Exit
<1>20. ASSUME NEW p \in Procs, Crash(p) PROVE Downs'
  BY <1>20 DEF Crash, Unlocks, Exit, Spare
<1>21. ASSUME NEW p \in Procs, Scoped(p) PROVE Downs'
  BY <1>21 DEF Scoped, Enter
<1>22. ASSUME NEW p \in Procs, Sweep(p) PROVE Downs'
  BY <1>22 DEF Sweep, Enter
<1>23. ASSUME NEW p \in Procs, Hitch(p) PROVE Downs'
  BY <1>23 DEF Hitch, Enter, Spare
<1>24. ASSUME NEW p \in Procs, Drop(p) PROVE Downs'
  BY <1>24 DEF Drop, Enter
<1>25. ASSUME NEW p \in Procs, Down(p) PROVE Downs'
  BY <1>25 DEF Down, Enter
<1>26. ASSUME NEW p \in Procs, NEW g \in Gens, Elapse(p, g) PROVE Downs'
  BY <1>26 DEF Elapse, Enter
<1> QED
  BY <1>1, <1>2, <1>3, <1>4, <1>5, <1>6, <1>7, <1>8, <1>9, <1>10, <1>11, <1>12, <1>13, <1>14,
     <1>15, <1>16, <1>17, <1>18, <1>19, <1>20, <1>21, <1>22, <1>23, <1>24, <1>25, <1>26 DEF Next, Run

\* A command that leaves without going on to erase the team closes nothing.
LEMMA LeaverClosing ==
  ASSUME TypeOK, Started, Downs, Closing, NEW p \in Procs, Exit(p), held' = held \/ Unlocks(p),
         UNCHANGED <<teams, intent, deferred>>
  PROVE  Closing'
<1>1. job'[p] = "scoped" /\ pc'[p] = "idle"
  BY DEF TypeOK, Exit
<1>2. \A q \in Procs \ {p} : job'[q] = job[q] /\ pc'[q] = pc[q] /\ seen'[q] = seen[q]
  BY DEF TypeOK, Exit
<1>3. \A q \in Procs \ {p} : \A i \in 1..MaxTeams : held'[i] = q <=> held[i] = q
  BY DEF TypeOK, Unlocks
<1>4. ASSUME NEW q \in Procs, job'[q] = "down", pc'[q] = "note", \E i \in 1..MaxTeams : held'[i] = q
      PROVE  held'[teams] = q /\ (deferred \/ intent = NoGen)
  <2>1. q \in Procs \ {p} /\ job[q] = "down" /\ pc[q] = "note" /\ \E i \in 1..MaxTeams : held[i] = q
    BY <1>1, <1>2, <1>3, <1>4
  <2>2. held[teams] = q /\ (deferred \/ intent = NoGen)
    BY <2>1 DEF Closing
  <2>3. teams \in 1..MaxTeams
    BY <2>1 DEF TypeOK, Started, Downs
  <2> QED
    BY <2>1, <2>2, <2>3, <1>3
<1> QED
  BY <1>1, <1>2, <1>4 DEF Closing

\* The file a down holds is the team's, so nobody else is past the look at it.
LEMMA DownAlone ==
  ASSUME TypeOK, Locks, NEW p \in Procs, NEW q \in Procs,
         held[teams] = p, pc[p] \notin Transaction
  PROVE  pc[q] \notin Transaction
  BY DEF TypeOK, Locks

LEMMA ClosingStep ==
  ASSUME PromptSweep, IInv, [Next]_vars
  PROVE  Closing'
<1> USE DEF IInv, TypeOK, Started, Locks, Downs, Closing, Olds
<1>1. CASE UNCHANGED vars
  BY <1>1 DEF vars
<1>2. ASSUME NEW p \in Procs,
             ReadOutage(p) \/ Same(p) \/ Disarm(p) \/ Remove(p) \/ Arm(p) \/ Unmark(p) \/ Fail(p)
      PROVE  Closing'
  <2>1. CASE ReadOutage(p)
    BY <2>1 DEF ReadOutage
  <2>2. CASE Same(p)
    BY <2>2 DEF Same
  <2>3. CASE Disarm(p)
    BY <2>3 DEF Disarm
  <2>4. CASE Remove(p)
    BY <2>4 DEF Remove
  <2>5. CASE Arm(p)
    BY <2>5 DEF Arm
  <2>6. CASE Unmark(p)
    BY <2>6 DEF Unmark
  <2>7. CASE Fail(p)
    BY <2>7 DEF Fail, Unlocks
  <2> QED
    BY <1>2, <2>1, <2>2, <2>3, <2>4, <2>5, <2>6, <2>7
<1>3. ASSUME NEW p \in Procs,
             Stat(p) \/ Current(p) \/ Open(p) \/ Contended(p) \/ Flock(p) \/ Wait(p) \/ Release(p) \/ Note(p)
      PROVE  Closing'
  <2>1. CASE Exit(p)
    <3>1. UNCHANGED <<teams, intent, deferred>>
      BY <1>3, <2>1 DEF Stat, Current, Open, Contended, Flock, Wait, Release, Note, Leave, Take
    <3>2. held' = held \/ Unlocks(p)
      BY <1>3, <2>1 DEF Stat, Current, Open, Contended, Flock, Wait, Release, Note, Exit, Take
    <3> QED
      BY <2>1, <3>1, <3>2, LeaverClosing
  <2>2. CASE (Stat(p) \/ Current(p) \/ Open(p) \/ Contended(p)) /\ ~Exit(p)
    <3>1. ~Leave(p, TRUE)
      BY <2>2 DEF Stat, Current, Open, Contended, Leave
    <3>2. /\ Goto(p, "current") \/ Goto(p, "open") \/ Goto(p, "flock") \/ Goto(p, "note")
          /\ Goto(p, "note") => pc[p] = "contended"
          /\ UNCHANGED <<team, files, held, job, seen, deferred>>
      <4>1. CASE Stat(p)
        BY <3>1, <4>1 DEF Stat, team, memory
      <4>2. CASE Current(p)
        BY <3>1, <4>2 DEF Current, team, memory
      <4>3. CASE Open(p)
        BY <3>1, <4>3 DEF Open, team
      <4>4. CASE Contended(p)
        BY <3>1, <4>4 DEF Contended, team, memory
      <4> QED
        BY <2>2, <4>1, <4>2, <4>3, <4>4
    <3> QED
      BY <3>2
  <2>3. CASE Flock(p) /\ ~Exit(p)
    BY <2>3 DEF Flock, Take, Leave
  <2>4. CASE Wait(p) /\ ~Exit(p)
    BY <2>4 DEF Wait, Take, Leave
  <2>5. CASE (Release(p) \/ Note(p)) /\ ~Exit(p)
    <3>1. /\ job[p] = "down" /\ Goto(p, "erase") /\ Unlocks(p)
          /\ UNCHANGED <<agents, teams, exists, deferred, teamLock, memory, intent>>
          /\ pc[p] = "release" \/ (pc[p] = "note" /\ \E i \in 1..MaxTeams : held[i] = p)
      BY <2>5 DEF Release, Note, Leave
    <3>2. held[teams] = p /\ (deferred \/ intent = NoGen)
      BY <3>1
    <3>3. \A q \in Procs : pc[q] \notin Transaction
      BY <3>1, <3>2, DownAlone
    <3>4. \A q \in Procs : job[q] = "down" => q = p
      BY <3>1
    <3> QED
      BY <3>1, <3>2, <3>3, <3>4
  <2> QED
    BY <1>3, <2>1, <2>2, <2>3, <2>4, <2>5
<1>4. ASSUME NEW p \in Procs, List(p) PROVE Closing'
  <2>1. /\ pc[p] = "list" /\ fd[p] = teams /\ held[teams] = p
        /\ job[p] = "down" => ~agents /\ gen[p] = NoGen
    BY <1>4 DEF List
  <2>2. /\ UNCHANGED <<agents, teams, exists, teamLock, intent, held, job, gen, fd, old>>
        /\ seen' = [seen EXCEPT ![p] = agents]
        /\ deferred' = deferred \/ deferred' = (deferred \/ (Cleanup(p) /\ old[p] # NoGen))
    BY <1>4 DEF List
  <2>3. PICK s \in Steps : Goto(p, s) /\ s \in {"release", "disarm", "write", "quit", "fail", "note"}
    BY <1>4 DEF List, Steps
  <2>4. s = "write" => agents /\ ~Cleanup(p)
    BY <1>4, <2>3 DEF List, Keeps
  <2>5. job[p] = "down" /\ s \in {"release", "note"} => deferred' \/ intent = NoGen
    BY <1>4, <2>1, <2>3 DEF List, Keeps
  <2> QED
    BY <2>1, <2>2, <2>3, <2>4, <2>5
<1>5. ASSUME NEW p \in Procs, Write(p) PROVE Closing'
  BY <1>5 DEF Write, InUse
<1>6. ASSUME NEW p \in Procs, Erase(p) PROVE Closing'
  BY <1>6 DEF Erase, Exit
<1>7. ASSUME NEW p \in Procs, Crash(p) PROVE Closing'
  BY <1>7, LeaverClosing DEF Crash
<1>8. ASSUME NEW p \in Procs, Scoped(p) \/ Sweep(p) PROVE Closing'
  BY <1>8 DEF Scoped, Sweep, Enter
<1>9. ASSUME NEW p \in Procs, Drop(p) \/ Down(p) PROVE Closing'
  BY <1>9 DEF Drop, Down, Enter
<1>10. ASSUME NEW p \in Procs, Hitch(p) PROVE Closing'
  BY <1>10 DEF Hitch, Enter
<1>11. ASSUME NEW p \in Procs, NEW g \in Gens, Elapse(p, g) PROVE Closing'
  BY <1>11 DEF Elapse, Enter
<1> QED
  BY <1>1, <1>2, <1>3, <1>4, <1>5, <1>6, <1>7, <1>8, <1>9, <1>10, <1>11 DEF Next, Run

\* The recorded generation changes only under the scheduler lock, or with the team.
LEMMA OldsStep ==
  ASSUME PromptSweep, IInv, [Next]_vars
  PROVE  Olds'
<1> USE DEF IInv, TypeOK, Started, Locks, Downs, Closing, Olds, NoStrayTimer
<1>1. CASE UNCHANGED vars
  BY <1>1 DEF vars
<1>2. ASSUME NEW p \in Procs, ReadOutage(p) PROVE Olds'
  BY <1>2 DEF ReadOutage
<1>3. ASSUME NEW p \in Procs, Stat(p) PROVE Olds'
  BY <1>3 DEF Stat, Leave, Exit
<1>4. ASSUME NEW p \in Procs, Current(p) PROVE Olds'
  BY <1>4 DEF Current, Leave, Exit
<1>5. ASSUME NEW p \in Procs, Open(p) PROVE Olds'
  BY <1>5 DEF Open, Leave, Exit
<1>6. ASSUME NEW p \in Procs, Flock(p) PROVE Olds'
  BY <1>6 DEF Flock, Take, Leave, Exit
<1>7. ASSUME NEW p \in Procs, Contended(p) PROVE Olds'
  BY <1>7 DEF Contended, Leave, Exit
<1>8. ASSUME NEW p \in Procs, Wait(p) PROVE Olds'
  BY <1>8 DEF Wait, Take, Leave, Exit
<1>9. ASSUME NEW p \in Procs, Same(p) PROVE Olds'
  BY <1>9 DEF Same
<1>10. ASSUME NEW p \in Procs, List(p) PROVE Olds'
  BY <1>10 DEF List, Keeps, Spare
<1>11. ASSUME NEW p \in Procs, Disarm(p) PROVE Olds'
  BY <1>11 DEF Disarm, Spare
<1>12. ASSUME NEW p \in Procs, Remove(p) PROVE Olds'
  BY <1>12 DEF Remove
<1>13. ASSUME NEW p \in Procs, Write(p) PROVE Olds'
  BY <1>13 DEF Write, InUse
<1>14. ASSUME NEW p \in Procs, Arm(p) PROVE Olds'
  BY <1>14 DEF Arm, Spare
<1>15. ASSUME NEW p \in Procs, Unmark(p) PROVE Olds'
  BY <1>15 DEF Unmark
<1>16. ASSUME NEW p \in Procs, Release(p) PROVE Olds'
  BY <1>16 DEF Release, Unlocks, Leave, Exit
<1>17. ASSUME NEW p \in Procs, Fail(p) PROVE Olds'
  BY <1>17 DEF Fail, Unlocks
<1>18. ASSUME NEW p \in Procs, Note(p) PROVE Olds'
  BY <1>18 DEF Note, Unlocks, Leave, Exit
<1>19. ASSUME NEW p \in Procs, Erase(p) PROVE Olds'
  BY <1>19 DEF Erase, Exit
<1>20. ASSUME NEW p \in Procs, Crash(p) PROVE Olds'
  BY <1>20 DEF Crash, Unlocks, Exit, Spare
<1>21. ASSUME NEW p \in Procs, Scoped(p) PROVE Olds'
  BY <1>21 DEF Scoped, Enter
<1>22. ASSUME NEW p \in Procs, Sweep(p) PROVE Olds'
  BY <1>22 DEF Sweep, Enter
<1>23. ASSUME NEW p \in Procs, Hitch(p) PROVE Olds'
  BY <1>23 DEF Hitch, Enter, Spare
<1>24. ASSUME NEW p \in Procs, Drop(p) PROVE Olds'
  BY <1>24 DEF Drop, Enter
<1>25. ASSUME NEW p \in Procs, Down(p) PROVE Olds'
  BY <1>25 DEF Down, Enter
<1>26. ASSUME NEW p \in Procs, NEW g \in Gens, Elapse(p, g) PROVE Olds'
  BY <1>26 DEF Elapse, Enter
<1> QED
  BY <1>1, <1>2, <1>3, <1>4, <1>5, <1>6, <1>7, <1>8, <1>9, <1>10, <1>11, <1>12, <1>13, <1>14,
     <1>15, <1>16, <1>17, <1>18, <1>19, <1>20, <1>21, <1>22, <1>23, <1>24, <1>25, <1>26 DEF Next, Run

\* Each step of a replacement, and each failure of one, leaves no timer but the recorded one.
LEMMA StrayStep ==
  ASSUME PromptSweep, IInv, [Next]_vars
  PROVE  NoStrayTimer'
<1> USE DEF IInv, TypeOK, Started, Locks, Downs, Closing, Olds, NoStrayTimer
<1>1. CASE UNCHANGED vars
  BY <1>1 DEF vars
<1>2. ASSUME NEW p \in Procs, ReadOutage(p) PROVE NoStrayTimer'
  BY <1>2 DEF ReadOutage
<1>3. ASSUME NEW p \in Procs, Stat(p) PROVE NoStrayTimer'
  BY <1>3 DEF Stat, Leave, Exit
<1>4. ASSUME NEW p \in Procs, Current(p) PROVE NoStrayTimer'
  BY <1>4 DEF Current, Leave, Exit
<1>5. ASSUME NEW p \in Procs, Open(p) PROVE NoStrayTimer'
  BY <1>5 DEF Open, Leave, Exit
<1>6. ASSUME NEW p \in Procs, Flock(p) PROVE NoStrayTimer'
  BY <1>6 DEF Flock, Take, Leave, Exit
<1>7. ASSUME NEW p \in Procs, Contended(p) PROVE NoStrayTimer'
  BY <1>7 DEF Contended, Leave, Exit
<1>8. ASSUME NEW p \in Procs, Wait(p) PROVE NoStrayTimer'
  BY <1>8 DEF Wait, Take, Leave, Exit
<1>9. ASSUME NEW p \in Procs, Same(p) PROVE NoStrayTimer'
  BY <1>9 DEF Same
<1>10. ASSUME NEW p \in Procs, List(p) PROVE NoStrayTimer'
  BY <1>10 DEF List, Keeps, Spare
<1>11. ASSUME NEW p \in Procs, Disarm(p) PROVE NoStrayTimer'
  BY <1>11 DEF Disarm, Spare
<1>12. ASSUME NEW p \in Procs, Remove(p) PROVE NoStrayTimer'
  BY <1>12 DEF Remove
<1>13. ASSUME NEW p \in Procs, Write(p) PROVE NoStrayTimer'
  BY <1>13 DEF Write, InUse
<1>14. ASSUME NEW p \in Procs, Arm(p) PROVE NoStrayTimer'
  BY <1>14 DEF Arm, Spare
<1>15. ASSUME NEW p \in Procs, Unmark(p) PROVE NoStrayTimer'
  BY <1>15 DEF Unmark
<1>16. ASSUME NEW p \in Procs, Release(p) PROVE NoStrayTimer'
  BY <1>16 DEF Release, Unlocks, Leave, Exit
<1>17. ASSUME NEW p \in Procs, Fail(p) PROVE NoStrayTimer'
  BY <1>17 DEF Fail, Unlocks
<1>18. ASSUME NEW p \in Procs, Note(p) PROVE NoStrayTimer'
  BY <1>18 DEF Note, Unlocks, Leave, Exit
<1>19. ASSUME NEW p \in Procs, Erase(p) PROVE NoStrayTimer'
  BY <1>19 DEF Erase, Exit
<1>20. ASSUME NEW p \in Procs, Crash(p) PROVE NoStrayTimer'
  BY <1>20 DEF Crash, Unlocks, Exit, Spare
<1>21. ASSUME NEW p \in Procs, Scoped(p) PROVE NoStrayTimer'
  BY <1>21 DEF Scoped, Enter
<1>22. ASSUME NEW p \in Procs, Sweep(p) PROVE NoStrayTimer'
  BY <1>22 DEF Sweep, Enter
<1>23. ASSUME NEW p \in Procs, Hitch(p) PROVE NoStrayTimer'
  BY <1>23 DEF Hitch, Enter, Spare
<1>24. ASSUME NEW p \in Procs, Drop(p) PROVE NoStrayTimer'
  BY <1>24 DEF Drop, Enter
<1>25. ASSUME NEW p \in Procs, Down(p) PROVE NoStrayTimer'
  BY <1>25 DEF Down, Enter
<1>26. ASSUME NEW p \in Procs, NEW g \in Gens, Elapse(p, g) PROVE NoStrayTimer'
  BY <1>26 DEF Elapse, Enter
<1> QED
  BY <1>1, <1>2, <1>3, <1>4, <1>5, <1>6, <1>7, <1>8, <1>9, <1>10, <1>11, <1>12, <1>13, <1>14,
     <1>15, <1>16, <1>17, <1>18, <1>19, <1>20, <1>21, <1>22, <1>23, <1>24, <1>25, <1>26 DEF Next, Run

LEMMA IInvInit ==
  ASSUME Init
  PROVE  IInv
<1>1. TypeOK
  <2>1. held \in [1..MaxTeams -> Procs \cup {NoProc}] /\ fd \in [Procs -> 0..MaxTeams]
    BY DEF Init
  <2>2. teams \in 0..MaxTeams /\ failures \in 0..MaxMishaps /\ crashes \in 0..MaxMishaps
    BY DEF Init
  <2>3. job \in [Procs -> Jobs] /\ pc \in [Procs -> Steps]
    BY DEF Init, Jobs, Steps
  <2> QED
    BY <2>1, <2>2, <2>3 DEF Init, TypeOK
<1>2. Started /\ Locks /\ Downs /\ Closing /\ Olds
  BY DEF Init, Started, Locks, Downs, Closing, Olds
<1>3. NoStrayTimer
  BY DEF Init, NoStrayTimer
<1> QED
  BY <1>1, <1>2, <1>3 DEF IInv

\* While no team is made anew under a replacement of the old one's timer, IInv is inductive.
THEOREM Invariant ==
  ASSUME PromptSweep
  PROVE  Spec => []IInv
<1>1. Init => IInv
  BY IInvInit
<1>2. IInv /\ [Next]_vars => IInv'
  <2> SUFFICES ASSUME IInv, [Next]_vars PROVE IInv'
    OBVIOUS
  <2> QED
    BY TypeStep, StartedStep, LocksStep, DownsStep, ClosingStep, OldsStep, StrayStep DEF IInv
<1> QED
  BY <1>1, <1>2, PTL DEF Spec

\* Every variable of updateWatchdog's callers, and every file they leave, keeps its type.
THEOREM TypeCorrect ==
  ASSUME PromptSweep
  PROVE  Spec => []TypeOK
<1>1. IInv => TypeOK
  BY DEF IInv
<1>2. Spec => []IInv
  BY Invariant
<1> QED
  BY <1>1, <1>2, PTL

\* No timer is armed but the recorded one, whatever fails and whoever dies (watchdog.go:318).
THEOREM NoTimerEscapes ==
  ASSUME PromptSweep
  PROVE  Spec => []NoStrayTimer
<1>1. IInv => NoStrayTimer
  BY DEF IInv
<1>2. Spec => []IInv
  BY Invariant
<1> QED
  BY <1>1, <1>2, PTL

-----------------------------------------------------------------------------
(* Who sees to a timer that is recorded and may not be armed.              *)

\* Somebody is about to re-arm the recorded timer, or to mark the outage.
Tending(q) ==
  \/ pc[q] \in {"disarm", "remove", "arm", "fail", "note"}
  \/ /\ job[q] = "tick" /\ gen[q] = intent
     /\ pc[q] \in {"outage", "current", "open", "flock", "contended", "same", "list"}

\* The timer recorded is armed, its outage marked, or somebody sees to it.
Tended ==
  /\ \A p \in Procs : pc[p] = "unmark" => intent \in timers
  /\ \A p \in Procs : job[p] = "tick" /\ gen[p] = intent /\ intent # NoGen
                      /\ pc[p] \in {"flock", "contended", "wait", "same", "list"} => fd[p] = teams
  /\ crashes = 0 /\ intent # NoGen => intent \in timers \/ marker \/ \E q \in Procs : Tending(q)

LEMMA LeaverTended ==
  ASSUME TypeOK, Tended, NEW p \in Procs, Tending(p) => intent = NoGen, Leave(p, TRUE) \/ Leave(p, FALSE),
         UNCHANGED <<intent, marker, timers, crashes>>
  PROVE  Tended'
<1>1. teams' = teams /\ pc'[p] \in {"idle", "erase"}
  BY DEF TypeOK, Leave, Exit
<1>2. \A q \in Procs \ {p} : pc'[q] = pc[q] /\ job'[q] = job[q] /\ gen'[q] = gen[q] /\ fd'[q] = fd[q]
  BY DEF TypeOK, Leave, Exit
<1>3. \A q \in Procs \ {p} : Tending(q) => Tending(q)'
  BY <1>2 DEF Tending
<1> QED
  BY <1>1, <1>2, <1>3 DEF Tended

\* Only who arms the timer clears the marker, and who cannot arm it sets the marker.
LEMMA TendedStep ==
  ASSUME PromptSweep, PromptArm, IInv, Tended, [Next]_vars
  PROVE  Tended'
<1> USE DEF IInv, TypeOK, Started, Locks, Downs, Closing, Olds, Tended, Tending
<1>1. CASE UNCHANGED vars
  BY <1>1 DEF vars
<1>2. ASSUME NEW p \in Procs, ReadOutage(p) PROVE Tended'
  BY <1>2 DEF ReadOutage
<1>3. ASSUME NEW p \in Procs, Stat(p) PROVE Tended'
  BY <1>3 DEF Stat, Leave, Exit
<1>4. ASSUME NEW p \in Procs, Current(p) PROVE Tended'
  <2>1. CASE gen[p] \notin {NoGen, intent} /\ Leave(p, TRUE)
    BY <1>4, <2>1, LeaverTended DEF Current
  <2>2. CASE gen[p] \in {NoGen, intent} /\ Goto(p, "open") /\ UNCHANGED <<team, memory, deferred>>
    BY <1>4, <2>2 DEF Current
  <2> QED
    BY <1>4, <2>1, <2>2 DEF Current
<1>5. ASSUME NEW p \in Procs, Open(p) PROVE Tended'
  BY <1>5 DEF Open, Leave, Exit
<1>6. ASSUME NEW p \in Procs, Flock(p) PROVE Tended'
  <2>1. CASE Take(p)
    BY <1>6, <2>1 DEF Flock, Take
  <2>2. CASE gen[p] = NoGen /\ Leave(p, TRUE) /\ UNCHANGED held
    BY <1>6, <2>2, LeaverTended DEF Flock
  <2>3. CASE ((Cleanup(p) /\ Goto(p, "wait")) \/ Goto(p, "contended")) /\ UNCHANGED <<team, memory, deferred>>
    BY <1>6, <2>3 DEF Flock
  <2> QED
    BY <1>6, <2>1, <2>2, <2>3 DEF Flock
<1>7. ASSUME NEW p \in Procs, Contended(p) PROVE Tended'
  <2>1. CASE intent # gen[p] /\ Leave(p, TRUE)
    BY <1>7, <2>1, LeaverTended DEF Contended
  <2>2. CASE intent = gen[p] /\ Goto(p, "note") /\ UNCHANGED <<team, memory, deferred>>
    BY <1>7, <2>2 DEF Contended
  <2> QED
    BY <1>7, <2>1, <2>2 DEF Contended
<1>8. ASSUME NEW p \in Procs, Wait(p) PROVE Tended'
  <2>1. CASE Leave(p, FALSE)
    BY <1>8, <2>1, LeaverTended DEF Wait
  <2>2. CASE Take(p)
    BY <1>8, <2>2 DEF Wait, Take
  <2> QED
    BY <1>8, <2>1, <2>2 DEF Wait
<1>9. ASSUME NEW p \in Procs, Same(p) PROVE Tended'
  BY <1>9 DEF Same
<1>10. ASSUME NEW p \in Procs, List(p) PROVE Tended'
  BY <1>10 DEF List, Keeps, Spare
<1>11. ASSUME NEW p \in Procs, Disarm(p) PROVE Tended'
  BY <1>11 DEF Disarm, Spare
<1>12. ASSUME NEW p \in Procs, Remove(p) PROVE Tended'
  BY <1>12 DEF Remove
<1>13. ASSUME NEW p \in Procs, Write(p) PROVE Tended'
  BY <1>13 DEF Write, InUse
<1>14. ASSUME NEW p \in Procs, Arm(p) PROVE Tended'
  BY <1>14 DEF Arm, Spare
<1>15. ASSUME NEW p \in Procs, Unmark(p) PROVE Tended'
  BY <1>15 DEF Unmark
<1>16. ASSUME NEW p \in Procs, Release(p) PROVE Tended'
  BY <1>16, LeaverTended DEF Release
<1>17. ASSUME NEW p \in Procs, Fail(p) PROVE Tended'
  BY <1>17 DEF Fail, Unlocks
<1>18. ASSUME NEW p \in Procs, Note(p) PROVE Tended'
  BY <1>18 DEF Note, Unlocks, Leave, Exit
<1>19. ASSUME NEW p \in Procs, Erase(p) PROVE Tended'
  BY <1>19 DEF Erase, Exit
<1>20. ASSUME NEW p \in Procs, Crash(p) PROVE Tended'
  BY <1>20 DEF Crash, Unlocks, Exit, Spare
<1>21. ASSUME NEW p \in Procs, Scoped(p) PROVE Tended'
  BY <1>21 DEF Scoped, Enter
<1>22. ASSUME NEW p \in Procs, Sweep(p) PROVE Tended'
  BY <1>22 DEF Sweep, Enter
<1>23. ASSUME NEW p \in Procs, Hitch(p) PROVE Tended'
  <2>1. intent # NoGen => teams' = teams
    BY <1>23 DEF Hitch
  <2>2. pc[p] = "idle" /\ UNCHANGED <<intent, marker, timers, crashes>>
    BY <1>23 DEF Hitch, Enter
  <2>3. \A q \in Procs \ {p} : pc'[q] = pc[q] /\ job'[q] = job[q] /\ gen'[q] = gen[q] /\ fd'[q] = fd[q]
    BY <1>23 DEF Hitch, Enter
  <2>4. pc'[p] \in {"idle", "outage"}
    BY <1>23 DEF Hitch, Enter
  <2>5. ASSUME NEW q \in Procs, Tending(q) PROVE Tending(q)'
    <3>1. q \in Procs \ {p}
      BY <2>2, <2>5
    <3> QED
      BY <2>2, <2>3, <2>5, <3>1
  <2>6. \A q \in Procs : pc'[q] = "unmark" => intent' \in timers'
    BY <2>2, <2>3, <2>4
  <2>7. \A q \in Procs : job'[q] = "tick" /\ gen'[q] = intent' /\ intent' # NoGen
                         /\ pc'[q] \in {"flock", "contended", "wait", "same", "list"} => fd'[q] = teams'
    BY <2>1, <2>2, <2>3, <2>4
  <2>8. (crashes = 0 /\ intent # NoGen => intent \in timers \/ marker \/ \E q \in Procs : Tending(q))'
    <3> HIDE DEF Tending
    <3> QED
      BY <2>2, <2>5
  <2> QED
    BY <2>6, <2>7, <2>8
<1>24. ASSUME NEW p \in Procs, Drop(p) PROVE Tended'
  BY <1>24 DEF Drop, Enter
<1>25. ASSUME NEW p \in Procs, Down(p) PROVE Tended'
  BY <1>25 DEF Down, Enter
<1>26. ASSUME NEW p \in Procs, NEW g \in Gens, Elapse(p, g) PROVE Tended'
  BY <1>26 DEF Elapse, Enter
<1> QED
  BY <1>1, <1>2, <1>3, <1>4, <1>5, <1>6, <1>7, <1>8, <1>9, <1>10, <1>11, <1>12, <1>13, <1>14,
     <1>15, <1>16, <1>17, <1>18, <1>19, <1>20, <1>21, <1>22, <1>23, <1>24, <1>25, <1>26 DEF Next, Run

\* An idle team with agents that records a timer has it, or knows that it has not, if no command
\* died (docs/internals.md:369).
THEOREM OutageIsKnown ==
  ASSUME PromptSweep, PromptArm
  PROVE  Spec => []TimerOrOutage
<1>1. Init => Tended
  BY DEF Init, Tended
<1>2. IInv /\ Tended /\ [Next]_vars => Tended'
  BY TendedStep
<1>3. Tended => TimerOrOutage
  BY DEF Tended, Tending, TimerOrOutage, Idle
<1>4. Spec => []IInv
  BY Invariant
<1> QED
  BY <1>1, <1>2, <1>3, <1>4, PTL DEF Spec

=============================================================================
