---------------------------- MODULE RegistryProofs ----------------------------
(* Proofs about registration: one agent never has two native processes, and    *)
(* panes, processes and names lead to the records that can end or free them.   *)
EXTENDS Registry, FiniteSetTheorems, TLAPS

-----------------------------------------------------------------------------
(* Types.                                                                    *)

Fronts   == {"mkdir", "name", "supersede"}
Startups == {"server", "identity", "await", "released"}
Closings == {"drop_started", "unname", "remove_dir"}
Holding  == {"name", "next", "spawn", "register", "remove", "forget", "remove_pane", "stop"}
               \cup Startups \cup Closings
Steps    == {"none", "free", "prepare", "acquire", "report", "release", "next_drop", "release_name"}
               \cup Fronts \cup Holding
Kinds    == {"none", "hitch", "up", "stopped", "rehitch", "drop", "down"}
LaunchKinds == {"hitch", "up", "stopped", "rehitch"}
Commands == [pc : Steps, kind : Kinds, id : Ids \cup {None}, name : Names \cup {None},
             exists : BOOLEAN, pane : PaneIds \cup {None}, pid : Pids \cup {None}, todo : SUBSET Ids]
TickSteps == {"observe", "release", "ready"}
Ticks    == [pc : {"none", "rehitch"} \cup TickSteps, id : Ids \cup {None}, to : {None}]
RenSteps == {"claim", "name", "free", "clear"}
Renames  == [pc : {"none", "intent"} \cup RenSteps, id : Ids \cup {None}, to : Names \cup {None}]
Natives  == [alive : BOOLEAN, of : Ids \cup {None}, gen : Nat,
             screen : {"starting", "prompt", "ready"}, witnessed : BOOLEAN]
Panes    == [id : PaneIds, pid : Pids, held : BOOLEAN]

Types ==
    /\ TypeOK
    /\ panes \subseteq Panes /\ native \in [Pids -> Natives]
    /\ op \in Commands /\ tick \in Ticks /\ ren \in Renames
    /\ cut \subseteq Ids

-----------------------------------------------------------------------------
(* Panes and processes.                                                      *)

\* A pane number that its server has given out.
Used(id) == /\ id.gen \in 1..gens
            /\ id.num \in 1..Cardinality({k \in 1..born : native[k].gen = id.gen})

Server ==
    /\ \A p, q \in panes : p.id = q.id \/ p.pid = q.pid => p = q
    /\ \A p \in panes : Used(p.id)
    /\ \A k \in 1..born : native[k].of \in Ids /\ native[k].gen \in 1..gens
    /\ \A k \in Pids : k > born => ~native[k].alive /\ ~native[k].witnessed /\ native[k].of = None
    /\ \A k \in strays : ~native[k].witnessed

\* What a record says of panes and processes is its own.
Owning(h) ==
    LET a == agent[h] IN
    /\ a.pane # None => Used(a.pane)
    /\ \A p \in panes : a.pane = p.id => /\ native[p.pid].of = h /\ p.pid \notin strays
                                         /\ a.proc # None => a.proc = p.pid
    /\ a.proc # None => a.proc \in 1..born /\ native[a.proc].of = h
    /\ ~a.here => a.pane = None /\ a.proc = None /\ ~a.rehitch

-----------------------------------------------------------------------------
(* Names.                                                                    *)

Live(a) == \/ a.pane # None \/ a.status \in {Booting, Active}
           \/ a.proc # None /\ native[a.proc].alive

Naming(h) ==
    LET a == agent[h] IN
    a.here =>
        /\ a.name \in Names
        /\ Live(a) => names[a.name] = h
        /\ a.to = None => a.from = None
        /\ a.to # None => /\ a.from \in Names /\ a.from # a.to /\ a.name \in {a.from, a.to}
                          /\ a.name = a.to /\ h \notin cut => names[a.to] = h

-----------------------------------------------------------------------------
(* Locks.                                                                    *)

OpLocks ==
    /\ \A h \in Ids : lock[h] = "op" =>
           \/ h = op.id /\ op.pc \in Holding \cup {"acquire", "release"}
           \/ op.pc = "free" /\ op.kind = "up" /\ h \in op.todo
    /\ op.pc \in Holding \/ (op.pc = "acquire" /\ op.kind = "rehitch") => lock[op.id] = "op"
OtherLocks ==
    /\ \A h \in Ids : lock[h] = "tick" <=> tick.pc \in TickSteps /\ tick.id = h
    /\ \A h \in Ids : lock[h] = "ren" <=> ren.pc \in RenSteps /\ ren.id = h

TickControl ==
    /\ tick.pc # "none" => tick.id \in Ids
    /\ tick.pc \in TickSteps => agent[tick.id].here /\ agent[tick.id].pane # None

RenControl ==
    /\ ren.pc # "none" => ren.id \in Ids /\ ren.to \in Names
    /\ ren.pc \in RenSteps /\ agent[ren.id].here =>
           LET a == agent[ren.id] IN
           /\ a.to = ren.to /\ a.from \in Names
           /\ ren.pc \in {"claim", "name"} => a.name = a.from
           /\ ren.pc = "name" => names[ren.to] = ren.id
           /\ ren.pc \in {"free", "clear"} => a.name = ren.to /\ names[ren.to] = ren.id
           /\ ren.pc = "clear" => names[a.from] # ren.id

-----------------------------------------------------------------------------
(* The command.                                                              *)

\* No pane that a record may name, and nothing that can be reached.
Bare(h) == \A p \in panes : native[p.pid].of = h => p.pid \in strays
Ended(h) == \A k \in Pids : native[k].of = h => ~Reachable(k)
Dead(k) == k # None => ~(native[k].alive /\ native[k].witnessed)

KindOf ==
    /\ op.pc = "none" => op = Quiet
    /\ op.pc \in {"mkdir", "name"} => op.kind \in {"hitch", "up"}
    /\ op.pc = "supersede" => op.kind = "up"
    /\ op.pc = "free" => op.kind \in {"up", "drop"}
    /\ op.pc = "prepare" => op.kind \in {"stopped", "rehitch"}
    /\ op.pc \in {"acquire", "remove_pane", "stop"} => op.kind \in {"rehitch", "drop", "down"}
    /\ op.pc \in {"next", "report"} => op.kind = "rehitch"
    /\ op.pc \in {"spawn", "register", "remove", "forget", "release"} \cup Startups => op.kind \in LaunchKinds
    /\ op.pc = "next_drop" => op.kind = "down"
    /\ op.pc \in Closings \cup {"release_name"} => op.kind \in {"drop", "down"}
    /\ op.pc \notin {"none", "next_drop"} => op.id \in Ids
    /\ op.pc \in Fronts \cup {"free", "prepare", "spawn", "register"} \/ op.kind = "rehitch" => op.name \in Names

\* A first launch has its id to itself.
First ==
    op.pc \in Fronts \/ (op.pc = "free" /\ op.kind = "up") =>
        /\ \A k \in Pids : native[k].of # op.id
        /\ \A n \in Names : names[n] # op.id
        /\ ren.id # op.id
        /\ agent[op.id].here <=> op.pc = "name"

\* The record that `up` supersedes is of no use to anyone.
Superseding ==
    op.pc = "free" /\ op.kind = "up" =>
        \E old \in Ids : /\ op.todo = {old} /\ lock[old] = "op" /\ old # op.id
                         /\ agent[old].here /\ ~Live(agent[old])
                         /\ agent[old].to # None => old \in cut

\* A restart or a drop ends what the record says before it writes the next one.
Ending ==
    LET a == agent[op.id] IN
    /\ op.pc \in {"acquire", "remove_pane", "stop", "next"} \cup Closings => a.here
    /\ op.pc = "release_name" \/ (op.pc = "free" /\ op.kind = "drop") => ~a.here
    /\ op.kind = "rehitch" /\ op.pc \in {"acquire", "remove_pane", "stop", "next"} =>
           /\ a.name = op.name /\ names[op.name] = op.id /\ ~a.rehitch
    /\ op.pc = "remove_pane" => op.pane = a.pane
    /\ op.pc \in {"remove_pane", "stop"} => op.pid \in {None, a.proc}
    /\ op.pc \in {"stop", "next"} \cup Closings => Bare(op.id)
    /\ op.pc \in {"next"} \cup Closings => Dead(a.proc)

\* A launch begins with nothing of its agent left, and what it started is its own.
Starts ==
    LET a == agent[op.id] IN
    /\ op.pc \in {"name", "spawn", "register"} =>
           /\ a.here /\ a.name = op.name /\ a.status = Starting /\ a.pane = None
           /\ a.from = None /\ a.to = None /\ ~a.rehitch /\ Dead(a.proc)
    /\ op.pc \in {"spawn", "register"} => names[op.name] = op.id
    /\ op.pc = "spawn" => Bare(op.id) /\ Ended(op.id)
    /\ op.pc = "register" =>
           /\ \A p \in panes : native[p.pid].of = op.id => p.pid \in strays \/ p.pid = op.pid
           /\ \A k \in Pids : native[k].of = op.id /\ Reachable(k) => k = op.pid
           /\ \A h \in Ids : agent[h].pane # op.pane
           /\ ~native[op.pid].witnessed

Registered ==
    LET a == agent[op.id] IN
    /\ op.pc \in {"register", "remove", "release"} \cup Startups =>
           /\ op.pid \in 1..born /\ op.pid \notin strays /\ native[op.pid].of = op.id
           /\ \A p \in panes : p.id = op.pane <=> p.pid = op.pid
    /\ op.pc \in {"register", "release", "remove", "forget"} \cup Startups => op.pane # None /\ Used(op.pane)
    /\ op.pc \in {"remove", "forget", "release"} \cup Startups => a.here /\ a.proc \in {None, op.pid}
    /\ op.pc \in {"remove", "forget"} \cup Startups \/ (op.pc = "release" /\ lock[op.id] = "op") =>
           a.pane = op.pane
    /\ op.pc \in {"server", "identity"} => a.proc = None
    /\ op.pc = "forget" => ~Present(op.pane)

\* What `down` has not dropped yet is on its list, or cannot be found any more.
Emptying ==
    /\ op.kind = "down" /\ op.pc # "none" => \A h \in Ids : agent[h].here =>
           h \in op.todo \/ ~Live(agent[h]) \/ (h = op.id /\ op.pc # "next_drop")
    /\ op.kind = "down" => \A h \in op.todo : agent[h].here
    /\ op.kind = "down" /\ op.pc # "next_drop" => op.id \notin op.todo

-----------------------------------------------------------------------------
(* Launches.                                                                 *)

Launches == op.kind \in LaunchKinds /\ op.pc \in Fronts \cup {"free", "prepare", "acquire", "remove_pane",
                                                           "stop", "next", "spawn"}
Carries == Launches /\ ~(op.pc = "prepare" /\ op.kind = "rehitch")
Rehitching == {h \in Ids : agent[h].rehitch}

Strayless == Launches => \A p \in panes : p.pid \in strays => ~native[p.pid].alive

\* Every launch was asked for by a command of its own.
Budget ==
    /\ gens <= born /\ IsFiniteSet(Rehitching)
    /\ born + Cardinality(Rehitching) + (IF Carries THEN 1 ELSE 0) <= ops

Holds == Server /\ (\A h \in Ids : Owning(h)) /\ OneNative /\ PaneIsRecorded /\ WitnessKept
Named == (\A h \in Ids : Naming(h)) /\ NoForgottenNameUncut
Others == OtherLocks /\ TickControl /\ RenControl
Command == KindOf /\ First /\ Superseding /\ Ending /\ Starts /\ Registered /\ Emptying /\ Strayless
IInv == Types /\ Holds /\ Named /\ OpLocks /\ Others /\ Command /\ Budget

-----------------------------------------------------------------------------
(* What the operators on records do.                                         *)

LEMMA NoneIsNone ==
    None \notin Ids /\ None \notin Names /\ None \notin Nat /\ None \notin Pids
    /\ None \notin PaneIds /\ MaxOps \in Nat
  BY RegistryAssumption DEF Pids, PaneIds, MaxNatives

LEMMA BornArePids ==
    ASSUME Types
    PROVE  born \in Nat /\ 1..born \subseteq Pids
  BY NoneIsNone DEF Types, TypeOK, Pids, MaxNatives

Keeps(a, b) ==
    /\ b \in Record
    /\ b.here = a.here /\ b.name = a.name /\ b.from = a.from /\ b.to = a.to /\ b.proc = a.proc
    /\ b.rehitch => a.rehitch
    /\ b.pane # a.pane => b.pane = None /\ ~Present(a.pane)
    /\ Live(b) => Live(a)

\* Failing a record keeps what it names.
LEMMA FailedKeeps ==
    ASSUME NEW a \in Record
    PROVE  Keeps(a, FailedBy(a)) /\ FailedBy(a).pane = a.pane
  BY DEF Keeps, FailedBy, Record, Live, Failed, Booting, Active

\* Only a pane that is not there is forgotten.
LEMMA ForgottenKeeps ==
    ASSUME NEW a \in Record, PaneClosed(a)
    PROVE  Keeps(a, Forgotten(a))
  BY DEF Keeps, Forgotten, FailedBy, Record, Live, Failed, Booting, Active, PaneClosed

LEMMA OverdueKeeps ==
    ASSUME NEW a \in Record
    PROVE  Keeps(a, Overdue(a)) /\ Overdue(a).pane = a.pane
<1>1. CASE Overdue(a) = a
  BY <1>1 DEF Keeps
<1>2. CASE Overdue(a) = [a EXCEPT !.status = Failed, !.verdict = TRUE]
  BY <1>2 DEF Keeps, Record, Live, Failed, Booting, Active
<1> QED  BY <1>1, <1>2 DEF Overdue

LEMMA DeadlinesKeep ==
    ASSUME NEW a \in Record
    PROVE  Keeps(a, Deadlines(a))
<1>1. Keeps(a, [a EXCEPT !.blocked = TRUE, !.boot = "none"]) /\ Keeps(a, a)
  BY DEF Keeps, Record, Live
<1>2. PaneClosed(a) => Keeps(a, Forgotten(a))
  BY ForgottenKeeps
<1>3. Deadlines(a) \in {a, FailedBy(a), Overdue(a), [a EXCEPT !.blocked = TRUE, !.boot = "none"]}
      \/ (PaneClosed(a) /\ Deadlines(a) = Forgotten(a))
  <2> DEFINE s == Capture(a)
  <2>1. CASE ~(a.status = Booting /\ a.pane # None /\ (a.boot = "past" \/ a.blocked))
    BY <2>1 DEF Deadlines
  <2>2. CASE a.status = Booting /\ a.pane # None /\ (a.boot = "past" \/ a.blocked)
    <3>1. Deadlines(a) = CASE s = "exited" -> FailedBy(a)
           [] s = "error" /\ PaneClosed(a) -> Forgotten(a)
           [] s = "error" /\ ~PaneClosed(a) -> Overdue(a)
           [] s = "prompt" /\ a.boot = "past" -> [a EXCEPT !.blocked = TRUE, !.boot = "none"]
           [] s = "starting" -> Overdue(a)
           [] OTHER -> a
      BY <2>2 DEF Deadlines
    <3> HIDE DEF s
    <3> QED  BY <3>1
  <2> QED  BY <2>1, <2>2
<1> QED  BY <1>1, <1>2, <1>3, FailedKeeps, OverdueKeeps

-----------------------------------------------------------------------------
(* Steps that leave panes and processes alone.                               *)

Shown == <<panes, gens, born, native, strays>>
StillLaunching ==
    \A p \in panes : op.pc = "register" /\ op.pid = p.pid => op'.pc = "register" /\ op'.pid = p.pid

\* A record that keeps its process, and its pane while that exists, loses nothing.
LEMMA PutHolds ==
    ASSUME Types, Holds, UNCHANGED Shown, NEW h \in Ids, NEW b \in Record,
           Put(h, b), b.here = agent[h].here, b.proc = agent[h].proc, ~b.here => ~b.rehitch,
           b.pane = agent[h].pane \/ (b.pane = None /\ ~Present(agent[h].pane)),
           StillLaunching
    PROVE  Holds'
<1>0. agent \in [Ids -> Record] /\ native \in [Pids -> Natives] /\ panes \subseteq Panes
  BY DEF Types, TypeOK
<1>1. agent' = [agent EXCEPT ![h] = b] /\ agent'[h] = b /\ \A i \in Ids \ {h} : agent'[i] = agent[i]
  BY <1>0 DEF Put
<1>2. Server' /\ OneNative'
  BY DEF Holds, Shown, Server, Used, OneNative, Reachable
<1>6. /\ panes' = panes /\ native' = native /\ strays' = strays /\ born' = born /\ gens' = gens
      /\ \A p \in panes : Used(p.id)' <=> Used(p.id)
  BY DEF Shown, Used
<1>7. \A i \in Ids : agent[i].pane # None => Used(agent[i].pane)
  BY DEF Holds, Owning
<1>8. ASSUME NEW i \in Ids, agent'[i].pane = agent[i].pane, agent'[i].pane # None
      PROVE  Used(agent[i].pane)'
  <2>1. Used(agent[i].pane)
    BY <1>7, <1>8
  <2> QED  BY <1>6, <1>8, <2>1 DEF Used
<1>3. ASSUME NEW i \in Ids
      PROVE  Owning(i)'
  <2>1. CASE i # h
    <3>1. Owning(i) /\ agent'[i] = agent[i]
      BY <1>1, <2>1 DEF Holds
    <3>2. agent'[i].pane # None => Used(agent[i].pane)'
      BY <1>8, <3>1
    <3> QED  BY <1>6, <3>1, <3>2 DEF Owning
  <2>2. CASE i = h
    <3>1. \A p \in panes : b.pane = p.id => agent[h].pane = p.id
      BY <1>0, NoneIsNone DEF Panes
    <3>3. Owning(h)
      BY DEF Holds
    <3>4. agent'[h].pane # None => Used(agent[h].pane)'
      BY <1>1, <1>8, <2>2, NoneIsNone
    <3>5. \A p \in panes' : agent'[h].pane = p.id =>
              /\ native'[p.pid].of = h /\ p.pid \notin strays'
              /\ agent'[h].proc # None => agent'[h].proc = p.pid
      BY <1>1, <3>1, <3>3 DEF Owning, Shown
    <3>6. /\ agent'[h].proc # None => agent'[h].proc \in 1..born' /\ native'[agent'[h].proc].of = h
          /\ ~agent'[h].here => agent'[h].pane = None /\ agent'[h].proc = None /\ ~agent'[h].rehitch
      BY <1>1, <3>3 DEF Owning, Shown
    <3> QED  BY <2>2, <3>4, <3>5, <3>6 DEF Owning
  <2> QED  BY <2>1, <2>2
<1>4. PaneIsRecorded'
  <2> SUFFICES ASSUME NEW p \in panes, p.pid \notin strays, ~(op'.pc = "register" /\ op'.pid = p.pid),
                      NEW i, i = native[p.pid].of
               PROVE  agent'[i].here /\ agent'[i].pane = p.id
    BY DEF PaneIsRecorded, Shown, StillLaunching
  <2>1. agent[i].here /\ agent[i].pane = p.id
    BY DEF Holds, PaneIsRecorded, StillLaunching
  <2>2. i \in Ids
    BY <1>0 DEF Holds, Server, Types, TypeOK
  <2>3. Present(p.id)
    BY DEF Present
  <2>4. CASE i # h
    BY <1>1, <2>1, <2>2, <2>4
  <2>5. CASE i = h
    BY <1>1, <2>1, <2>3, <2>5
  <2> QED  BY <2>4, <2>5
<1>5. WitnessKept'
  <2>1. \A k \in Pids : native[k].alive => k \in 1..born
    BY <1>0 DEF Holds, Server, Types, TypeOK, Pids
  <2>2. \A k \in Pids : native[k].alive => native[k].of \in Ids
    BY <2>1 DEF Holds, Server
  <2> QED  BY <1>1, <2>2 DEF Holds, Shown, WitnessKept
<1> QED  BY <1>2, <1>3, <1>4, <1>5 DEF Holds

\* A record that changes nothing about its names.
LEMMA PutNamed ==
    ASSUME Types, Named, UNCHANGED <<names, native, cut>>, NEW h \in Ids, NEW b, Put(h, b), Keeps(agent[h], b)
    PROVE  Named'
<1>1. agent'[h] = b /\ \A i \in Ids \ {h} : agent'[i] = agent[i]
  BY DEF Types, TypeOK, Put
<1>2. ASSUME NEW i \in Ids
      PROVE  Naming(i)'
  <2>1. CASE i # h
    BY <1>1, <1>2, <2>1 DEF Named, Naming, Live
  <2>2. CASE i = h
    BY <1>1, <2>2, ZenonT(40) DEF Named, Naming, Live, Keeps
  <2> QED  BY <2>1, <2>2
<1>3. NoForgottenNameUncut'
  <2>1. \A n \in Names : names[n] \in Ids \cup {None}
    BY DEF Types, TypeOK
  <2> QED  BY <1>1, <2>1 DEF Named, NoForgottenNameUncut, Knows, Keeps
<1> QED  BY <1>2, <1>3 DEF Named

\* Names change for one agent only.
NamesOf(h) ==
    /\ names' \in [Names -> Ids \cup {None}]
    /\ \A n \in Names : names'[n] # names[n] => {names[n], names'[n]} \subseteq {None, h}

\* Whoever takes the lock first finishes the rename that its last holder left.
LEMMA RenamedIs ==
    ASSUME Types, NEW h \in Ids, agent[h].here, Naming(h), names' = RenamedNames(h, agent[h])
    PROVE  LET a == agent[h]
               b == Renamed(h, a)
           IN /\ b \in Record /\ b.from = None /\ b.to = None /\ b.name \in Names
              /\ b.here /\ b.pane = a.pane /\ b.proc = a.proc /\ b.status = a.status /\ b.rehitch = a.rehitch
              /\ names[a.name] = h => names'[b.name] = h
              /\ NamesOf(h)
              /\ NoForgottenNameUncut => \A n \in Names : names'[n] = h => n = b.name \/ h \in cut
<1> DEFINE a == agent[h]  b == Renamed(h, a)
<1>0. a \in Record /\ names \in [Names -> Ids \cup {None}] /\ None \notin Names /\ None \notin Ids
  BY NoneIsNone DEF Types, TypeOK
<1>1. CASE a.to = None
  <2>1. b = a /\ names' = names
    BY <1>1 DEF Renamed, RenamedNames
  <2> QED  BY <1>0, <1>1, <2>1 DEF Naming, NamesOf, NoForgottenNameUncut, Knows
<1>2. CASE a.to # None /\ MayClaim(h, a)
  <2>1. /\ b = [a EXCEPT !.name = a.to, !.from = None, !.to = None]
        /\ names' = [n \in Names |-> IF n = a.to THEN h
                          ELSE IF n = a.from /\ names[n] = h THEN None ELSE names[n]]
    BY <1>2 DEF Renamed, RenamedNames
  <2>2. a.to \in Names /\ names[a.to] \in {None, h}
    BY <1>0, <1>2 DEF Record, MayClaim
  <2> HIDE DEF b
  <2>3. b \in Record /\ b.from = None /\ b.to = None /\ b.name = a.to
        /\ b.here /\ b.pane = a.pane /\ b.proc = a.proc /\ b.status = a.status /\ b.rehitch = a.rehitch
    BY <1>0, <2>1, <2>2 DEF Record
  <2>4. names'[a.to] = h /\ NamesOf(h)
    BY <1>0, <2>1, <2>2 DEF NamesOf
  <2>5. NoForgottenNameUncut => \A n \in Names : names'[n] = h => n = a.to \/ h \in cut
    BY <1>0, <1>2, <2>1, <2>2 DEF NoForgottenNameUncut, Knows, Naming
  <2> QED  BY <2>2, <2>3, <2>4, <2>5 DEF b
<1>3. CASE a.to # None /\ ~MayClaim(h, a)
  <2>1. b = [a EXCEPT !.from = None, !.to = None] /\ names' = names
    BY <1>3 DEF Renamed, RenamedNames
  <2> HIDE DEF b
  <2>2. b \in Record /\ b.from = None /\ b.to = None /\ b.name = a.name
        /\ b.here /\ b.pane = a.pane /\ b.proc = a.proc /\ b.status = a.status /\ b.rehitch = a.rehitch
    BY <1>0, <2>1 DEF Record
  <2> QED  BY <1>0, <1>3, <2>1, <2>2 DEF b, Naming, NamesOf, MayClaim, NoForgottenNameUncut, Knows
<1> QED  BY <1>1, <1>2, <1>3

LEMMA TakenNamed ==
    ASSUME Types, Named, UNCHANGED <<native, cut>>, NEW h \in Ids, agent[h].here,
           names' = RenamedNames(h, agent[h]), NEW c \in Record, Put(h, c), c.here,
           c.name = Renamed(h, agent[h]).name, Live(c) => Live(agent[h]),
           \/ c.from = None /\ c.to = None
           \/ c.from = c.name /\ c.to \in Names /\ c.to # c.name
    PROVE  Named' /\ NamesOf(h)
<1> DEFINE b == Renamed(h, agent[h])
<1>0. None \notin Ids /\ None \notin Names
  BY NoneIsNone
<1>1. agent'[h] = c /\ \A i \in Ids \ {h} : agent'[i] = agent[i]
  BY DEF Types, TypeOK, Put
<1>2. /\ b.name \in Names
      /\ names[agent[h].name] = h => names'[b.name] = h
      /\ NamesOf(h)
      /\ \A n \in Names : names'[n] = h => n = b.name \/ h \in cut
  BY RenamedIs DEF Named
<1> HIDE DEF b
<1>3. c.name = b.name
  BY DEF b
<1>4. ASSUME NEW i \in Ids \ {h}, NEW n \in Names
      PROVE  names'[n] = i <=> names[n] = i
  BY <1>0, <1>2, <1>4 DEF NamesOf
<1>5. ASSUME NEW i \in Ids
      PROVE  Naming(i)'
  <2>1. CASE i # h
    <3>1. Naming(i) /\ agent'[i] = agent[i] /\ Live(agent[i])' = Live(agent[i])
      BY <1>1, <2>1 DEF Named, Live
    <3>2. agent[i] \in Record
      BY DEF Types, TypeOK
    <3>3. agent[i].to \in Names \cup {None}
      BY <3>2 DEF Record
    <3> QED  BY <1>4, <2>1, <3>1, <3>3 DEF Naming
  <2>2. CASE i = h
    <3>1. Live(agent[h])' => Live(agent[h])
      BY <1>1 DEF Live
    <3>2. Naming(h)
      BY DEF Named
    <3> QED  BY <1>0, <1>1, <1>2, <1>3, <2>2, <3>1, <3>2 DEF Naming
  <2> QED  BY <2>1, <2>2
<1>6. NoForgottenNameUncut'
  <2> SUFFICES ASSUME NEW n \in Names, NEW i \in Ids, names'[n] = i, agent'[i].here
               PROVE  n \in {agent'[i].name, agent'[i].from, agent'[i].to} \/ i \in cut
    BY <1>2 DEF NoForgottenNameUncut, Knows, NamesOf
  <2>1. CASE i # h
    BY <1>0, <1>1, <1>4, <2>1 DEF Named, NoForgottenNameUncut, Knows
  <2>2. CASE i = h
    BY <1>1, <1>2, <1>3, <2>2
  <2> QED  BY <2>1, <2>2
<1> QED  BY <1>2, <1>5, <1>6 DEF Named

-----------------------------------------------------------------------------
(* Steps after which there is less to be reached.                            *)

Fewer ==
    /\ \A q \in panes' : \E p \in panes : q.id = p.id /\ q.pid = p.pid
    /\ \A p, q \in panes' : p.id = q.id \/ p.pid = q.pid => p = q
    /\ \A k \in Pids : /\ native'[k].of = native[k].of /\ native'[k].gen = native[k].gen
                       /\ (native'[k].witnessed => native[k].witnessed)
                       /\ (native'[k].alive => native[k].alive)

LEMMA FewerUsed ==
    ASSUME Types, Fewer, gens' = gens, born' = born, NEW id
    PROVE  Used(id)' <=> Used(id)
<1>2. \A k \in 1..born : native'[k].gen = native[k].gen
  BY BornArePids DEF Fewer
<1>3. {k \in 1..born' : native'[k].gen = id.gen} = {k \in 1..born : native[k].gen = id.gen}
  BY <1>2
<1> QED  BY <1>3 DEF Used

LEMMA FewerHolds ==
    ASSUME Types, Holds, Fewer, UNCHANGED <<agent, gens, born, strays>>,
           op.pc = "register" => op'.pc = "register" /\ op'.pid = op.pid
    PROVE  Holds'
<1>0. /\ agent \in [Ids -> Record] /\ panes \subseteq Panes
      /\ strays \subseteq 1..born /\ \A p \in panes : p.pid \in 1..born
  BY DEF Types, TypeOK
<1>1. \A k \in 1..born : k \in Pids
  BY BornArePids
<1>2. \A k \in Pids : Reachable(k)' => Reachable(k)
  BY DEF Fewer, Reachable
<1>3. Server'
  <2>1. \A p \in panes' : Used(p.id)'
    BY FewerUsed DEF Fewer, Holds, Server
  <2>2. \A k \in 1..born : native'[k].of \in Ids /\ native'[k].gen \in 1..gens
    BY <1>1 DEF Fewer, Holds, Server
  <2>3. \A k \in Pids : k > born => ~native'[k].alive /\ ~native'[k].witnessed /\ native'[k].of = None
    BY DEF Fewer, Holds, Server
  <2>4. \A k \in strays : ~native'[k].witnessed
    BY <1>0, <1>1 DEF Fewer, Holds, Server
  <2> QED  BY <2>1, <2>2, <2>3, <2>4 DEF Server, Fewer
<1>4. ASSUME NEW h \in Ids
      PROVE  Owning(h)'
  <2>1. Owning(h) /\ (Used(agent[h].pane)' <=> Used(agent[h].pane))
    BY FewerUsed DEF Holds
  <2>2. \A q \in panes' : agent[h].pane = q.id => /\ native'[q.pid].of = h /\ q.pid \notin strays
                                                  /\ agent[h].proc # None => agent[h].proc = q.pid
    BY <1>0, <1>1, <2>1 DEF Owning, Fewer
  <2>3. agent[h].proc # None => native'[agent[h].proc].of = h
    BY <1>1, <2>1 DEF Owning, Fewer
  <2> QED  BY <2>1, <2>2, <2>3 DEF Owning
<1>5. OneNative'
  BY <1>2 DEF OneNative, Holds, Fewer
<1>6. PaneIsRecorded'
  <2> SUFFICES ASSUME NEW q \in panes'
               PROVE  \/ q.pid \in strays
                      \/ op'.pc = "register" /\ op'.pid = q.pid
                      \/ agent[native'[q.pid].of].here /\ agent[native'[q.pid].of].pane = q.id
    BY DEF PaneIsRecorded
  <2>1. PICK p \in panes : q.id = p.id /\ q.pid = p.pid
    BY DEF Fewer
  <2>2. native'[q.pid].of = native[p.pid].of
    BY <1>0, <1>1, <2>1 DEF Fewer
  <2> QED  BY <2>1, <2>2 DEF Holds, PaneIsRecorded
<1>7. WitnessKept'
  BY DEF WitnessKept, Holds, Fewer
<1> QED  BY <1>3, <1>4, <1>5, <1>6, <1>7 DEF Holds

LEMMA FewerLive ==
    ASSUME Types, Fewer, NEW a \in Record
    PROVE  Live(a)' => Live(a)
  BY NoneIsNone DEF Live, Fewer, Record

LEMMA FewerNamed ==
    ASSUME Types, Named, Fewer, UNCHANGED <<agent, names, cut>>
    PROVE  Named'
<1>1. \A h \in Ids : Live(agent[h])' => Live(agent[h])
  BY FewerLive DEF Types, TypeOK
<1>2. NoForgottenNameUncut'
  BY DEF NoForgottenNameUncut, Named, Knows
<1> QED  BY <1>1, <1>2 DEF Named, Naming

-----------------------------------------------------------------------------
(* What the others do leaves the command's part alone, and the reverse.      *)

\* Someone else changes a record that the command does not hold.
LEMMA BesideCommand ==
    ASSUME Types, OpLocks, Command, UNCHANGED <<panes, gens, born, native, strays, cut, op>>, NEW h \in Ids, lock[h] # "op",
           NEW c \in Record, Put(h, c), c.here = agent[h].here, agent[h].here \/ h = ren.id, c.proc = agent[h].proc,
           c.pane \in {agent[h].pane, None}, Live(c) => Live(agent[h]), NamesOf(h),
           \A i \in Ids : lock'[i] = "op" <=> lock[i] = "op",
           ren'.id \in {ren.id, None}
    PROVE  Command' /\ OpLocks'
<1>0. /\ agent'[h] = c /\ \A i \in Ids \ {h} : agent'[i] = agent[i]
      /\ None \notin Ids /\ op \in Commands
      /\ \A k \in Pids : Reachable(k)' = Reachable(k)
      /\ \A n \in Names, i \in Ids \ {h} : names'[n] = i <=> names[n] = i
  BY NoneIsNone DEF Types, TypeOK, Put, Reachable, NamesOf
<1>1. /\ op.pc \in Holding \/ (op.pc = "acquire" /\ op.kind = "rehitch") => op.id # h
      /\ op.pc = "release" /\ lock[op.id] = "op" => op.id # h
      /\ op.pc # "none" /\ op.pc # "next_drop" => op.id \in Ids
  BY DEF OpLocks, Command, KindOf
<1>2. OpLocks'
  <2>1. op.pc \in Holding \/ (op.pc = "acquire" /\ op.kind = "rehitch") => op.id \in Ids /\ lock[op.id] = "op"
    BY <1>1 DEF OpLocks, Holding, Startups, Closings
  <2> QED  BY <2>1 DEF OpLocks
<1>3. KindOf'
  BY DEF KindOf, Command
<1>4. First'
  BY <1>0, <1>1 DEF Command, First, Fronts, Holding, KindOf
<1>5. Superseding'
  <2>1. CASE ~(op.pc = "free" /\ op.kind = "up")
    BY <2>1 DEF Superseding
  <2>2. CASE op.pc = "free" /\ op.kind = "up"
    <3>1. PICK old \in Ids : /\ op.todo = {old} /\ lock[old] = "op" /\ old # op.id
                             /\ agent[old].here /\ ~Live(agent[old])
                             /\ agent[old].to # None => old \in cut
      BY <2>2 DEF Command, Superseding
    <3>2. old # h
      BY <3>1 DEF Live
    <3>3. agent'[old] = agent[old]
      BY <1>0, <3>2
    <3>4. ~Live(agent[old])'
      BY <3>1, <3>3 DEF Live
    <3> QED  BY <2>2, <3>1, <3>3, <3>4 DEF Superseding, Live
  <2> QED  BY <2>1, <2>2
<1>6. Ending'
  <2>1. op.pc \in {"acquire", "remove_pane", "stop", "next"} \cup Closings => agent'[op.id].here
    BY <1>0, <1>1 DEF Command, Ending, Closings, KindOf
  <2>0. op.pc = "release_name" \/ (op.pc = "free" /\ op.kind = "drop") => ~agent'[op.id].here
    BY <1>0, <1>1 DEF Command, Ending
  <2>2. CASE op.kind # "rehitch" /\ op.pc = "acquire"
    BY <2>0, <2>1, <2>2 DEF Ending, Closings
  <2>3. CASE op.pc \in {"remove_pane", "stop", "next"} \cup Closings \/ (op.kind = "rehitch" /\ op.pc = "acquire")
    <3>1. op.id \in Ids \ {h} /\ agent'[op.id] = agent[op.id]
      BY <1>0, <1>1, <2>3 DEF Closings, Holding
    <3>2. op.kind = "rehitch" /\ op.pc \in {"acquire", "remove_pane", "stop", "next"} => names'[op.name] = op.id
      <4> SUFFICES ASSUME op.kind = "rehitch", op.pc \in {"acquire", "remove_pane", "stop", "next"}
                   PROVE  names'[op.name] = op.id
        OBVIOUS
      <4>1. names[op.name] = op.id
        BY <3>1 DEF Command, Ending
      <4>2. op.name \in Names
        BY DEF Command, KindOf
      <4> QED  BY <1>0, <3>1, <4>1, <4>2
    <3> QED  BY <2>0, <2>1, <3>1, <3>2 DEF Command, Ending, Bare, Dead
  <2>4. CASE op.pc \notin {"acquire", "remove_pane", "stop", "next"} \cup Closings
    BY <2>0, <2>4 DEF Ending, Closings
  <2> QED  BY <2>2, <2>3, <2>4
<1>7. Starts'
  <2>1. CASE op.pc \in {"name", "spawn", "register"}
    <3>1. op.id \in Ids \ {h} /\ agent'[op.id] = agent[op.id]
      BY <1>0, <1>1, <2>1 DEF Holding
    <3>2. op.pc \in {"spawn", "register"} => op.name \in Names /\ names'[op.name] = op.id
      BY <1>0, <3>1 DEF Command, KindOf, Starts
    <3>3. op.pc = "register" => \A i \in Ids : agent'[i].pane # op.pane
      BY <1>0 DEF Command, Starts, Registered
    <3>4. Ended(op.id) => Ended(op.id)'
      BY <1>0 DEF Ended
    <3> QED  BY <1>0, <3>1, <3>2, <3>3, <3>4 DEF Command, Starts, Bare, Dead
  <2>2. CASE op.pc \notin {"name", "spawn", "register"}
    BY <2>2 DEF Starts
  <2> QED  BY <2>1, <2>2
<1>8. Registered'
  BY <1>0, <1>1 DEF Command, Registered, Used, Present, Holding, Startups, OpLocks, KindOf
<1>9. Emptying'
  BY <1>0 DEF Command, Emptying, Live, Commands
<1>10. Strayless'
  BY DEF Command, Strayless, Launches
<1> QED  BY <1>2, <1>3, <1>4, <1>5, <1>6, <1>7, <1>8, <1>9, <1>10 DEF Command

\* The native programs and the server leave the command less to find.
LEMMA FewerCommand ==
    ASSUME Types, OpLocks, Command, Fewer, UNCHANGED <<agent, names, lock, gens, born, strays, cut, op, ren>>
    PROVE  Command' /\ OpLocks'
<1>0. /\ agent \in [Ids -> Record] /\ op \in Commands /\ 1..born \subseteq Pids
      /\ \A p \in panes : p.pid \in 1..born
      /\ \A k \in Pids : Reachable(k)' => Reachable(k)
      /\ op.pc \notin {"none", "next_drop"} => op.id \in Ids
  BY BornArePids DEF Types, TypeOK, Reachable, Fewer, Command, KindOf
<1>1. ASSUME NEW q \in panes'
      PROVE  \E p \in panes : /\ q.id = p.id /\ q.pid = p.pid /\ native'[q.pid].of = native[p.pid].of
                              /\ (native'[q.pid].alive => native[p.pid].alive)
  BY <1>0, <1>1 DEF Fewer
<1>2. \A h \in Ids : Bare(h) => Bare(h)'
  BY <1>1 DEF Bare
<1>3. \A h \in Ids : Ended(h) => Ended(h)'
  BY <1>0 DEF Ended, Fewer
<1>4. \A h \in Ids : Dead(agent[h].proc) => Dead(agent[h].proc)'
  BY <1>0, NoneIsNone DEF Dead, Fewer, Record
<1>5. \A h \in Ids : Live(agent[h])' => Live(agent[h])
  BY <1>0, FewerLive
<1>6. KindOf' /\ OpLocks'
  BY DEF KindOf, OpLocks, Command
<1>7. First'
  BY DEF First, Command, Fewer
<1>8. Superseding'
  BY <1>5 DEF Superseding, Command
<1>9. Ending'
  BY <1>0, <1>2, <1>4 DEF Ending, Command, Closings
<1>10. Starts'
  <2>1. CASE op.pc = "register"
    <3>1. \A q \in panes' : native'[q.pid].of = op.id => q.pid \in strays \/ q.pid = op.pid
      BY <1>1, <2>1 DEF Command, Starts
    <3>2. \A k \in Pids : native'[k].of = op.id /\ Reachable(k)' => k = op.pid
      BY <1>0, <2>1 DEF Command, Starts, Fewer
    <3>3. op.pid \in Pids
      BY <1>0, <2>1 DEF Command, Registered
    <3>4. ~native'[op.pid].witnessed
      BY <2>1, <3>3 DEF Command, Starts, Fewer
    <3> QED  BY <1>0, <1>4, <2>1, <3>1, <3>2, <3>4 DEF Command, Starts
  <2>2. CASE op.pc \in {"name", "spawn"}
    BY <1>0, <1>2, <1>3, <1>4, <2>2 DEF Command, Starts
  <2>3. CASE op.pc \notin {"name", "spawn", "register"}
    BY <2>3 DEF Starts
  <2> QED  BY <2>1, <2>2, <2>3
<1>11. Registered'
  <2>1. Used(op.pane)' <=> Used(op.pane)
    BY FewerUsed
  <2>2. op.pid \in 1..born => native'[op.pid].of = native[op.pid].of
    BY <1>0 DEF Fewer
  <2>3. Present(op.pane)' => Present(op.pane)
    BY <1>1 DEF Present
  <2>4. (\A p \in panes : p.id = op.pane <=> p.pid = op.pid) => (\A p \in panes' : p.id = op.pane <=> p.pid = op.pid)
    BY <1>1
  <2> QED  BY <2>1, <2>2, <2>3, <2>4 DEF Registered, Command
<1>12. Emptying'
  BY <1>5 DEF Emptying, Command
<1>13. Strayless'
  BY <1>1 DEF Strayless, Launches, Command
<1> QED  BY <1>6, <1>7, <1>8, <1>9, <1>10, <1>11, <1>12, <1>13 DEF Command

\* The command changes a record that neither of the others holds.
LEMMA BesideOthers ==
    ASSUME Types, Others, UNCHANGED <<tick, ren>>, NEW h \in Ids, lock[h] \in {"free", "op"},
           NEW c, Put(h, c) \/ agent' = agent, NamesOf(h),
           \A i \in Ids : lock'[i] = lock[i] \/ {lock[i], lock'[i]} \subseteq {"free", "op"}
    PROVE  Others'
<1>0. \A i \in Ids \ {h} : agent'[i] = agent[i]
  BY DEF Types, TypeOK, Put
<1>1. \A n \in Names, i \in Ids \ {h} : names'[n] = i <=> names[n] = i
  BY NoneIsNone DEF NamesOf
<1>2. OtherLocks'
  BY DEF Others, OtherLocks
<1>3. TickControl'
  <2>1. tick.pc \in TickSteps => tick.id \in Ids /\ lock[tick.id] = "tick"
    BY DEF Others, OtherLocks, TickControl, TickSteps
  <2> QED  BY <1>0, <2>1 DEF Others, TickControl
<1>4. RenControl'
  <2>1. ren.pc \in RenSteps => ren.id \in Ids \ {h} /\ ren.to \in Names
    BY DEF Others, OtherLocks, RenControl, RenSteps
  <2>2. CASE ren.pc \in RenSteps /\ agent[ren.id].here
    <3>1. agent'[ren.id] = agent[ren.id] /\ ren.id # None
      BY <1>0, <2>1, <2>2, NoneIsNone
    <3> QED  BY <1>1, <2>1, <2>2, <3>1 DEF Others, RenControl
  <2>3. CASE ~(ren.pc \in RenSteps /\ agent[ren.id].here)
    BY <1>0, <2>1, <2>3 DEF Others, RenControl
  <2> QED  BY <2>2, <2>3
<1> QED  BY <1>2, <1>3, <1>4 DEF Others

LEMMA FewerRehitching ==
    ASSUME Types, Budget, Rehitching' \subseteq Rehitching, gens' = gens, born' = born, ops' \in Nat, ops' >= ops,
           Carries' => Carries
    PROVE  Budget'
<1>1. IsFiniteSet(Rehitching) /\ IsFiniteSet(Rehitching') /\ Cardinality(Rehitching') <= Cardinality(Rehitching)
      /\ Cardinality(Rehitching) \in Nat /\ Cardinality(Rehitching') \in Nat
  BY FS_Subset, FS_CardinalityType DEF Budget
<1>2. born \in Nat /\ ops \in Nat /\ gens \in Nat
  BY NoneIsNone DEF Types, TypeOK, MaxNatives
<1> QED  BY <1>1, <1>2 DEF Budget

LEMMA RehitchingGrows ==
    ASSUME Types, Budget, NEW h, Rehitching' \subseteq Rehitching \cup {h}, gens' = gens, born' = born, ops' = ops + 1,
           Carries' = Carries
    PROVE  Budget'
<1>1. IsFiniteSet(Rehitching) /\ Cardinality(Rehitching) \in Nat
  BY FS_CardinalityType DEF Budget
<1>2. /\ IsFiniteSet(Rehitching \cup {h}) /\ Cardinality(Rehitching \cup {h}) \in Nat
      /\ Cardinality(Rehitching \cup {h}) <= Cardinality(Rehitching) + 1
  BY <1>1, FS_AddElement, FS_CardinalityType
<1>3. /\ IsFiniteSet(Rehitching') /\ Cardinality(Rehitching') \in Nat
      /\ Cardinality(Rehitching') <= Cardinality(Rehitching \cup {h})
  BY <1>2, FS_Subset, FS_CardinalityType
<1>4. born \in Nat /\ ops \in Nat /\ gens \in Nat
  BY NoneIsNone DEF Types, TypeOK, MaxNatives
<1> QED  BY <1>1, <1>2, <1>3, <1>4 DEF Budget

-----------------------------------------------------------------------------
(* Ticks, renames and requests: whoever takes a free lock.                   *)

\* The record as its new holder first sees it.
LEMMA TakenIs ==
    ASSUME IInv, NEW h \in Ids, agent[h].here, names' = RenamedNames(h, agent[h])
    PROVE  LET b == Deadlines(Renamed(h, agent[h])) IN
           /\ b \in Record /\ b.here /\ b.from = None /\ b.to = None /\ b.name \in Names
           /\ b.name = Renamed(h, agent[h]).name /\ b.proc = agent[h].proc
           /\ b.rehitch => agent[h].rehitch
           /\ b.pane = agent[h].pane \/ (b.pane = None /\ ~Present(agent[h].pane))
           /\ Live(b) => Live(agent[h])
           /\ NamesOf(h)
<1> DEFINE r == Renamed(h, agent[h])  b == Deadlines(r)
<1>1. /\ r \in Record /\ r.from = None /\ r.to = None /\ r.name \in Names
      /\ r.here /\ r.pane = agent[h].pane /\ r.proc = agent[h].proc /\ r.status = agent[h].status
      /\ r.rehitch = agent[h].rehitch /\ NamesOf(h)
  BY RenamedIs DEF IInv, Named
<1>2. Live(r) => Live(agent[h])
  BY <1>1 DEF Live
<1>3. Keeps(r, b)
  BY <1>1, DeadlinesKeep
<1> HIDE DEF b
<1>4. b \in Record /\ b.here /\ b.from = None /\ b.to = None /\ b.name = r.name /\ b.proc = agent[h].proc
      /\ (b.rehitch => agent[h].rehitch) /\ (Live(b) => Live(r))
      /\ (b.pane = agent[h].pane \/ (b.pane = None /\ ~Present(agent[h].pane)))
  BY <1>1, <1>3 DEF Keeps
<1> QED  BY <1>1, <1>2, <1>4 DEF b

LEMMA TakenKeeps ==
    ASSUME IInv, NEW h \in Ids, lock[h] = "free", agent[h].here, NEW c \in Record, Put(h, c),
           names' = RenamedNames(h, agent[h]), UNCHANGED <<world, op>>,
           c.here, c.name = Renamed(h, agent[h]).name, c.proc = agent[h].proc,
           c.pane = agent[h].pane \/ (c.pane = None /\ ~Present(agent[h].pane)),
           Live(c) => Live(agent[h]),
           \/ c.from = None /\ c.to = None
           \/ c.from = c.name /\ c.to \in Names /\ c.to # c.name,
           \A i \in Ids : lock'[i] = "op" <=> lock[i] = "op",
           ren'.id \in {ren.id, None}
    PROVE  Holds' /\ Named' /\ OpLocks' /\ Command' /\ NamesOf(h)
<1>1. Named' /\ NamesOf(h)
  BY TakenNamed DEF IInv, world
<1>2. Holds'
  <2>1. UNCHANGED Shown /\ StillLaunching
    BY DEF world, Shown, StillLaunching
  <2> QED  BY <2>1, PutHolds DEF IInv
<1>3. OpLocks' /\ Command'
  BY <1>1, BesideCommand DEF IInv, world
<1> QED  BY <1>1, <1>2, <1>3

LEMMA ListedIsHere ==
    ASSUME NEW h \in Listed
    PROVE  h \in Ids /\ agent[h].here /\ names[agent[h].name] = h
  BY DEF Listed

\* What a step of one of the others leaves of the types.
LEMMA PutTypes ==
    ASSUME Types, NEW h \in Ids, NEW c \in Record, Put(h, c) \/ agent' = agent, NamesOf(h) \/ names' = names,
           UNCHANGED <<world, op>>,
           lock' \in [Ids -> {"free", "op", "tick", "ren"}],
           tick' \in Ticks, ren' \in Renames, ops' \in 0..MaxOps, mishaps' \in 0..MaxMishaps
    PROVE  Types'
<1>1. agent' \in [Ids -> Record]
  BY DEF Types, TypeOK, Put
<1>2. names' \in [Names -> Ids \cup {None}]
  BY DEF Types, TypeOK, NamesOf
<1> QED  BY <1>1, <1>2 DEF Types, TypeOK, world

LEMMA OpsGrow ==
    ASSUME Types
    PROVE  /\ ops \in 0..MaxOps /\ ops \in Nat /\ (ops < MaxOps => ops + 1 \in 0..MaxOps /\ ops + 1 \in Nat)
           /\ mishaps \in 0..MaxMishaps /\ (mishaps < MaxMishaps => mishaps + 1 \in 0..MaxMishaps)
  BY RegistryAssumption DEF Types, TypeOK

LEMMA CarriesSame ==
    ASSUME op' = op
    PROVE  Carries' = Carries
  BY DEF Carries, Launches

LEMMA RehitchingPut ==
    ASSUME Types, NEW h \in Ids, NEW c, Put(h, c)
    PROVE  /\ (c.rehitch => agent[h].rehitch) => Rehitching' \subseteq Rehitching
           /\ Rehitching' \subseteq Rehitching \cup {h}
  BY DEF Types, TypeOK, Put, Rehitching

\* A lock that is free is neither the tick's nor the rename's.
LEMMA FreeLock ==
    ASSUME IInv, NEW h \in Ids, lock[h] = "free"
    PROVE  /\ lock \in [Ids -> {"free", "op", "tick", "ren"}]
           /\ ~(tick.pc \in TickSteps /\ tick.id = h) /\ ~(ren.pc \in RenSteps /\ ren.id = h)
  BY DEF IInv, Others, OtherLocks, Types, TypeOK

LEMMA RequestRehitchKeeps ==
    ASSUME IInv, NEW h \in Ids, RequestRehitch(h)
    PROVE  IInv'
<1> DEFINE b == Deadlines(Renamed(h, agent[h]))  c == [b EXCEPT !.rehitch = TRUE]
<1>1. /\ agent[h].here /\ lock[h] = "free" /\ ops < MaxOps /\ Put(h, c) /\ names' = RenamedNames(h, agent[h])
      /\ ops' = ops + 1 /\ UNCHANGED <<lock, world, op, tick, ren, mishaps>>
  BY ListedIsHere DEF RequestRehitch
<1>2. /\ b \in Record /\ b.here /\ b.from = None /\ b.to = None
      /\ b.name = Renamed(h, agent[h]).name /\ b.proc = agent[h].proc
      /\ b.pane = agent[h].pane \/ (b.pane = None /\ ~Present(agent[h].pane))
      /\ Live(b) => Live(agent[h])
  BY <1>1, TakenIs
<1> HIDE DEF b
<1>3. /\ c \in Record /\ c.here /\ c.from = None /\ c.to = None /\ c.name = b.name /\ c.proc = b.proc
      /\ c.pane = b.pane /\ c.status = b.status
  BY <1>2 DEF Record
<1>4. Live(c) => Live(b)
  BY <1>3 DEF Live
<1> HIDE DEF c
<1>5. Holds' /\ Named' /\ OpLocks' /\ Command' /\ NamesOf(h)
  BY <1>1, <1>2, <1>3, <1>4, TakenKeeps
<1>6. Types'
  BY <1>1, <1>3, <1>5, PutTypes, OpsGrow DEF IInv, Types, TypeOK
<1>7. Others'
  BY <1>1, <1>5, BesideOthers DEF IInv
<1>8. Budget'
  <2>1. Rehitching' \subseteq Rehitching \cup {h} /\ Carries' = Carries
    BY <1>1, RehitchingPut, CarriesSame DEF IInv
  <2>2. born' = born /\ gens' = gens /\ ops' = ops + 1
    BY <1>1 DEF world
  <2> QED  BY <2>1, <2>2, RehitchingGrows DEF IInv
<1> QED  BY <1>5, <1>6, <1>7, <1>8 DEF IInv

LEMMA TickBeginKeeps ==
    ASSUME IInv, NEW h \in Ids, TickBegin(h)
    PROVE  IInv'
<1> DEFINE b == Deadlines(Renamed(h, agent[h]))
           c == IF b.status = Failed /\ b.pane # None /\ PaneClosed(b) THEN Forgotten(b) ELSE b
<1>1. /\ agent[h].here /\ lock[h] = "free" /\ Put(h, c) /\ names' = RenamedNames(h, agent[h])
      /\ UNCHANGED <<world, op, ren, ops, mishaps>> /\ tick.pc = "none"
      /\ \/ UNCHANGED <<tick, lock>>
         \/ /\ c.pane # None
            /\ tick' = [Rest EXCEPT !.pc = "observe", !.id = h] /\ lock' = [lock EXCEPT ![h] = "tick"]
  BY ListedIsHere DEF TickBegin
<1>2. /\ b \in Record /\ b.here /\ b.from = None /\ b.to = None
      /\ b.name = Renamed(h, agent[h]).name /\ b.proc = agent[h].proc
      /\ (b.rehitch => agent[h].rehitch)
      /\ (b.pane = agent[h].pane \/ (b.pane = None /\ ~Present(agent[h].pane)))
      /\ (Live(b) => Live(agent[h]))
  BY <1>1, TakenIs
<1> HIDE DEF b
<1>3. Keeps(b, b) /\ (PaneClosed(b) => Keeps(b, Forgotten(b)))
  BY <1>2, ForgottenKeeps DEF Keeps
<1>4. Keeps(b, c)
  BY <1>3
<1> HIDE DEF c
<1>5. /\ c \in Record /\ c.here /\ c.from = None /\ c.to = None /\ c.name = b.name /\ c.proc = b.proc
      /\ (c.rehitch => b.rehitch) /\ (Live(c) => Live(b))
      /\ (c.pane = b.pane \/ (c.pane = None /\ ~Present(b.pane)))
  BY <1>2, <1>4 DEF Keeps
<1>6. c.pane = agent[h].pane \/ (c.pane = None /\ ~Present(agent[h].pane))
  BY <1>2, <1>5
<1>7. lock \in [Ids -> {"free", "op", "tick", "ren"}] /\ lock' \in [Ids -> {"free", "op", "tick", "ren"}]
      /\ \A i \in Ids : (lock'[i] = "op" <=> lock[i] = "op") /\ (lock'[i] = "ren" <=> lock[i] = "ren")
  BY <1>1, FreeLock
<1>8. Holds' /\ Named' /\ OpLocks' /\ Command' /\ NamesOf(h)
  BY <1>1, <1>2, <1>5, <1>6, <1>7, TakenKeeps DEF IInv, Types, TypeOK
<1>9. tick' \in Ticks
  BY <1>1 DEF IInv, Types, Ticks, TickSteps, Rest
<1>10. Types'
  BY <1>1, <1>5, <1>7, <1>8, <1>9, PutTypes, OpsGrow DEF IInv, Types, TypeOK
<1>11. agent'[h] = c /\ \A i \in Ids \ {h} : agent'[i] = agent[i]
  BY <1>1 DEF IInv, Types, TypeOK, Put
<1>12. Others'
  <2>1. RenControl'
    <3>2. ren.pc \in RenSteps => ren.id \in Ids \ {h} /\ ren.to \in Names
      BY <1>1, FreeLock DEF IInv, Others, RenControl, RenSteps
    <3>3. \A n \in Names, i \in Ids \ {h} : names'[n] = i <=> names[n] = i
      BY <1>8, NoneIsNone DEF NamesOf
    <3>4. CASE ren.pc \in RenSteps /\ agent[ren.id].here
      BY <1>1, <1>11, <3>2, <3>3, <3>4 DEF IInv, Others, RenControl
    <3>5. CASE ~(ren.pc \in RenSteps /\ agent[ren.id].here)
      BY <1>1, <1>11, <3>2, <3>5 DEF IInv, Others, RenControl
    <3> QED  BY <3>4, <3>5
  <2>2. OtherLocks'
    <3>1. \A i \in Ids : lock'[i] = "ren" <=> ren.pc \in RenSteps /\ ren.id = i
      BY <1>7 DEF IInv, Others, OtherLocks
    <3>2. \A i \in Ids : lock[i] # "tick"
      BY <1>1 DEF IInv, Others, OtherLocks, TickSteps
    <3>3. \A i \in Ids : lock'[i] = "tick" <=> tick'.pc \in TickSteps /\ tick'.id = i
      <4>1. CASE UNCHANGED <<tick, lock>>
        BY <1>1, <3>2, <4>1 DEF TickSteps
      <4>2. CASE tick' = [Rest EXCEPT !.pc = "observe", !.id = h] /\ lock' = [lock EXCEPT ![h] = "tick"]
        <5>1. tick'.pc = "observe" /\ tick'.id = h
          BY <4>2 DEF Rest
        <5>2. lock'[h] = "tick" /\ \A i \in Ids \ {h} : lock'[i] = lock[i]
          BY <1>7, <4>2
        <5> QED  BY <3>2, <5>1, <5>2 DEF TickSteps
      <4> QED  BY <1>1, <4>1, <4>2
    <3> QED  BY <1>1, <3>1, <3>3 DEF OtherLocks
  <2>3. TickControl'
    BY <1>1, <1>5, <1>11 DEF TickControl, TickSteps, Rest
  <2> QED  BY <2>1, <2>2, <2>3 DEF Others
<1>13. Budget'
  <2>1. Rehitching' \subseteq Rehitching /\ Carries' = Carries
    BY <1>1, <1>2, <1>5, RehitchingPut, CarriesSame DEF IInv
  <2>2. born' = born /\ gens' = gens /\ ops' = ops
    BY <1>1 DEF world
  <2> QED  BY <2>1, <2>2, FewerRehitching, OpsGrow DEF IInv
<1> QED  BY <1>8, <1>10, <1>12, <1>13 DEF IInv

LEMMA ReopenBootKeeps ==
    ASSUME IInv, NEW h \in Ids, ReopenBoot(h)
    PROVE  IInv'
<1> DEFINE b == Deadlines(Renamed(h, agent[h]))
           c == [b EXCEPT !.status = Booting, !.blocked = FALSE, !.verdict = FALSE, !.boot = "running"]
<1>1. /\ agent[h].here /\ lock[h] = "free" /\ ops < MaxOps /\ Put(h, c) /\ names' = RenamedNames(h, agent[h])
      /\ b.pane # None
      /\ ops' = ops + 1 /\ UNCHANGED <<lock, world, op, tick, ren, mishaps>>
  BY ListedIsHere DEF ReopenBoot
<1>2. /\ b \in Record /\ b.here /\ b.from = None /\ b.to = None
      /\ b.name = Renamed(h, agent[h]).name /\ b.proc = agent[h].proc
      /\ b.rehitch => agent[h].rehitch
      /\ b.pane = agent[h].pane \/ (b.pane = None /\ ~Present(agent[h].pane))
  BY <1>1, TakenIs
<1> HIDE DEF b
<1>3. /\ c \in Record /\ c.here /\ c.from = None /\ c.to = None /\ c.name = b.name /\ c.proc = b.proc
      /\ c.pane = b.pane /\ c.rehitch = b.rehitch
  BY <1>2 DEF Record, Booting
<1>4. Live(c) => Live(agent[h])
  BY <1>1, <1>2 DEF Live
<1> HIDE DEF c
<1>5. Holds' /\ Named' /\ OpLocks' /\ Command' /\ NamesOf(h)
  BY <1>1, <1>2, <1>3, <1>4, TakenKeeps
<1>6. Types'
  BY <1>1, <1>3, <1>5, PutTypes, OpsGrow DEF IInv, Types, TypeOK
<1>7. Others'
  BY <1>1, <1>5, BesideOthers DEF IInv
<1>8. Budget'
  <2>1. Rehitching' \subseteq Rehitching /\ Carries' = Carries
    BY <1>1, <1>2, <1>3, RehitchingPut, CarriesSame DEF IInv
  <2>2. born' = born /\ gens' = gens /\ ops' = ops + 1 /\ ops \in Nat
    BY <1>1, OpsGrow DEF world, IInv
  <2> QED  BY <2>1, <2>2, FewerRehitching DEF IInv
<1> QED  BY <1>5, <1>6, <1>7, <1>8 DEF IInv

\* A holder that changes its own record, in panes and names only as far as it
\* keeps them.
LEMMA HeldPut ==
    ASSUME IInv, NEW h \in Ids, lock[h] \in {"tick", "ren"}, NEW c \in Record, Put(h, c), c.here = agent[h].here, agent[h].here \/ h = ren.id,
           c.proc = agent[h].proc, c.rehitch => agent[h].rehitch,
           c.pane = agent[h].pane \/ (c.pane = None /\ ~Present(agent[h].pane)),
           Live(c) => Live(agent[h]), NamesOf(h), UNCHANGED <<world, op>>,
           \A i \in Ids : lock'[i] = "op" <=> lock[i] = "op",
           ren'.id \in {ren.id, None}, ops' = ops
    PROVE  Holds' /\ OpLocks' /\ Command' /\ Budget'
<1>1. Holds'
  <2>1. UNCHANGED Shown /\ StillLaunching
    BY DEF world, Shown, StillLaunching
  <2>2. ~c.here => ~c.rehitch
    BY DEF IInv, Holds, Owning
  <2> QED  BY <2>1, <2>2, PutHolds DEF IInv
<1>2. OpLocks' /\ Command'
  BY BesideCommand DEF IInv, world
<1>3. Budget'
  <2>1. Rehitching' \subseteq Rehitching /\ Carries' = Carries
    BY RehitchingPut, CarriesSame DEF IInv
  <2>2. born' = born /\ gens' = gens
    BY DEF world
  <2> QED  BY <2>1, <2>2, FewerRehitching, OpsGrow DEF IInv
<1> QED  BY <1>1, <1>2, <1>3

\* Taking nothing but a lock, or giving it back.
LEMMA NothingPut ==
    ASSUME IInv, UNCHANGED <<agent, names, world, op>>, ops' \in Nat, ops' >= ops,
           \A i \in Ids : lock'[i] = "op" <=> lock[i] = "op",
           ren'.id \in {ren.id, None} \/ ~(op.pc \in Fronts \/ (op.pc = "free" /\ op.kind = "up")) \/ ren'.id # op.id
    PROVE  Holds' /\ Named' /\ OpLocks' /\ Command' /\ Budget'
<1>1. UNCHANGED <<agent, names, panes, gens, born, native, strays, cut, op>>
  BY DEF world
<1>2. Fewer
  BY <1>1 DEF Fewer, IInv, Holds, Server
<1>3. Holds' /\ Named'
  BY <1>1, <1>2, FewerHolds, FewerNamed DEF IInv
<1>4. \A k \in Pids : Reachable(k)' = Reachable(k)
  BY <1>1 DEF Reachable
<1>5. OpLocks'
  <2>1. op.pc \in Holding \/ (op.pc = "acquire" /\ op.kind = "rehitch") => op.id \in Ids
    BY DEF IInv, Command, KindOf, Holding, Startups, Closings
  <2> QED  BY <1>1, <2>1 DEF OpLocks, IInv
<1>6. KindOf' /\ First' /\ Ending' /\ Emptying' /\ Strayless'
  <2>1. KindOf' /\ Strayless'
    BY <1>1 DEF KindOf, Strayless, IInv, Command, Launches
  <2>2. op.pc \in Fronts \/ (op.pc = "free" /\ op.kind = "up") => ren'.id # op.id
    BY NoneIsNone DEF IInv, Command, First, KindOf, Fronts
  <2>3. First'
    BY <1>1, <2>2 DEF First, IInv, Command
  <2>4. Ending'
    BY <1>1 DEF Ending, IInv, Command, Bare, Dead
  <2>5. Emptying'
    BY <1>1 DEF Emptying, IInv, Command, Live
  <2> QED  BY <2>1, <2>3, <2>4, <2>5
<1>7. Superseding'
  <2>1. CASE ~(op.pc = "free" /\ op.kind = "up")
    BY <1>1, <2>1 DEF Superseding
  <2>2. CASE op.pc = "free" /\ op.kind = "up"
    BY <1>1, <2>2 DEF Superseding, IInv, Command, Live
  <2> QED  BY <2>1, <2>2
<1>8. Starts'
  BY <1>1, <1>4 DEF Starts, IInv, Command, Bare, Dead, Ended
<1>9. Registered'
  <2>1. op.pc = "release" => op.id \in Ids
    BY DEF IInv, Command, KindOf
  <2> QED  BY <1>1, <2>1 DEF Registered, IInv, Command, Used, Present
<1>10. Budget'
  <2>1. Rehitching' = Rehitching /\ Carries' = Carries
    BY <1>1, CarriesSame DEF Rehitching
  <2> QED  BY <1>1, <2>1, FewerRehitching DEF IInv
<1> QED  BY <1>3, <1>5, <1>6, <1>7, <1>8, <1>9, <1>10 DEF Command

LEMMA RenameBeginKeeps ==
    ASSUME IInv, NEW h \in Ids, NEW to \in Names, RenameBegin(h, to)
    PROVE  IInv'
<1>1. /\ ren' = [pc |-> "intent", id |-> h, to |-> to] /\ ren.pc = "none" /\ ops < MaxOps /\ ops' = ops + 1
      /\ UNCHANGED <<agent, names, lock, world, op, tick, mishaps>>
  BY DEF RenameBegin
<1>2. agent[h].here /\ names[agent[h].name] = h
  BY ListedIsHere DEF RenameBegin
<1>3. op.pc \in Fronts \/ (op.pc = "free" /\ op.kind = "up") => op.id # h
  <2>1. CASE op.pc = "name"
    BY <1>2, <2>1 DEF IInv, Command, First, Starts, KindOf, Fronts
  <2>2. CASE op.pc # "name"
    BY <1>2, <2>2 DEF IInv, Command, First
  <2> QED  BY <2>1, <2>2
<1>4. Types'
  <2>1. ren' \in Renames
    BY <1>1 DEF Renames
  <2> QED  BY <1>1, <2>1, OpsGrow DEF IInv, Types, TypeOK, world
<1>5. Others'
  BY <1>1 DEF IInv, Others, OtherLocks, TickControl, RenControl, RenSteps
<1>6. Holds' /\ Named' /\ OpLocks' /\ Command' /\ Budget'
  <2>1. ops' \in Nat /\ ops' >= ops
    BY <1>1, OpsGrow DEF IInv
  <2> QED  BY <1>1, <1>3, <2>1, NothingPut
<1> QED  BY <1>4, <1>5, <1>6 DEF IInv

LEMMA TickBeside ==
    ASSUME IInv, tick' = tick, NEW h \in Ids, lock[h] # "tick", NEW c, Put(h, c) \/ agent' = agent
    PROVE  TickControl'
<1>1. tick.pc \in TickSteps => tick.id \in Ids \ {h}
  BY DEF IInv, Others, OtherLocks, TickControl, TickSteps
<1>2. \A i \in Ids \ {h} : agent'[i] = agent[i]
  BY DEF IInv, Types, TypeOK, Put
<1> QED  BY <1>1, <1>2 DEF IInv, Others, TickControl

LEMMA RenBeside ==
    ASSUME IInv, ren' = ren, NEW h \in Ids, lock[h] # "ren", NEW c, Put(h, c) \/ agent' = agent, NamesOf(h)
    PROVE  RenControl'
<1>1. \A i \in Ids \ {h} : agent'[i] = agent[i]
  BY DEF IInv, Types, TypeOK, Put
<1>2. \A n \in Names, i \in Ids \ {h} : names'[n] = i <=> names[n] = i
  BY NoneIsNone DEF NamesOf
<1>3. ren.pc \in RenSteps => ren.id \in Ids \ {h} /\ ren.to \in Names
  BY DEF IInv, Others, OtherLocks, RenControl, RenSteps
<1>4. CASE ren.pc \in RenSteps /\ agent[ren.id].here
  BY <1>1, <1>2, <1>3, <1>4 DEF IInv, Others, RenControl
<1>5. CASE ~(ren.pc \in RenSteps /\ agent[ren.id].here)
  BY <1>1, <1>3, <1>5 DEF IInv, Others, RenControl
<1> QED  BY <1>4, <1>5

LEMMA RenameIntentKeeps ==
    ASSUME IInv, RenameIntent
    PROVE  IInv'
<1> DEFINE h == ren.id  b == Deadlines(Renamed(h, agent[h]))  c == [b EXCEPT !.from = b.name, !.to = ren.to]
<1>0. h \in Ids /\ ren.to \in Names /\ ren.pc = "intent" /\ UNCHANGED <<world, op, tick, ops, mishaps>>
  BY DEF IInv, Others, RenControl, RenameIntent
<1>1. CASE ~agent[h].here
  <2>1. ren' = Rest /\ UNCHANGED <<agent, names, lock>>
    BY <1>1 DEF RenameIntent
  <2>2. Holds' /\ Named' /\ OpLocks' /\ Command' /\ Budget'
    BY <1>0, <2>1, NothingPut, OpsGrow DEF IInv, Rest
  <2>3. Others'
    BY <1>0, <2>1 DEF IInv, Others, OtherLocks, TickControl, RenControl, RenSteps, Rest
  <2>4. Types'
    BY <1>0, <2>1 DEF IInv, Types, TypeOK, world, Rest, Renames
  <2> QED  BY <2>2, <2>3, <2>4 DEF IInv
<1>2. CASE agent[h].here
  <2>1. /\ lock[h] = "free" /\ names' = RenamedNames(h, agent[h])
        /\ \/ b.name = ren.to /\ Put(h, b) /\ ren' = Rest /\ UNCHANGED lock
           \/ /\ b.name # ren.to /\ Put(h, c)
              /\ lock' = [lock EXCEPT ![h] = "ren"] /\ ren' = [ren EXCEPT !.pc = "claim"]
    BY <1>2 DEF RenameIntent
  <2>2. /\ b \in Record /\ b.here /\ b.from = None /\ b.to = None /\ b.name \in Names
        /\ b.name = Renamed(h, agent[h]).name /\ b.proc = agent[h].proc
        /\ b.rehitch => agent[h].rehitch
        /\ b.pane = agent[h].pane \/ (b.pane = None /\ ~Present(agent[h].pane))
        /\ Live(b) => Live(agent[h])
    BY <1>0, <1>2, <2>1, TakenIs
  <2>3. /\ lock \in [Ids -> {"free", "op", "tick", "ren"}] /\ ren \in Renames
        /\ \A i \in Ids : lock[i] # "ren"
    BY <1>0 DEF IInv, Types, TypeOK, Others, OtherLocks, RenSteps
  <2> HIDE DEF b, h
  <2>4. CASE b.name = ren.to /\ Put(h, b) /\ ren' = Rest /\ UNCHANGED lock
    <3>1. ren'.id = None /\ ren'.pc = "none" /\ ren' \in Renames
      BY <2>4 DEF Rest, Renames
    <3>2. Holds' /\ Named' /\ OpLocks' /\ Command' /\ NamesOf(h)
      BY <1>0, <1>2, <2>1, <2>2, <2>4, <3>1, TakenKeeps
    <3>3. TickControl'
      BY <1>0, <2>1, <2>4, TickBeside
    <3>4. RenControl'
      BY <3>1 DEF RenControl, RenSteps
    <3>5. OtherLocks'
      BY <1>0, <2>3, <2>4, <3>1 DEF OtherLocks, RenSteps, IInv, Others
    <3>6. Types'
      BY <1>0, <2>2, <2>3, <2>4, <3>1, <3>2, PutTypes, OpsGrow DEF IInv, Types
    <3>7. Budget'
      <4>1. Rehitching' \subseteq Rehitching /\ Carries' = Carries
        BY <1>0, <2>2, <2>4, RehitchingPut, CarriesSame DEF IInv
      <4> QED  BY <1>0, <4>1, FewerRehitching, OpsGrow DEF IInv, world
    <3> QED  BY <3>2, <3>3, <3>4, <3>5, <3>6, <3>7 DEF IInv, Others
  <2>5. CASE b.name # ren.to /\ Put(h, c) /\ lock' = [lock EXCEPT ![h] = "ren"] /\ ren' = [ren EXCEPT !.pc = "claim"]
    <3>1. ren'.id = h /\ ren'.pc = "claim" /\ ren'.to = ren.to /\ ren' \in Renames
      BY <2>3, <2>5 DEF Renames, RenSteps, h
    <3>2. /\ c \in Record /\ c.here /\ c.from = b.name /\ c.to = ren.to /\ c.name = b.name /\ c.proc = b.proc
          /\ c.pane = b.pane /\ c.status = b.status /\ c.rehitch = b.rehitch
      BY <1>0, <2>2 DEF Record
    <3>3. Live(c) => Live(agent[h])
      BY <2>2, <3>2 DEF Live
    <3> HIDE DEF c
    <3>4. lock'[h] = "ren" /\ \A i \in Ids \ {h} : lock'[i] = lock[i]
      BY <1>0, <2>3, <2>5
    <3>5. lock' \in [Ids -> {"free", "op", "tick", "ren"}] /\ \A i \in Ids : lock'[i] = "op" <=> lock[i] = "op"
      BY <1>0, <2>1, <2>3, <2>5
    <3>6. Holds' /\ Named' /\ OpLocks' /\ Command' /\ NamesOf(h)
      <4>1. ren'.id = ren.id
        BY <3>1 DEF h
      <4>2. c.pane = agent[h].pane \/ (c.pane = None /\ ~Present(agent[h].pane))
        BY <2>2, <3>2
      <4> QED  BY <1>0, <1>2, <2>1, <2>2, <2>5, <3>2, <3>3, <3>5, <4>1, <4>2, TakenKeeps
    <3>7. TickControl'
      BY <1>0, <2>1, <2>5, TickBeside
    <3>8. RenControl'
      <4>1. agent'[h] = c
        BY <1>0, <2>5 DEF IInv, Types, TypeOK, Put
      <4> QED  BY <1>0, <2>2, <2>5, <3>1, <3>2, <4>1 DEF RenControl, RenSteps
    <3>9. OtherLocks'
      BY <1>0, <2>1, <2>3, <3>1, <3>4 DEF OtherLocks, RenSteps, IInv, Others
    <3>10. Types'
      BY <1>0, <2>5, <3>1, <3>2, <3>5, <3>6, PutTypes, OpsGrow DEF IInv, Types
    <3>11. Budget'
      <4>1. Rehitching' \subseteq Rehitching /\ Carries' = Carries
        BY <1>0, <2>2, <2>5, <3>2, RehitchingPut, CarriesSame DEF IInv
      <4> QED  BY <1>0, <4>1, FewerRehitching, OpsGrow DEF IInv, world
    <3> QED  BY <3>6, <3>7, <3>8, <3>9, <3>10, <3>11 DEF IInv, Others
  <2> QED  BY <2>1, <2>4, <2>5
<1> QED  BY <1>1, <1>2

LEMMA SameNames ==
    ASSUME Types, names' = names, NEW h
    PROVE  NamesOf(h)
  BY DEF Types, TypeOK, NamesOf

\* Only one agent's record and names change.
LEMMA OneNamed ==
    ASSUME Types, Named, \A k \in Pids : native'[k].alive => native[k].alive, cut \subseteq cut',
           NEW h \in Ids, NEW c, Put(h, c) \/ agent' = agent, NamesOf(h), Naming(h)',
           \A n \in Names : names'[n] = h /\ agent'[h].here =>
               n \in {agent'[h].name, agent'[h].from, agent'[h].to} \/ h \in cut'
    PROVE  Named'
<1>0. None \notin Ids /\ None \notin Names /\ None \notin Pids /\ agent \in [Ids -> Record]
  BY NoneIsNone DEF Types, TypeOK
<1>1. \A i \in Ids \ {h} : agent'[i] = agent[i]
  BY <1>0 DEF Put
<1>2. ASSUME NEW i \in Ids \ {h}, NEW n \in Names
      PROVE  names'[n] = i <=> names[n] = i
  BY <1>0, <1>2 DEF NamesOf
<1>3. ASSUME NEW i \in Ids \ {h}
      PROVE  Naming(i)'
  <2>1. agent[i] \in Record
    BY <1>0
  <2>2. agent[i].to \in Names \cup {None} /\ agent[i].proc \in Pids \cup {None}
    BY <2>1 DEF Record
  <2>3. Live(agent[i])' => Live(agent[i])
    BY <1>1, <2>2 DEF Live
  <2>4. Naming(i)
    BY DEF Named
  <2> QED  BY <1>1, <1>2, <2>2, <2>3, <2>4 DEF Naming
<1>4. NoForgottenNameUncut'
  <2> SUFFICES ASSUME NEW n \in Names, NEW i \in Ids, names'[n] = i, agent'[i].here
               PROVE  n \in {agent'[i].name, agent'[i].from, agent'[i].to} \/ i \in cut'
    BY DEF NoForgottenNameUncut, Knows, NamesOf
  <2>1. CASE i # h
    BY <1>0, <1>1, <1>2, <2>1 DEF Named, NoForgottenNameUncut, Knows
  <2>2. CASE i = h
    BY <2>2
  <2> QED  BY <2>1, <2>2
<1> QED  BY <1>3, <1>4 DEF Named

LEMMA RenameHeld ==
    ASSUME IInv, ren.pc \in RenSteps
    PROVE  /\ ren.id \in Ids /\ ren.to \in Names /\ lock[ren.id] = "ren" /\ agent[ren.id] \in Record
           /\ ren \in Renames /\ lock \in [Ids -> {"free", "op", "tick", "ren"}]
           /\ \A i \in Ids \ {ren.id} : lock[i] # "ren"
           /\ names \in [Names -> Ids \cup {None}] /\ None \notin Ids /\ None \notin Names
  BY NoneIsNone DEF IInv, Others, OtherLocks, RenControl, RenSteps, Types, TypeOK

\* A rename that ends gives its lock back.
LEMMA RenameEnds ==
    ASSUME IInv, ren.pc \in RenSteps, lock' = [lock EXCEPT ![ren.id] = "free"], ren' = Rest, tick' = tick
    PROVE  /\ OtherLocks' /\ RenControl' /\ ren' \in Renames /\ ren'.id = None
           /\ lock' \in [Ids -> {"free", "op", "tick", "ren"}]
           /\ \A i \in Ids : lock'[i] = "op" <=> lock[i] = "op"
<1>1. ren'.pc = "none" /\ ren'.id = None /\ ren' \in Renames
  BY DEF Rest, Renames
<1>2. lock'[ren.id] = "free" /\ (\A i \in Ids \ {ren.id} : lock'[i] = lock[i])
      /\ lock' \in [Ids -> {"free", "op", "tick", "ren"}]
  BY RenameHeld
<1>3. RenControl'
  BY <1>1 DEF RenControl, RenSteps
<1>4. OtherLocks'
  BY <1>1, <1>2, RenameHeld DEF IInv, Others, OtherLocks, RenSteps
<1> QED  BY <1>1, <1>2, <1>3, <1>4, RenameHeld

LEMMA RenameLostKeeps ==
    ASSUME IInv, ren.pc \in RenSteps, RenameLost, UNCHANGED <<world, op, tick, ops, mishaps>>
    PROVE  IInv'
<1>1. lock' = [lock EXCEPT ![ren.id] = "free"] /\ ren' = Rest /\ UNCHANGED <<agent, names>>
  BY DEF RenameLost
<1>2. OtherLocks' /\ RenControl' /\ ren' \in Renames /\ ren'.id = None
      /\ lock' \in [Ids -> {"free", "op", "tick", "ren"}]
      /\ \A i \in Ids : lock'[i] = "op" <=> lock[i] = "op"
  BY <1>1, RenameEnds
<1>3. Holds' /\ Named' /\ OpLocks' /\ Command' /\ Budget'
  BY <1>1, <1>2, NothingPut, OpsGrow DEF IInv
<1>4. TickControl'
  BY <1>1 DEF IInv, Others, TickControl
<1>5. Types'
  BY <1>1, <1>2 DEF IInv, Types, TypeOK, world
<1> QED  BY <1>2, <1>3, <1>4, <1>5 DEF IInv, Others

LEMMA RenameClaimKeeps ==
    ASSUME IInv, RenameClaim
    PROVE  IInv'
<1> DEFINE h == ren.id
<1>0. ren.pc \in RenSteps /\ ren.pc = "claim" /\ UNCHANGED <<world, op, tick, ops, mishaps>>
  BY DEF RenameClaim, RenSteps
<1>1. CASE RenameLost
  BY <1>0, <1>1, RenameLostKeeps
<1>2. CASE /\ names[ren.to] \in {None, ren.id} /\ names' = [names EXCEPT ![ren.to] = ren.id]
           /\ ren' = [ren EXCEPT !.pc = "name"] /\ UNCHANGED <<agent, lock>>
  <2>1. NamesOf(h) /\ names'[ren.to] = h /\ \A n \in Names \ {ren.to} : names'[n] = names[n]
    BY <1>0, <1>2, RenameHeld DEF NamesOf
  <2>2. ren'.pc = "name" /\ ren'.id = h /\ ren'.to = ren.to /\ ren' \in Renames
    BY <1>0, <1>2, RenameHeld DEF Renames, RenSteps
  <2>3. Put(h, agent[h])
    BY <1>0, <1>2, RenameHeld DEF Put, IInv, Types, TypeOK
  <2>4. Holds' /\ OpLocks' /\ Command' /\ Budget'
    <3>1. lock[h] = "ren" /\ h \in Ids /\ agent[h] \in Record
      BY <1>0, RenameHeld
    <3> QED  BY <1>0, <1>2, <2>1, <2>2, <2>3, <3>1, HeldPut
  <2>5. Named'
    <3>1. \A i \in Ids \ {h}, n \in Names : names'[n] = i <=> names[n] = i
      BY <1>0, <2>1, RenameHeld DEF NamesOf
    <3>2. \A n \in Names : names'[n] = h <=> names[n] = h \/ n = ren.to
      BY <2>1
    <3>3. \A i \in Ids : Live(agent[i])' = Live(agent[i]) /\ agent'[i] = agent[i]
      BY <1>0, <1>2 DEF Live, world
    <3>4. ASSUME NEW i \in Ids
          PROVE  Naming(i)'
      <4>1. agent[i].to \in Names \cup {None} /\ Naming(i)
        BY DEF IInv, Types, TypeOK, Record, Named
      <4> QED  BY <1>0, <3>1, <3>2, <3>3, <4>1 DEF Naming, world
    <3>5. agent[h].here => agent[h].to = ren.to
      BY <1>0 DEF IInv, Others, RenControl
    <3>6. NoForgottenNameUncut'
      BY <1>0, <1>2, <2>1, <3>5, RenameHeld DEF IInv, Named, NoForgottenNameUncut, Knows, world
    <3> QED  BY <3>4, <3>6 DEF Named
  <2>6. TickControl'
    BY <1>0, <1>2 DEF IInv, Others, TickControl
  <2>7. RenControl'
    BY <1>0, <1>2, <2>1, <2>2, RenameHeld DEF IInv, Others, RenControl, RenSteps
  <2>8. OtherLocks'
    BY <1>0, <1>2, <2>2 DEF OtherLocks, RenSteps, IInv, Others
  <2>9. Types'
    BY <1>0, <1>2, <2>1, <2>2 DEF IInv, Types, TypeOK, world, NamesOf
  <2> QED  BY <2>4, <2>5, <2>6, <2>7, <2>8, <2>9 DEF IInv, Others
<1>3. CASE /\ names[ren.to] \notin {None, ren.id} /\ names' = names
           /\ Put(ren.id, [agent[ren.id] EXCEPT !.from = None, !.to = None])
           /\ lock' = [lock EXCEPT ![ren.id] = "free"] /\ ren' = Rest
  <2> DEFINE a == agent[h]  c == [a EXCEPT !.from = None, !.to = None]
  <2>1. /\ c \in Record /\ c.from = None /\ c.to = None /\ c.here = a.here /\ c.name = a.name
        /\ c.pane = a.pane /\ c.proc = a.proc /\ c.status = a.status /\ c.rehitch = a.rehitch
    BY <1>0, RenameHeld DEF Record
  <2>2. Put(h, c)
    BY <1>3
  <2> HIDE DEF c
  <2>3. Live(c) <=> Live(a)
    BY <2>1 DEF Live
  <2>4. /\ OtherLocks' /\ RenControl' /\ ren' \in Renames /\ ren'.id = None
        /\ lock' \in [Ids -> {"free", "op", "tick", "ren"}]
        /\ \A i \in Ids : lock'[i] = "op" <=> lock[i] = "op"
    BY <1>0, <1>3, RenameEnds
  <2>5. NamesOf(h) /\ h \in Ids /\ lock[h] = "ren"
    BY <1>0, <1>3, RenameHeld DEF NamesOf
  <2>6. Holds' /\ OpLocks' /\ Command' /\ Budget'
    BY <1>0, <2>1, <2>2, <2>3, <2>4, <2>5, HeldPut
  <2>7. agent'[h] = c /\ \A i \in Ids \ {h} : agent'[i] = agent[i]
    BY <2>2, <2>5 DEF IInv, Types, TypeOK, Put
  <2>8. Named'
    <3>0. PICK g \in Ids : g = h
      BY <2>5
    <3>1. Naming(g)'
      <4>1. agent'[g] = c /\ (Live(agent[g])' <=> Live(a))
        BY <1>0, <2>3, <2>7, <3>0 DEF Live, world
      <4>2. Naming(g) /\ agent[g] = a
        BY <3>0 DEF IInv, Named
      <4> HIDE DEF a
      <4> QED  BY <1>3, <2>1, <4>1, <4>2 DEF Naming
    <3>2. ASSUME NEW n \in Names, names'[n] = g, agent'[g].here
          PROVE  n = agent'[g].name \/ g \in cut
      <4>1. a.here /\ names[n] = g /\ n # ren.to
        BY <1>3, <2>1, <2>5, <2>7, <3>0, <3>2
      <4>2. a.to = ren.to /\ a.name = a.from
        BY <1>0, <4>1 DEF IInv, Others, RenControl
      <4>3. n \in {a.name, a.from, a.to} \/ g \in cut
        BY <3>0, <4>1, NoneIsNone DEF IInv, Named, NoForgottenNameUncut, Knows
      <4> QED  BY <2>1, <2>7, <3>0, <4>1, <4>2, <4>3
    <3>3. Put(g, c) /\ NamesOf(g)
      BY <2>2, <2>5, <3>0
    <3>4. UNCHANGED <<native, cut>>
      BY <1>0 DEF world
    <3> QED  BY <3>1, <3>2, <3>3, <3>4, OneNamed DEF IInv
  <2>9. TickControl'
    BY <1>0, <2>2, <2>5, TickBeside
  <2>10. Types'
    BY <1>0, <2>1, <2>2, <2>4, <2>5, PutTypes, OpsGrow DEF IInv, Types
  <2> QED  BY <2>4, <2>6, <2>8, <2>9, <2>10 DEF IInv, Others
<1> QED  BY <1>1, <1>2, <1>3 DEF RenameClaim

LEMMA RenameNameKeeps ==
    ASSUME IInv, RenameName
    PROVE  IInv'
<1> DEFINE h == ren.id  a == agent[h]  c == [a EXCEPT !.name = ren.to]
<1>0. ren.pc \in RenSteps /\ ren.pc = "name" /\ UNCHANGED <<world, op, tick, ops, mishaps>>
  BY DEF RenameName, RenSteps
<1>1. CASE ~a.here
  BY <1>0, <1>1, RenameLostKeeps DEF RenameName
<1>2. CASE a.here
  <2>1. Put(h, c) /\ ren' = [ren EXCEPT !.pc = "free"] /\ UNCHANGED <<names, lock>>
    BY <1>2 DEF RenameName
  <2>2. /\ h \in Ids /\ ren.to \in Names /\ lock[h] = "ren" /\ a \in Record /\ ren \in Renames
        /\ None \notin Ids /\ None \notin Names
    BY <1>0, RenameHeld
  <2>3. /\ c \in Record /\ c.from = a.from /\ c.to = a.to /\ c.here = a.here /\ c.name = ren.to
        /\ c.pane = a.pane /\ c.proc = a.proc /\ c.status = a.status /\ c.rehitch = a.rehitch
    BY <2>2 DEF Record
  <2> HIDE DEF c
  <2>4. Live(c) <=> Live(a)
    BY <2>3 DEF Live
  <2>5. ren'.pc = "free" /\ ren'.id = h /\ ren'.to = ren.to /\ ren' \in Renames
    BY <2>1, <2>2 DEF Renames, RenSteps
  <2>6. NamesOf(h)
    BY <2>1, SameNames DEF IInv
  <2>7. Holds' /\ OpLocks' /\ Command' /\ Budget'
    BY <1>0, <1>2, <2>1, <2>2, <2>3, <2>4, <2>5, <2>6, HeldPut
  <2>8. agent'[h] = c
    BY <2>1, <2>2 DEF IInv, Types, TypeOK, Put
  <2>9. a.to = ren.to /\ a.from \in Names /\ a.name = a.from /\ names[ren.to] = h
    BY <1>0, <1>2 DEF IInv, Others, RenControl
  <2>10. Named'
    <3>1. a.from # a.to
      BY <1>2, <2>2, <2>9 DEF IInv, Named, Naming
    <3>2. Naming(h)'
      BY <2>1, <2>2, <2>3, <2>8, <2>9, <3>1 DEF Naming
    <3>3. \A n \in Names : names[n] = h => n \in {a.name, a.from, a.to} \/ h \in cut
      BY <1>2, <2>2 DEF IInv, Named, NoForgottenNameUncut, Knows
    <3>4. \A n \in Names : names'[n] = h => n \in {c.name, c.from, c.to} \/ h \in cut
      BY <2>1, <2>3, <2>9, <3>3
    <3> QED  BY <1>0, <2>1, <2>2, <2>6, <2>8, <3>2, <3>4, OneNamed DEF IInv, world
  <2>11. TickControl'
    BY <1>0, <2>1, <2>2, TickBeside
  <2>12. RenControl'
    BY <2>1, <2>2, <2>3, <2>5, <2>8, <2>9 DEF RenControl, RenSteps
  <2>13. OtherLocks'
    BY <1>0, <2>1, <2>5 DEF OtherLocks, RenSteps, IInv, Others
  <2>14. Types'
    BY <1>0, <2>1, <2>2, <2>3, <2>5, PutTypes, OpsGrow DEF IInv, Types, TypeOK
  <2> QED  BY <2>7, <2>10, <2>11, <2>12, <2>13, <2>14 DEF IInv, Others
<1> QED  BY <1>1, <1>2

LEMMA FreedIs ==
    ASSUME Types, NEW h \in Ids, NEW dead, names' = Freed(names, dead, h)
    PROVE  /\ NamesOf(h)
           /\ \A n \in Names : names'[n] = h <=> names[n] = h /\ n \notin dead
<1>1. names \in [Names -> Ids \cup {None}] /\ names' = [n \in Names |-> IF n \in dead /\ names[n] = h THEN None ELSE names[n]]
  BY DEF Types, TypeOK, Freed
<1>2. NamesOf(h)
  BY <1>1 DEF NamesOf
<1> QED  BY <1>1, <1>2, NoneIsNone

LEMMA RenameFreeKeeps ==
    ASSUME IInv, RenameFree
    PROVE  IInv'
<1> DEFINE h == ren.id  a == agent[h]
<1>0. /\ ren.pc \in RenSteps /\ ren.pc = "free" /\ UNCHANGED <<agent, lock, world, op, tick, ops, mishaps>>
      /\ names' = Freed(names, {a.from}, h) /\ ren' = [ren EXCEPT !.pc = "clear"]
  BY DEF RenameFree, RenSteps
<1>1. /\ h \in Ids /\ ren.to \in Names /\ lock[h] = "ren" /\ a \in Record /\ ren \in Renames
      /\ None \notin Ids /\ None \notin Names
  BY <1>0, RenameHeld
<1>2. NamesOf(h) /\ \A n \in Names : names'[n] = h <=> names[n] = h /\ n # a.from
  BY <1>0, <1>1, FreedIs DEF IInv
<1>3. ren'.pc = "clear" /\ ren'.id = h /\ ren'.to = ren.to /\ ren' \in Renames
  BY <1>0, <1>1 DEF Renames, RenSteps
<1>4. Put(h, a)
  BY <1>0, <1>1 DEF Put, IInv, Types, TypeOK
<1>5. Holds' /\ OpLocks' /\ Command' /\ Budget'
  BY <1>0, <1>1, <1>2, <1>3, <1>4, HeldPut
<1>6. a.here => a.to = ren.to /\ a.from \in Names /\ a.name = ren.to /\ names[ren.to] = h /\ a.from # a.to
  BY <1>0, <1>1 DEF IInv, Others, RenControl, Named, Naming
<1>7. Named'
  <2>1. Naming(h)'
    BY <1>0, <1>1, <1>2, <1>6, SMTT(30) DEF Naming
  <2>2. \A n \in Names : names'[n] = h /\ a.here => n \in {a.name, a.from, a.to} \/ h \in cut
    BY <1>1, <1>2 DEF IInv, Named, NoForgottenNameUncut, Knows
  <2> QED  BY <1>0, <1>1, <1>2, <1>4, <2>1, <2>2, OneNamed DEF IInv, world
<1>8. TickControl'
  BY <1>0, <1>1, TickBeside
<1>9. RenControl'
  BY <1>0, <1>1, <1>2, <1>3, <1>6 DEF RenControl, RenSteps
<1>10. OtherLocks'
  BY <1>0, <1>3 DEF OtherLocks, RenSteps, IInv, Others
<1>11. Types'
  BY <1>0, <1>1, <1>2, <1>3, <1>4, PutTypes, OpsGrow DEF IInv, Types, TypeOK
<1> QED  BY <1>5, <1>7, <1>8, <1>9, <1>10, <1>11 DEF IInv, Others

LEMMA RenameClearKeeps ==
    ASSUME IInv, RenameClear
    PROVE  IInv'
<1> DEFINE h == ren.id  a == agent[h]  c == [a EXCEPT !.from = None, !.to = None]
<1>0. ren.pc \in RenSteps /\ ren.pc = "clear" /\ UNCHANGED <<world, op, tick, ops, mishaps>>
  BY DEF RenameClear, RenSteps
<1>1. CASE ~a.here
  BY <1>0, <1>1, RenameLostKeeps DEF RenameClear
<1>2. CASE a.here
  <2>1. Put(h, c) /\ lock' = [lock EXCEPT ![h] = "free"] /\ ren' = Rest /\ names' = names
    BY <1>2 DEF RenameClear
  <2>2. /\ h \in Ids /\ ren.to \in Names /\ lock[h] = "ren" /\ a \in Record
        /\ None \notin Ids /\ None \notin Names
    BY <1>0, RenameHeld
  <2>3. /\ c \in Record /\ c.from = None /\ c.to = None /\ c.here = a.here /\ c.name = a.name
        /\ c.pane = a.pane /\ c.proc = a.proc /\ c.status = a.status /\ c.rehitch = a.rehitch
    BY <2>2 DEF Record
  <2> HIDE DEF c
  <2>4. Live(c) <=> Live(a)
    BY <2>3 DEF Live
  <2>5. /\ OtherLocks' /\ RenControl' /\ ren' \in Renames /\ ren'.id = None
        /\ lock' \in [Ids -> {"free", "op", "tick", "ren"}]
        /\ \A i \in Ids : lock'[i] = "op" <=> lock[i] = "op"
    BY <1>0, <2>1, RenameEnds
  <2>6. NamesOf(h)
    BY <2>1, SameNames DEF IInv
  <2>7. Holds' /\ OpLocks' /\ Command' /\ Budget'
    BY <1>0, <1>2, <2>1, <2>2, <2>3, <2>4, <2>5, <2>6, HeldPut
  <2>8. agent'[h] = c
    BY <2>1, <2>2 DEF IInv, Types, TypeOK, Put
  <2>9. a.to = ren.to /\ a.from \in Names /\ a.name = ren.to /\ names[ren.to] = h /\ names[a.from] # h
    BY <1>0, <1>2 DEF IInv, Others, RenControl
  <2>10. Named'
    <3>0. PICK g \in Ids : g = h
      BY <2>2
    <3>1. Naming(g)'
      BY <2>1, <2>2, <2>3, <2>8, <2>9, <3>0 DEF Naming
    <3>2. \A n \in Names : names[n] = h => n \in {a.name, a.from, a.to} \/ h \in cut
      BY <1>2, <2>2 DEF IInv, Named, NoForgottenNameUncut, Knows
    <3>3. \A n \in Names : names'[n] = h => n = c.name \/ h \in cut
      BY <2>1, <2>3, <2>9, <3>2
    <3>4. Put(g, c) /\ NamesOf(g) /\ agent'[g] = c
      BY <2>1, <2>6, <2>8, <3>0
    <3>5. \A n \in Names : names'[n] = g => n = c.name \/ g \in cut
      BY <3>0, <3>3
    <3>6. UNCHANGED <<native, cut>>
      BY <1>0 DEF world
    <3> QED  BY <3>1, <3>4, <3>5, <3>6, OneNamed DEF IInv
  <2>11. TickControl'
    BY <1>0, <2>1, <2>2, TickBeside
  <2>12. Types'
    BY <1>0, <2>1, <2>2, <2>3, <2>5, PutTypes, OpsGrow DEF IInv, Types, TypeOK
  <2> QED  BY <2>5, <2>7, <2>10, <2>11, <2>12 DEF IInv, Others
<1> QED  BY <1>1, <1>2

-----------------------------------------------------------------------------
(* The tick that holds its agent's lock.                                     *)

LEMMA TickHeld ==
    ASSUME IInv, tick.pc \in TickSteps
    PROVE  /\ tick.id \in Ids /\ lock[tick.id] = "tick" /\ agent[tick.id] \in Record
           /\ agent[tick.id].here /\ agent[tick.id].pane # None
           /\ tick \in Ticks /\ lock \in [Ids -> {"free", "op", "tick", "ren"}]
           /\ \A i \in Ids \ {tick.id} : lock[i] # "tick"
  BY DEF IInv, Others, OtherLocks, TickControl, TickSteps, Types, TypeOK

LEMMA TickEnding ==
    ASSUME IInv, tick.pc \in TickSteps, TickEnds, ren' = ren
    PROVE  /\ OtherLocks' /\ tick' \in Ticks /\ tick'.pc \notin TickSteps
           /\ tick'.pc # "none" => tick'.id = tick.id
           /\ lock' \in [Ids -> {"free", "op", "tick", "ren"}]
           /\ \A i \in Ids : lock'[i] = "op" <=> lock[i] = "op"
<1>1. tick' \in {[tick EXCEPT !.pc = "rehitch"], Rest} /\ lock' = [lock EXCEPT ![tick.id] = "free"]
  BY DEF TickEnds
<1>2. tick' \in Ticks /\ tick'.pc \notin TickSteps /\ (tick'.pc # "none" => tick'.id = tick.id)
  BY <1>1, TickHeld DEF Ticks, TickSteps, Rest
<1>3. lock'[tick.id] = "free" /\ (\A i \in Ids \ {tick.id} : lock'[i] = lock[i])
      /\ lock' \in [Ids -> {"free", "op", "tick", "ren"}]
  BY <1>1, TickHeld
<1>4. OtherLocks'
  BY <1>2, <1>3, TickHeld DEF IInv, Others, OtherLocks
<1> QED  BY <1>2, <1>3, <1>4, TickHeld

\* What a tick does with the record of its agent.
LEMMA TickPuts ==
    ASSUME IInv, tick.pc \in TickSteps, NEW c \in Record, Put(tick.id, c), Keeps(agent[tick.id], c),
           UNCHANGED <<names, world, op, ren, ops, mishaps>>,
           \/ TickEnds
           \/ /\ lock' = lock /\ c.pane # None
              /\ \E s \in TickSteps : tick' = [tick EXCEPT !.pc = s]
    PROVE  IInv'
<1> DEFINE h == tick.id  a == agent[h]
<1>0. /\ h \in Ids /\ lock[h] = "tick" /\ a \in Record /\ a.here /\ a.pane # None /\ tick \in Ticks
      /\ lock \in [Ids -> {"free", "op", "tick", "ren"}]
  BY TickHeld
<1>1. /\ c.here = a.here /\ c.proc = a.proc /\ (c.rehitch => a.rehitch) /\ (Live(c) => Live(a))
      /\ (c.pane = a.pane \/ (c.pane = None /\ ~Present(a.pane)))
  BY DEF Keeps
<1>2. NamesOf(h)
  BY SameNames DEF IInv
<1>3. /\ OtherLocks' /\ tick' \in Ticks /\ (tick'.pc # "none" => tick'.id = h)
      /\ (tick'.pc \in TickSteps => c.pane # None)
      /\ lock' \in [Ids -> {"free", "op", "tick", "ren"}]
      /\ \A i \in Ids : lock'[i] = "op" <=> lock[i] = "op"
  <2>1. CASE TickEnds
    BY <2>1, TickEnding
  <2>2. CASE lock' = lock /\ c.pane # None /\ \E s \in TickSteps : tick' = [tick EXCEPT !.pc = s]
    <3>1. PICK s \in TickSteps : tick' = [tick EXCEPT !.pc = s]
      BY <2>2
    <3>2. tick'.pc = s /\ tick'.id = h /\ tick' \in Ticks
      BY <1>0, <3>1 DEF Ticks
    <3>3. OtherLocks'
      BY <2>2, <3>1, <3>2 DEF IInv, Others, OtherLocks
    <3> QED  BY <1>0, <2>2, <3>2, <3>3
  <2> QED  BY <2>1, <2>2
<1>4. Holds' /\ OpLocks' /\ Command' /\ Budget'
  BY <1>0, <1>1, <1>2, <1>3, HeldPut
<1>5. Named'
  BY <1>0, PutNamed DEF IInv, world
<1>6. TickControl'
  <2>1. agent'[h] = c
    BY <1>0 DEF IInv, Types, TypeOK, Put
  <2>2. tick'.pc # "none" => tick'.id \in Ids
    BY <1>0, <1>3
  <2>3. tick'.pc \in TickSteps => tick'.id = h
    BY <1>3 DEF TickSteps
  <2> QED  BY <1>0, <1>1, <1>3, <2>1, <2>2, <2>3 DEF TickControl
<1>7. RenControl'
  BY <1>0, <1>2, RenBeside
<1>8. Types'
  BY <1>0, <1>2, <1>3, PutTypes, OpsGrow DEF IInv, Types, TypeOK
<1> QED  BY <1>3, <1>4, <1>5, <1>6, <1>7, <1>8 DEF IInv, Others

LEMMA SelfPut ==
    ASSUME IInv, NEW h \in Ids, agent' = agent
    PROVE  Put(h, agent[h]) /\ Keeps(agent[h], agent[h]) /\ agent[h] \in Record
  BY DEF IInv, Types, TypeOK, Put, Keeps

LEMMA TickObserveKeeps ==
    ASSUME IInv, TickObserve
    PROVE  IInv'
<1> DEFINE a == agent[tick.id]  s == Capture(a)
           settled == \/ s = "ready" /\ a.status = Booting
                      \/ s \notin {"exited", "error"} /\ a.status = Active /\ a.held
           p == [a EXCEPT !.blocked = TRUE, !.boot = "none"]
<1>0. tick.pc \in TickSteps /\ UNCHANGED <<names, world, op, ren, ops, mishaps>>
  BY DEF TickObserve, TickSteps
<1>1. tick.id \in Ids /\ a \in Record /\ a.pane # None
  BY <1>0, TickHeld
<1>2. \/ tick' = [tick EXCEPT !.pc = "release"] /\ UNCHANGED <<agent, lock>>
      \/ Put(tick.id, FailedBy(a)) /\ TickEnds
      \/ PaneClosed(a) /\ Put(tick.id, Forgotten(a)) /\ TickEnds
      \/ Put(tick.id, p) /\ TickEnds
      \/ agent' = agent /\ TickEnds
  <2>1. (CASE settled -> tick' = [tick EXCEPT !.pc = "release"] /\ UNCHANGED <<agent, lock>>
            [] s = "exited" -> Put(tick.id, FailedBy(a)) /\ TickEnds
            [] s = "error" /\ PaneClosed(a) -> Put(tick.id, Forgotten(a)) /\ TickEnds
            [] s = "prompt" /\ a.status = Booting -> Put(tick.id, p) /\ TickEnds
            [] OTHER -> TickEnds /\ UNCHANGED agent)
    BY DEF TickObserve
  <2> HIDE DEF settled, s, p, a
  <2> QED  BY <2>1
<1>3. Keeps(a, FailedBy(a)) /\ FailedBy(a) \in Record
  BY <1>1, FailedKeeps DEF Keeps
<1>4. PaneClosed(a) => Keeps(a, Forgotten(a)) /\ Forgotten(a) \in Record
  BY <1>1, ForgottenKeeps DEF Keeps
<1>5. Keeps(a, p) /\ p \in Record
  BY <1>1 DEF Keeps, Record, Live
<1> HIDE DEF p, s, settled
<1>6. CASE tick' = [tick EXCEPT !.pc = "release"] /\ UNCHANGED <<agent, lock>>
  <2>1. \E t \in TickSteps : tick' = [tick EXCEPT !.pc = t]
    BY <1>6 DEF TickSteps
  <2>2. Put(tick.id, a) /\ Keeps(a, a)
    BY <1>1, <1>6, SelfPut
  <2> QED  BY <1>0, <1>1, <1>6, <2>1, <2>2, TickPuts
<1>7. CASE TickEnds /\ agent' = agent
  <2>1. Put(tick.id, a) /\ Keeps(a, a)
    BY <1>1, <1>7, SelfPut
  <2> QED  BY <1>0, <1>1, <1>7, <2>1, TickPuts
<1>8. CASE Put(tick.id, FailedBy(a)) /\ TickEnds
  BY <1>0, <1>3, <1>8, TickPuts
<1>9. CASE PaneClosed(a) /\ Put(tick.id, Forgotten(a)) /\ TickEnds
  BY <1>0, <1>4, <1>9, TickPuts
<1>10. CASE Put(tick.id, p) /\ TickEnds
  BY <1>0, <1>5, <1>10, TickPuts
<1> QED  BY <1>2, <1>6, <1>7, <1>8, <1>9, <1>10

LEMMA TickReadyKeeps ==
    ASSUME IInv, TickReady
    PROVE  IInv'
<1> DEFINE a == agent[tick.id]  b == [a EXCEPT !.held = FALSE]
           c == IF b.status = Booting THEN [b EXCEPT !.status = Active, !.blocked = FALSE, !.boot = "none"] ELSE b
<1>0. /\ tick.pc \in TickSteps /\ UNCHANGED <<names, world, op, ren, ops, mishaps>>
      /\ Put(tick.id, c) /\ TickEnds
  BY DEF TickReady, TickSteps
<1>1. tick.id \in Ids /\ a \in Record
  BY <1>0, TickHeld
<1>2. /\ b \in Record /\ b.here = a.here /\ b.name = a.name /\ b.from = a.from /\ b.to = a.to /\ b.proc = a.proc
      /\ b.rehitch = a.rehitch /\ b.pane = a.pane /\ b.status = a.status
  BY <1>1 DEF Record
<1> HIDE DEF b
<1>3. /\ c \in Record /\ c.here = b.here /\ c.name = b.name /\ c.from = b.from /\ c.to = b.to /\ c.proc = b.proc
      /\ c.rehitch = b.rehitch /\ c.pane = b.pane /\ (c.status = b.status \/ b.status = Booting)
  <2>1. CASE b.status = Booting
    BY <1>2, <2>1, ZenonT(40) DEF Record
  <2>2. CASE b.status # Booting
    BY <1>2, <2>2
  <2> QED  BY <2>1, <2>2
<1> HIDE DEF c
<1>4. Keeps(a, c)
  BY <1>2, <1>3 DEF Keeps, Live
<1> QED  BY <1>0, <1>3, <1>4, TickPuts

LEMMA HeldFewer ==
    ASSUME Types, Holds, NEW id, native' = native,
           panes' = {IF p.id = id THEN [p EXCEPT !.held = FALSE] ELSE p : p \in panes}
    PROVE  /\ Fewer /\ panes' \subseteq Panes
           /\ \A p \in panes' : \E q \in panes : p.id = q.id /\ p.pid = q.pid
           /\ \A q \in panes : \E p \in panes' : p.id = q.id /\ p.pid = q.pid
<1> DEFINE Loose(p) == IF p.id = id THEN [p EXCEPT !.held = FALSE] ELSE p
<1>1. \A p \in panes : Loose(p) \in Panes /\ Loose(p).id = p.id /\ Loose(p).pid = p.pid
  BY DEF Types, Panes
<1>2. panes' = {Loose(p) : p \in panes}
  OBVIOUS
<1> HIDE DEF Loose
<1>3. \A q \in panes' : \E p \in panes : q = Loose(p)
  BY <1>2
<1>4. \A p, q \in panes' : p.id = q.id \/ p.pid = q.pid => p = q
  BY <1>1, <1>3 DEF Holds, Server
<1> QED  BY <1>1, <1>2, <1>3, <1>4 DEF Fewer

\* Less to be reached, and nothing else.
LEMMA LessKeeps ==
    ASSUME IInv, Fewer, panes' \subseteq Panes, native' \in [Pids -> Natives],
           UNCHANGED <<agent, names, gens, born, strays, cut, op, ren, ops>>, mishaps' \in 0..MaxMishaps,
           OtherLocks', TickControl', tick' \in Ticks, lock' = lock
    PROVE  IInv'
<1>1. Holds' /\ Named' /\ Command' /\ OpLocks'
  BY FewerHolds, FewerNamed, FewerCommand DEF IInv
<1>2. RenControl'
  BY DEF IInv, Others, RenControl
<1>3. \A p \in panes' : p.id \in PaneIds /\ p.id.gen = gens /\ p.pid \in 1..born
  BY DEF Fewer, IInv, Types, TypeOK
<1>4. Types'
  BY <1>3 DEF IInv, Types, TypeOK
<1>5. Budget'
  <2>1. Rehitching' \subseteq Rehitching /\ Carries' = Carries
    BY CarriesSame DEF Rehitching
  <2> QED  BY <2>1, FewerRehitching, OpsGrow DEF IInv
<1> QED  BY <1>1, <1>2, <1>4, <1>5 DEF IInv, Others

LEMMA TickReleaseKeeps ==
    ASSUME IInv, TickRelease
    PROVE  IInv'
<1> DEFINE a == agent[tick.id]
           loose == {IF p.id = a.pane THEN [p EXCEPT !.held = FALSE] ELSE p : p \in panes}
<1>0. tick.pc \in TickSteps /\ UNCHANGED <<names, gens, born, native, strays, cut, op, ren, ops, mishaps>>
  BY DEF TickRelease, TickSteps
<1>1. tick.id \in Ids /\ a \in Record /\ a.pane # None
  BY <1>0, TickHeld
<1>2. \/ /\ Put(tick.id, FailedBy(a)) \/ agent' = agent
         /\ TickEnds /\ UNCHANGED panes
      \/ panes' = loose /\ tick' = [tick EXCEPT !.pc = "ready"] /\ UNCHANGED <<agent, lock>>
  <2> DEFINE late == IF a.status = Booting /\ (a.blocked \/ a.boot = "past")
                     THEN Put(tick.id, FailedBy(a)) ELSE UNCHANGED agent
             cp == CheckPane(a.pane)  s == Capture(a)
  <2>1. (CASE cp = "replaced" -> late /\ TickEnds /\ UNCHANGED panes
            [] cp = "absent" -> TickEnds /\ UNCHANGED <<agent, panes>>
            [] s = "exited" -> Put(tick.id, FailedBy(a)) /\ TickEnds /\ UNCHANGED panes
            [] OTHER -> panes' = loose /\ tick' = [tick EXCEPT !.pc = "ready"] /\ UNCHANGED <<agent, lock>>)
    BY DEF TickRelease
  <2>2. late => Put(tick.id, FailedBy(a)) \/ agent' = agent
    OBVIOUS
  <2> HIDE DEF late, cp, s, loose
  <2> QED  BY <2>1, <2>2
<1> HIDE DEF loose
<1>3. CASE (Put(tick.id, FailedBy(a)) \/ agent' = agent) /\ TickEnds /\ UNCHANGED panes
  <2>1. Keeps(a, FailedBy(a)) /\ FailedBy(a) \in Record
    BY <1>1, FailedKeeps DEF Keeps
  <2>2. agent' = agent => Put(tick.id, a) /\ Keeps(a, a)
    BY <1>1, SelfPut
  <2>3. UNCHANGED world
    BY <1>0, <1>3 DEF world
  <2> QED  BY <1>0, <1>1, <1>3, <2>1, <2>2, <2>3, TickPuts
<1>4. CASE panes' = loose /\ tick' = [tick EXCEPT !.pc = "ready"] /\ UNCHANGED <<agent, lock>>
  <2>1. Fewer /\ panes' \subseteq Panes
    BY <1>0, <1>4, HeldFewer DEF loose, IInv
  <2>2. tick'.pc = "ready" /\ tick'.id = tick.id /\ tick' \in Ticks
    BY <1>0, <1>4, TickHeld DEF Ticks, TickSteps
  <2>3. OtherLocks' /\ TickControl'
    BY <1>0, <1>1, <1>4, <2>2 DEF IInv, Others, OtherLocks, TickControl, TickSteps
  <2> QED  BY <1>0, <1>4, <2>1, <2>2, <2>3, LessKeeps, OpsGrow DEF IInv, Types, TypeOK
<1> QED  BY <1>2, <1>3, <1>4

-----------------------------------------------------------------------------
(* The native programs, the server and the clock.                            *)

LEMMA ShowsKeeps ==
    ASSUME IInv, NEW k \in Pids, NEW s \in {"prompt", "ready"}, Shows(k, s)
    PROVE  IInv'
<1>1. /\ native' = [native EXCEPT ![k].screen = s]
      /\ UNCHANGED <<agent, names, lock, panes, gens, born, strays, cut, op, tick, ren, ops, mishaps>>
  BY DEF Shows
<1>2. native \in [Pids -> Natives] /\ panes \subseteq Panes
  BY DEF IInv, Types
<1>3. /\ native' \in [Pids -> Natives]
      /\ \A j \in Pids : /\ native'[j].of = native[j].of /\ native'[j].gen = native[j].gen
                         /\ native'[j].witnessed = native[j].witnessed /\ native'[j].alive = native[j].alive
  BY <1>1, <1>2 DEF Natives
<1>4. Fewer
  BY <1>1, <1>3 DEF Fewer, IInv, Holds, Server
<1>5. OtherLocks' /\ TickControl'
  BY <1>1 DEF IInv, Others, OtherLocks, TickControl
<1> QED  BY <1>1, <1>2, <1>3, <1>4, <1>5, LessKeeps DEF IInv, Types, TypeOK

LEMMA NativeExitsKeeps ==
    ASSUME IInv, NEW k \in Pids, NativeExits(k)
    PROVE  IInv'
<1>1. /\ native' = [native EXCEPT ![k].alive = FALSE] /\ panes' \subseteq panes /\ mishaps < MaxMishaps
      /\ mishaps' = mishaps + 1
      /\ UNCHANGED <<agent, names, lock, gens, born, strays, cut, op, tick, ren, ops>>
  BY DEF NativeExits
<1>2. native \in [Pids -> Natives] /\ panes \subseteq Panes
  BY DEF IInv, Types
<1>3. /\ native' \in [Pids -> Natives]
      /\ \A j \in Pids : /\ native'[j].of = native[j].of /\ native'[j].gen = native[j].gen
                         /\ native'[j].witnessed = native[j].witnessed /\ (native'[j].alive => native[j].alive)
  BY <1>1, <1>2 DEF Natives
<1>4. Fewer
  BY <1>1, <1>3 DEF Fewer, IInv, Holds, Server
<1>5. OtherLocks' /\ TickControl'
  BY <1>1 DEF IInv, Others, OtherLocks, TickControl
<1>6. mishaps' \in 0..MaxMishaps
  BY <1>1, OpsGrow DEF IInv
<1> QED  BY <1>1, <1>2, <1>3, <1>4, <1>5, <1>6, LessKeeps DEF IInv, Types

LEMMA ServerDiesKeeps ==
    ASSUME IInv, NEW kept \in SUBSET Pids, ServerDies(kept)
    PROVE  IInv'
<1>1. /\ native' = [j \in Pids |-> IF j \in kept THEN native[j] ELSE [native[j] EXCEPT !.alive = FALSE]]
      /\ panes' = {} /\ mishaps < MaxMishaps /\ mishaps' = mishaps + 1
      /\ UNCHANGED <<agent, names, lock, gens, born, strays, cut, op, tick, ren, ops>>
  BY DEF ServerDies
<1>2. native \in [Pids -> Natives]
  BY DEF IInv, Types
<1>3. /\ native' \in [Pids -> Natives]
      /\ \A j \in Pids : /\ native'[j].of = native[j].of /\ native'[j].gen = native[j].gen
                         /\ native'[j].witnessed = native[j].witnessed /\ (native'[j].alive => native[j].alive)
  BY <1>1, <1>2 DEF Natives
<1>4. Fewer /\ panes' \subseteq Panes
  BY <1>1, <1>3 DEF Fewer
<1>5. OtherLocks' /\ TickControl'
  BY <1>1 DEF IInv, Others, OtherLocks, TickControl
<1>6. mishaps' \in 0..MaxMishaps
  BY <1>1, OpsGrow DEF IInv
<1> QED  BY <1>1, <1>3, <1>4, <1>5, <1>6, LessKeeps DEF IInv, Types

\* A deadline changes nothing that the others rely on.
LEMMA DeadlinePassesKeeps ==
    ASSUME IInv, NEW h \in Ids, DeadlinePasses(h)
    PROVE  IInv'
<1> DEFINE a == agent[h]  c == [a EXCEPT !.boot = "past"]
<1>1. Put(h, c) /\ UNCHANGED <<names, lock, world, op, tick, ren, ops, mishaps>>
  BY DEF DeadlinePasses
<1>2. /\ c \in Record /\ c.here = a.here /\ c.name = a.name /\ c.from = a.from /\ c.to = a.to /\ c.proc = a.proc
      /\ c.rehitch = a.rehitch /\ c.pane = a.pane /\ c.status = a.status
  BY DEF IInv, Types, TypeOK, Record
<1> HIDE DEF c
<1>3. Keeps(a, c)
  BY <1>2 DEF Keeps, Live
<1>4. Holds'
  <2>1. UNCHANGED Shown /\ StillLaunching
    BY <1>1 DEF world, Shown, StillLaunching
  <2>2. ~c.here => ~c.rehitch
    BY <1>2 DEF IInv, Holds, Owning
  <2> QED  BY <1>1, <1>2, <2>1, <2>2, PutHolds DEF IInv
<1>5. Named'
  BY <1>1, <1>3, PutNamed DEF IInv, world
<1>6. agent'[h] = c /\ \A i \in Ids \ {h} : agent'[i] = agent[i]
  BY <1>1 DEF IInv, Types, TypeOK, Put
<1>7. \A i \in Ids : /\ agent'[i].here = agent[i].here /\ agent'[i].name = agent[i].name
                     /\ agent'[i].from = agent[i].from /\ agent'[i].to = agent[i].to
                     /\ agent'[i].proc = agent[i].proc /\ agent'[i].rehitch = agent[i].rehitch
                     /\ agent'[i].pane = agent[i].pane /\ agent'[i].status = agent[i].status
  BY <1>2, <1>6
<1>8. \A i \in Ids : Live(agent[i])' <=> Live(agent[i])
  BY <1>1, <1>7 DEF Live, world
<1>9. UNCHANGED <<names, lock, panes, gens, born, native, strays, cut, op, tick, ren>>
  BY <1>1 DEF world
<1>10. op.pc \notin {"none", "next_drop"} => op.id \in Ids
  BY DEF IInv, Command, KindOf
<1>11. OpLocks' /\ KindOf' /\ Strayless'
  BY <1>9 DEF IInv, Command, OpLocks, KindOf, Strayless, Launches
<1>12. First'
  BY <1>7, <1>9, <1>10 DEF IInv, Command, First, Fronts
<1>13. Superseding'
  BY <1>7, <1>8, <1>9 DEF IInv, Command, Superseding
<1>14. Ending'
  BY <1>7, <1>9, <1>10 DEF IInv, Command, Ending, Bare, Dead, Closings
<1>15. Starts'
  BY <1>7, <1>9, <1>10 DEF IInv, Command, Starts, Bare, Dead, Ended, Reachable
<1>16. Registered'
  BY <1>7, <1>9, <1>10 DEF IInv, Command, Registered, Used, Present, Startups
<1>17. Emptying'
  <2>1. op \in Commands
    BY DEF IInv, Types
  <2> QED  BY <1>7, <1>8, <1>9, <2>1 DEF IInv, Command, Emptying, Commands
<1>18. Others'
  <2>1. OtherLocks' /\ TickControl'
    BY <1>7, <1>9 DEF IInv, Others, OtherLocks, TickControl, TickSteps
  <2>2. RenControl'
    BY <1>7, <1>9 DEF IInv, Others, RenControl, RenSteps
  <2> QED  BY <2>1, <2>2 DEF Others
<1>19. Types'
  <2>1. NamesOf(h)
    BY <1>1, SameNames DEF IInv
  <2> QED  BY <1>1, <1>2, <2>1, PutTypes, OpsGrow DEF IInv, Types, TypeOK
<1>20. Budget'
  <2>1. Rehitching' \subseteq Rehitching /\ Carries' = Carries
    BY <1>1, <1>2, RehitchingPut, CarriesSame DEF IInv
  <2> QED  BY <1>1, <1>9, <2>1, FewerRehitching, OpsGrow DEF IInv
<1> QED  BY <1>4, <1>5, <1>11, <1>12, <1>13, <1>14, <1>15, <1>16, <1>17, <1>18, <1>19, <1>20 DEF IInv, Command

-----------------------------------------------------------------------------
(* A process that is killed.                                                 *)

\* Without a command, nothing is held for one.
LEMMA QuietCommand ==
    ASSUME op' = Quiet, \A h \in Ids : lock'[h] # "op"
    PROVE  Command' /\ OpLocks' /\ op' \in Commands /\ ~Carries' /\ ~Launches'
<1>1. /\ op'.pc = "none" /\ op'.kind = "none" /\ op'.id = None /\ op'.name = None /\ op'.todo = {}
      /\ op'.pane = None /\ op'.pid = None /\ op'.exists = FALSE
  BY DEF Quiet
<1>2. op' \in Commands
  BY DEF Quiet, Commands, Steps, Kinds
<1>3. ~Launches' /\ ~Carries'
  BY <1>1 DEF Launches, Carries, LaunchKinds
<1>4. KindOf'
  BY <1>1 DEF KindOf, Fronts, Closings, Startups
<1>5. First' /\ Superseding' /\ Ending' /\ Starts' /\ Registered' /\ Emptying'
  BY <1>1 DEF First, Superseding, Ending, Starts, Registered, Emptying, Fronts, Closings, Startups
<1>6. OpLocks'
  BY <1>1 DEF OpLocks, Holding, Startups, Closings
<1>7. Strayless'
  BY <1>3 DEF Strayless
<1> QED  BY <1>2, <1>3, <1>4, <1>5, <1>6, <1>7 DEF Command

LEMMA OpFacts ==
    ASSUME IInv
    PROVE  /\ op \in Commands /\ agent \in [Ids -> Record] /\ names \in [Names -> Ids \cup {None}]
           /\ lock \in [Ids -> {"free", "op", "tick", "ren"}] /\ native \in [Pids -> Natives]
           /\ panes \subseteq Panes /\ born \in Nat /\ 1..born \subseteq Pids
           /\ op.pc \notin {"none", "next_drop"} => op.id \in Ids /\ agent[op.id] \in Record
           /\ op.pc \in Holding => lock[op.id] = "op"
  BY BornArePids DEF IInv, Types, TypeOK, Command, KindOf, OpLocks

LEMMA CrashKeeps ==
    ASSUME IInv, NEW who \in {"op", "tick", "ren"}, Crash(who)
    PROVE  IInv'
<1>0. /\ lock' = [h \in Ids |-> IF lock[h] = who THEN "free" ELSE lock[h]] /\ mishaps < MaxMishaps
      /\ mishaps' = mishaps + 1 /\ UNCHANGED <<agent, names, panes, gens, born, native, cut, ops>>
  BY DEF Crash
<1>1. /\ lock' \in [Ids -> {"free", "op", "tick", "ren"}] /\ mishaps' \in 0..MaxMishaps
      /\ \A h \in Ids : lock'[h] = IF lock[h] = who THEN "free" ELSE lock[h]
      /\ \A h \in Ids : lock[h] \in {"free", "op", "tick", "ren"}
  BY <1>0, OpFacts, OpsGrow DEF IInv
<1>2. \A h \in Ids, l \in {"op", "tick", "ren"} : lock'[h] = l <=> lock[h] = l /\ l # who
  BY <1>1
<1>3. CASE who = "op"
  <2>1. op' = Quiet /\ UNCHANGED <<tick, ren>>
        /\ strays' = IF op.pc = "register" THEN strays \cup {op.pid} ELSE strays
    BY <1>3 DEF Crash
  <2>2. \A h \in Ids : lock'[h] # "op"
    BY <1>1, <1>3
  <2>3. Command' /\ OpLocks' /\ op' \in Commands /\ ~Carries'
    BY <2>1, <2>2, QuietCommand
  <2>4. Others'
    BY <1>0, <1>2, <1>3, <2>1 DEF IInv, Others, OtherLocks, TickControl, RenControl
  <2>5. op.pc = "register" => /\ op.pid \in 1..born /\ ~native[op.pid].witnessed
                              /\ \A h \in Ids : agent[h].pane # op.pane
                              /\ \A p \in panes : p.id = op.pane <=> p.pid = op.pid
    BY DEF IInv, Command, Registered, Starts
  <2>6. Types'
    <3>1. strays' \subseteq 1..born
      BY <2>1, <2>5 DEF IInv, Types, TypeOK
    <3> QED  BY <1>0, <1>1, <2>1, <2>3, <3>1 DEF IInv, Types, TypeOK
  <2>7. Holds'
    <3>1. Server'
      BY <1>0, <2>1, <2>5 DEF IInv, Holds, Server, Used
    <3>2. ASSUME NEW h \in Ids
          PROVE  Owning(h)'
      <4>1. \A p \in panes : agent[h].pane = p.id => p.pid \notin strays'
        BY <2>1, <2>5 DEF IInv, Holds, Owning
      <4>2. Owning(h) /\ (Used(agent[h].pane)' <=> Used(agent[h].pane))
        BY <1>0 DEF IInv, Holds, Used
      <4> QED  BY <1>0, <4>1, <4>2 DEF Owning
    <3>3. PaneIsRecorded'
      BY <1>0, <2>1 DEF IInv, Holds, PaneIsRecorded
    <3>4. OneNative' /\ WitnessKept'
      BY <1>0 DEF IInv, Holds, OneNative, WitnessKept, Reachable
    <3> QED  BY <3>1, <3>2, <3>3, <3>4 DEF Holds
  <2>8. Named'
    BY <1>0 DEF IInv, Named, Naming, Live, NoForgottenNameUncut, Knows
  <2>9. Budget'
    <3>1. Rehitching' = Rehitching
      BY <1>0 DEF Rehitching
    <3> QED  BY <1>0, <2>3, <3>1, FewerRehitching, OpsGrow DEF IInv
  <2> QED  BY <2>3, <2>4, <2>6, <2>7, <2>8, <2>9 DEF IInv
<1>4. CASE who = "tick"
  <2>1. tick' = Rest /\ UNCHANGED <<op, ren, strays>>
    BY <1>4 DEF Crash
  <2>2. tick'.pc = "none" /\ tick' \in Ticks
    BY <2>1 DEF Rest, Ticks
  <2>3. Holds' /\ Named' /\ OpLocks' /\ Command' /\ Budget'
    BY <1>0, <1>2, <1>4, <2>1, NothingPut, OpsGrow DEF IInv, world
  <2>4. Others'
    BY <1>0, <1>2, <1>4, <2>1, <2>2 DEF IInv, Others, OtherLocks, TickControl, RenControl, TickSteps
  <2>5. Types'
    BY <1>0, <1>1, <2>1, <2>2 DEF IInv, Types, TypeOK
  <2> QED  BY <2>3, <2>4, <2>5 DEF IInv
<1>5. CASE who = "ren"
  <2>1. ren' = Rest /\ UNCHANGED <<op, tick, strays>>
    BY <1>5 DEF Crash
  <2>2. ren'.pc = "none" /\ ren'.id = None /\ ren' \in Renames
    BY <2>1 DEF Rest, Renames
  <2>3. Holds' /\ Named' /\ OpLocks' /\ Command' /\ Budget'
    BY <1>0, <1>2, <1>5, <2>1, <2>2, NothingPut, OpsGrow DEF IInv, world
  <2>4. Others'
    BY <1>0, <1>2, <1>5, <2>1, <2>2 DEF IInv, Others, OtherLocks, TickControl, RenControl, RenSteps
  <2>5. Types'
    BY <1>0, <1>1, <2>1, <2>2 DEF IInv, Types, TypeOK
  <2> QED  BY <2>3, <2>4, <2>5 DEF IInv
<1> QED  BY <1>3, <1>4, <1>5

-----------------------------------------------------------------------------
(* A command begins.                                                         *)

\* The command goes on without writing anything.
LEMMA OpOnly ==
    ASSUME IInv, UNCHANGED <<agent, names, world, tick, ren>>, op' \in Commands, op.pc # "register",
           lock' \in [Ids -> {"free", "op", "tick", "ren"}],
           \A i \in Ids : lock'[i] = lock[i] \/ {lock[i], lock'[i]} \subseteq {"free", "op"},
           Command', OpLocks', Budget', ops' \in 0..MaxOps, mishaps' \in 0..MaxMishaps
    PROVE  IInv'
<1>1. UNCHANGED <<agent, names, panes, gens, born, native, strays, cut, tick, ren>>
  BY DEF world
<1>2. Holds'
  <2>1. Server' /\ OneNative' /\ WitnessKept'
    BY <1>1 DEF IInv, Holds, Server, Used, OneNative, WitnessKept, Reachable
  <2>2. \A h \in Ids : Owning(h)'
    BY <1>1, SMTT(30) DEF IInv, Holds, Owning, Used
  <2>3. PaneIsRecorded'
    BY <1>1 DEF IInv, Holds, PaneIsRecorded
  <2> QED  BY <2>1, <2>2, <2>3 DEF Holds
<1>3. Named'
  BY <1>1 DEF IInv, Named, Naming, Live, NoForgottenNameUncut, Knows
<1>4. Others'
  <2>1. \A i \in Ids, l \in {"tick", "ren"} : lock'[i] = l <=> lock[i] = l
    OBVIOUS
  <2> QED  BY <1>1, <2>1 DEF IInv, Others, OtherLocks, TickControl, RenControl
<1>5. Types'
  BY <1>1 DEF IInv, Types, TypeOK
<1> QED  BY <1>2, <1>3, <1>4, <1>5 DEF IInv

\* While no command runs, no lock is one's.
LEMMA NoneHeld ==
    ASSUME IInv, op.pc \notin Holding \cup {"acquire", "release", "free"}
    PROVE  \A h \in Ids : lock[h] # "op"
  BY DEF IInv, OpLocks

\* Panes that nobody recorded hold nothing that runs, unless they are looked for.
LEMMA Unseen ==
    ASSUME IInv, ~(Exists /\ Unregistered)
    PROVE  \A p \in panes : p.pid \in strays => ~native[p.pid].alive
<1> SUFFICES ASSUME NEW p \in panes, p.pid \in strays, native[p.pid].alive
             PROVE  FALSE
  OBVIOUS
<1>1. Exists
  BY DEF Exists
<1>2. Owned(p)
  BY <1>1 DEF Unregistered
<1>3. PICK h \in Listed : agent[h].pane = p.id
  BY <1>2 DEF Owned
<1>4. h \in Ids
  BY <1>3 DEF Listed
<1> QED  BY <1>3, <1>4 DEF IInv, Holds, Owning

LEMMA HitchBeginKeeps ==
    ASSUME IInv, NEW h \in Ids, NEW n \in Names, NEW kind \in {"hitch", "up", "stopped"}, HitchBegin(kind, h, n)
    PROVE  IInv'
<1>1. /\ op.pc = "none" /\ ops < MaxOps /\ ops' = ops + 1 /\ ~(Exists /\ Unregistered)
      /\ UNCHANGED <<agent, names, lock, world, tick, ren, mishaps>>
      /\ kind \in {"hitch", "up"} => /\ ~agent[h].here /\ ren.id # h
                                     /\ \A k \in Pids : native[k].of # h
                                     /\ \A m \in Names : names[m] # h
      /\ op' = [Quiet EXCEPT !.pc = IF kind \in {"hitch", "up"} THEN "mkdir" ELSE "prepare",
                             !.kind = kind, !.id = h, !.name = n, !.exists = Exists]
  BY DEF HitchBegin
<1>2. /\ op'.pc = IF kind \in {"hitch", "up"} THEN "mkdir" ELSE "prepare"
      /\ op'.kind = kind /\ op'.id = h /\ op'.name = n /\ op'.todo = {} /\ op'.pane = None /\ op'.pid = None
      /\ op'.exists \in BOOLEAN
  BY <1>1 DEF Quiet, Exists
<1>3. op' \in Commands
  BY <1>1, <1>2 DEF Quiet, Commands, Steps, Kinds, Fronts, Exists
<1>4. \A i \in Ids : lock[i] # "op"
  BY <1>1, NoneHeld DEF Holding, Startups, Closings
<1>5. OpLocks'
  BY <1>1, <1>2, <1>4 DEF OpLocks, Holding, Startups, Closings
<1>6. KindOf'
  BY <1>2 DEF KindOf, Startups, Closings, Fronts, LaunchKinds
<1>7. First'
  BY <1>1, <1>2 DEF First, Fronts, world
<1>8. Superseding' /\ Ending' /\ Starts' /\ Registered' /\ Emptying'
  BY <1>2 DEF Superseding, Ending, Starts, Registered, Emptying, Startups, Closings
<1>9. Strayless'
  BY <1>1, Unseen DEF Strayless, world
<1>10. Command'
  BY <1>6, <1>7, <1>8, <1>9 DEF Command
<1>11. ops' \in 0..MaxOps /\ mishaps' \in 0..MaxMishaps
  BY <1>1, OpsGrow DEF IInv
<1>12. Budget'
  <2>1. Rehitching' = Rehitching /\ gens' = gens /\ born' = born
    BY <1>1 DEF Rehitching, world
  <2>2. ~Carries
    BY <1>1 DEF Carries, Launches, Fronts
  <2>3. Cardinality(Rehitching) \in Nat
    BY FS_CardinalityType DEF IInv, Budget
  <2>4. born \in Nat /\ ops \in Nat /\ gens \in Nat
    BY NoneIsNone DEF IInv, Types, TypeOK, MaxNatives
  <2> QED  BY <1>1, <2>1, <2>2, <2>3, <2>4 DEF IInv, Budget
<1> QED  BY <1>1, <1>3, <1>5, <1>10, <1>11, <1>12, OpOnly, OpFacts

LEMMA BudgetOver ==
    ASSUME IInv, UNCHANGED <<agent, gens, born>>, ops' \in Nat, ops' >= ops, Carries' => Carries
    PROVE  Budget'
<1>1. Rehitching' = Rehitching
  BY DEF Rehitching
<1> QED  BY <1>1, FewerRehitching DEF IInv

LEMMA DropBeginKeeps ==
    ASSUME IInv, NEW n \in Names, DropBegin(n)
    PROVE  IInv'
<1> DEFINE h == names[n]
<1>1. /\ op.pc = "none" /\ ops < MaxOps /\ ops' = ops + 1 /\ h # None
      /\ UNCHANGED <<agent, names, lock, world, tick, ren, mishaps>>
      /\ op' = [Quiet EXCEPT !.pc = IF agent[names[n]].here THEN "acquire" ELSE "free",
                             !.kind = "drop", !.id = names[n], !.name = n,
                             !.todo = IF agent[names[n]].here THEN {} ELSE {names[n]}]
  BY DEF DropBegin
<1>2. h \in Ids
  BY <1>1 DEF IInv, Types, TypeOK
<1>3. /\ op'.pc = IF agent[h].here THEN "acquire" ELSE "free"
      /\ op'.kind = "drop" /\ op'.id = h /\ op'.name = n /\ op'.pane = None /\ op'.pid = None
      /\ op'.todo \subseteq Ids
  BY <1>1, <1>2 DEF Quiet
<1>4. op' \in Commands
  BY <1>1, <1>2 DEF Quiet, Commands, Steps, Kinds
<1>5. \A i \in Ids : lock[i] # "op"
  BY <1>1, NoneHeld DEF Holding, Startups, Closings
<1> HIDE DEF h
<1>6. OpLocks'
  BY <1>1, <1>3, <1>5 DEF OpLocks, Holding, Startups, Closings
<1>7. KindOf'
  BY <1>2, <1>3 DEF KindOf, Startups, Closings, Fronts, LaunchKinds
<1>8. First' /\ Superseding' /\ Starts' /\ Registered' /\ Emptying'
  BY <1>3 DEF First, Superseding, Starts, Registered, Emptying, Startups, Closings, Fronts
<1>9. Ending'
  BY <1>1, <1>3 DEF Ending, Closings
<1>10. ~Launches' /\ ~Carries'
  BY <1>3 DEF Launches, Carries, LaunchKinds
<1>11. Command'
  BY <1>7, <1>8, <1>9, <1>10 DEF Command, Strayless
<1>12. ops' \in 0..MaxOps /\ mishaps' \in 0..MaxMishaps /\ ops' \in Nat /\ ops' >= ops
  BY <1>1, OpsGrow DEF IInv
<1>13. Budget'
  BY <1>1, <1>10, <1>12, BudgetOver DEF world
<1> QED  BY <1>1, <1>4, <1>6, <1>11, <1>12, <1>13, OpOnly, OpFacts

LEMMA DownBeginKeeps ==
    ASSUME IInv, DownBegin
    PROVE  IInv'
<1>1. /\ op.pc = "none" /\ ops < MaxOps /\ ops' = ops + 1
      /\ UNCHANGED <<agent, names, lock, world, tick, ren, mishaps>>
      /\ op' = [Quiet EXCEPT !.pc = "next_drop", !.kind = "down", !.todo = Listed]
  BY DEF DownBegin
<1>2. op'.pc = "next_drop" /\ op'.kind = "down" /\ op'.todo = Listed /\ op'.id = None
  BY <1>1 DEF Quiet
<1>3. op' \in Commands
  BY <1>1 DEF Quiet, Commands, Steps, Kinds, Listed
<1>4. \A i \in Ids : lock[i] # "op"
  BY <1>1, NoneHeld DEF Holding, Startups, Closings
<1>5. OpLocks'
  BY <1>1, <1>2, <1>4 DEF OpLocks, Holding, Startups, Closings
<1>6. KindOf'
  BY <1>2 DEF KindOf, Startups, Closings, Fronts, LaunchKinds
<1>7. First' /\ Superseding' /\ Starts' /\ Registered' /\ Ending'
  BY <1>2 DEF First, Superseding, Starts, Registered, Ending, Startups, Closings, Fronts
<1>8. Emptying'
  <2>1. \A h \in Ids : agent[h].here => h \in Listed \/ ~Live(agent[h])
    BY NoneIsNone DEF IInv, Named, Naming, Listed
  <2>2. \A h \in Listed : agent[h].here
    BY DEF Listed
  <2>3. \A h \in Ids : Live(agent[h])' <=> Live(agent[h])
    BY <1>1 DEF Live, world
  <2> QED  BY <1>1, <1>2, <2>1, <2>2, <2>3 DEF Emptying
<1>10. ~Launches' /\ ~Carries'
  BY <1>2 DEF Launches, Carries, LaunchKinds
<1>11. Command'
  BY <1>6, <1>7, <1>8, <1>10 DEF Command, Strayless
<1>12. ops' \in 0..MaxOps /\ mishaps' \in 0..MaxMishaps /\ ops' \in Nat /\ ops' >= ops
  BY <1>1, OpsGrow DEF IInv
<1>13. Budget'
  BY <1>1, <1>10, <1>12, BudgetOver DEF world
<1> QED  BY <1>1, <1>3, <1>5, <1>11, <1>12, <1>13, OpOnly, OpFacts

LEMMA RehitchPendingKeeps ==
    ASSUME IInv, RehitchPending
    PROVE  IInv'
<1> DEFINE h == tick.id  a == agent[h]
           o == [Quiet EXCEPT !.pc = IF Exists /\ Unregistered THEN "report" ELSE "prepare",
                              !.kind = "rehitch", !.id = tick.id, !.name = a.name, !.exists = Exists]
<1>1. /\ tick.pc = "rehitch" /\ tick' = Rest
      /\ op' = IF op.pc = "none" /\ Ready(a) THEN o ELSE op
      /\ UNCHANGED <<agent, names, lock, world, ren, ops, mishaps>>
  BY DEF RehitchPending
<1>2. h \in Ids /\ a \in Record
  BY <1>1, OpFacts DEF IInv, Others, TickControl
<1>3. tick'.pc = "none" /\ tick' \in Ticks
  BY <1>1 DEF Rest, Ticks
<1>4. Others'
  <2>1. tick.pc \notin TickSteps
    BY <1>1 DEF TickSteps
  <2>2. tick'.pc \notin TickSteps
    BY <1>3 DEF TickSteps
  <2>3. OtherLocks' /\ TickControl'
    BY <1>1, <1>3, <2>1, <2>2 DEF IInv, Others, OtherLocks, TickControl
  <2>4. RenControl'
    BY <1>1 DEF IInv, Others, RenControl
  <2> QED  BY <2>3, <2>4 DEF Others
<1>5. CASE op' = op
  <2>1. Holds' /\ Named' /\ OpLocks' /\ Command' /\ Budget'
    BY <1>1, <1>5, NothingPut, OpsGrow DEF IInv
  <2>2. Types'
    BY <1>1, <1>3, <1>5 DEF IInv, Types, TypeOK, world
  <2> QED  BY <1>4, <2>1, <2>2 DEF IInv
<1>6. CASE op.pc = "none" /\ Ready(a) /\ op' = o
  <2>1. a.here /\ a.name \in Names
    BY <1>2, <1>6 DEF Ready, IInv, Named, Naming
  <2>2. /\ op'.pc = IF Exists /\ Unregistered THEN "report" ELSE "prepare"
        /\ op'.kind = "rehitch" /\ op'.id = h /\ op'.name = a.name /\ op'.todo = {} /\ op'.pane = None
        /\ op'.pid = None
    BY <1>6 DEF Quiet
  <2>3. op' \in Commands
    BY <1>2, <1>6, <2>1 DEF Quiet, Commands, Steps, Kinds, Exists
  <2>4. \A i \in Ids : lock[i] # "op"
    BY <1>6, NoneHeld DEF Holding, Startups, Closings
  <2>5. OpLocks'
    BY <1>1, <2>2, <2>4 DEF OpLocks, Holding, Startups, Closings
  <2>6. KindOf'
    BY <1>2, <2>1, <2>2 DEF KindOf, Startups, Closings, Fronts, LaunchKinds
  <2>7. First' /\ Superseding' /\ Starts' /\ Registered' /\ Ending' /\ Emptying'
    BY <2>2 DEF First, Superseding, Starts, Registered, Ending, Emptying, Startups, Closings, Fronts
  <2>8. Strayless'
    <3>1. CASE Exists /\ Unregistered
      BY <2>2, <3>1 DEF Strayless, Launches, Fronts
    <3>2. CASE ~(Exists /\ Unregistered)
      BY <1>1, <3>2, Unseen DEF Strayless, world
    <3> QED  BY <3>1, <3>2
  <2>9. Command'
    BY <2>6, <2>7, <2>8 DEF Command
  <2>10. ~Carries'
    BY <2>2 DEF Carries, Launches, Fronts
  <2>11. Budget'
    BY <1>1, <2>10, BudgetOver, OpsGrow DEF world, IInv
  <2>12. UNCHANGED <<agent, names, panes, gens, born, native, strays, cut>>
    BY <1>1 DEF world
  <2>13. Fewer
    BY <2>12 DEF Fewer, IInv, Holds, Server
  <2>14. Holds' /\ Named'
    BY <1>6, <2>12, <2>13, FewerHolds, FewerNamed DEF IInv
  <2>15. Types'
    BY <1>1, <1>3, <2>3, <2>12 DEF IInv, Types, TypeOK
  <2> QED  BY <1>4, <2>5, <2>9, <2>11, <2>14, <2>15 DEF IInv
<1> QED  BY <1>1, <1>5, <1>6

LEMMA PreflightFailsKeeps ==
    ASSUME IInv, PreflightFails
    PROVE  IInv'
<1>1. /\ op.pc = "prepare" /\ op.kind = "rehitch" /\ mishaps < MaxMishaps /\ op' = [op EXCEPT !.pc = "report"]
      /\ mishaps' = mishaps + 1 /\ UNCHANGED <<agent, names, lock, world, tick, ren, ops>>
  BY DEF PreflightFails
<1>2. op \in Commands /\ op.id \in Ids /\ op.name \in Names
  BY <1>1, OpFacts DEF IInv, Command, KindOf
<1>3. /\ op'.pc = "report" /\ op'.kind = "rehitch" /\ op'.id = op.id /\ op'.name = op.name
      /\ op' \in Commands
  BY <1>1, <1>2 DEF Commands, Steps
<1>4. \A i \in Ids : lock[i] # "op"
  BY <1>1, NoneHeld DEF Holding, Startups, Closings
<1>5. OpLocks'
  BY <1>1, <1>3, <1>4 DEF OpLocks, Holding, Startups, Closings
<1>6. KindOf'
  BY <1>2, <1>3 DEF KindOf, Startups, Closings, Fronts, LaunchKinds
<1>7. First' /\ Superseding' /\ Starts' /\ Registered' /\ Ending' /\ Emptying'
  BY <1>3 DEF First, Superseding, Starts, Registered, Ending, Emptying, Startups, Closings, Fronts
<1>8. ~Launches' /\ ~Carries'
  BY <1>3 DEF Carries, Launches, Fronts
<1>9. Command'
  BY <1>6, <1>7, <1>8 DEF Command, Strayless
<1>10. Budget'
  BY <1>1, <1>8, BudgetOver, OpsGrow DEF world, IInv
<1>11. ops' \in 0..MaxOps /\ mishaps' \in 0..MaxMishaps
  BY <1>1, OpsGrow DEF IInv
<1> QED  BY <1>1, <1>3, <1>5, <1>9, <1>10, <1>11, OpOnly, OpFacts

-----------------------------------------------------------------------------
(* A command that writes its agent's record.                                 *)

LEMMA OpTypes ==
    ASSUME Types, NEW h \in Ids, NEW c \in Record, Put(h, c) \/ agent' = agent, NamesOf(h) \/ names' = names,
           UNCHANGED <<panes, gens, born, native, strays, tick, ren, ops>>, cut' \in {cut, cut \cup {h}},
           lock' \in [Ids -> {"free", "op", "tick", "ren"}], mishaps' \in 0..MaxMishaps, op' \in Commands
    PROVE  Types'
<1>1. agent' \in [Ids -> Record]
  BY DEF Types, TypeOK, Put
<1>2. names' \in [Names -> Ids \cup {None}]
  BY DEF Types, TypeOK, NamesOf
<1>3. cut' \subseteq Ids
  BY DEF Types
<1> QED  BY <1>1, <1>2, <1>3 DEF Types, TypeOK

\* What is left to show for a step that writes what keeps its panes, its process
\* and its names.
LEMMA OpPuts ==
    ASSUME IInv, op.pc \in Holding \cup {"acquire", "release"}, lock[op.id] = "op", NEW c \in Record,
           Put(op.id, c) \/ (agent' = agent /\ c = agent[op.id]),
           Keeps(agent[op.id], c), StillLaunching,
           UNCHANGED <<names, world, tick, ren, ops>>, mishaps' \in 0..MaxMishaps, op' \in Commands,
           lock' \in [Ids -> {"free", "op", "tick", "ren"}],
           \A i \in Ids : lock'[i] = lock[i] \/ {lock[i], lock'[i]} \subseteq {"free", "op"},
           Carries' => Carries
    PROVE  Types' /\ Holds' /\ Named' /\ Others' /\ Budget'
<1>1. PICK h \in Ids : h = op.id
  BY OpFacts DEF Holding, Startups, Closings
<1>2. Put(h, c)
  BY <1>1, SelfPut
<1>3. UNCHANGED <<panes, gens, born, native, strays, cut>> /\ UNCHANGED Shown
  BY DEF world, Shown
<1>4. NamesOf(h)
  BY SameNames DEF IInv
<1>5. Types'
  BY <1>2, <1>3, OpTypes DEF IInv
<1>6. /\ c.here = agent[h].here /\ c.proc = agent[h].proc /\ (c.rehitch => agent[h].rehitch)
      /\ (c.pane = agent[h].pane \/ (c.pane = None /\ ~Present(agent[h].pane)))
  BY <1>1 DEF Keeps
<1>7. ~c.here => ~c.rehitch
  BY <1>6 DEF IInv, Holds, Owning
<1>8. Holds'
  BY <1>2, <1>3, <1>6, <1>7, PutHolds DEF IInv
<1>9. Named'
  BY <1>1, <1>2, <1>3, PutNamed DEF IInv
<1>10. Others'
  BY <1>1, <1>2, <1>4, BesideOthers DEF IInv
<1>11. Budget'
  <2>1. Rehitching' \subseteq Rehitching
    BY <1>2, <1>6, RehitchingPut DEF IInv
  <2> QED  BY <1>3, <2>1, FewerRehitching, OpsGrow DEF IInv
<1> QED  BY <1>5, <1>8, <1>9, <1>10, <1>11

\* The command gives its locks back, and a restart that failed reports.
LEMMA ReturnDoes ==
    ASSUME IInv, NEW failed \in BOOLEAN, Return(failed), op.kind \in LaunchKinds,
           op.pc \in {"spawn", "register", "release", "forget"} \cup Startups
    PROVE  /\ Command' /\ OpLocks' /\ op' \in Commands /\ ~Carries' /\ op'.pc # "register"
           /\ lock' \in [Ids -> {"free", "op", "tick", "ren"}]
           /\ \A i \in Ids : lock'[i] = lock[i] \/ {lock[i], lock'[i]} \subseteq {"free", "op"}
<1>1. /\ lock' = IF lock[op.id] = "op" THEN [lock EXCEPT ![op.id] = "free"] ELSE lock
      /\ op' = IF failed /\ op.kind = "rehitch" THEN [op EXCEPT !.pc = "report"] ELSE Quiet
  BY DEF Return
<1>2. /\ op \in Commands /\ op.id \in Ids /\ lock \in [Ids -> {"free", "op", "tick", "ren"}]
      /\ op.kind = "rehitch" => op.name \in Names
  BY OpFacts DEF IInv, Command, KindOf, Startups
<1>3. \A i \in Ids : lock[i] = "op" => i = op.id
  BY DEF IInv, OpLocks, Startups
<1>4. /\ lock' \in [Ids -> {"free", "op", "tick", "ren"}] /\ \A i \in Ids : lock'[i] # "op"
      /\ \A i \in Ids : lock'[i] = lock[i] \/ {lock[i], lock'[i]} \subseteq {"free", "op"}
  BY <1>1, <1>2, <1>3
<1>5. CASE op' = Quiet
  <2>1. op'.pc # "register"
    BY <1>5 DEF Quiet
  <2> QED  BY <1>4, <1>5, <2>1, QuietCommand
<1>6. CASE op.kind = "rehitch" /\ op' = [op EXCEPT !.pc = "report"]
  <2>1. op'.pc = "report" /\ op'.kind = "rehitch" /\ op'.id = op.id /\ op'.name = op.name /\ op' \in Commands
    BY <1>2, <1>6 DEF Commands, Steps
  <2>2. OpLocks'
    BY <1>4, <2>1 DEF OpLocks, Holding, Startups, Closings
  <2>3. KindOf'
    BY <1>2, <1>6, <2>1 DEF KindOf, Startups, Closings, Fronts, LaunchKinds
  <2>4. First' /\ Superseding' /\ Starts' /\ Registered' /\ Ending' /\ Emptying'
    BY <2>1 DEF First, Superseding, Starts, Registered, Ending, Emptying, Startups, Closings, Fronts
  <2>5. ~Launches' /\ ~Carries'
    BY <2>1 DEF Carries, Launches, Fronts
  <2> QED  BY <1>4, <2>1, <2>2, <2>3, <2>4, <2>5 DEF Command, Strayless
<1> QED  BY <1>1, <1>5, <1>6

LEMMA ReturnKeeps ==
    ASSUME IInv, NEW failed \in BOOLEAN, Return(failed), op.kind \in LaunchKinds, lock[op.id] = "op",
           op.pc \in {"spawn", "register", "release", "forget"} \cup Startups,
           NEW c \in Record, Put(op.id, c) \/ (agent' = agent /\ c = agent[op.id]), Keeps(agent[op.id], c),
           op.pc = "register" => ~Present(op.pane),
           UNCHANGED <<names, world, tick, ren, ops>>, mishaps' \in 0..MaxMishaps
    PROVE  IInv'
<1>1. /\ Command' /\ OpLocks' /\ op' \in Commands /\ ~Carries'
      /\ lock' \in [Ids -> {"free", "op", "tick", "ren"}]
      /\ \A i \in Ids : lock'[i] = lock[i] \/ {lock[i], lock'[i]} \subseteq {"free", "op"}
  BY ReturnDoes
<1>2. StillLaunching
  BY DEF StillLaunching, IInv, Command, Registered, Present
<1>3. op.pc \in Holding \cup {"release"}
  BY DEF Holding
<1> QED  BY <1>1, <1>2, <1>3, OpPuts DEF IInv

\* A command that sees no processes counts as a mishap.
LEMMA SightKeeps ==
    ASSUME IInv, NEW visible \in BOOLEAN, Sight(visible)
    PROVE  mishaps' \in 0..MaxMishaps
  BY OpsGrow DEF Sight, IInv

-----------------------------------------------------------------------------
(* A launch that has a pane.                                                 *)

\* It goes on with its own pane and process, whatever it wrote of them.
LEMMA LaunchGoesOn ==
    ASSUME IInv, op.pc \in {"register", "release"} \cup Startups, op.kind \in LaunchKinds,
           NEW s \in {"remove", "release"} \cup Startups, op' = [op EXCEPT !.pc = s],
           NEW h \in Ids, h = op.id, NEW c \in Record, Put(h, c) \/ (agent' = agent /\ c = agent[h]),
           c.here, c.proc \in {None, op.pid}, s \in {"server", "identity"} => c.proc = None,
           c.pane = op.pane \/ (s = "release" /\ lock'[h] # "op"),
           UNCHANGED <<gens, born, strays>>, \A k \in Pids : native'[k].of = native[k].of /\ native'[k].gen = native[k].gen,
           \A p \in panes' : \E q \in panes : p.id = q.id /\ p.pid = q.pid,
           lock' \in [Ids -> {"free", "op", "tick", "ren"}], s # "release" => lock'[h] = "op",
           \A i \in Ids \ {h} : lock'[i] = lock[i]
    PROVE  Command' /\ OpLocks' /\ op' \in Commands /\ ~Carries'
<1>1. /\ op'.pc = s /\ op'.kind = op.kind /\ op'.id = h /\ op'.name = op.name /\ op'.pane = op.pane
      /\ op'.pid = op.pid /\ op'.todo = op.todo /\ op' \in Commands
  BY OpFacts DEF Commands, Steps, Holding, Startups
<1>2. agent'[h] = c
  BY OpFacts DEF Put
<1>3. /\ op.pid \in 1..born /\ op.pid \notin strays /\ native[op.pid].of = h
      /\ \A p \in panes : p.id = op.pane <=> p.pid = op.pid
      /\ op.pane # None /\ Used(op.pane)
  BY DEF IInv, Command, Registered
<1>4. op.pid \in Pids /\ op.kind # "down" /\ op.kind # "drop" /\ 1..born \subseteq Pids /\ (op.kind = "rehitch" => op.name \in Names)
  BY <1>3, OpFacts DEF LaunchKinds, IInv, Command, KindOf
<1>5. {k \in 1..born' : native'[k].gen = op.pane.gen} = {k \in 1..born : native[k].gen = op.pane.gen}
  BY <1>4
<1>6. Used(op.pane)'
  <2> DEFINE o == op'.pane
  <2>1. o = op.pane
    BY <1>1
  <2>2. {k \in 1..born' : native'[k].gen = o.gen} = {k \in 1..born : native[k].gen = op.pane.gen}
    BY <1>5, <2>1
  <2> HIDE DEF o
  <2>3. o.gen \in 1..gens' /\ o.num \in 1..Cardinality({k \in 1..born' : native'[k].gen = o.gen})
    BY <1>3, <2>1, <2>2 DEF Used
  <2> QED  BY <2>3 DEF Used, o
<1>7. \A p \in panes' : p.id = op.pane <=> p.pid = op.pid
  BY <1>3
<1>8. \A i \in Ids : lock[i] = "op" => i = h
  BY DEF IInv, OpLocks, Startups
<1>9. OpLocks'
  <2>1. \A i \in Ids : lock'[i] = "op" => i = h
    BY <1>8
  <2>2. op'.pc \in Holding \cup {"acquire", "release"} /\ op'.pc # "acquire"
    BY <1>1 DEF Holding, Startups
  <2>3. op'.pc \in Holding => lock'[op'.id] = "op"
    BY <1>1 DEF Holding, Startups, Closings
  <2> QED  BY <1>1, <2>1, <2>2, <2>3 DEF OpLocks
<1>10. KindOf'
  BY <1>1, <1>4 DEF KindOf, Startups, Closings, Fronts
<1>11. First' /\ Superseding' /\ Starts' /\ Ending' /\ Emptying'
  BY <1>1, <1>4 DEF First, Superseding, Starts, Ending, Emptying, Startups, Closings, Fronts
<1>12. ~Launches' /\ ~Carries'
  BY <1>1 DEF Carries, Launches, Fronts, Startups
<1>13. Registered'
  BY <1>1, <1>2, <1>3, <1>4, <1>6, <1>7 DEF Registered, Startups
<1> QED  BY <1>1, <1>9, <1>10, <1>11, <1>12, <1>13 DEF Command, Strayless

LEMMA LaunchIs ==
    ASSUME IInv, op.pc \in {"register", "remove", "forget"} \cup Startups
    PROVE  /\ op.id \in Ids /\ lock[op.id] = "op" /\ op.kind \in LaunchKinds /\ agent[op.id] \in Record
           /\ lock \in [Ids -> {"free", "op", "tick", "ren"}] /\ agent[op.id].here
           /\ op.pc # "register" => agent[op.id].pane = op.pane /\ agent[op.id].proc \in {None, op.pid}
           /\ op.pc \in {"server", "identity"} => agent[op.id].proc = None
  BY OpFacts DEF IInv, Command, KindOf, Holding, Registered, Starts, Startups

\* It goes on having changed nothing about its agent's pane, process or names.
LEMMA StartupKeeps ==
    ASSUME IInv, op.pc \in Startups, NEW s \in {"remove", "release"} \cup Startups, op' = [op EXCEPT !.pc = s],
           NEW c \in Record, Put(op.id, c) \/ (agent' = agent /\ c = agent[op.id]), Keeps(agent[op.id], c),
           c.pane = agent[op.id].pane, s \in {"server", "identity"} => c.proc = None,
           UNCHANGED <<names, world, tick, ren, ops>>, mishaps' \in 0..MaxMishaps,
           lock' = lock \/ (s = "release" /\ lock' = [lock EXCEPT ![op.id] = "free"])
    PROVE  IInv'
<1>1. PICK h \in Ids : h = op.id
  BY LaunchIs
<1>2. /\ lock[h] = "op" /\ op.kind \in LaunchKinds
      /\ lock \in [Ids -> {"free", "op", "tick", "ren"}]
      /\ agent[h].here /\ agent[h].pane = op.pane /\ agent[h].proc \in {None, op.pid}
  BY <1>1, LaunchIs DEF Startups
<1>3. c.here /\ c.pane = op.pane /\ c.proc \in {None, op.pid}
  BY <1>1, <1>2 DEF Keeps
<1>4. /\ lock' \in [Ids -> {"free", "op", "tick", "ren"}]
      /\ s # "release" => lock'[h] = "op"
      /\ \A i \in Ids \ {h} : lock'[i] = lock[i]
      /\ \A i \in Ids : lock'[i] = lock[i] \/ {lock[i], lock'[i]} \subseteq {"free", "op"}
  BY <1>1, <1>2
<1>5. UNCHANGED <<gens, born, strays, native, panes>>
  BY DEF world
<1>6. Command' /\ OpLocks' /\ op' \in Commands /\ ~Carries'
  BY <1>1, <1>2, <1>3, <1>4, <1>5, LaunchGoesOn
<1>7. StillLaunching
  BY DEF StillLaunching, Startups
<1>8. op.pc \in Holding
  BY DEF Holding
<1>9. Types' /\ Holds' /\ Named' /\ Others' /\ Budget'
  BY <1>1, <1>2, <1>4, <1>6, <1>7, <1>8, OpPuts
<1> QED  BY <1>6, <1>9 DEF IInv

LEMMA SpawnFailsKeeps ==
    ASSUME IInv, SpawnFails
    PROVE  IInv'
<1>1. /\ op.pc = "spawn" /\ Put(op.id, FailedBy(agent[op.id])) /\ Return(TRUE)
      /\ UNCHANGED <<names, world, tick, ren, ops, mishaps>>
  BY DEF SpawnFails
<1>2. op.kind \in LaunchKinds /\ lock[op.id] = "op" /\ agent[op.id] \in Record
  BY <1>1, OpFacts DEF Holding, IInv, Command, KindOf
<1>3. Keeps(agent[op.id], FailedBy(agent[op.id])) /\ FailedBy(agent[op.id]) \in Record
  BY <1>2, FailedKeeps DEF Keeps
<1> QED  BY <1>1, <1>2, <1>3, ReturnKeeps, OpsGrow DEF IInv

LEMMA ForgetFailedKeeps ==
    ASSUME IInv, ForgetFailed
    PROVE  IInv'
<1> DEFINE a == agent[op.id]  c == [a EXCEPT !.pane = None, !.held = FALSE]
<1>1. /\ op.pc = "forget" /\ Put(op.id, c) /\ Return(TRUE)
      /\ UNCHANGED <<names, world, tick, ren, ops, mishaps>>
  BY DEF ForgetFailed
<1>2. op.kind \in LaunchKinds /\ lock[op.id] = "op" /\ a \in Record /\ a.pane = op.pane
  BY <1>1, LaunchIs
<1>3. ~Present(a.pane)
  BY <1>1, <1>2 DEF IInv, Command, Registered
<1>4. Keeps(a, c) /\ c \in Record
  BY <1>2, <1>3, ZenonT(40) DEF Keeps, Record, Live
<1> HIDE DEF c
<1> QED  BY <1>1, <1>2, <1>4, ReturnKeeps, OpsGrow DEF IInv

LEMMA WitnessServerKeeps ==
    ASSUME IInv, WitnessServer
    PROVE  IInv'
<1> DEFINE a == agent[op.id]  c(visible) == [a EXCEPT !.server = visible]
<1>1. op.pc = "server" /\ UNCHANGED <<names, lock, world, tick, ren, ops>>
  BY DEF WitnessServer
<1>2. a \in Record /\ a.proc = None
  BY <1>1, LaunchIs DEF Startups
<1>3. ASSUME NEW visible \in BOOLEAN
      PROVE  /\ Keeps(a, c(visible)) /\ c(visible) \in Record /\ c(visible).pane = a.pane
             /\ c(visible).proc = None
  BY <1>2 DEF Keeps, Record, Live
<1>4. Keeps(a, FailedBy(a)) /\ FailedBy(a) \in Record /\ FailedBy(a).pane = a.pane
  BY <1>2, FailedKeeps DEF Keeps
<1>5. mishaps \in 0..MaxMishaps
  BY OpsGrow DEF IInv
<1>6. CASE Present(op.pane)
  <2>1. PICK visible \in BOOLEAN : Sight(visible) /\ Put(op.id, c(visible))
    BY <1>6 DEF WitnessServer
  <2>2. op' = [op EXCEPT !.pc = "identity"]
    BY <1>6 DEF WitnessServer
  <2>3. mishaps' \in 0..MaxMishaps
    BY <2>1, SightKeeps
  <2>4. /\ Keeps(a, c(visible)) /\ c(visible) \in Record /\ c(visible).pane = a.pane
        /\ c(visible).proc = None
    BY <1>3
  <2> HIDE DEF c
  <2> QED  BY <1>1, <2>1, <2>2, <2>3, <2>4, StartupKeeps DEF Startups
<1>7. CASE ~Present(op.pane)
  <2>1. Put(op.id, FailedBy(a)) /\ op' = [op EXCEPT !.pc = "remove"] /\ mishaps' = mishaps
    BY <1>7 DEF WitnessServer
  <2> QED  BY <1>1, <1>4, <1>5, <2>1, StartupKeeps DEF Startups
<1> QED  BY <1>6, <1>7

LEMMA StartupFails ==
    ASSUME IInv, op.pc = "await", Put(op.id, FailedBy(agent[op.id])), op' = [op EXCEPT !.pc = "remove"],
           UNCHANGED <<names, lock, world, tick, ren, ops>>, mishaps' \in 0..MaxMishaps
    PROVE  IInv'
<1>1. agent[op.id] \in Record
  BY LaunchIs DEF Startups
<1>2. /\ Keeps(agent[op.id], FailedBy(agent[op.id])) /\ FailedBy(agent[op.id]) \in Record
      /\ FailedBy(agent[op.id]).pane = agent[op.id].pane
  BY <1>1, FailedKeeps DEF Keeps
<1> QED  BY <1>2, StartupKeeps DEF Startups

LEMMA AwaitKeeps ==
    ASSUME IInv, AwaitExit \/ Interrupted \/ AwaitPrompt \/ AwaitNothing \/ AwaitReady
    PROVE  IInv'
<1> DEFINE a == agent[op.id]
           p == [a EXCEPT !.blocked = TRUE, !.boot = "none"]
           r == [a EXCEPT !.status = Active, !.blocked = FALSE, !.boot = "none"]
<1>1. op.pc = "await" /\ UNCHANGED <<names, world, tick, ren, ops>>
  BY DEF AwaitExit, Interrupted, AwaitPrompt, AwaitNothing, AwaitReady
<1>2. /\ op.id \in Ids /\ lock[op.id] = "op" /\ op.kind \in LaunchKinds /\ a \in Record
      /\ a.pane = op.pane /\ op.pane # None
  BY <1>1, LaunchIs DEF Startups, IInv, Command, Registered
<1>3. mishaps \in 0..MaxMishaps /\ (mishaps < MaxMishaps => mishaps + 1 \in 0..MaxMishaps)
  BY OpsGrow DEF IInv
<1>4. CASE AwaitExit \/ Interrupted
  BY <1>1, <1>3, <1>4, StartupFails DEF AwaitExit, Interrupted
<1>5. CASE AwaitPrompt
  <2>1. Keeps(a, p) /\ p \in Record
    BY <1>2 DEF Keeps, Record, Live
  <2>2. Put(op.id, p) /\ Return(TRUE) /\ mishaps' = mishaps
    BY <1>5 DEF AwaitPrompt
  <2> HIDE DEF p
  <2> QED  BY <1>1, <1>2, <2>1, <2>2, ReturnKeeps, OpsGrow DEF Startups, IInv
<1>6. CASE AwaitNothing
  <2>1. /\ op' = [op EXCEPT !.pc = "release"] /\ UNCHANGED <<agent, lock, mishaps>>
    BY <1>6 DEF AwaitNothing
  <2>2. Keeps(a, a)
    BY <1>2, <2>1, SelfPut
  <2> QED  BY <1>1, <1>2, <1>3, <2>1, <2>2, StartupKeeps DEF Startups
<1>7. CASE AwaitReady
  <2>1. Keeps(a, r) /\ r \in Record /\ r.pane = a.pane
    BY <1>2 DEF Keeps, Record, Live
  <2>2. /\ Put(op.id, r) /\ lock' = [lock EXCEPT ![op.id] = "free"] /\ op' = [op EXCEPT !.pc = "release"]
        /\ mishaps' = mishaps
    BY <1>7 DEF AwaitReady
  <2> HIDE DEF r
  <2> QED  BY <1>1, <1>2, <1>3, <2>1, <2>2, StartupKeeps DEF Startups
<1> QED  BY <1>4, <1>5, <1>6, <1>7

LEMMA SaveReleasedKeeps ==
    ASSUME IInv, SaveReleased
    PROVE  IInv'
<1> DEFINE a == agent[op.id]  c == [a EXCEPT !.held = FALSE]
<1>1. /\ op.pc = "released" /\ Put(op.id, c) /\ Return(FALSE)
      /\ UNCHANGED <<names, world, tick, ren, ops, mishaps>>
  BY DEF SaveReleased
<1>2. op.kind \in LaunchKinds /\ lock[op.id] = "op" /\ a \in Record
  BY <1>1, LaunchIs DEF Startups
<1>3. Keeps(a, c) /\ c \in Record
  BY <1>2, ZenonT(40) DEF Keeps, Record, Live
<1> HIDE DEF c
<1> QED  BY <1>1, <1>2, <1>3, ReturnKeeps, OpsGrow DEF Startups, IInv

LEMMA RelockKeeps ==
    ASSUME IInv, Relock
    PROVE  IInv'
<1>1. /\ op.pc = "release" /\ lock[op.id] = "free" /\ UNCHANGED <<agent, names, world, tick, ren, ops, mishaps>>
      /\ \/ agent[op.id].pane = op.pane /\ lock' = [lock EXCEPT ![op.id] = "op"] /\ op' = op
         \/ op' = Quiet /\ lock' = lock
  BY DEF Relock
<1>2. PICK h \in Ids : h = op.id
  BY <1>1, OpFacts
<1>3. /\ op.kind \in LaunchKinds /\ lock \in [Ids -> {"free", "op", "tick", "ren"}] /\ op \in Commands
      /\ agent[h] \in Record /\ agent[h].here /\ agent[h].proc \in {None, op.pid}
  BY <1>1, <1>2, OpFacts DEF IInv, Command, KindOf, Registered
<1>4. \A i \in Ids : lock[i] # "op"
  BY <1>1 DEF IInv, OpLocks, Holding
<1>5. Command' /\ OpLocks' /\ op' \in Commands /\ ~Carries'
  <2>1. CASE agent[op.id].pane = op.pane /\ lock' = [lock EXCEPT ![op.id] = "op"] /\ op' = op
    <3>1. op' = [op EXCEPT !.pc = "release"]
      BY <1>1, <1>3, <2>1 DEF Commands
    <3>2. /\ lock' \in [Ids -> {"free", "op", "tick", "ren"}] /\ \A i \in Ids \ {h} : lock'[i] = lock[i]
      BY <1>2, <1>3, <2>1
    <3>3. UNCHANGED <<gens, born, strays, native, panes>>
      BY <1>1 DEF world
    <3> QED  BY <1>1, <1>2, <1>3, <2>1, <3>1, <3>2, <3>3, LaunchGoesOn
  <2>2. CASE op' = Quiet /\ lock' = lock
    BY <1>4, <2>2, QuietCommand
  <2> QED  BY <1>1, <2>1, <2>2
<1>6. /\ lock' \in [Ids -> {"free", "op", "tick", "ren"}]
      /\ \A i \in Ids : lock'[i] = lock[i] \/ {lock[i], lock'[i]} \subseteq {"free", "op"}
  BY <1>1, <1>2, <1>3
<1>7. Budget'
  BY <1>1, <1>5, BudgetOver, OpsGrow DEF world, IInv
<1> QED  BY <1>1, <1>5, <1>6, <1>7, OpOnly, OpsGrow DEF IInv

LEMMA ReleaseHoldKeeps ==
    ASSUME IInv, ReleaseHold
    PROVE  IInv'
<1> DEFINE a == agent[op.id]
           loose == {IF p.id = op.pane THEN [p EXCEPT !.held = FALSE] ELSE p : p \in panes}
<1>1. /\ op.pc = "release" /\ lock[op.id] = "op"
      /\ UNCHANGED <<names, gens, born, native, strays, cut, tick, ren, ops, mishaps>>
      /\ \/ Return(TRUE) /\ UNCHANGED <<agent, panes>>
         \/ Put(op.id, FailedBy(a)) /\ op' = [op EXCEPT !.pc = "remove"] /\ UNCHANGED <<lock, panes>>
         \/ panes' = loose /\ op' = [op EXCEPT !.pc = "released"] /\ UNCHANGED <<agent, lock>>
  BY DEF ReleaseHold
<1> HIDE DEF loose
<1>2. PICK h \in Ids : h = op.id
  BY <1>1, OpFacts
<1>3. /\ op.kind \in LaunchKinds /\ lock \in [Ids -> {"free", "op", "tick", "ren"}] /\ op \in Commands
      /\ a \in Record /\ a.here /\ a.proc \in {None, op.pid} /\ a.pane = op.pane
  BY <1>1, <1>2, OpFacts DEF IInv, Command, KindOf, Registered
<1>4. Keeps(a, FailedBy(a)) /\ FailedBy(a) \in Record /\ FailedBy(a).pane = a.pane
  BY <1>3, FailedKeeps DEF Keeps
<1>5. CASE Return(TRUE) /\ UNCHANGED <<agent, panes>>
  <2>1. Keeps(a, a)
    BY <1>2, <1>5, SelfPut
  <2>2. UNCHANGED world
    BY <1>1, <1>5 DEF world
  <2> QED  BY <1>1, <1>2, <1>3, <1>5, <2>1, <2>2, ReturnKeeps, OpsGrow DEF IInv
<1>6. CASE Put(op.id, FailedBy(a)) /\ op' = [op EXCEPT !.pc = "remove"] /\ UNCHANGED <<lock, panes>>
  <2>1. UNCHANGED world /\ UNCHANGED <<gens, born, strays, native, panes>>
    BY <1>1, <1>6 DEF world
  <2>2. FailedBy(a).here /\ FailedBy(a).proc \in {None, op.pid}
    BY <1>3, <1>4 DEF Keeps
  <2>3. Command' /\ OpLocks' /\ op' \in Commands /\ ~Carries'
    BY <1>1, <1>2, <1>3, <1>4, <1>6, <2>1, <2>2, LaunchGoesOn DEF Startups
  <2>4. StillLaunching
    BY <1>1 DEF StillLaunching
  <2>5. Types' /\ Holds' /\ Named' /\ Others' /\ Budget'
    BY <1>1, <1>2, <1>3, <1>4, <1>6, <2>1, <2>3, <2>4, OpPuts, OpsGrow DEF IInv
  <2> QED  BY <2>3, <2>5 DEF IInv
<1>7. CASE panes' = loose /\ op' = [op EXCEPT !.pc = "released"] /\ UNCHANGED <<agent, lock>>
  <2>1. /\ Fewer /\ panes' \subseteq Panes /\ \A p \in panes' : \E q \in panes : p.id = q.id /\ p.pid = q.pid
    BY <1>1, <1>7, HeldFewer, ZenonT(40) DEF loose, IInv
  <2>2. Command' /\ OpLocks' /\ op' \in Commands /\ ~Carries'
    BY <1>1, <1>2, <1>3, <1>7, <2>1, LaunchGoesOn DEF Startups
  <2>3. Holds' /\ Named'
    BY <1>1, <1>7, <2>1, FewerHolds, FewerNamed DEF IInv
  <2>4. Others'
    BY <1>1, <1>7 DEF IInv, Others, OtherLocks, TickControl, RenControl
  <2>5. Budget'
    BY <1>1, <1>7, <2>2, BudgetOver, OpsGrow DEF IInv
  <2>6. Types'
    BY <1>1, <1>7, <2>1, <2>2 DEF IInv, Types, TypeOK, Fewer
  <2> QED  BY <2>2, <2>3, <2>4, <2>5, <2>6 DEF IInv
<1> QED  BY <1>1, <1>5, <1>6, <1>7

-----------------------------------------------------------------------------
(* The steps that end a pane or a process.                                   *)

LEMMA RemovedFewer ==
    ASSUME Types, Holds, NEW id, NEW survive \in BOOLEAN, panes' = Without(id), native' = Hangup(id, survive)
    PROVE  Fewer /\ panes' \subseteq Panes /\ native' \in [Pids -> Natives] /\ panes' \subseteq panes /\ ~Present(id)'
<1>1. panes \subseteq Panes /\ native \in [Pids -> Natives]
  BY DEF Types
<1>2. panes' \subseteq panes /\ \A p \in panes' : p.id # id
  BY DEF Without
<1>3. \A k \in Pids : native'[k] = native[k] \/ native'[k] = [native[k] EXCEPT !.alive = FALSE]
  BY DEF Hangup
<1>4. \A k \in Pids : /\ native'[k].of = native[k].of /\ native'[k].gen = native[k].gen
                      /\ native'[k].witnessed = native[k].witnessed /\ native'[k].alive \in BOOLEAN
                      /\ (native'[k].alive => native[k].alive)
  <2> TAKE k \in Pids
  <2>1. native[k] \in Natives
    BY <1>1
  <2> QED  BY <1>3, <2>1 DEF Natives
<1>5. native' \in [Pids -> Natives]
  <2>1. \A k \in Pids : native'[k] \in Natives
    BY <1>1, <1>3, ZenonT(40) DEF Natives
  <2>2. native' = [k \in Pids |-> native'[k]]
    BY DEF Hangup
  <2> QED  BY <2>1, <2>2
<1>6. \A p, q \in panes : p.id = q.id \/ p.pid = q.pid => p = q
  BY DEF Holds, Server
<1>7. Fewer
  BY <1>2, <1>4, <1>6 DEF Fewer
<1> QED  BY <1>1, <1>2, <1>5, <1>7 DEF Present

\* What LessKeeps says, of a step of the command.
LEMMA LessOp ==
    ASSUME IInv, Fewer, panes' \subseteq Panes, native' \in [Pids -> Natives],
           UNCHANGED <<agent, names, lock, gens, born, strays, cut, tick, ren, ops>>, mishaps' \in 0..MaxMishaps,
           op.pc # "register", op' \in Commands, Command', OpLocks', Carries' => Carries
    PROVE  IInv'
<1>1. Holds' /\ Named'
  BY FewerHolds, FewerNamed DEF IInv
<1>2. Others'
  BY DEF IInv, Others, OtherLocks, TickControl, RenControl
<1>3. Budget'
  BY BudgetOver, OpsGrow DEF IInv
<1>4. Types'
  BY DEF IInv, Types, TypeOK, Fewer
<1> QED  BY <1>1, <1>2, <1>3, <1>4 DEF IInv

LEMMA RemoveFailedKeeps ==
    ASSUME IInv, RemoveFailed
    PROVE  IInv'
<1>1. PICK survive \in BOOLEAN : /\ native' = Hangup(op.pane, survive)
                                 /\ mishaps' = mishaps + (IF survive THEN 1 ELSE 0)
                                 /\ survive => mishaps < MaxMishaps
  BY DEF RemoveFailed
<1>2. /\ op.pc = "remove" /\ panes' = Without(op.pane) /\ op' = [op EXCEPT !.pc = "forget"]
      /\ UNCHANGED <<agent, names, lock, gens, born, strays, cut, tick, ren, ops>>
  BY DEF RemoveFailed
<1>3. Fewer /\ panes' \subseteq Panes /\ native' \in [Pids -> Natives] /\ ~Present(op.pane)'
  BY <1>1, <1>2, RemovedFewer DEF IInv
<1>4. mishaps' \in 0..MaxMishaps
  BY <1>1, OpsGrow DEF IInv
<1>5. /\ op'.pc = "forget" /\ op'.kind = op.kind /\ op'.id = op.id /\ op'.name = op.name /\ op'.pane = op.pane
      /\ op'.pid = op.pid /\ op' \in Commands
  BY <1>2, OpFacts DEF Commands, Steps, Holding
<1>6. /\ op.id \in Ids /\ lock[op.id] = "op" /\ op.kind \in LaunchKinds /\ agent[op.id].here
      /\ agent[op.id].pane = op.pane /\ agent[op.id].proc \in {None, op.pid} /\ (op.kind = "rehitch" => op.name \in Names)
  BY <1>2, LaunchIs DEF IInv, Command, KindOf
<1>7. op.pane # None /\ Used(op.pane)
  BY <1>2 DEF IInv, Command, Registered
<1>8. Used(op.pane)' /\ ~Present(op.pane)'
  <2> DEFINE o == op'.pane
  <2>1. o = op.pane
    BY <1>5
  <2>2. \A k \in 1..born : native'[k].gen = native[k].gen
    BY <1>3, BornArePids DEF IInv, Fewer
  <2>3. {k \in 1..born' : native'[k].gen = o.gen} = {k \in 1..born : native[k].gen = op.pane.gen}
    BY <1>2, <2>1, <2>2
  <2>4. \A p \in panes' : p.id # o
    BY <1>2, <2>1 DEF Without
  <2> HIDE DEF o
  <2>5. o.gen \in 1..gens' /\ o.num \in 1..Cardinality({k \in 1..born' : native'[k].gen = o.gen})
    BY <1>2, <1>7, <2>1, <2>3 DEF Used
  <2> QED  BY <2>4, <2>5 DEF Used, Present, o
<1>9. KindOf'
  BY <1>5, <1>6 DEF KindOf, Startups, Closings, Fronts
<1>10. First' /\ Superseding' /\ Starts' /\ Ending' /\ Emptying' /\ Strayless' /\ ~Carries'
  BY <1>5, <1>6 DEF First, Superseding, Starts, Ending, Emptying, Strayless, Carries, Launches, LaunchKinds, Startups, Closings, Fronts
<1>11. Registered'
  BY <1>2, <1>5, <1>6, <1>7, <1>8 DEF Registered, Startups
<1>12. OpLocks'
  BY <1>2, <1>5, <1>6 DEF IInv, OpLocks, Holding
<1> QED  BY <1>2, <1>3, <1>4, <1>5, <1>9, <1>10, <1>11, <1>12, LessOp DEF Command

\* A restart or a drop goes on once its pane, or its process, is gone.
LEMMA EndingGoesOn ==
    ASSUME IInv, op.pc \in {"remove_pane", "stop"}, NEW s \in {"stop", "next", "drop_started"},
           op' = [op EXCEPT !.pc = s], s = "next" => op.kind = "rehitch", s = "drop_started" => op.kind # "rehitch",
           Fewer, NEW h \in Ids, h = op.id, Bare(h)', op.pid \in {None, agent[h].proc},
           s # "stop" => Dead(agent[h].proc)',
           UNCHANGED <<agent, names, lock, gens, born, strays, cut, tick, ren, ops>>
    PROVE  Command' /\ OpLocks' /\ op' \in Commands /\ (Carries' => Carries)
<1>1. /\ op'.pc = s /\ op'.kind = op.kind /\ op'.id = h /\ op'.name = op.name /\ op'.pid = op.pid
      /\ op'.todo = op.todo /\ op' \in Commands
  BY OpFacts DEF Commands, Steps, Holding, Closings
<1>2. /\ lock[h] = "op" /\ agent[h].here /\ op.kind \in {"rehitch", "drop", "down"}
      /\ op.kind = "rehitch" => op.name \in Names
      /\ op.kind = "rehitch" => agent[h].name = op.name /\ names[op.name] = h /\ ~agent[h].rehitch
      /\ \A i \in Ids : lock[i] = "op" => i = h
  BY OpFacts DEF IInv, Command, KindOf, Ending, OpLocks, Holding
<1>3. KindOf'
  BY <1>1, <1>2 DEF KindOf, Startups, Closings, Fronts, LaunchKinds
<1>4. First' /\ Superseding' /\ Starts' /\ Registered'
  BY <1>1, <1>2 DEF First, Superseding, Starts, Registered, Startups, Fronts
<1>5. Ending'
  BY <1>1, <1>2 DEF Ending, Closings
<1>6. Emptying'
  <2>1. agent \in [Ids -> Record]
    BY OpFacts
  <2>2. \A i \in Ids : Live(agent[i])' => Live(agent[i])
    <3> TAKE i \in Ids
    <3>1. agent[i] \in Record /\ agent'[i] = agent[i]
      BY <2>1
    <3> QED  BY <3>1, FewerLive DEF IInv, Live
  <2>3. Emptying
    BY DEF IInv, Command
  <2> QED  BY <1>1, <2>2, <2>3 DEF Emptying
<1>7. Launches' => Launches
  BY <1>1, <1>2 DEF Launches, Fronts, LaunchKinds
<1>8. Carries' => Carries
  BY <1>1, <1>7 DEF Carries
<1>9. Strayless'
  <2>1. panes \subseteq Panes
    BY OpFacts
  <2>2. Launches => \A p \in panes : p.pid \in strays => ~native[p.pid].alive
    BY DEF IInv, Command, Strayless
  <2>3. Launches => \A q \in panes' : q.pid \in strays => ~native'[q.pid].alive
    BY <2>1, <2>2 DEF Fewer, Panes
  <2> QED  BY <1>7, <2>3 DEF Strayless
<1>10. OpLocks'
  BY <1>1, <1>2 DEF OpLocks, Holding, Closings
<1> QED  BY <1>1, <1>3, <1>4, <1>5, <1>6, <1>8, <1>9, <1>10 DEF Command

LEMMA RemovePaneKeeps ==
    ASSUME IInv, RemovePane
    PROVE  IInv'
<1>1. PICK survive \in BOOLEAN :
          /\ survive => mishaps < MaxMishaps
          /\ mishaps' = mishaps + (IF survive THEN 1 ELSE 0)
          /\ IF op.pane # None /\ CheckPane(op.pane) # "replaced"
             THEN panes' = Without(op.pane) /\ native' = Hangup(op.pane, survive)
             ELSE UNCHANGED <<panes, native>>
  BY DEF RemovePane
<1>2. /\ op.pc = "remove_pane" /\ op' = [op EXCEPT !.pc = "stop"]
      /\ UNCHANGED <<agent, names, lock, gens, born, strays, cut, tick, ren, ops>>
  BY DEF RemovePane
<1>3. mishaps' \in 0..MaxMishaps
  BY <1>1, OpsGrow DEF IInv
<1>4. panes \subseteq Panes /\ native \in [Pids -> Natives]
  BY OpFacts
<1>5. Fewer /\ panes' \subseteq panes /\ native' \in [Pids -> Natives]
  <2>1. CASE op.pane # None /\ CheckPane(op.pane) # "replaced"
    BY <1>1, <2>1, RemovedFewer DEF IInv
  <2>2. CASE ~(op.pane # None /\ CheckPane(op.pane) # "replaced")
    <3>1. UNCHANGED <<panes, native>>
      BY <1>1, <2>2
    <3> QED  BY <1>4, <3>1 DEF Fewer, IInv, Holds, Server
  <2> QED  BY <2>1, <2>2
<1>6. PICK h \in Ids : h = op.id
  BY <1>2, OpFacts
<1>7. op.pane = agent[h].pane /\ op.pid \in {None, agent[h].proc}
  BY <1>2, <1>6 DEF IInv, Command, Ending
<1>8. Bare(h)'
  <2> SUFFICES ASSUME NEW p \in panes', native'[p.pid].of = h
               PROVE  p.pid \in strays'
    BY DEF Bare
  <2>1. p \in panes /\ p.id # None /\ p.pid \in Pids
    BY <1>4, <1>5, NoneIsNone DEF Panes
  <2>2. native[p.pid].of = h
    BY <1>5, <2>1 DEF Fewer
  <2>3. p.pid \in strays \/ agent[h].pane = p.id
    BY <1>2, <2>1, <2>2 DEF IInv, Holds, PaneIsRecorded
  <2>4. ASSUME agent[h].pane = p.id PROVE FALSE
    <3>1. op.pane # None /\ CheckPane(op.pane) # "replaced"
      BY <1>7, <2>1, <2>4 DEF CheckPane, Present
    <3> QED  BY <1>1, <1>7, <2>4, <3>1 DEF Without
  <2> QED  BY <1>2, <2>3, <2>4
<1>9. Command' /\ OpLocks' /\ op' \in Commands /\ (Carries' => Carries)
  BY <1>2, <1>5, <1>6, <1>7, <1>8, EndingGoesOn
<1> QED  BY <1>2, <1>3, <1>4, <1>5, <1>9, LessOp

LEMMA StopNativeKeeps ==
    ASSUME IInv, StopNative
    PROVE  IInv'
<1>1. op.pc = "stop" /\ UNCHANGED <<agent, names, lock, panes, gens, born, strays, cut, tick, ren, ops, mishaps>>
  BY DEF StopNative
<1>2. PICK s \in {"next", "drop_started"} : /\ s = IF op.kind = "rehitch" THEN "next" ELSE "drop_started"
                                            /\ op' = [op EXCEPT !.pc = s]
  BY DEF StopNative
<1>3. PICK h \in Ids : h = op.id
  BY <1>1, OpFacts
<1>4. /\ panes \subseteq Panes /\ native \in [Pids -> Natives] /\ op.pid \in Pids \cup {None}
      /\ agent[h].proc \in Pids \cup {None}
  BY OpFacts DEF Commands, Record
<1>5. op.pid \in {None, agent[h].proc} /\ Bare(h)
  BY <1>1, <1>3 DEF IInv, Command, Ending
<1>6. /\ native' \in [Pids -> Natives]
      /\ \A k \in Pids : /\ native'[k].of = native[k].of /\ native'[k].gen = native[k].gen
                         /\ (native'[k].witnessed => native[k].witnessed)
                         /\ (native'[k].alive => native[k].alive)
      /\ agent[h].proc # None => ~(native'[agent[h].proc].alive /\ native'[agent[h].proc].witnessed)
  <2>1. CASE agent[h].proc = None
    <3>1. native' = native
      BY <1>3, <1>5, <2>1 DEF StopNative
    <3> QED  BY <1>4, <2>1, <3>1
  <2>2. CASE agent[h].proc # None
    <3> DEFINE k == agent[h].proc
    <3>1. k \in Pids /\ native[k] \in Natives
      BY <1>4, <2>2
    <3>2. PICK n \in {[native[k] EXCEPT !.alive = FALSE], [native[k] EXCEPT !.witnessed = FALSE]} :
              native' = [native EXCEPT ![k] = n]
      <4>1. op.pid = None \/ op.pid = k
        BY <1>5
      <4>2. CASE op.pid = None
        <5>1. native' = [native EXCEPT ![k].witnessed = FALSE]
          BY <1>3, <2>2, <4>2 DEF StopNative
        <5> QED  BY <5>1
      <4>3. CASE op.pid # None
        <5>1. native' = [native EXCEPT ![k].alive = FALSE]
          BY <4>1, <4>3 DEF StopNative
        <5> QED  BY <5>1
      <4> QED  BY <4>2, <4>3
    <3>3. /\ n \in Natives /\ n.of = native[k].of /\ n.gen = native[k].gen
          /\ (n.witnessed => native[k].witnessed) /\ (n.alive => native[k].alive)
          /\ ~(n.alive /\ n.witnessed)
      BY <3>1 DEF Natives
    <3> HIDE DEF k
    <3>4. native'[k] = n /\ native' \in [Pids -> Natives] /\ \A j \in Pids \ {k} : native'[j] = native[j]
      BY <1>4, <3>1, <3>2, <3>3
    <3>5. \A j \in Pids : /\ native'[j].of = native[j].of /\ native'[j].gen = native[j].gen
                          /\ (native'[j].witnessed => native[j].witnessed)
                          /\ (native'[j].alive => native[j].alive)
      BY <3>3, <3>4
    <3> QED  BY <3>3, <3>4, <3>5 DEF k
  <2> QED  BY <2>1, <2>2
<1>7. Fewer
  BY <1>1, <1>4, <1>6 DEF Fewer, IInv, Holds, Server
<1>8. Bare(h)'
  BY <1>1, <1>4, <1>5, <1>6 DEF Bare, Panes
<1>9. Dead(agent[h].proc)'
  BY <1>1, <1>6 DEF Dead
<1>10. Command' /\ OpLocks' /\ op' \in Commands /\ (Carries' => Carries)
  BY <1>1, <1>2, <1>3, <1>5, <1>7, <1>8, <1>9, EndingGoesOn
<1> QED  BY <1>1, <1>4, <1>6, <1>7, <1>10, LessOp, OpsGrow DEF IInv

-----------------------------------------------------------------------------
(* A new pane.                                                               *)

\* The next number of a server was never given out before.
LEMMA NextNumber ==
    ASSUME Types, Server, NEW g \in 1..(gens + 1), NEW h \in Ids, born' = born + 1, gens' = g, g \in {gens, gens + 1},
           born + 1 \in Pids,
           native' = [native EXCEPT ![born + 1].alive = TRUE, ![born + 1].of = h, ![born + 1].gen = g],
           NEW id, id = [gen |-> g, num |-> 1 + Cardinality({k \in 1..born : native[k].gen = g})]
    PROVE  /\ ~Used(id) /\ id \in [gen : {g}, num : 1..(born + 1)]
           /\ id.gen \in 1..gens' /\ id.num \in 1..Cardinality({k \in 1..born' : native'[k].gen = id.gen})
           /\ \A x : Used(x) => /\ x.gen \in 1..gens'
                                /\ x.num \in 1..Cardinality({k \in 1..born' : native'[k].gen = x.gen})
<1> DEFINE S(e) == {k \in 1..born : native[k].gen = e}
           T(e) == {k \in 1..born' : native'[k].gen = e}
<1>1. born \in Nat /\ gens \in Nat /\ native \in [Pids -> Natives] /\ 1..born \subseteq Pids
  BY BornArePids, NoneIsNone DEF Types, TypeOK, MaxNatives
<1>2. \A k \in 1..born : native'[k] = native[k]
  BY <1>1
<1>3. native'[born + 1].gen = g
  BY <1>1 DEF Natives
<1>4. IsFiniteSet(1..born) /\ Cardinality(1..born) = born
  <2>1. 1 \in Int /\ born \in Int
    BY <1>1
  <2>2. IsFiniteSet(1..born) /\ Cardinality(1..born) = IF 1 > born THEN 0 ELSE born - 1 + 1
    BY <2>1, FS_Interval, Zenon
  <2> QED  BY <1>1, <2>2
<1>5. \A e : IsFiniteSet(S(e)) /\ Cardinality(S(e)) \in 0..born
  <2> TAKE e
  <2>1. S(e) \subseteq 1..born
    OBVIOUS
  <2>2. IsFiniteSet(S(e)) /\ Cardinality(S(e)) <= born
    BY <1>4, <2>1, FS_Subset
  <2>3. Cardinality(S(e)) \in Nat
    BY <2>2, FS_CardinalityType
  <2> QED  BY <1>1, <2>2, <2>3
<1>6. T(g) = S(g) \cup {born + 1}
  BY <1>1, <1>2, <1>3
<1>7. \A e : e # g => T(e) = S(e)
  BY <1>1, <1>2, <1>3
<1>8. Cardinality(T(g)) = Cardinality(S(g)) + 1
  <2>1. born + 1 \notin S(g)
    BY <1>1
  <2> HIDE DEF S, T
  <2> QED  BY <1>5, <1>6, <2>1, FS_AddElement
<1>9. id.gen = g /\ id.num = 1 + Cardinality(S(g))
  OBVIOUS
<1>10. \A x : Used(x) <=> x.gen \in 1..gens /\ x.num \in 1..Cardinality(S(x.gen))
  BY DEF Used
<1> HIDE DEF S, T
<1>12. ~Used(id)
  BY <1>1, <1>5, <1>9, <1>10
<1>13. id \in [gen : {g}, num : 1..(born + 1)]
  <2>1. Cardinality(S(g)) \in 0..born
    BY <1>5
  <2>2. 1 + Cardinality(S(g)) \in 1..(born + 1)
    BY <1>1, <2>1
  <2> QED  BY <2>2 DEF S
<1>14. id.gen \in 1..gens' /\ id.num \in 1..Cardinality(T(id.gen))
  BY <1>1, <1>5, <1>8, <1>9
<1>15. ASSUME NEW x, Used(x) PROVE x.gen \in 1..gens' /\ x.num \in 1..Cardinality(T(x.gen))
  <2>1. x.gen \in 1..gens /\ x.num \in 1..Cardinality(S(x.gen))
    BY <1>10, <1>15
  <2>2. x.gen \in 1..gens'
    BY <1>1, <2>1
  <2>3. x.num \in 1..Cardinality(T(x.gen))
    BY <1>5, <1>7, <1>8, <2>1
  <2> QED  BY <2>2, <2>3
<1> QED  BY <1>12, <1>13, <1>14, <1>15 DEF T

\* A launch has its agent's number of processes to itself.
LEMMA Room ==
    ASSUME IInv, Carries
    PROVE  born + 1 \in Pids /\ born \in Nat /\ gens \in Nat /\ gens <= born /\ born + 1 <= ops
<1>1. Cardinality(Rehitching) \in Nat
  BY FS_CardinalityType DEF IInv, Budget
<1>2. born \in Nat /\ ops \in Nat /\ gens \in Nat /\ ops <= MaxOps /\ MaxOps \in Nat
  BY NoneIsNone DEF IInv, Types, TypeOK, MaxNatives
<1> QED  BY <1>1, <1>2 DEF IInv, Budget, Pids, MaxNatives

\* What a pane made in generation g for the agent h is, and what it leaves as it was.
Made(g, h, id, k, new) ==
    /\ h = op.id /\ id = NextPane(g) /\ k = born + 1 /\ new = [id |-> id, pid |-> k, held |-> TRUE]
    /\ g = NextServer
    /\ gens' = g /\ born' = k /\ panes' = panes \cup {new} /\ h \in Ids
    /\ k \in Pids /\ born \in Nat /\ gens \in Nat /\ gens <= born /\ born + 1 <= ops
    /\ g \in 1..(gens + 1) /\ g \in {gens, gens + 1} /\ g <= born + 1
    /\ ~Used(id) /\ id.gen = g
    /\ id.gen \in 1..gens' /\ id.num \in 1..Cardinality({i \in 1..born' : native'[i].gen = id.gen})
    /\ \A x : Used(x) => /\ x.gen \in 1..gens'
                         /\ x.num \in 1..Cardinality({i \in 1..born' : native'[i].gen = x.gen})
    /\ id \in PaneIds /\ id # None /\ new \in Panes
    /\ \A i \in 1..born : native'[i] = native[i]
    /\ \A i \in Pids \ {k} : native'[i] = native[i]
    /\ native'[k].of = h /\ native'[k].gen = g /\ ~native'[k].witnessed
    /\ native' \in [Pids -> Natives]
    /\ \A p \in panes : p.id # id /\ p.pid # k /\ p.pid \in 1..born /\ p.pid \in Pids /\ native'[p.pid] = native[p.pid]

LEMMA NewPane ==
    ASSUME IInv, op.pc = "spawn", MakePane(NextServer)
    PROVE  \E g, h, id, k, new : Made(g, h, id, k, new)
<1>0. PICK g, h, id, k, new : /\ g = NextServer /\ h = op.id /\ id = NextPane(g) /\ k = born + 1
                              /\ new = [id |-> id, pid |-> k, held |-> TRUE]
  OBVIOUS
<1>g. (g = gens /\ Exists) \/ (g = gens + 1 /\ ~Exists)
  BY <1>0 DEF NextServer
<1>1. /\ gens' = g /\ born' = k /\ panes' = panes \cup {new}
      /\ native' = [native EXCEPT ![k].alive = TRUE, ![k].of = op.id, ![k].gen = g]
  BY <1>0 DEF MakePane
<1>2. h \in Ids
  BY <1>0, OpFacts
<1>3. op.kind \in LaunchKinds /\ op.name \in Names /\ Carries
  BY DEF IInv, Command, KindOf, Carries, Launches
<1>4. k \in Pids /\ born \in Nat /\ gens \in Nat /\ gens <= born /\ born + 1 <= ops
  BY <1>0, <1>3, Room
<1>5. /\ panes \subseteq Panes /\ native \in [Pids -> Natives] /\ agent \in [Ids -> Record]
      /\ 1..born \subseteq Pids /\ \A p \in panes : p.id.gen = gens /\ p.pid \in 1..born
      /\ strays \subseteq 1..born
  BY OpFacts DEF IInv, Types, TypeOK
<1>6. g \in 1..(gens + 1) /\ g \in {gens, gens + 1} /\ g <= born + 1
  <2>1. Exists => gens >= 1
    BY <1>4, <1>5 DEF Exists, Panes, PaneIds
  <2> QED  BY <1>4, <1>g, <2>1
<1>7. /\ ~Used(id) /\ id \in [gen : {g}, num : 1..(born + 1)]
      /\ id.gen \in 1..gens' /\ id.num \in 1..Cardinality({i \in 1..born' : native'[i].gen = id.gen})
      /\ \A x : Used(x) => /\ x.gen \in 1..gens'
                           /\ x.num \in 1..Cardinality({i \in 1..born' : native'[i].gen = x.gen})
  <2>1. Types /\ Server
    BY DEF IInv, Holds
  <2>2. born' = born + 1 /\ gens' = g /\ born + 1 \in Pids
    BY <1>0, <1>1, <1>4
  <2>3. native' = [native EXCEPT ![born + 1].alive = TRUE, ![born + 1].of = h, ![born + 1].gen = g]
    BY <1>0, <1>1
  <2>4. id = [gen |-> g, num |-> 1 + Cardinality({i \in 1..born : native[i].gen = g})]
    BY <1>0 DEF NextPane
  <2> QED  BY <1>2, <1>6, <2>1, <2>2, <2>3, <2>4, NextNumber, ZenonT(40)
<1>8. id \in PaneIds /\ id # None
  <2>1. \A i \in 1..(born + 1) : i \in 1..MaxNatives
    BY <1>0, <1>1, <1>4, NoneIsNone DEF Pids, MaxNatives
  <2>2. g \in 1..MaxNatives
    BY <1>4, <1>6, <2>1
  <2>3. id \in PaneIds
    BY <1>7, <2>1, <2>2 DEF PaneIds
  <2> QED  BY <2>3, NoneIsNone
<1>9. /\ \A i \in 1..born : native'[i] = native[i]
      /\ \A i \in Pids \ {k} : native'[i] = native[i]
      /\ native'[k].of = h /\ native'[k].gen = g /\ native'[k].witnessed = native[k].witnessed
      /\ native' \in [Pids -> Natives]
  <2>1. native[k] \in Natives /\ k \notin 1..born /\ g \in Nat
    BY <1>0, <1>1, <1>4, <1>5, <1>6
  <2>2. native'[k] = [native[k] EXCEPT !.alive = TRUE, !.of = h, !.gen = g]
    BY <1>0, <1>1, <1>4, <1>5
  <2>3. /\ native'[k].of = h /\ native'[k].gen = g /\ native'[k].witnessed = native[k].witnessed
        /\ native'[k] \in Natives
    BY <1>2, <2>1, <2>2 DEF Natives
  <2>4. \A i \in Pids \ {k} : native'[i] = native[i]
    BY <1>1, <1>4, <1>5
  <2>5. native' = [native EXCEPT ![k] = native'[k]]
    BY <1>1, <1>4, <1>5
  <2>6. native' \in [Pids -> Natives]
    BY <1>4, <1>5, <2>3, <2>5
  <2> QED  BY <1>5, <2>1, <2>3, <2>4, <2>6
<1>10. ~native[k].witnessed
  BY <1>0, <1>1, <1>4 DEF IInv, Holds, Server
<1>11. \A p \in panes : p.id # id /\ p.pid # k /\ p.pid \in 1..born /\ p.pid \in Pids /\ native'[p.pid] = native[p.pid]
  <2>1. \A p \in panes : Used(p.id)
    BY DEF IInv, Holds, Server
  <2> TAKE p \in panes
  <2>2. p.pid \in 1..born
    BY <1>5
  <2>3. p.pid # k /\ p.pid \in Pids
    BY <1>0, <1>4, <1>5, <2>2
  <2> QED  BY <1>7, <1>9, <2>1, <2>2, <2>3
<1>12. new \in Panes
  BY <1>0, <1>4, <1>8 DEF Panes
<1>13. id.gen = g
  BY <1>7
<1>14. Made(g, h, id, k, new)
  BY <1>0, <1>1, <1>2, <1>4, <1>6, <1>7, <1>8, <1>9, <1>10, <1>11, <1>12, <1>13, ZenonT(40) DEF Made
<1> QED  BY <1>14

\* The new pane takes nothing from any record; it belongs to its launch, or to
\* none.
LEMMA MadeHolds ==
    ASSUME IInv, op.pc = "spawn", MakePane(NextServer),
           \A i \in Ids : /\ agent'[i].here = agent[i].here /\ agent'[i].pane = agent[i].pane
                          /\ agent'[i].proc = agent[i].proc /\ agent'[i].rehitch = agent[i].rehitch,
           \/ strays' = strays /\ op'.pc = "register" /\ op'.pid = born + 1
           \/ strays' = strays \cup {born + 1}
    PROVE  /\ Holds' /\ panes' \subseteq Panes /\ native' \in [Pids -> Natives] /\ strays' \subseteq 1..born'
           /\ \A p \in panes' : p.id \in PaneIds /\ p.id.gen = gens' /\ p.pid \in 1..born'
           /\ gens' \in 0..MaxNatives /\ born' \in 0..MaxNatives
<1>m. PICK g, h, id, k, new : Made(g, h, id, k, new)
  BY NewPane
<1>0. /\ g = NextServer /\ h = op.id /\ id = NextPane(g) /\ k = born + 1
      /\ new = [id |-> id, pid |-> k, held |-> TRUE]
  BY <1>m DEF Made
<1>1. gens' = g /\ born' = k /\ panes' = panes \cup {new} /\ new.id = id /\ new.pid = k /\ new \in Panes
  BY <1>m, <1>0 DEF Made
<1>2. h \in Ids
  BY <1>m DEF Made
<1>4. k \in Pids /\ born \in Nat /\ gens \in Nat /\ gens <= born /\ born + 1 <= ops
  BY <1>m DEF Made
<1>5. /\ panes \subseteq Panes /\ native \in [Pids -> Natives] /\ agent \in [Ids -> Record]
      /\ 1..born \subseteq Pids /\ \A p \in panes : p.id \in PaneIds /\ p.id.gen = gens /\ p.pid \in 1..born
      /\ strays \subseteq 1..born
  BY OpFacts DEF IInv, Types, TypeOK
<1>6. g \in 1..(gens + 1) /\ g \in {gens, gens + 1} /\ g <= born + 1
  BY <1>m DEF Made
<1>7. /\ ~Used(id) /\ id.gen = g
      /\ id.gen \in 1..gens' /\ id.num \in 1..Cardinality({i \in 1..born' : native'[i].gen = id.gen})
      /\ \A x : Used(x) => /\ x.gen \in 1..gens'
                           /\ x.num \in 1..Cardinality({i \in 1..born' : native'[i].gen = x.gen})
  BY <1>m DEF Made
<1>8. id \in PaneIds /\ id # None
  BY <1>m DEF Made
<1>9. /\ \A i \in 1..born : native'[i] = native[i]
      /\ \A i \in Pids \ {k} : native'[i] = native[i]
      /\ native'[k].of = h /\ native'[k].gen = g /\ ~native'[k].witnessed
      /\ native' \in [Pids -> Natives]
  BY <1>m DEF Made
<1>11. Ended(h)
  BY <1>0 DEF IInv, Command, Starts
<1>12. k \in strays' \/ (op'.pc = "register" /\ op'.pid = k)
  BY <1>0
<1>13. \A p \in panes : p.id # id /\ p.pid # k /\ p.pid \in 1..born /\ p.pid \in Pids /\ native'[p.pid] = native[p.pid]
  BY <1>m DEF Made
<1>14. \A i \in Ids : /\ agent[i].pane # id
                      /\ agent[i].proc # None => agent[i].proc \in 1..born /\ native'[agent[i].proc] = native[agent[i].proc]
  BY <1>7, <1>8, <1>9 DEF IInv, Holds, Owning
<1>15. strays' \subseteq strays \cup {k} /\ strays \subseteq strays' /\ strays' \subseteq 1..born'
  <2>1. strays' = strays \/ strays' = strays \cup {k}
    BY <1>0
  <2>2. k \in 1..born' /\ \A i \in 1..born : i \in 1..born'
    BY <1>0, <1>1, <1>4
  <2> QED  BY <1>5, <2>1, <2>2
<1>16. Server'
  <2>1. Server
    BY DEF IInv, Holds
  <2>2. \A p, q \in panes' : p.id = q.id \/ p.pid = q.pid => p = q
    BY <1>1, <1>13, <2>1 DEF Server
  <2>3. \A p \in panes' : Used(p.id)'
    <3> TAKE p \in panes'
    <3> DEFINE o == p.id
    <3>1. Used(o) \/ o = id
      BY <1>1, <1>13, <2>1 DEF Server
    <3>2. o.gen \in 1..gens' /\ o.num \in 1..Cardinality({i \in 1..born' : native'[i].gen = o.gen})
      BY <1>7, <3>1
    <3> HIDE DEF o
    <3> QED  BY <3>2 DEF Used, o
  <2>4. \A i \in 1..born' : native'[i].of \in Ids /\ native'[i].gen \in 1..gens'
    <3>1. native'[k].of \in Ids /\ native'[k].gen \in 1..gens'
      BY <1>1, <1>2, <1>6, <1>9
    <3>2. \A i \in 1..born : native'[i].of \in Ids /\ native'[i].gen \in 1..gens'
      <4>1. \A i \in 1..born : native[i].of \in Ids /\ native[i].gen \in 1..gens
        BY <2>1 DEF Server
      <4>2. \A e \in 1..gens : e \in 1..gens'
        BY <1>1, <1>4, <1>6
      <4> QED  BY <1>9, <4>1, <4>2
    <3>3. \A i \in 1..born' : i = k \/ i \in 1..born
      BY <1>0, <1>1, <1>4
    <3> QED  BY <3>1, <3>2, <3>3
  <2>5. \A i \in Pids : i > born' => ~native'[i].alive /\ ~native'[i].witnessed /\ native'[i].of = None
    BY <1>0, <1>1, <1>4, <1>9, <2>1 DEF Server, Pids
  <2>6. \A i \in strays' : ~native'[i].witnessed
    BY <1>5, <1>9, <1>15, <2>1 DEF Server
  <2> QED  BY <2>2, <2>3, <2>4, <2>5, <2>6 DEF Server
<1>17. \A i \in Ids : Owning(i)'
  <2> TAKE i \in Ids
  <2>1. /\ Owning(i) /\ agent'[i].here = agent[i].here /\ agent'[i].pane = agent[i].pane
        /\ agent'[i].proc = agent[i].proc /\ agent'[i].rehitch = agent[i].rehitch
    BY DEF IInv, Holds
  <2> DEFINE o == agent'[i].pane
  <2>2. o # None => /\ o.gen \in 1..gens'
                    /\ o.num \in 1..Cardinality({j \in 1..born' : native'[j].gen = o.gen})
    BY <1>7, <2>1 DEF Owning
  <2> HIDE DEF o
  <2>3. agent'[i].pane # None => Used(agent[i].pane)'
    BY <2>2 DEF Used, o
  <2>4. \A p \in panes' : agent'[i].pane = p.id =>
            /\ native'[p.pid].of = i /\ p.pid \notin strays'
            /\ agent'[i].proc # None => agent'[i].proc = p.pid
    <3> SUFFICES ASSUME NEW p \in panes', agent[i].pane = p.id
                 PROVE  /\ native'[p.pid].of = i /\ p.pid \notin strays'
                        /\ agent[i].proc # None => agent[i].proc = p.pid
      BY <2>1
    <3>1. p \in panes
      BY <1>1, <1>14
    <3>2. native'[p.pid] = native[p.pid] /\ p.pid # k
      BY <1>13, <3>1
    <3> QED  BY <1>15, <2>1, <3>1, <3>2 DEF Owning
  <2>5. agent'[i].proc # None => agent'[i].proc \in 1..born' /\ native'[agent'[i].proc].of = i
    <3>1. \A j \in 1..born : j \in 1..born'
      BY <1>0, <1>1, <1>4
    <3> QED  BY <1>14, <2>1, <3>1 DEF Owning
  <2>6. ~agent'[i].here => agent'[i].pane = None /\ agent'[i].proc = None /\ ~agent'[i].rehitch
    BY <2>1 DEF Owning
  <2> QED  BY <2>3, <2>4, <2>5, <2>6 DEF Owning
<1>18. \A i \in Pids \ {k} : Reachable(i)' => Reachable(i)
  BY <1>1, <1>9 DEF Reachable
<1>19. OneNative'
  BY <1>9, <1>11, <1>18 DEF IInv, Holds, OneNative, Ended
<1>20. PaneIsRecorded'
  <2> SUFFICES ASSUME NEW p \in panes', p.pid \notin strays', ~(op'.pc = "register" /\ op'.pid = p.pid),
                      NEW i, i = native'[p.pid].of
               PROVE  agent'[i].here /\ agent'[i].pane = p.id
    BY DEF PaneIsRecorded
  <2>1. p \in panes
    BY <1>1, <1>12
  <2>2. p.pid \in 1..born /\ i = native[p.pid].of
    BY <1>13, <2>1
  <2>3. agent[i].here /\ agent[i].pane = p.id
    BY <1>15, <2>1, <2>2 DEF IInv, Holds, PaneIsRecorded
  <2>4. i \in Ids
    BY <2>2 DEF IInv, Holds, Server
  <2> QED  BY <2>3, <2>4
<1>21. WitnessKept'
  <2> SUFFICES ASSUME NEW j \in Pids, native'[j].alive, native'[j].witnessed, NEW i, i = native'[j].of
               PROVE  agent'[i].here /\ agent'[i].proc = j
    BY DEF WitnessKept
  <2>1. j # k /\ native'[j] = native[j]
    BY <1>9
  <2>2. agent[i].here /\ agent[i].proc = j
    BY <2>1 DEF IInv, Holds, WitnessKept
  <2>3. i \in Ids
    BY <2>1 DEF IInv, Holds, Server, Types, TypeOK, Pids, MaxNatives
  <2> QED  BY <2>2, <2>3
<1>22. panes' \subseteq Panes
  BY <1>1, <1>5
<1>23. \A p \in panes' : p.id \in PaneIds /\ p.id.gen = gens' /\ p.pid \in 1..born'
  <2>1. \A p \in panes : g = gens
    BY <1>0 DEF Exists, NextServer
  <2> QED  BY <1>0, <1>1, <1>4, <1>5, <1>7, <1>8, <2>1
<1>24. gens' \in 0..MaxNatives /\ born' \in 0..MaxNatives
  <2>1. k \in 0..MaxNatives /\ MaxNatives \in Nat
    BY <1>4, NoneIsNone DEF Pids, MaxNatives
  <2>2. g \in 0..MaxNatives
    BY <1>0, <1>4, <1>6, <2>1
  <2> QED  BY <1>1, <2>1, <2>2
<1> QED  BY <1>9, <1>15, <1>16, <1>17, <1>19, <1>20, <1>21, <1>22, <1>23, <1>24 DEF Holds

LEMMA LaunchInKeeps ==
    ASSUME IInv, op.pc = "spawn", LaunchIn(NextServer)
    PROVE  IInv'
<1> DEFINE a == agent[op.id]
<1>m. PICK g, h, id, k, new : Made(g, h, id, k, new)
  BY NewPane DEF LaunchIn
<1>0. /\ g = NextServer /\ id = NextPane(g) /\ k = born + 1
      /\ new = [id |-> id, pid |-> k, held |-> TRUE]
  BY <1>m DEF Made
<1>1. /\ MakePane(NextServer) /\ op' = [op EXCEPT !.pc = "register", !.pane = id, !.pid = k]
      /\ UNCHANGED <<agent, names, lock, tick, ren, ops, mishaps, strays, cut>>
  BY <1>0 DEF LaunchIn
<1>2. h \in Ids /\ h = op.id
  BY <1>m, OpFacts DEF Made
<1>3. op.kind \in LaunchKinds /\ op.name \in Names /\ Carries
  BY DEF IInv, Command, KindOf, Carries, Launches
<1>4. /\ k \in Pids /\ born \in Nat /\ gens \in Nat /\ gens <= born /\ born + 1 <= ops
      /\ gens' = g /\ born' = born + 1 /\ g <= born + 1 /\ g \in {gens, gens + 1}
      /\ panes' = panes \cup {new} /\ new.id = id /\ new.pid = k
  BY <1>0, <1>m DEF Made
<1>7. /\ ~Used(id)
      /\ id.gen \in 1..gens' /\ id.num \in 1..Cardinality({i \in 1..born' : native'[i].gen = id.gen})
  BY <1>m DEF Made
<1>8. id \in PaneIds /\ id # None
  BY <1>m DEF Made
<1>9. /\ \A i \in 1..born : native'[i] = native[i]
      /\ \A i \in Pids \ {k} : native'[i] = native[i]
      /\ native'[k].of = h /\ ~native'[k].witnessed
  BY <1>m DEF Made
<1>10. \A p \in panes : p.id # id /\ p.pid # k /\ p.pid \in 1..born /\ p.pid \in Pids /\ native'[p.pid] = native[p.pid]
  BY <1>m DEF Made
<1>11. /\ a.here /\ a.name = op.name /\ a.status = Starting /\ a.pane = None
       /\ a.from = None /\ a.to = None /\ ~a.rehitch /\ Dead(a.proc)
       /\ names[op.name] = h /\ Bare(h) /\ Ended(h)
  BY <1>2 DEF IInv, Command, Starts
<1>12. \A i \in Ids : /\ agent[i].pane # id
                      /\ agent[i].proc # None => agent[i].proc \in 1..born /\ native'[agent[i].proc] = native[agent[i].proc]
  BY <1>7, <1>8, <1>9 DEF IInv, Holds, Owning
<1>13. /\ Holds' /\ panes' \subseteq Panes /\ native' \in [Pids -> Natives] /\ strays' \subseteq 1..born'
       /\ \A p \in panes' : p.id \in PaneIds /\ p.id.gen = gens' /\ p.pid \in 1..born'
       /\ gens' \in 0..MaxNatives /\ born' \in 0..MaxNatives
  <2>1. op'.pc = "register" /\ op'.pid = born + 1 /\ strays' = strays
    BY <1>0, <1>1, OpFacts DEF Commands
  <2>2. \A i \in Ids : /\ agent'[i].here = agent[i].here /\ agent'[i].pane = agent[i].pane
                       /\ agent'[i].proc = agent[i].proc /\ agent'[i].rehitch = agent[i].rehitch
    BY <1>1
  <2> QED  BY <1>1, <2>1, <2>2, MadeHolds
<1>14. op' \in Commands
  BY <1>1, <1>4, <1>8, OpFacts, ZenonT(60) DEF Commands, Steps, Holding
<1>15. Types'
  BY <1>1, <1>13, <1>14 DEF IInv, Types, TypeOK
<1>18. \A i \in Pids \ {k} : Reachable(i)' => Reachable(i)
  BY <1>4, <1>9 DEF Reachable
<1>22. Named'
  <2>1. \A i \in Ids : Live(agent[i])' <=> Live(agent[i])
    BY <1>1, <1>12 DEF Live
  <2> QED  BY <1>1, <2>1 DEF IInv, Named, Naming, NoForgottenNameUncut, Knows
<1>23. Others'
  BY <1>1 DEF IInv, Others, OtherLocks, TickControl, RenControl
<1>24. /\ op'.pc = "register" /\ op'.kind = op.kind /\ op'.id = h /\ op'.name = op.name /\ op'.pane = id /\ op'.pid = k
  BY <1>1, <1>2, OpFacts DEF Commands
<1>25. OpLocks'
  BY <1>1, <1>2, <1>24 DEF IInv, OpLocks, Holding
<1>26. KindOf'
  BY <1>2, <1>3, <1>24 DEF KindOf, Startups, Closings, Fronts
<1>27. First' /\ Superseding' /\ Ending' /\ Emptying' /\ Strayless' /\ ~Carries'
  BY <1>3, <1>24 DEF First, Superseding, Ending, Emptying, Strayless, Carries, Launches, LaunchKinds, Startups, Closings, Fronts
<1>28. Starts'
  <2>1. Dead(a.proc)'
    <3>1. agent'[op'.id] = agent[h] /\ a = agent[h]
      BY <1>1, <1>2, <1>24
    <3>2. agent[h].proc # None => ~(native'[agent[h].proc].alive /\ native'[agent[h].proc].witnessed)
      BY <1>2, <1>11, <1>12 DEF Dead
    <3> QED  BY <3>1, <3>2 DEF Dead
  <2>2. \A p \in panes' : native'[p.pid].of = h => p.pid \in strays' \/ p.pid = k
    BY <1>1, <1>4, <1>10, <1>11 DEF Bare
  <2>3. \A i \in Pids : native'[i].of = h /\ Reachable(i)' => i = k
    BY <1>9, <1>11, <1>18 DEF Ended
  <2>4. \A i \in Ids : agent'[i].pane # id
    BY <1>1, <1>12
  <2> QED  BY <1>1, <1>2, <1>9, <1>11, <1>24, <2>1, <2>2, <2>3, <2>4, ZenonT(40) DEF Starts
<1>29. Registered'
  <2>1. k \in 1..born' /\ k \notin strays' /\ native'[k].of = h /\ \A p \in panes' : p.id = id <=> p.pid = k
    <3>1. k \in 1..born' /\ k \notin 1..born
      BY <1>0, <1>4
    <3>2. strays \subseteq 1..born
      BY DEF IInv, Types, TypeOK
    <3> QED  BY <1>1, <1>4, <1>9, <1>10, <3>1, <3>2
  <2> DEFINE o == op'.pane
  <2>2. o = id
    BY <1>24
  <2>3. o # None /\ o.gen \in 1..gens' /\ o.num \in 1..Cardinality({i \in 1..born' : native'[i].gen = o.gen})
    BY <1>7, <1>8, <2>2
  <2> HIDE DEF o
  <2>4. op'.pane # None /\ Used(op.pane)'
    BY <2>3 DEF Used, o
  <2> QED  BY <1>24, <2>1, <2>4 DEF Registered, Startups
<1>30. Budget'
  <2>1. Rehitching' = Rehitching
    BY <1>1 DEF Rehitching
  <2>2. Cardinality(Rehitching) \in Nat
    BY FS_CardinalityType DEF IInv, Budget
  <2>3. ops \in Nat
    BY OpsGrow DEF IInv
  <2> QED  BY <1>1, <1>3, <1>4, <1>27, <2>1, <2>2, <2>3 DEF IInv, Budget
<1> QED  BY <1>13, <1>15, <1>22, <1>23, <1>25, <1>26, <1>27, <1>28, <1>29, <1>30 DEF IInv, Command

\* A launch that errs may leave a pane behind, and no record names it.
LEMMA SpawnErrsKeeps ==
    ASSUME IInv, SpawnErrs
    PROVE  IInv'
<1> DEFINE a == agent[op.id]  c == FailedBy(a)
<1>1. /\ op.pc = "spawn" /\ Put(op.id, c) /\ Return(TRUE) /\ mishaps < MaxMishaps /\ mishaps' = mishaps + 1
      /\ UNCHANGED <<names, cut, tick, ren, ops>>
  BY DEF SpawnErrs
<1>2. PICK h \in Ids : h = op.id
  BY <1>1, OpFacts
<1>3. op.kind \in LaunchKinds /\ lock[h] = "op" /\ a \in Record /\ Carries
  BY <1>1, <1>2, OpFacts DEF Holding, IInv, Command, KindOf, Carries, Launches
<1>4. mishaps' \in 0..MaxMishaps
  BY <1>1, OpsGrow DEF IInv
<1>5. Keeps(a, c) /\ c \in Record
  BY <1>3, FailedKeeps DEF Keeps
<1>6. CASE UNCHANGED <<panes, gens, born, native, strays>>
  <2>1. UNCHANGED world
    BY <1>1, <1>6 DEF world
  <2> QED  BY <1>1, <1>2, <1>3, <1>4, <1>5, <2>1, ReturnKeeps
<1>7. CASE MakePane(NextServer) /\ strays' = strays \cup {born + 1}
  <2>1. PICK g, i0, id, k, new : Made(g, i0, id, k, new)
    BY <1>1, <1>7, NewPane
  <2>3. Command' /\ OpLocks' /\ op' \in Commands /\ ~Carries'
        /\ lock' \in [Ids -> {"free", "op", "tick", "ren"}]
        /\ \A i \in Ids : lock'[i] = lock[i] \/ {lock[i], lock'[i]} \subseteq {"free", "op"}
    BY <1>1, <1>3, ReturnDoes
  <2>4. agent'[h] = c /\ (\A i \in Ids \ {h} : agent'[i] = agent[i]) /\ agent' \in [Ids -> Record]
    BY <1>1, <1>2, <1>5, OpFacts DEF Put
  <2>5. /\ c.here = a.here /\ c.pane = a.pane /\ c.proc = a.proc /\ c.rehitch = a.rehitch
        /\ c.name = a.name /\ c.from = a.from /\ c.to = a.to /\ c.status = Failed
    BY <1>3 DEF FailedBy, Record
  <2> HIDE DEF c
  <2>6. \A i \in Ids : /\ agent'[i].here = agent[i].here /\ agent'[i].pane = agent[i].pane
                       /\ agent'[i].proc = agent[i].proc /\ agent'[i].rehitch = agent[i].rehitch
                       /\ agent'[i].name = agent[i].name /\ agent'[i].from = agent[i].from /\ agent'[i].to = agent[i].to
    BY <1>2, <2>4, <2>5
  <2>7. /\ Holds' /\ panes' \subseteq Panes /\ native' \in [Pids -> Natives] /\ strays' \subseteq 1..born'
        /\ \A p \in panes' : p.id \in PaneIds /\ p.id.gen = gens' /\ p.pid \in 1..born'
        /\ gens' \in 0..MaxNatives /\ born' \in 0..MaxNatives
    BY <1>1, <1>7, <2>6, MadeHolds
  <2>8. /\ gens' = g /\ born' = born + 1 /\ g <= born + 1 /\ born \in Nat /\ gens \in Nat
        /\ \A i \in 1..born : native'[i] = native[i]
    BY <2>1 DEF Made
  <2>9. Types'
    BY <1>1, <1>4, <2>3, <2>4, <2>7 DEF IInv, Types, TypeOK
  <2>10. Named'
    <3>1. \A i \in Ids : agent[i].proc # None => native'[agent[i].proc] = native[agent[i].proc]
      BY <2>8 DEF IInv, Holds, Owning
    <3>2. \A i \in Ids : Live(agent[i])' => Live(agent[i])
      <4> TAKE i \in Ids
      <4>1. CASE i = h
        BY <1>2, <2>4, <2>5, <3>1, <4>1 DEF Live, Failed, Booting, Active
      <4>2. CASE i # h
        BY <2>4, <3>1, <4>2 DEF Live
      <4> QED  BY <4>1, <4>2
    <3>3. \A i \in Ids : Naming(i)'
      <4> TAKE i \in Ids
      <4>1. Naming(i)
        BY DEF IInv, Named
      <4> QED  BY <1>1, <2>6, <3>2, <4>1 DEF Naming
    <3>4. NoForgottenNameUncut'
      <4> SUFFICES ASSUME NEW n \in Names, NEW i \in Ids, names[n] = i, agent[i].here
                   PROVE  n \in {agent'[i].name, agent'[i].from, agent'[i].to} \/ i \in cut
        BY <1>1, <2>6, OpFacts DEF NoForgottenNameUncut, Knows
      <4> QED  BY <2>6, NoneIsNone DEF IInv, Named, NoForgottenNameUncut, Knows
    <3> QED  BY <3>3, <3>4 DEF Named
  <2>11. Others'
    <3>1. NamesOf(h)
      BY <1>1, SameNames DEF IInv
    <3> QED  BY <1>1, <1>2, <1>3, <2>3, <3>1, BesideOthers DEF IInv
  <2>12. Budget'
    <3>1. Rehitching' = Rehitching
      BY <2>6 DEF Rehitching
    <3>2. Cardinality(Rehitching) \in Nat
      BY FS_CardinalityType DEF IInv, Budget
    <3>3. ops \in Nat
      BY OpsGrow DEF IInv
    <3> QED  BY <1>1, <1>3, <2>3, <2>8, <3>1, <3>2, <3>3 DEF IInv, Budget
  <2> QED  BY <2>3, <2>7, <2>9, <2>10, <2>11, <2>12 DEF IInv
<1> QED  BY <1>6, <1>7 DEF SpawnErrs

LEMMA CreateSessionKeeps ==
    ASSUME IInv, CreateSession
    PROVE  IInv'
  BY LaunchInKeeps DEF CreateSession

LEMMA SpawnWindowKeeps ==
    ASSUME IInv, SpawnWindow
    PROVE  IInv'
  BY LaunchInKeeps DEF SpawnWindow

-----------------------------------------------------------------------------
(* A record takes up its pane, and its process.                              *)

LEMMA RegisterKeeps ==
    ASSUME IInv, Register
    PROVE  IInv'
<1> DEFINE a == agent[op.id]
           c == [a EXCEPT !.pane = op.pane, !.held = TRUE, !.proc = None, !.server = FALSE, !.status = Booting]
<1>1. op.pc = "register" /\ UNCHANGED <<names, world, tick, ren, ops, mishaps>>
  BY DEF Register
<1>2. PICK h \in Ids : h = op.id
  BY <1>1, OpFacts
<1>3. /\ lock[h] = "op" /\ op.kind \in LaunchKinds /\ agent[h] \in Record /\ agent \in [Ids -> Record]
      /\ lock \in [Ids -> {"free", "op", "tick", "ren"}]
  BY <1>1, <1>2, LaunchIs, OpFacts
<1>4. CASE Present(op.pane)
  <2>1. Put(h, c) /\ op' = [op EXCEPT !.pc = "server"] /\ lock' = lock
    BY <1>1, <1>2, <1>4 DEF Register
  <2>2. op.pane \in PaneIds \cup {None}
    BY OpFacts DEF Commands
  <2>3. /\ c \in Record /\ c.here = a.here /\ c.name = a.name /\ c.from = a.from /\ c.to = a.to
        /\ c.pane = op.pane /\ c.proc = None /\ c.rehitch = a.rehitch
    BY <1>2, <1>3, <2>2 DEF Record, Booting
  <2>4. /\ a.here /\ a.name = op.name /\ a.pane = None /\ a.from = None /\ a.to = None /\ ~a.rehitch
        /\ Dead(a.proc) /\ names[op.name] = h /\ op.name \in Names
    BY <1>1, <1>2 DEF IInv, Command, Starts, KindOf
  <2>5. /\ op.pid \in 1..born /\ op.pid \notin strays /\ native[op.pid].of = h
        /\ \A p \in panes : p.id = op.pane <=> p.pid = op.pid
        /\ op.pane # None /\ Used(op.pane)
    BY <1>1, <1>2 DEF IInv, Command, Registered
  <2> HIDE DEF c
  <2>6. agent'[h] = c /\ \A i \in Ids \ {h} : agent'[i] = agent[i]
    BY <1>3, <2>1 DEF Put
  <2>7. UNCHANGED <<panes, gens, born, native, strays, cut>>
    BY <1>1 DEF world
  <2>8. Server' /\ OneNative'
    BY <2>7 DEF IInv, Holds, Server, OneNative, Reachable, Used
  <2>9. \A i \in Ids : Owning(i)'
    <3> TAKE i \in Ids
    <3>1. CASE i # h
      <4>1. agent'[i] = agent[i] /\ Owning(i)
        BY <2>6, <3>1 DEF IInv, Holds
      <4> QED  BY <2>7, <4>1 DEF Owning, Used
    <3>2. CASE i = h
      <4>1. agent'[i] = c
        BY <2>6, <3>2
      <4> QED  BY <2>3, <2>4, <2>5, <2>7, <3>2, <4>1 DEF Owning, Used
    <3> QED  BY <3>1, <3>2
  <2>10. PaneIsRecorded'
    <3> SUFFICES ASSUME NEW p \in panes', p.pid \notin strays'
                 PROVE  agent'[native'[p.pid].of].here /\ agent'[native'[p.pid].of].pane = p.id
      BY DEF PaneIsRecorded
    <3>1. /\ p \in panes /\ p.id # None
          /\ p.pid = op.pid \/ (agent[native[p.pid].of].here /\ agent[native[p.pid].of].pane = p.id)
      BY <2>7, OpFacts, NoneIsNone DEF IInv, Holds, PaneIsRecorded, Panes
    <3>2. CASE p.pid = op.pid
      BY <2>3, <2>4, <2>5, <2>6, <2>7, <3>1, <3>2
    <3>3. CASE p.pid # op.pid
      <4>1. p.pid \in 1..born
        BY <3>1 DEF IInv, Types, TypeOK
      <4>2. native[p.pid].of \in Ids
        BY <4>1 DEF IInv, Holds, Server
      <4>3. native[p.pid].of # h
        BY <1>2, <2>4, <3>1, <3>3
      <4> QED  BY <2>6, <2>7, <3>1, <3>3, <4>2, <4>3
    <3> QED  BY <3>2, <3>3
  <2>11. WitnessKept'
    <3> SUFFICES ASSUME NEW k \in Pids, native'[k].alive, native'[k].witnessed
                 PROVE  agent'[native'[k].of].here /\ agent'[native'[k].of].proc = k
      BY DEF WitnessKept
    <3>1. agent[native[k].of].here /\ agent[native[k].of].proc = k
      BY <2>7 DEF IInv, Holds, WitnessKept
    <3>2. native[k].of \in Ids
      BY <2>7 DEF IInv, Holds, Server, Types, TypeOK, Pids, MaxNatives
    <3>3. native[k].of # h
      BY <1>2, <2>4, <2>7, <3>1, NoneIsNone DEF Dead
    <3> QED  BY <2>6, <2>7, <3>1, <3>2, <3>3
  <2>12. Named'
    <3>1. NamesOf(h)
      BY <1>1, <1>2, SameNames DEF IInv
    <3>2. Naming(h)'
      <4>1. agent'[h] = c /\ names' = names /\ c.name \in Names /\ names[c.name] = h /\ c.from = None /\ c.to = None
        BY <1>1, <2>3, <2>4, <2>6
      <4> QED  BY <4>1 DEF Naming
    <3>3. \A n \in Names : names'[n] = h /\ agent'[h].here =>
               n \in {agent'[h].name, agent'[h].from, agent'[h].to} \/ h \in cut'
      BY <1>1, <1>2, <2>3, <2>4, <2>6, <2>7, NoneIsNone DEF IInv, Named, NoForgottenNameUncut, Knows
    <3>4. Types /\ Named
      BY DEF IInv
    <3> QED  BY <1>2, <2>1, <2>7, <3>1, <3>2, <3>3, <3>4, OneNamed
  <2>13. Command' /\ OpLocks' /\ op' \in Commands /\ ~Carries'
    BY <1>1, <1>2, <1>3, <2>1, <2>3, <2>4, <2>7, LaunchGoesOn DEF Startups
  <2>14. Others'
    BY <1>1, <1>2, <1>3, <2>1, <2>12, BesideOthers, SameNames DEF IInv
  <2>15. Budget'
    <3>1. Rehitching' \subseteq Rehitching
      BY <1>2, <2>1, <2>3, RehitchingPut DEF IInv
    <3> QED  BY <1>1, <2>7, <2>13, <3>1, FewerRehitching, OpsGrow DEF IInv
  <2>16. Types'
    BY <1>1, <1>2, <1>3, <2>1, <2>3, <2>7, <2>13, OpTypes, OpsGrow DEF IInv
  <2> QED  BY <2>8, <2>9, <2>10, <2>11, <2>12, <2>13, <2>14, <2>15, <2>16 DEF IInv, Holds
<1>5. CASE ~Present(op.pane)
  <2>1. Put(op.id, FailedBy(a)) /\ Return(TRUE)
    BY <1>1, <1>5 DEF Register
  <2>2. Keeps(a, FailedBy(a)) /\ FailedBy(a) \in Record
    BY <1>2, <1>3, FailedKeeps DEF Keeps
  <2> QED  BY <1>1, <1>2, <1>3, <1>5, <2>1, <2>2, ReturnKeeps, OpsGrow DEF IInv
<1> QED  BY <1>4, <1>5

\* A launch that cannot record its pane removes it, or leaves it to no record.
LEMMA RegisterFailsKeeps ==
    ASSUME IInv, RegisterFails
    PROVE  IInv'
<1> DEFINE a == agent[op.id]  c == FailedBy(a)
<1>1. /\ op.pc = "register" /\ Put(op.id, c) /\ Return(TRUE) /\ mishaps < MaxMishaps /\ mishaps' = mishaps + 1
      /\ UNCHANGED <<names, gens, born, cut, tick, ren, ops>>
  BY DEF RegisterFails
<1>2. PICK h \in Ids : h = op.id
  BY <1>1, OpFacts
<1>3. op.kind \in LaunchKinds /\ lock[h] = "op" /\ a \in Record
  BY <1>1, <1>2, LaunchIs
<1>4. Command' /\ OpLocks' /\ op' \in Commands /\ ~Carries'
      /\ lock' \in [Ids -> {"free", "op", "tick", "ren"}]
      /\ \A i \in Ids : lock'[i] = lock[i] \/ {lock[i], lock'[i]} \subseteq {"free", "op"}
  BY <1>1, <1>3, ReturnDoes
<1>5. /\ op.pid \in 1..born /\ ~native[op.pid].witnessed /\ \A i \in Ids : agent[i].pane # op.pane
      /\ \A p \in panes : p.id = op.pane <=> p.pid = op.pid
  BY <1>1 DEF IInv, Command, Registered, Starts
<1>6. /\ panes \subseteq Panes /\ native \in [Pids -> Natives] /\ 1..born \subseteq Pids
      /\ strays \subseteq 1..born /\ \A p \in panes : p.pid \in 1..born
  BY OpFacts DEF IInv, Types, TypeOK
<1>7. /\ Fewer /\ panes' \subseteq panes /\ native' \in [Pids -> Natives]
      /\ strays' \in {strays, strays \cup {op.pid}}
      /\ \A p \in panes' : p.pid = op.pid => p.pid \in strays'
  <2>1. CASE /\ panes' = Without(op.pane) /\ UNCHANGED strays
             /\ \E survive \in BOOLEAN : native' = Hangup(op.pane, survive)
    <3>1. Fewer /\ panes' \subseteq panes /\ native' \in [Pids -> Natives]
      BY <2>1, RemovedFewer DEF IInv
    <3>2. \A p \in panes' : p.pid # op.pid
      BY <1>5, <2>1, <3>1 DEF Without
    <3> QED  BY <2>1, <3>1, <3>2
  <2>2. CASE strays' = strays \cup {op.pid} /\ UNCHANGED <<panes, native>>
    <3>1. Fewer
      BY <1>6, <2>2 DEF Fewer, IInv, Holds, Server
    <3> QED  BY <1>6, <2>2, <3>1
  <2> QED  BY <2>1, <2>2 DEF RegisterFails
<1>8. Keeps(a, c) /\ c \in Record
  BY <1>3, FailedKeeps DEF Keeps
<1>9. agent'[h] = c /\ (\A i \in Ids \ {h} : agent'[i] = agent[i]) /\ agent' \in [Ids -> Record]
  BY <1>1, <1>2, <1>8, OpFacts DEF Put
<1>10. /\ c.here = a.here /\ c.pane = a.pane /\ c.proc = a.proc /\ c.rehitch = a.rehitch
       /\ c.name = a.name /\ c.from = a.from /\ c.to = a.to /\ c.status = Failed
  BY <1>3 DEF FailedBy, Record
<1> HIDE DEF c
<1>11. \A i \in Ids : /\ agent'[i].here = agent[i].here /\ agent'[i].pane = agent[i].pane
                      /\ agent'[i].proc = agent[i].proc /\ agent'[i].rehitch = agent[i].rehitch
                      /\ agent'[i].name = agent[i].name /\ agent'[i].from = agent[i].from /\ agent'[i].to = agent[i].to
  BY <1>2, <1>9, <1>10
<1>12. Server'
  <2>1. \A id : Used(id)' <=> Used(id)
    BY <1>1, <1>7, FewerUsed DEF IInv
  <2>2. \A p \in panes' : Used(p.id)'
    BY <1>7, <2>1 DEF IInv, Holds, Server
  <2>3. \A p, q \in panes' : p.id = q.id \/ p.pid = q.pid => p = q
    BY <1>7 DEF Fewer
  <2>4. \A k \in 1..born' : native'[k].of \in Ids /\ native'[k].gen \in 1..gens'
    BY <1>1, <1>6, <1>7 DEF IInv, Holds, Server, Fewer
  <2>5. \A k \in Pids : k > born' => ~native'[k].alive /\ ~native'[k].witnessed /\ native'[k].of = None
    BY <1>1, <1>7 DEF IInv, Holds, Server, Fewer
  <2>6. \A k \in strays' : ~native'[k].witnessed
    BY <1>5, <1>6, <1>7 DEF IInv, Holds, Server, Fewer
  <2> QED  BY <2>2, <2>3, <2>4, <2>5, <2>6 DEF Server
<1>13. ASSUME NEW i \in Ids
       PROVE  Owning(i)'
  <2>1. Owning(i)
    BY DEF IInv, Holds
  <2>2. \A p \in panes' : agent[i].pane = p.id => /\ native'[p.pid].of = i /\ p.pid \notin strays'
                                                  /\ agent[i].proc # None => agent[i].proc = p.pid
    <3> SUFFICES ASSUME NEW p \in panes', agent[i].pane = p.id
                 PROVE  /\ native'[p.pid].of = i /\ p.pid \notin strays'
                        /\ agent[i].proc # None => agent[i].proc = p.pid
      OBVIOUS
    <3>1. p \in panes /\ p.pid # op.pid /\ p.pid \in Pids
      BY <1>5, <1>6, <1>7
    <3> QED  BY <1>7, <2>1, <3>1 DEF Owning, Fewer
  <2>3. agent[i].proc # None => agent[i].proc \in 1..born' /\ native'[agent[i].proc].of = i
    BY <1>1, <1>6, <1>7, <2>1 DEF Owning, Fewer
  <2>4. agent'[i].pane # None => Used(agent[i].pane)'
    <3>1. PICK o : o = agent[i].pane /\ o = agent'[i].pane
      BY <1>11
    <3>2. Used(o)' <=> Used(o)
      BY <1>1, <1>7, FewerUsed DEF IInv
    <3>3. o # None => /\ o.gen \in 1..gens'
                      /\ o.num \in 1..Cardinality({k \in 1..born' : native'[k].gen = o.gen})
      BY <2>1, <3>1, <3>2 DEF Owning, Used
    <3> QED  BY <3>1, <3>3 DEF Used
  <2>5. ~agent'[i].here => agent'[i].pane = None /\ agent'[i].proc = None /\ ~agent'[i].rehitch
    BY <1>11, <2>1 DEF Owning
  <2> QED  BY <1>11, <2>2, <2>3, <2>4, <2>5 DEF Owning
<1>14. OneNative'
  BY <1>7 DEF IInv, Holds, OneNative, Reachable, Fewer
<1>15. PaneIsRecorded'
  <2> SUFFICES ASSUME NEW p \in panes', p.pid \notin strays', NEW i, i = native'[p.pid].of
               PROVE  agent'[i].here /\ agent'[i].pane = p.id
    BY DEF PaneIsRecorded
  <2>1. p \in panes /\ p.pid # op.pid /\ p.pid \in 1..born /\ p.pid \notin strays
    BY <1>6, <1>7
  <2>2. i = native[p.pid].of
    BY <1>6, <1>7, <2>1 DEF Fewer
  <2>3. agent[i].here /\ agent[i].pane = p.id
    BY <2>1, <2>2 DEF IInv, Holds, PaneIsRecorded
  <2>4. i \in Ids
    BY <2>1, <2>2 DEF IInv, Holds, Server
  <2> QED  BY <1>11, <2>3, <2>4
<1>16. WitnessKept'
  <2> SUFFICES ASSUME NEW k \in Pids, native'[k].alive, native'[k].witnessed, NEW i, i = native'[k].of
               PROVE  agent'[i].here /\ agent'[i].proc = k
    BY DEF WitnessKept
  <2>1. native[k].alive /\ native[k].witnessed /\ i = native[k].of
    BY <1>7 DEF Fewer
  <2>2. agent[i].here /\ agent[i].proc = k
    BY <2>1 DEF IInv, Holds, WitnessKept
  <2>3. i \in Ids
    BY <2>1 DEF IInv, Holds, Server, Types, TypeOK, Pids, MaxNatives
  <2> QED  BY <1>11, <2>2, <2>3
<1>17. NamesOf(h)
  BY <1>1, SameNames DEF IInv
<1>18. Named'
  <2>1. Live(agent[h])' => Live(agent[h])
    <3>1. agent[h].proc # None => (native'[agent[h].proc].alive => native[agent[h].proc].alive)
      BY <1>2, <1>3, <1>7 DEF Record, Fewer
    <3>2. agent'[h].pane = agent[h].pane /\ agent'[h].proc = agent[h].proc /\ agent'[h].status = Failed
      BY <1>2, <1>9, <1>10
    <3> QED  BY <3>1, <3>2 DEF Live, Failed, Booting, Active
  <2>2. Naming(h)'
    <3>1. Naming(h)
      BY DEF IInv, Named
    <3> QED  BY <1>1, <1>11, <2>1, <3>1 DEF Naming
  <2>3. \A n \in Names : names'[n] = h /\ agent'[h].here =>
               n \in {agent'[h].name, agent'[h].from, agent'[h].to} \/ h \in cut'
    BY <1>1, <1>11, NoneIsNone DEF IInv, Named, NoForgottenNameUncut, Knows
  <2>4. \A k \in Pids : native'[k].alive => native[k].alive
    BY <1>7 DEF Fewer
  <2> QED  BY <1>1, <1>2, <1>17, <2>2, <2>3, <2>4, OneNamed DEF IInv
<1>19. Others'
  BY <1>1, <1>2, <1>3, <1>4, <1>17, BesideOthers DEF IInv
<1>20. Budget'
  <2>1. Rehitching' \subseteq Rehitching
    BY <1>11 DEF Rehitching
  <2> QED  BY <1>1, <1>4, <2>1, FewerRehitching, OpsGrow DEF IInv
<1>21. Types'
  <2>1. mishaps' \in 0..MaxMishaps
    BY <1>1, OpsGrow DEF IInv
  <2>2. strays' \subseteq 1..born'
    BY <1>1, <1>5, <1>6, <1>7
  <2> QED  BY <1>1, <1>4, <1>6, <1>7, <1>9, <2>1, <2>2 DEF IInv, Types, TypeOK
<1> QED  BY <1>4, <1>12, <1>13, <1>14, <1>15, <1>16, <1>18, <1>19, <1>20, <1>21 DEF IInv, Holds

\* The process in a record's pane becomes the record's process.
LEMMA WitnessHolds ==
    ASSUME Types, Holds, NEW h \in Ids, agent[h].here, NEW p \in panes, p.id = agent[h].pane, native[p.pid].alive,
           agent[h].proc \in {None, p.pid}, NEW c \in Record, Put(h, c), c.here, c.pane = p.id, c.proc = p.pid,
           native' = [native EXCEPT ![p.pid].witnessed = TRUE],
           UNCHANGED <<panes, gens, born, strays>>, op.pc # "register"
    PROVE  Holds'
<1>1. /\ native \in [Pids -> Natives] /\ panes \subseteq Panes /\ agent \in [Ids -> Record]
      /\ p.pid \in 1..born /\ 1..born \subseteq Pids
  BY BornArePids DEF Types, TypeOK
<1>2. p.pid \in Pids /\ p.id # None
  BY <1>1, NoneIsNone DEF Panes
<1>3. /\ \A k \in Pids : /\ native'[k].of = native[k].of /\ native'[k].gen = native[k].gen
                         /\ native'[k].alive = native[k].alive
                         /\ k # p.pid => native'[k].witnessed = native[k].witnessed
      /\ native'[p.pid].witnessed
  BY <1>1, <1>2 DEF Natives
<1>4. agent'[h] = c /\ \A i \in Ids \ {h} : agent'[i] = agent[i]
  BY <1>1 DEF Put
<1>5. native[p.pid].of = h /\ p.pid \notin strays /\ Used(p.id)
  BY DEF Holds, Owning, Server
<1>6. {k \in Pids : native'[k].alive} = {k \in Pids : native[k].alive}
  BY <1>3
<1>7. \A i : Used(i) <=> /\ i.gen \in 1..gens'
                         /\ i.num \in 1..Cardinality({k \in 1..born' : native'[k].gen = i.gen})
  <2> TAKE i
  <2>1. {k \in 1..born' : native'[k].gen = i.gen} = {k \in 1..born : native[k].gen = i.gen}
    BY <1>1, <1>3
  <2> QED  BY <2>1 DEF Used
<1>8. Server'
  <2>1. \A q \in panes' : Used(q.id)'
    <3> TAKE q \in panes'
    <3> DEFINE o == q.id
    <3>1. o.gen \in 1..gens' /\ o.num \in 1..Cardinality({k \in 1..born' : native'[k].gen = o.gen})
      BY <1>7 DEF Holds, Server
    <3> HIDE DEF o
    <3> QED  BY <3>1 DEF Used, o
  <2>2. \A q, r \in panes' : q.id = r.id \/ q.pid = r.pid => q = r
    BY DEF Holds, Server
  <2>3. \A k \in 1..born' : native'[k].of \in Ids /\ native'[k].gen \in 1..gens'
    BY <1>1, <1>3 DEF Holds, Server
  <2>4. \A k \in Pids : k > born' => ~native'[k].alive /\ ~native'[k].witnessed /\ native'[k].of = None
    BY <1>2, <1>3, <1>5, NoneIsNone DEF Holds, Server
  <2>5. \A k \in strays' : ~native'[k].witnessed
    BY <1>1, <1>3, <1>5 DEF Holds, Server, Types, TypeOK
  <2> QED  BY <2>1, <2>2, <2>3, <2>4, <2>5 DEF Server
<1>9. \A i \in Ids : Owning(i)'
  <2> TAKE i \in Ids
  <2> DEFINE b == agent'[i]  o == b.pane
  <2>1. Owning(i) /\ (i # h => b = agent[i]) /\ (i = h => b = c)
    BY <1>4 DEF Holds
  <2>2. o # None => o.gen \in 1..gens' /\ o.num \in 1..Cardinality({k \in 1..born' : native'[k].gen = o.gen})
    BY <1>5, <1>7, <2>1, ZenonT(40) DEF Owning
  <2>3. \A q \in panes' : b.pane = q.id => /\ native'[q.pid].of = i /\ q.pid \notin strays'
                                           /\ b.proc # None => b.proc = q.pid
    <3> SUFFICES ASSUME NEW q \in panes', b.pane = q.id
                 PROVE  /\ native'[q.pid].of = i /\ q.pid \notin strays'
                        /\ b.proc # None => b.proc = q.pid
      OBVIOUS
    <3>1. q \in panes /\ q.pid \in Pids
      BY <1>1 DEF Panes
    <3>2. CASE i = h
      <4>1. q = p
        BY <2>1, <3>1, <3>2 DEF Holds, Server
      <4> QED  BY <1>2, <1>3, <1>5, <2>1, <3>2, <4>1
    <3>3. CASE i # h
      BY <1>3, <2>1, <3>1, <3>3 DEF Owning
    <3> QED  BY <3>2, <3>3
  <2>4. b.proc # None => b.proc \in 1..born' /\ native'[b.proc].of = i
    BY <1>1, <1>2, <1>3, <1>5, <2>1 DEF Owning
  <2>5. ~b.here => b.pane = None /\ b.proc = None /\ ~b.rehitch
    BY <2>1 DEF Owning
  <2> HIDE DEF o
  <2>6. b.pane # None => Used(agent[i].pane)'
    BY <2>2 DEF Used, o
  <2> QED  BY <2>3, <2>4, <2>5, <2>6 DEF Owning
<1>10. \A k \in Pids : Reachable(k)' => Reachable(k)
  BY <1>3 DEF Reachable
<1>11. OneNative'
  BY <1>3, <1>10 DEF Holds, OneNative
<1>12. PaneIsRecorded'
  <2> SUFFICES ASSUME NEW q \in panes', q.pid \notin strays'
               PROVE  agent'[native'[q.pid].of].here /\ agent'[native'[q.pid].of].pane = q.id
    BY DEF PaneIsRecorded
  <2>1. q \in panes /\ q.pid \in 1..born /\ q.pid \in Pids /\ q.pid \notin strays
    BY <1>1 DEF Types, TypeOK
  <2>2. agent[native[q.pid].of].here /\ agent[native[q.pid].of].pane = q.id
    BY <2>1 DEF Holds, PaneIsRecorded
  <2>3. native'[q.pid].of = native[q.pid].of /\ native[q.pid].of \in Ids
    BY <1>3, <2>1 DEF Holds, Server
  <2> QED  BY <1>4, <2>2, <2>3
<1>13. WitnessKept'
  <2> SUFFICES ASSUME NEW k \in Pids, native'[k].alive, native'[k].witnessed
               PROVE  agent'[native'[k].of].here /\ agent'[native'[k].of].proc = k
    BY DEF WitnessKept
  <2>1. CASE k = p.pid
    BY <1>3, <1>4, <1>5, <2>1
  <2>2. CASE k # p.pid
    <3>1. native[k].alive /\ native[k].witnessed /\ native'[k].of = native[k].of
      BY <1>3, <2>2
    <3>2. agent[native[k].of].here /\ agent[native[k].of].proc = k
      BY <3>1 DEF Holds, WitnessKept
    <3>3. native[k].of # h
      BY <1>2, <1>5, <2>2, <3>1 DEF Holds, OneNative, Reachable
    <3>4. native[k].of \in Ids
      BY <3>1 DEF Holds, Server, Types, TypeOK, Pids, MaxNatives
    <3> QED  BY <1>4, <3>1, <3>2, <3>3, <3>4
  <2> QED  BY <2>1, <2>2
<1> QED  BY <1>8, <1>9, <1>11, <1>12, <1>13 DEF Holds

LEMMA WitnessKeeps ==
    ASSUME IInv, NEW h \in Ids, lock[h] = "op", agent[h].here, NEW p \in panes, p.id = agent[h].pane, native[p.pid].alive,
           agent[h].proc \in {None, p.pid}, NEW c \in Record, Put(h, c), c.here, c.pane = p.id, c.proc = p.pid,
           c.name = agent[h].name, c.from = agent[h].from, c.to = agent[h].to, c.rehitch = agent[h].rehitch,
           native' = [native EXCEPT ![p.pid].witnessed = TRUE],
           UNCHANGED <<names, lock, panes, gens, born, tick, ren, ops, strays, cut>>, mishaps' \in 0..MaxMishaps,
           op.pc # "register", op' \in Commands, Command', OpLocks', Carries' => Carries
    PROVE  IInv'
<1>1. Types /\ Holds /\ Named
  BY DEF IInv
<1>2. Holds'
  BY <1>1, WitnessHolds
<1>3. /\ native \in [Pids -> Natives] /\ panes \subseteq Panes /\ agent \in [Ids -> Record]
      /\ p.pid \in Pids /\ p.id # None
  BY <1>1, NoneIsNone DEF Types, TypeOK, Panes
<1>4. /\ native' \in [Pids -> Natives] /\ \A k \in Pids : native'[k].alive => native[k].alive
  <2>1. [native[p.pid] EXCEPT !.witnessed = TRUE] \in Natives
    BY <1>3, ZenonT(60) DEF Natives
  <2>2. native' = [native EXCEPT ![p.pid] = [native[p.pid] EXCEPT !.witnessed = TRUE]]
    OBVIOUS
  <2>3. native' \in [Pids -> Natives]
    BY <1>3, <2>1, <2>2
  <2>4. \A k \in Pids : native'[k].alive => native[k].alive
    BY <1>3, <2>2
  <2> QED  BY <2>3, <2>4
<1>5. agent'[h] = c
  BY <1>3 DEF Put
<1>6. NamesOf(h)
  BY <1>1, SameNames
<1>7. Naming(h)'
  <2>1. Naming(h) /\ Live(agent[h])
    BY <1>1, <1>3 DEF Named, Live
  <2>2. /\ c.name \in Names /\ names[c.name] = h /\ (c.to = None => c.from = None)
        /\ c.to # None => /\ c.from \in Names /\ c.from # c.to /\ c.name \in {c.from, c.to}
                          /\ c.name = c.to /\ h \notin cut => names[c.to] = h
    BY <2>1 DEF Naming
  <2> QED  BY <1>5, <2>2 DEF Naming
<1>8. \A n \in Names : names'[n] = h /\ agent'[h].here =>
               n \in {agent'[h].name, agent'[h].from, agent'[h].to} \/ h \in cut'
  BY <1>1, <1>5, NoneIsNone DEF Named, NoForgottenNameUncut, Knows
<1>9. Named'
  BY <1>1, <1>4, <1>6, <1>7, <1>8, OneNamed
<1>10. Others'
  BY <1>6, BesideOthers DEF IInv
<1>11. Rehitching' \subseteq Rehitching
  BY <1>1, RehitchingPut
<1>12. Budget'
  BY <1>11, FewerRehitching, OpsGrow DEF IInv
<1>13. Types'
  <2>1. agent' \in [Ids -> Record]
    BY <1>3 DEF Put
  <2> QED  BY <1>4, <2>1 DEF IInv, Types, TypeOK
<1> QED  BY <1>2, <1>9, <1>10, <1>12, <1>13 DEF IInv

LEMMA WitnessProcessKeeps ==
    ASSUME IInv, WitnessProcess
    PROVE  IInv'
<1> DEFINE a == agent[op.id]
           c == [a EXCEPT !.proc = op.pid]
<1>1. op.pc = "identity" /\ UNCHANGED <<names, lock, panes, gens, born, tick, ren, ops, strays, cut>>
  BY DEF WitnessProcess
<1>2. PICK h \in Ids : h = op.id
  BY <1>1, OpFacts
<1>3. /\ lock[h] = "op" /\ op.kind \in LaunchKinds /\ agent[h] \in Record /\ agent[h].here
      /\ lock \in [Ids -> {"free", "op", "tick", "ren"}] /\ a.pane = op.pane /\ a.proc = None
  BY <1>1, <1>2, LaunchIs DEF Startups
<1>4. a.server \in BOOLEAN
  BY <1>2, <1>3 DEF Record
<1>5. PICK visible \in {FALSE, a.server} :
         /\ Sight(visible \/ ~a.server)
         /\ \/ /\ Present(op.pane) /\ native[op.pid].alive
               /\ Put(op.id, c) /\ native' = [native EXCEPT ![op.pid].witnessed = TRUE]
               /\ op' = [op EXCEPT !.pc = "await"]
            \/ op' = [op EXCEPT !.pc = "await"] /\ UNCHANGED <<agent, native>>
            \/ Put(op.id, FailedBy(a)) /\ op' = [op EXCEPT !.pc = "remove"] /\ UNCHANGED native
  BY DEF WitnessProcess
<1>6. mishaps' \in 0..MaxMishaps
  BY <1>4, <1>5, SightKeeps
<1>7. CASE /\ Present(op.pane) /\ native[op.pid].alive
           /\ Put(op.id, c) /\ native' = [native EXCEPT ![op.pid].witnessed = TRUE]
           /\ op' = [op EXCEPT !.pc = "await"]
  <2>1. Put(h, c) /\ native' = [native EXCEPT ![op.pid].witnessed = TRUE] /\ op' = [op EXCEPT !.pc = "await"]
    BY <1>2, <1>7
  <2>2. op.pid \in 1..born /\ op.pid \in Pids /\ native \in [Pids -> Natives]
    BY <1>1, OpFacts DEF IInv, Command, Registered, Startups
  <2>3. PICK p \in panes : p.id = op.pane /\ p.pid = op.pid
    BY <1>1, <1>7 DEF Present, IInv, Command, Registered, Startups
  <2>4. /\ c \in Record /\ c.here /\ c.pane = op.pane /\ c.proc = op.pid
        /\ c.name = a.name /\ c.from = a.from /\ c.to = a.to /\ c.rehitch = a.rehitch
    BY <1>2, <1>3, <2>2 DEF Record
  <2> HIDE DEF c
  <2>5. \A k \in Pids : native'[k].of = native[k].of /\ native'[k].gen = native[k].gen
    BY <2>1, <2>2 DEF Natives
  <2>6. Command' /\ OpLocks' /\ op' \in Commands /\ ~Carries'
    BY <1>1, <1>2, <1>3, <2>1, <2>4, <2>5, LaunchGoesOn DEF Startups
  <2>7. native[p.pid].alive /\ p.id = agent[h].pane /\ agent[h].proc \in {None, p.pid} /\ c.pane = p.id /\ c.proc = p.pid
        /\ native' = [native EXCEPT ![p.pid].witnessed = TRUE]
    BY <1>2, <1>3, <1>7, <2>1, <2>3, <2>4
  <2>8. c.name = agent[h].name /\ c.from = agent[h].from /\ c.to = agent[h].to /\ c.rehitch = agent[h].rehitch
    BY <1>2, <2>4
  <2> QED  BY <1>1, <1>3, <1>6, <2>1, <2>4, <2>6, <2>7, <2>8, WitnessKeeps
<1>8. CASE op' = [op EXCEPT !.pc = "await"] /\ UNCHANGED <<agent, native>>
  <2>1. UNCHANGED world
    BY <1>1, <1>8 DEF world
  <2>2. Keeps(a, a) /\ a \in Record
    BY <1>2, <1>3 DEF Keeps
  <2> HIDE DEF c
  <2> QED  BY <1>1, <1>6, <1>8, <2>1, <2>2, StartupKeeps DEF Startups
<1>9. CASE Put(op.id, FailedBy(a)) /\ op' = [op EXCEPT !.pc = "remove"] /\ UNCHANGED native
  <2>1. UNCHANGED world
    BY <1>1, <1>9 DEF world
  <2>2. Keeps(a, FailedBy(a)) /\ FailedBy(a) \in Record /\ FailedBy(a).pane = a.pane
    BY <1>2, <1>3, FailedKeeps DEF Keeps
  <2> HIDE DEF c
  <2> QED  BY <1>1, <1>6, <1>9, <2>1, <2>2, StartupKeeps DEF Startups
<1> QED  BY <1>5, <1>7, <1>8, <1>9

\* A restart or a drop goes on with the process that its record names.
LEMMA AcquireGoesOn ==
    ASSUME IInv, op.pc = "acquire", NEW h \in Ids, h = op.id, lock[h] = "op", NEW c \in Record, Put(h, c), c.here,
           c.name = agent[h].name, c.rehitch = agent[h].rehitch, c.pane = agent[h].pane,
           NEW x \in {None, c.proc}, op' = [op EXCEPT !.pc = "remove_pane", !.pane = c.pane, !.pid = x],
           UNCHANGED <<names, lock, panes, strays>>,
           \A k \in Pids : native'[k].of = native[k].of /\ native'[k].alive = native[k].alive
    PROVE  Command' /\ OpLocks' /\ op' \in Commands /\ (Carries' => Carries)
<1>1. /\ op'.pc = "remove_pane" /\ op'.kind = op.kind /\ op'.id = h /\ op'.name = op.name /\ op'.todo = op.todo
      /\ op'.pane = c.pane /\ op'.pid = x /\ op' \in Commands
  BY OpFacts, ZenonT(60) DEF Commands, Steps, Holding, Record
<1>2. /\ op.kind \in {"rehitch", "drop", "down"} /\ (op.kind = "rehitch" => op.name \in Names)
      /\ op.kind = "rehitch" => agent[h].name = op.name /\ names[op.name] = h /\ ~agent[h].rehitch
      /\ \A i \in Ids : lock[i] = "op" => i = h
  BY DEF IInv, Command, KindOf, Ending, OpLocks, Holding
<1>3. /\ agent \in [Ids -> Record] /\ panes \subseteq Panes /\ native \in [Pids -> Natives]
      /\ agent'[h] = c /\ \A i \in Ids \ {h} : agent'[i] = agent[i]
  BY OpFacts DEF Put
<1>4. KindOf'
  BY <1>1, <1>2 DEF KindOf, Startups, Closings, Fronts, LaunchKinds
<1>5. First' /\ Superseding' /\ Starts' /\ Registered'
  BY <1>1 DEF First, Superseding, Starts, Registered, Startups, Fronts
<1>6. Ending'
  BY <1>1, <1>2, <1>3 DEF Ending, Closings
<1>7. Emptying'
  <2>1. \A i \in Ids \ {h} : Live(agent[i])' => Live(agent[i])
    <3> TAKE i \in Ids \ {h}
    <3>1. agent'[i] = agent[i] /\ agent[i] \in Record
      BY <1>3
    <3> QED  BY <3>1 DEF Live, Record
  <2>2. Emptying
    BY DEF IInv, Command
  <2>3. op'.kind = "down" => \A i \in Ids : agent'[i].here => i \in op'.todo \/ ~Live(agent[i])' \/ i = op'.id
    BY <1>1, <1>3, <2>1, <2>2 DEF Emptying
  <2>4. op'.kind = "down" => \A i \in op'.todo : agent'[i].here
    BY <1>1, <1>3, <2>2, OpFacts DEF Emptying, Commands
  <2>5. op'.kind = "down" => op'.id \notin op'.todo
    BY <1>1, <2>2 DEF Emptying
  <2> QED  BY <1>1, <2>3, <2>4, <2>5 DEF Emptying
<1>8. Launches' => Launches
  BY <1>1 DEF Launches
<1>9. Carries' => Carries
  BY <1>1, <1>8 DEF Carries
<1>10. Strayless'
  <2>1. Launches => \A p \in panes : p.pid \in strays => ~native[p.pid].alive
    BY DEF IInv, Command, Strayless
  <2>2. Launches => \A p \in panes' : p.pid \in strays' => ~native'[p.pid].alive
    BY <1>3, <2>1 DEF Panes
  <2> QED  BY <1>8, <2>2 DEF Strayless
<1>11. OpLocks'
  BY <1>1, <1>2 DEF OpLocks, Holding
<1> QED  BY <1>1, <1>4, <1>5, <1>6, <1>7, <1>9, <1>10, <1>11 DEF Command

LEMMA AcquireKeeps ==
    ASSUME IInv, Acquire
    PROVE  IInv'
<1> DEFINE a == agent[op.id]
           k == PaneAt(a.pane).pid
           proc == IF a.proc = None THEN k ELSE a.proc
           c == [a EXCEPT !.proc = proc, !.teardown = TRUE]
<1>1. /\ op.pc = "acquire" /\ lock[op.id] = "op"
      /\ UNCHANGED <<names, lock, panes, gens, born, strays, cut, tick, ren, ops>>
  BY DEF Acquire
<1>2. PICK h \in Ids : h = op.id
  BY <1>1, OpFacts
<1>3. agent[h] \in Record /\ agent[h].here /\ a = agent[h] /\ panes \subseteq Panes /\ native \in [Pids -> Natives]
  BY <1>1, <1>2, OpFacts DEF IInv, Command, Ending
<1>4. Owning(h) /\ \A p, q \in panes : p.id = q.id => p = q
  BY DEF IInv, Holds, Server
<1>5. PICK visible \in BOOLEAN :
         /\ Sight(visible)
         /\ \/ /\ a.pane # None /\ CheckPane(a.pane) = "present" /\ native[k].alive
               /\ Put(op.id, c) /\ native' = [native EXCEPT ![proc].witnessed = TRUE]
               /\ op' = [op EXCEPT !.pc = "remove_pane", !.pane = a.pane, !.pid = proc]
            \/ /\ Put(op.id, a) /\ native' = native
               /\ op' = [op EXCEPT !.pc = "remove_pane", !.pane = a.pane,
                                   !.pid = IF visible THEN a.proc ELSE None]
  <2> DEFINE seen(v) == /\ v /\ a.pane # None /\ CheckPane(a.pane) = "present" /\ native[k].alive
  <2>1. PICK v \in BOOLEAN :
          /\ Sight(v)
          /\ Put(op.id, IF seen(v)
                        THEN [a EXCEPT !.proc = IF seen(v) /\ a.proc = None THEN k ELSE a.proc, !.teardown = TRUE]
                        ELSE a)
          /\ native' = IF seen(v) THEN [native EXCEPT ![IF seen(v) /\ a.proc = None THEN k ELSE a.proc].witnessed = TRUE]
                       ELSE native
          /\ op' = [op EXCEPT !.pc = "remove_pane", !.pane = a.pane,
                              !.pid = IF v THEN IF seen(v) /\ a.proc = None THEN k ELSE a.proc ELSE None]
    BY DEF Acquire
  <2> HIDE DEF k, a
  <2>2. CASE seen(v)
    BY <2>1, <2>2
  <2>3. CASE ~seen(v)
    <3> HIDE DEF seen
    <3> QED  BY <2>1, <2>3
  <2> QED  BY <2>2, <2>3
<1>6. mishaps' \in 0..MaxMishaps
  BY <1>5, SightKeeps
<1>7. CASE /\ a.pane # None /\ CheckPane(a.pane) = "present" /\ native[k].alive
           /\ Put(op.id, c) /\ native' = [native EXCEPT ![proc].witnessed = TRUE]
           /\ op' = [op EXCEPT !.pc = "remove_pane", !.pane = a.pane, !.pid = proc]
  <2>1. PICK p \in panes : p.id = a.pane
    BY <1>7 DEF CheckPane, Present
  <2>2. PaneAt(a.pane) = p
    BY <1>4, <2>1 DEF PaneAt
  <2>3. k = p.pid /\ native[p.pid].alive /\ p.pid \in Pids
    BY <1>3, <1>7, <2>2 DEF Panes
  <2>4. a.proc \in {None, p.pid}
    BY <1>3, <1>4, <2>1 DEF Owning
  <2>5. proc = p.pid
    BY <2>3, <2>4
  <2> HIDE DEF k
  <2>6. /\ c \in Record /\ c.here /\ c.pane = a.pane /\ c.proc = p.pid
        /\ c.name = agent[h].name /\ c.from = agent[h].from /\ c.to = agent[h].to /\ c.rehitch = agent[h].rehitch
    BY <1>3, <2>3, <2>5 DEF Record
  <2>7. /\ Put(h, c) /\ native' = [native EXCEPT ![p.pid].witnessed = TRUE]
        /\ op' = [op EXCEPT !.pc = "remove_pane", !.pane = c.pane, !.pid = c.proc]
    BY <1>2, <1>7, <2>5, <2>6
  <2> HIDE DEF c, proc
  <2>8. \A j \in Pids : native'[j].of = native[j].of /\ native'[j].alive = native[j].alive
    BY <1>3, <2>3, <2>7 DEF Natives
  <2>9. Command' /\ OpLocks' /\ op' \in Commands /\ (Carries' => Carries)
    BY <1>1, <1>2, <1>3, <2>6, <2>7, <2>8, AcquireGoesOn
  <2>10. /\ lock[h] = "op" /\ agent[h].here /\ p.id = agent[h].pane /\ native[p.pid].alive
         /\ agent[h].proc \in {None, p.pid} /\ c.pane = p.id /\ op.pc # "register"
    BY <1>1, <1>2, <1>3, <2>1, <2>3, <2>4, <2>6
  <2> HIDE DEF a
  <2> QED  BY <1>1, <1>6, <2>6, <2>7, <2>9, <2>10, WitnessKeeps
<1>8. CASE /\ Put(op.id, a) /\ native' = native
           /\ op' = [op EXCEPT !.pc = "remove_pane", !.pane = a.pane,
                               !.pid = IF visible THEN a.proc ELSE None]
  <2>1. PICK x \in {None, a.proc} : op' = [op EXCEPT !.pc = "remove_pane", !.pane = a.pane, !.pid = x]
    BY <1>8
  <2>2. Put(h, a) /\ native' = native
    BY <1>2, <1>8
  <2> HIDE DEF k, c, proc
  <2>3. Command' /\ OpLocks' /\ op' \in Commands /\ (Carries' => Carries)
    BY <1>1, <1>2, <1>3, <2>1, <2>2, AcquireGoesOn
  <2>4. agent' = agent
    BY <1>3, <2>2, OpFacts DEF Put
  <2>5. UNCHANGED world
    BY <1>1, <2>2 DEF world
  <2>6. Budget'
    BY <1>1, <2>3, <2>4, BudgetOver, OpsGrow DEF IInv
  <2> QED  BY <1>1, <1>6, <2>3, <2>4, <2>5, <2>6, OpOnly, OpFacts, OpsGrow DEF IInv
<1> QED  BY <1>5, <1>7, <1>8

-----------------------------------------------------------------------------
(* A record is replaced, or goes.                                            *)

\* What nothing in a record's pane or process depends on may be written anew.
LEMMA ReplaceHolds ==
    ASSUME Types, Holds, UNCHANGED Shown, NEW h \in Ids, NEW b \in Record, Put(h, b),
           Bare(h), Dead(agent[h].proc), b.pane = None, b.proc \in {None, agent[h].proc},
           ~b.here => b.proc = None /\ ~b.rehitch, op.pc # "register"
    PROVE  Holds'
<1>1. /\ agent \in [Ids -> Record] /\ panes \subseteq Panes /\ native \in [Pids -> Natives]
      /\ UNCHANGED <<panes, gens, born, native, strays>>
  BY DEF Types, TypeOK, Shown
<1>2. agent'[h] = b /\ \A i \in Ids \ {h} : agent'[i] = agent[i]
  BY <1>1 DEF Put
<1>3. Server' /\ OneNative'
  BY <1>1 DEF Holds, Server, OneNative, Reachable, Used
<1>4. \A i \in Ids : Owning(i)'
  <2> TAKE i \in Ids
  <2>1. Owning(i) /\ \A p \in panes : p.id # None
    BY <1>1, NoneIsNone DEF Holds, Panes
  <2>2. CASE i # h
    <3>1. agent'[i] = agent[i]
      BY <1>2, <2>2
    <3> QED  BY <1>1, <2>1, <3>1 DEF Owning, Used
  <2>3. CASE i = h
    <3>1. agent'[i] = b
      BY <1>2, <2>3
    <3> QED  BY <1>1, <2>1, <2>3, <3>1 DEF Owning, Used
  <2> QED  BY <2>2, <2>3
<1>5. PaneIsRecorded'
  <2> SUFFICES ASSUME NEW p \in panes', p.pid \notin strays'
               PROVE  agent'[native'[p.pid].of].here /\ agent'[native'[p.pid].of].pane = p.id
    BY DEF PaneIsRecorded
  <2>1. p \in panes /\ p.pid \in 1..born /\ p.pid \notin strays
    BY <1>1 DEF Types, TypeOK
  <2>2. agent[native[p.pid].of].here /\ agent[native[p.pid].of].pane = p.id
    BY <2>1 DEF Holds, PaneIsRecorded
  <2>3. native[p.pid].of \in Ids \ {h}
    BY <2>1 DEF Holds, Server, Bare
  <2> QED  BY <1>1, <1>2, <2>2, <2>3
<1>6. WitnessKept'
  <2> SUFFICES ASSUME NEW k \in Pids, native'[k].alive, native'[k].witnessed
               PROVE  agent'[native'[k].of].here /\ agent'[native'[k].of].proc = k
    BY DEF WitnessKept
  <2>1. agent[native[k].of].here /\ agent[native[k].of].proc = k
    BY <1>1 DEF Holds, WitnessKept
  <2>2. native[k].of \in Ids
    BY <1>1 DEF Holds, Server, Types, TypeOK, Pids, MaxNatives
  <2>3. native[k].of # h
    BY <1>1, <2>1, NoneIsNone DEF Dead
  <2> QED  BY <1>1, <1>2, <2>1, <2>2, <2>3
<1> QED  BY <1>3, <1>4, <1>5, <1>6 DEF Holds

LEMMA ReplaceKeeps ==
    ASSUME IInv, NEW h \in Ids, lock[h] \in {"free", "op"}, NEW b \in Record, Put(h, b),
           Bare(h), Dead(agent[h].proc), b.pane = None, b.proc \in {None, agent[h].proc}, ~b.rehitch,
           b.proc # None => ~native[b.proc].alive,
           ~b.here => b.proc = None, op.pc # "register",
           b.here => b.status = Starting /\ b.name \in Names /\ b.from = None /\ b.to = None,
           \A n \in Names : names[n] = h /\ b.here => n = b.name \/ h \in cut',
           UNCHANGED <<names, panes, gens, born, native, strays, tick, ren, ops, mishaps>>, cut' \in {cut, cut \cup {h}},
           lock' \in [Ids -> {"free", "op", "tick", "ren"}],
           \A i \in Ids : lock'[i] = lock[i] \/ {lock[i], lock'[i]} \subseteq {"free", "op"},
           op' \in Commands, Command', OpLocks', Carries' => Carries
    PROVE  IInv'
<1>1. Types /\ Holds /\ Named
  BY DEF IInv
<1>2. Holds'
  BY <1>1, ReplaceHolds DEF Shown
<1>3. agent'[h] = b
  BY <1>1 DEF Types, TypeOK, Put
<1>4. NamesOf(h)
  BY <1>1, SameNames
<1>5. Naming(h)'
  <2>1. b.here => ~(b.pane # None \/ b.status \in {Booting, Active} \/ (b.proc # None /\ native'[b.proc].alive))
    BY DEF Starting, Booting, Active
  <2> QED  BY <1>3, <2>1 DEF Naming, Live
<1>6. \A n \in Names : names'[n] = h /\ agent'[h].here =>
               n \in {agent'[h].name, agent'[h].from, agent'[h].to} \/ h \in cut'
  BY <1>3
<1>7. Named'
  BY <1>1, <1>4, <1>5, <1>6, OneNamed
<1>8. Others'
  BY <1>4, BesideOthers DEF IInv
<1>9. Rehitching' \subseteq Rehitching
  BY <1>1, RehitchingPut
<1>10. Budget'
  BY <1>9, FewerRehitching, OpsGrow DEF IInv
<1>11. Types'
  BY <1>1, OpTypes, OpsGrow
<1> QED  BY <1>2, <1>7, <1>8, <1>10, <1>11 DEF IInv

LEMMA FreshIs ==
    ASSUME NEW n \in Names
    PROVE  /\ Fresh(n) \in Record /\ Fresh(n).here /\ Fresh(n).name = n /\ Fresh(n).status = Starting
           /\ Fresh(n).pane = None /\ Fresh(n).proc = None /\ Fresh(n).from = None /\ Fresh(n).to = None
           /\ ~Fresh(n).rehitch
  BY DEF Fresh, NoRecord, Record, Starting, Failed

LEMMA NoRecordIs ==
    /\ NoRecord \in Record /\ ~NoRecord.here /\ NoRecord.pane = None /\ NoRecord.proc = None /\ ~NoRecord.rehitch
    /\ ~(\E k \in Pids : NoRecord.proc = k)
  BY NoneIsNone DEF NoRecord, Record, Failed

\* A first launch finds nothing of its id.
LEMMA FirstIs ==
    ASSUME IInv, op.pc \in Fronts \/ (op.pc = "free" /\ op.kind = "up"), NEW h \in Ids, h = op.id
    PROVE  /\ Bare(h) /\ Ended(h) /\ Dead(agent[h].proc) /\ lock[h] \in {"free", "op"}
           /\ \A n \in Names : names[n] # h
           /\ \A k \in Pids : native[k].of # h
           /\ ren.id # h /\ (agent[h].here <=> op.pc = "name")
<1>1. /\ \A n \in Names : names[n] # h
      /\ \A k \in Pids : native[k].of # h
      /\ ren.id # h /\ (agent[h].here <=> op.pc = "name")
  BY DEF IInv, Command, First
<1>2. Bare(h) /\ Ended(h)
  BY <1>1, OpFacts DEF Bare, Ended, Panes
<1>3. Dead(agent[h].proc)
  <2>1. CASE op.pc = "name"
    BY <2>1 DEF IInv, Command, Starts
  <2>2. CASE op.pc # "name"
    BY <1>1, <2>2 DEF IInv, Holds, Owning, Dead
  <2> QED  BY <2>1, <2>2
<1>4. lock[h] \in {"free", "op"}
  <2>1. CASE op.pc = "name"
    BY <2>1, OpFacts DEF Holding
  <2>2. CASE op.pc # "name"
    BY <1>1, <2>2, OpFacts DEF IInv, Others, OtherLocks, TickControl
  <2> QED  BY <2>1, <2>2
<1> QED  BY <1>1, <1>2, <1>3, <1>4

LEMMA CreateAgentKeeps ==
    ASSUME IInv, CreateAgent
    PROVE  IInv'
<1> DEFINE b == Fresh(op.name)
<1>1. /\ op.pc = "mkdir" /\ Put(op.id, b) /\ lock' = [lock EXCEPT ![op.id] = "op"] /\ op' = [op EXCEPT !.pc = "name"]
      /\ UNCHANGED <<names, world, tick, ren, ops, mishaps>>
  BY DEF CreateAgent
<1>2. PICK h \in Ids : h = op.id
  BY <1>1, OpFacts
<1>3. /\ Bare(h) /\ Ended(h) /\ Dead(agent[h].proc) /\ lock[h] \in {"free", "op"}
      /\ \A n \in Names : names[n] # h
      /\ \A k \in Pids : native[k].of # h
      /\ ren.id # h
  BY <1>1, <1>2, FirstIs DEF Fronts
<1>4. op.name \in Names /\ op.kind \in {"hitch", "up"}
  BY <1>1 DEF IInv, Command, KindOf, Fronts
<1>5. /\ b \in Record /\ b.here /\ b.name = op.name /\ b.status = Starting
      /\ b.pane = None /\ b.proc = None /\ b.from = None /\ b.to = None /\ ~b.rehitch
  BY <1>4, FreshIs
<1> HIDE DEF b
<1>6. /\ op'.pc = "name" /\ op'.kind = op.kind /\ op'.id = h /\ op'.name = op.name /\ op' \in Commands
  BY <1>1, <1>2, OpFacts DEF Commands, Steps, Holding
<1>7. /\ lock \in [Ids -> {"free", "op", "tick", "ren"}] /\ lock' \in [Ids -> {"free", "op", "tick", "ren"}]
      /\ \A i \in Ids : lock'[i] = lock[i] \/ {lock[i], lock'[i]} \subseteq {"free", "op"}
      /\ lock'[h] = "op" /\ \A i \in Ids \ {h} : lock'[i] # "op"
  BY <1>1, <1>2, <1>3, OpFacts, NoneHeld DEF Holding, Startups, Closings
<1>8. UNCHANGED <<panes, gens, born, native, strays, cut>>
  BY <1>1 DEF world
<1>9. agent'[h] = b
  BY <1>1, <1>2, OpFacts DEF Put
<1>10. OpLocks'
  BY <1>6, <1>7 DEF OpLocks, Holding
<1>11. KindOf'
  BY <1>4, <1>6 DEF KindOf, Startups, Closings, Fronts
<1>12. First'
  BY <1>1, <1>3, <1>5, <1>6, <1>8, <1>9 DEF First, Fronts
<1>13. Starts'
  BY <1>5, <1>6, <1>9 DEF Starts, Dead
<1>14. Superseding' /\ Ending' /\ Registered' /\ Emptying'
  BY <1>4, <1>6 DEF Superseding, Ending, Registered, Emptying, Startups, Closings
<1>15. Strayless' /\ (Carries' => Carries)
  BY <1>1, <1>4, <1>6, <1>8 DEF IInv, Command, Strayless, Carries, Launches, Fronts, LaunchKinds
<1>16. Command' /\ op' \in Commands
  BY <1>6, <1>11, <1>12, <1>13, <1>14, <1>15 DEF Command
<1>17. /\ Put(h, b) /\ op.pc # "register" /\ cut' \in {cut, cut \cup {h}}
       /\ \A n \in Names : names[n] = h /\ b.here => n = b.name \/ h \in cut'
       /\ UNCHANGED <<names, panes, gens, born, native, strays, tick, ren, ops, mishaps>>
  BY <1>1, <1>2, <1>3, <1>8
<1>18. /\ b.pane = None /\ b.proc \in {None, agent[h].proc} /\ (~b.here => b.proc = None)
       /\ b.here => b.status = Starting /\ b.name \in Names /\ b.from = None /\ b.to = None
  BY <1>4, <1>5
<1> QED  BY <1>3, <1>5, <1>7, <1>10, <1>15, <1>16, <1>17, <1>18, ReplaceKeeps

LEMMA ClaimNameKeeps ==
    ASSUME IInv, ClaimName
    PROVE  IInv'
<1>1. /\ op.pc = "name" /\ names[op.name] = None /\ names' = [names EXCEPT ![op.name] = op.id]
      /\ op' = [op EXCEPT !.pc = "spawn"]
      /\ UNCHANGED <<agent, lock, world, tick, ren, ops, mishaps>>
  BY DEF ClaimName
<1>2. PICK h \in Ids : h = op.id
  BY <1>1, OpFacts
<1>3. /\ Bare(h) /\ Ended(h) /\ Dead(agent[h].proc)
      /\ \A n \in Names : names[n] # h
      /\ lock[h] = "op" /\ lock \in [Ids -> {"free", "op", "tick", "ren"}]
  BY <1>1, <1>2, FirstIs, OpFacts DEF Fronts, Holding
<1>4. op.name \in Names /\ op.kind \in {"hitch", "up"} /\ names \in [Names -> Ids \cup {None}]
  BY <1>1, OpFacts DEF IInv, Command, KindOf, Fronts
<1>5. LET a == agent[h] IN
      /\ a.here /\ a.name = op.name /\ a.status = Starting /\ a.pane = None
      /\ a.from = None /\ a.to = None /\ ~a.rehitch
  BY <1>1, <1>2 DEF IInv, Command, Starts
<1>6. /\ op'.pc = "spawn" /\ op'.kind = op.kind /\ op'.id = h /\ op'.name = op.name /\ op' \in Commands
  BY <1>1, <1>2, OpFacts DEF Commands, Steps, Holding
<1>7. /\ NamesOf(h) /\ names'[op.name] = h
      /\ \A n \in Names : names'[n] = h => n = op.name
  BY <1>1, <1>2, <1>3, <1>4 DEF NamesOf
<1>8. UNCHANGED <<panes, gens, born, native, strays, cut>>
  BY <1>1 DEF world
<1>9. Put(h, agent[h]) /\ agent[h] \in Record
  BY <1>1, SelfPut
<1>10. Holds'
  <2>1. ~agent[h].here => ~agent[h].rehitch
    BY <1>5
  <2> QED  BY <1>1, <1>8, <1>9, <2>1, PutHolds DEF IInv, Shown, StillLaunching
<1>11. Named'
  <2>1. Naming(h)'
    BY <1>1, <1>4, <1>5, <1>7 DEF Naming
  <2>2. \A n \in Names : names'[n] = h /\ agent'[h].here =>
               n \in {agent'[h].name, agent'[h].from, agent'[h].to} \/ h \in cut'
    BY <1>1, <1>5, <1>7
  <2> QED  BY <1>1, <1>7, <1>8, <1>9, <2>1, <2>2, OneNamed DEF IInv
<1>12. Others'
  BY <1>1, <1>3, <1>7, <1>9, BesideOthers DEF IInv
<1>13. OpLocks'
  BY <1>1, <1>2, <1>3, <1>6 DEF IInv, OpLocks, Holding
<1>14. KindOf'
  BY <1>4, <1>6 DEF KindOf, Startups, Closings, Fronts, LaunchKinds
<1>15. Starts'
  <2>1. Bare(h)' /\ Ended(h)' /\ Dead(agent[h].proc)'
    BY <1>1, <1>3, <1>8 DEF Bare, Ended, Reachable, Dead
  <2> QED  BY <1>1, <1>5, <1>6, <1>7, <2>1 DEF Starts
<1>16. First' /\ Superseding' /\ Ending' /\ Registered' /\ Emptying'
  BY <1>4, <1>6 DEF First, Superseding, Ending, Registered, Emptying, Startups, Closings, Fronts
<1>17. Strayless' /\ (Carries' => Carries)
  BY <1>1, <1>4, <1>6, <1>8 DEF IInv, Command, Strayless, Carries, Launches, Fronts, LaunchKinds
<1>18. Budget'
  BY <1>1, <1>8, <1>17, BudgetOver, OpsGrow DEF IInv
<1>19. Types'
  BY <1>1, <1>3, <1>6, <1>7, <1>8, <1>9, OpTypes, OpsGrow DEF IInv
<1> QED  BY <1>10, <1>11, <1>12, <1>13, <1>14, <1>15, <1>16, <1>17, <1>18, <1>19 DEF IInv, Command

LEMMA NameTakenKeeps ==
    ASSUME IInv, NameTaken
    PROVE  IInv'
<1>1. /\ op.pc = "name" /\ Put(op.id, NoRecord) /\ lock' = [lock EXCEPT ![op.id] = "free"]
      /\ UNCHANGED <<names, world, tick, ren, ops, mishaps>>
      /\ (op.kind = "up" /\ op' = [op EXCEPT !.pc = "supersede"]) \/ op' = Quiet
  BY DEF NameTaken
<1>2. PICK h \in Ids : h = op.id
  BY <1>1, OpFacts
<1>3. /\ Bare(h) /\ Dead(agent[h].proc) /\ lock[h] \in {"free", "op"}
      /\ \A n \in Names : names[n] # h
      /\ \A k \in Pids : native[k].of # h
      /\ ren.id # h
  BY <1>1, <1>2, FirstIs DEF Fronts
<1>4. op.name \in Names
  BY <1>1 DEF IInv, Command, KindOf, Fronts
<1>5. /\ lock \in [Ids -> {"free", "op", "tick", "ren"}] /\ lock' \in [Ids -> {"free", "op", "tick", "ren"}]
      /\ \A i \in Ids : lock'[i] = lock[i] \/ {lock[i], lock'[i]} \subseteq {"free", "op"}
      /\ \A i \in Ids : lock'[i] # "op"
  <2>1. \A i \in Ids : lock[i] = "op" => i = h
    BY <1>1, <1>2 DEF IInv, OpLocks
  <2> QED  BY <1>1, <1>2, <1>3, <2>1, OpFacts
<1>6. UNCHANGED <<panes, gens, born, native, strays, cut>>
  BY <1>1 DEF world
<1>7. Command' /\ OpLocks' /\ op' \in Commands /\ (Carries' => Carries)
  <2>1. CASE op' = Quiet
    BY <1>5, <2>1, QuietCommand
  <2>2. CASE op.kind = "up" /\ op' = [op EXCEPT !.pc = "supersede"]
    <3>1. /\ op'.pc = "supersede" /\ op'.kind = "up" /\ op'.id = h /\ op'.name = op.name /\ op' \in Commands
      BY <1>2, <2>2, OpFacts DEF Commands, Steps, Fronts
    <3>2. ~agent'[h].here
      BY <1>1, <1>2, OpFacts, NoRecordIs DEF Put
    <3>3. OpLocks'
      BY <1>5, <3>1 DEF OpLocks, Holding, Startups, Closings
    <3>4. KindOf'
      BY <1>2, <1>4, <3>1 DEF KindOf, Startups, Closings, Fronts
    <3>5. First'
      BY <1>1, <1>3, <1>6, <3>1, <3>2 DEF First, Fronts
    <3>6. Superseding' /\ Ending' /\ Starts' /\ Registered' /\ Emptying'
      BY <3>1 DEF Superseding, Ending, Starts, Registered, Emptying, Startups, Closings
    <3>7. Strayless' /\ (Carries' => Carries)
      BY <1>1, <1>6, <2>2, <3>1 DEF IInv, Command, Strayless, Carries, Launches, Fronts, LaunchKinds
    <3> QED  BY <3>1, <3>3, <3>4, <3>5, <3>6, <3>7 DEF Command
  <2> QED  BY <1>1, <2>1, <2>2
<1> QED  BY <1>1, <1>2, <1>3, <1>5, <1>6, <1>7, NoRecordIs, ReplaceKeeps

\* A restart ended everything its record named before it writes the next one.
LEMMA SaveNextKeeps ==
    ASSUME IInv, SaveNext
    PROVE  IInv'
<1> DEFINE b == Fresh(op.name)
<1>1. /\ op.pc = "next" /\ Put(op.id, b) /\ op' = [op EXCEPT !.pc = "spawn", !.exists = Exists]
      /\ cut' = IF agent[op.id].to = None THEN cut ELSE cut \cup {op.id}
      /\ UNCHANGED <<names, lock, panes, gens, born, native, strays, tick, ren, ops, mishaps>>
  BY DEF SaveNext
<1>2. PICK h \in Ids : h = op.id
  BY <1>1, OpFacts
<1>3. /\ agent[h].here /\ agent[h].name = op.name /\ names[op.name] = h /\ Bare(h) /\ Dead(agent[h].proc)
      /\ op.kind = "rehitch" /\ op.name \in Names
  BY <1>1, <1>2 DEF IInv, Command, Ending, KindOf
<1>4. Ended(h)
  <2> SUFFICES ASSUME NEW k \in Pids, native[k].of = h, Reachable(k)
               PROVE  FALSE
    BY DEF Ended
  <2>1. CASE native[k].witnessed
    <3>1. agent[h].proc = k
      BY <2>1 DEF IInv, Holds, WitnessKept, Reachable
    <3>2. ~native[k].alive
      BY <1>3, <2>1, <3>1, NoneIsNone DEF Dead
    <3> QED  BY <3>2 DEF Reachable
  <2>2. CASE \E p \in panes : p.pid = k
    <3>1. k \in strays
      BY <1>3, <2>2 DEF Bare
    <3>2. Launches
      BY <1>1, <1>3 DEF Launches, LaunchKinds
    <3> QED  BY <2>2, <3>1, <3>2 DEF IInv, Command, Strayless, Reachable
  <2> QED  BY <2>1, <2>2 DEF Reachable
<1>5. /\ b \in Record /\ b.here /\ b.name = op.name /\ b.status = Starting
      /\ b.pane = None /\ b.proc = None /\ b.from = None /\ b.to = None /\ ~b.rehitch
  BY <1>3, FreshIs
<1> HIDE DEF b
<1>6. /\ op'.pc = "spawn" /\ op'.kind = op.kind /\ op'.id = h /\ op'.name = op.name /\ op' \in Commands
  BY <1>1, <1>2, OpFacts, ZenonT(40) DEF Commands, Steps, Holding, Exists
<1>7. lock[h] = "op" /\ lock \in [Ids -> {"free", "op", "tick", "ren"}]
  BY <1>1, <1>2, OpFacts DEF Holding
<1>8. agent'[h] = b
  BY <1>1, <1>2, OpFacts DEF Put
<1>9. OpLocks'
  BY <1>1, <1>2, <1>6 DEF IInv, OpLocks, Holding
<1>10. KindOf'
  BY <1>3, <1>6 DEF KindOf, Startups, Closings, Fronts, LaunchKinds
<1>11. Starts'
  <2>1. Bare(h)' /\ Ended(h)'
    BY <1>1, <1>3, <1>4 DEF Bare, Ended, Reachable
  <2> QED  BY <1>1, <1>3, <1>5, <1>6, <1>8, <2>1 DEF Starts, Dead
<1>12. First' /\ Superseding' /\ Ending' /\ Registered' /\ Emptying'
  BY <1>3, <1>6 DEF First, Superseding, Ending, Registered, Emptying, Startups, Closings, Fronts
<1>13. Strayless' /\ (Carries' => Carries)
  BY <1>1, <1>3, <1>6 DEF IInv, Command, Strayless, Carries, Launches, LaunchKinds
<1>14. \A n \in Names : names[n] = h => n = b.name \/ h \in cut'
  <2>1. \A n \in Names : names[n] = h => n \in {agent[h].name, agent[h].from, agent[h].to} \/ h \in cut
    BY <1>3, NoneIsNone DEF IInv, Named, NoForgottenNameUncut, Knows
  <2>2. agent[h].to = None => agent[h].from = None
    BY <1>3 DEF IInv, Named, Naming
  <2>3. CASE agent[h].to = None
    BY <1>1, <1>2, <1>3, <1>5, <2>1, <2>2, <2>3, NoneIsNone
  <2>4. CASE agent[h].to # None
    BY <1>1, <1>2, <2>4
  <2> QED  BY <2>3, <2>4
<1>15. cut' \in {cut, cut \cup {h}}
  BY <1>1, <1>2
<1> QED  BY <1>1, <1>2, <1>3, <1>5, <1>6, <1>7, <1>9, <1>10, <1>11, <1>12, <1>13, <1>14, <1>15, ReplaceKeeps DEF Command

\* A restart that is refused, or a claim that is taken, ends the command.
LEMMA QuietKeeps ==
    ASSUME IInv, op.pc \notin Holding \cup {"acquire", "release", "free"}, op' = Quiet,
           UNCHANGED <<agent, names, lock, world, tick, ren, ops, mishaps>>
    PROVE  IInv'
<1>1. \A h \in Ids : lock'[h] # "op"
  BY NoneHeld
<1>2. Command' /\ OpLocks' /\ op' \in Commands /\ ~Carries'
  BY <1>1, QuietCommand
<1>3. /\ lock \in [Ids -> {"free", "op", "tick", "ren"}] /\ op.pc # "register"
      /\ ops \in 0..MaxOps /\ ops \in Nat /\ mishaps \in 0..MaxMishaps
  BY OpFacts, OpsGrow DEF IInv, Holding
<1>4. Budget'
  BY <1>2, <1>3, BudgetOver DEF world
<1> QED  BY <1>2, <1>3, <1>4, OpOnly

LEMMA PrepareStoppedKeeps ==
    ASSUME IInv, PrepareStopped
    PROVE  IInv'
<1> DEFINE b == [Fresh(op.name) EXCEPT !.proc = agent[op.id].proc, !.server = agent[op.id].server]
<1>1. op.pc = "prepare" /\ op.kind = "stopped" /\ UNCHANGED <<names, world, tick, ren, ops, mishaps>>
  BY DEF PrepareStopped
<1>2. CASE op' = Quiet /\ UNCHANGED <<agent, lock>>
  BY <1>1, <1>2, QuietKeeps DEF Holding, Startups, Closings
<1>3. CASE /\ lock[op.id] = "free" /\ Stoppable(op.id, agent[op.id])
           /\ agent[op.id].name = op.name /\ names[op.name] = op.id
           /\ agent[op.id].pane # None => CheckPane(agent[op.id].pane) # "present"
           /\ agent[op.id].proc # None => ~native[agent[op.id].proc].alive
           /\ Put(op.id, b) /\ lock' = [lock EXCEPT ![op.id] = "op"]
           /\ op' = [op EXCEPT !.pc = "spawn", !.exists = Exists]
  <2>1. PICK h \in Ids : h = op.id
    BY <1>1, OpFacts
  <2>2. /\ lock[h] = "free" /\ agent[h].here /\ agent[h].to = None /\ agent[h].name = op.name
        /\ \A k \in Pids : native[k].of = h /\ native[k].alive => k = agent[h].proc
        /\ names[op.name] = h /\ Dead(agent[h].proc)
        /\ agent[h].pane # None => ~Present(agent[h].pane)
        /\ agent[h].proc # None => ~native[agent[h].proc].alive
    BY <1>3, <2>1 DEF Stoppable, Dead, CheckPane
  <2>3. op.name \in Names /\ agent[h] \in Record
    BY <1>1, OpFacts DEF IInv, Command, KindOf
  <2>4. Bare(h)
    <3> SUFFICES ASSUME NEW p \in panes, native[p.pid].of = h, p.pid \notin strays
                 PROVE  FALSE
      BY DEF Bare
    <3>1. agent[h].pane = p.id
      BY <1>1 DEF IInv, Holds, PaneIsRecorded
    <3>2. p.id # None
      BY OpFacts, NoneIsNone DEF Panes
    <3> QED  BY <2>2, <3>1, <3>2 DEF Present
  <2>5. Ended(h)
    BY <2>2, NoneIsNone DEF Ended, Reachable, Dead
  <2>6. /\ b \in Record /\ b.here /\ b.name = op.name /\ b.status = Starting
        /\ b.pane = None /\ b.proc = agent[h].proc /\ b.from = None /\ b.to = None /\ ~b.rehitch
    BY <2>1, <2>3, ZenonT(40) DEF Fresh, NoRecord, Record, Starting, Failed
  <2> HIDE DEF b
  <2>7. /\ op'.pc = "spawn" /\ op'.kind = op.kind /\ op'.id = h /\ op'.name = op.name /\ op' \in Commands
    BY <1>3, <2>1, OpFacts DEF Commands, Steps, Holding, Exists
  <2>8. /\ lock \in [Ids -> {"free", "op", "tick", "ren"}] /\ lock' \in [Ids -> {"free", "op", "tick", "ren"}]
        /\ \A i \in Ids : lock'[i] = lock[i] \/ {lock[i], lock'[i]} \subseteq {"free", "op"}
        /\ lock'[h] = "op" /\ \A i \in Ids \ {h} : lock'[i] # "op"
    BY <1>1, <1>3, <2>1, <2>2, OpFacts, NoneHeld DEF Holding, Startups, Closings
  <2>9. agent'[h] = b /\ UNCHANGED <<panes, gens, born, native, strays, cut>>
    BY <1>1, <1>3, <2>1, OpFacts DEF Put, world
  <2>10. OpLocks'
    BY <2>7, <2>8 DEF OpLocks, Holding
  <2>11. KindOf'
    BY <1>1, <2>3, <2>7 DEF KindOf, Startups, Closings, Fronts, LaunchKinds
  <2>12. Starts'
    <3>1. Bare(h)' /\ Ended(h)' /\ Dead(agent[h].proc)'
      BY <2>2, <2>4, <2>5, <2>6, <2>9 DEF Bare, Ended, Reachable, Dead
    <3> QED  BY <1>1, <2>2, <2>6, <2>7, <2>9, <3>1 DEF Starts, Dead
  <2>13. First' /\ Superseding' /\ Ending' /\ Registered' /\ Emptying'
    BY <1>1, <2>7 DEF First, Superseding, Ending, Registered, Emptying, Startups, Closings, Fronts
  <2>14. Strayless' /\ (Carries' => Carries)
    BY <1>1, <2>7, <2>9 DEF IInv, Command, Strayless, Carries, Launches, LaunchKinds
  <2>15. \A n \in Names : names[n] = h => n = b.name \/ h \in cut'
    <3>1. agent[h].from = None
      BY <2>2 DEF IInv, Named, Naming
    <3>2. \A n \in Names : names[n] = h => n \in {agent[h].name, agent[h].from, agent[h].to} \/ h \in cut
      BY <2>2, NoneIsNone DEF IInv, Named, NoForgottenNameUncut, Knows
    <3> QED  BY <2>2, <2>6, <2>9, <3>1, <3>2, NoneIsNone
  <2>16. Command' /\ op' \in Commands
    BY <2>7, <2>11, <2>12, <2>13, <2>14 DEF Command
  <2>17. /\ Put(h, b) /\ op.pc # "register" /\ cut' \in {cut, cut \cup {h}}
         /\ UNCHANGED <<names, panes, gens, born, native, strays, tick, ren, ops, mishaps>>
    BY <1>1, <1>3, <2>1, <2>9
  <2> QED  BY <2>2, <2>3, <2>4, <2>6, <2>8, <2>10, <2>14, <2>15, <2>16, <2>17, ReplaceKeeps
<1> QED  BY <1>2, <1>3 DEF PrepareStopped

\* What a drop removes has nothing left to end.
LEMMA RemoveDirectoryKeeps ==
    ASSUME IInv, RemoveDirectory
    PROVE  IInv'
<1>1. /\ op.pc = "remove_dir" /\ Put(op.id, NoRecord) /\ lock' = [lock EXCEPT ![op.id] = "free"]
      /\ op' = [op EXCEPT !.pc = "release_name"]
      /\ UNCHANGED <<names, world, tick, ren, ops, mishaps>>
  BY DEF RemoveDirectory
<1>2. PICK h \in Ids : h = op.id
  BY <1>1, OpFacts
<1>3. Bare(h) /\ Dead(agent[h].proc) /\ op.kind \in {"drop", "down"}
  BY <1>1, <1>2 DEF IInv, Command, Ending, KindOf, Closings
<1>4. /\ op'.pc = "release_name" /\ op'.kind = op.kind /\ op'.id = h /\ op'.todo = op.todo /\ op' \in Commands
  BY <1>1, <1>2, OpFacts DEF Commands, Steps
<1>5. /\ lock[h] = "op" /\ lock' \in [Ids -> {"free", "op", "tick", "ren"}]
      /\ \A i \in Ids : lock'[i] = lock[i] \/ {lock[i], lock'[i]} \subseteq {"free", "op"}
      /\ \A i \in Ids : lock'[i] # "op"
  <2>1. lock[h] = "op" /\ lock \in [Ids -> {"free", "op", "tick", "ren"}]
    BY <1>1, <1>2, OpFacts DEF Holding, Closings
  <2>2. \A i \in Ids : lock[i] = "op" => i = h
    BY <1>1, <1>2 DEF IInv, OpLocks
  <2> QED  BY <1>1, <1>2, <2>1, <2>2
<1>6. /\ UNCHANGED <<panes, gens, born, native, strays, cut>>
      /\ ~agent'[h].here /\ \A i \in Ids \ {h} : agent'[i] = agent[i]
  BY <1>1, <1>2, OpFacts, NoRecordIs DEF Put, world
<1>7. OpLocks'
  BY <1>3, <1>4, <1>5 DEF OpLocks, Holding, Startups, Closings
<1>8. KindOf' /\ First' /\ Superseding' /\ Ending' /\ Starts' /\ Registered'
  BY <1>3, <1>4, <1>6 DEF KindOf, First, Superseding, Ending, Starts, Registered, Startups, Closings, Fronts
<1>9. Emptying'
  <2> SUFFICES ASSUME op.kind = "down"
               PROVE  /\ \A i \in Ids : agent'[i].here => i \in op.todo \/ ~Live(agent[i])' \/ i = h
                      /\ \A i \in op.todo : agent'[i].here
                      /\ h \notin op.todo
    BY <1>4 DEF Emptying
  <2>1. /\ \A i \in Ids : agent[i].here => i \in op.todo \/ ~Live(agent[i]) \/ i = h
        /\ \A i \in op.todo : agent[i].here
        /\ h \notin op.todo /\ op.todo \subseteq Ids
    BY <1>1, <1>2, OpFacts DEF IInv, Command, Emptying, Commands
  <2>2. \A i \in Ids \ {h} : Live(agent[i])' <=> Live(agent[i])
    BY <1>6 DEF Live
  <2> QED  BY <1>6, <2>1, <2>2
<1>10. Strayless' /\ (Carries' => Carries)
  BY <1>3, <1>4 DEF Strayless, Carries, Launches, LaunchKinds
<1>11. Command' /\ op' \in Commands
  BY <1>4, <1>8, <1>9, <1>10 DEF Command
<1>12. /\ Put(h, NoRecord) /\ op.pc # "register" /\ cut' \in {cut, cut \cup {h}}
       /\ UNCHANGED <<names, panes, gens, born, native, strays, tick, ren, ops, mishaps>>
  BY <1>1, <1>2, <1>6
<1> QED  BY <1>3, <1>5, <1>7, <1>10, <1>11, <1>12, NoRecordIs, ReplaceKeeps

LEMMA DropStartedKeeps ==
    ASSUME IInv, DropStarted
    PROVE  IInv'
<1> DEFINE c == [agent[op.id] EXCEPT !.status = Dropping]
<1>1. /\ op.pc = "drop_started" /\ Put(op.id, c) /\ op' = [op EXCEPT !.pc = "unname"]
      /\ UNCHANGED <<names, lock, world, tick, ren, ops, mishaps>>
  BY DEF DropStarted
<1>2. PICK h \in Ids : h = op.id
  BY <1>1, OpFacts
<1>3. agent[h] \in Record /\ lock[h] = "op" /\ op.kind \in {"drop", "down"}
  BY <1>1, <1>2, OpFacts DEF IInv, Command, KindOf, Holding, Closings
<1>4. /\ c \in Record /\ c.here = agent[h].here /\ c.proc = agent[h].proc
      /\ Keeps(agent[h], c)
  BY <1>2, <1>3 DEF Record, Keeps, Live, Dropping, Booting, Active
<1> HIDE DEF c
<1>5. op' \in Commands /\ op'.pc = "unname" /\ op'.kind = op.kind /\ op'.id = h /\ op'.todo = op.todo
  BY <1>1, <1>2, OpFacts DEF Commands, Steps, Holding, Closings
<1>6. UNCHANGED <<panes, gens, born, native, strays, cut>>
  BY <1>1 DEF world
<1>7. agent'[h] = c /\ \A i \in Ids \ {h} : agent'[i] = agent[i]
  BY <1>1, <1>2, OpFacts DEF Put
<1>8. OpLocks'
  BY <1>1, <1>2, <1>3, <1>5 DEF IInv, OpLocks, Holding, Closings
<1>9. Ending'
  <2>1. agent[h].here /\ Bare(h) /\ Dead(agent[h].proc)
    BY <1>1, <1>2 DEF IInv, Command, Ending, Closings
  <2>2. agent'[h].here /\ Bare(h)' /\ Dead(agent[h].proc)'
    BY <1>4, <1>6, <1>7, <2>1 DEF Bare, Dead
  <2> QED  BY <1>3, <1>5, <2>2 DEF Ending, Closings
<1>10. KindOf' /\ First' /\ Superseding' /\ Starts' /\ Registered'
  BY <1>3, <1>5 DEF KindOf, First, Superseding, Starts, Registered, Startups, Closings, Fronts
<1>11. Emptying'
  <2>1. \A i \in Ids : agent'[i].here = agent[i].here
    BY <1>4, <1>7
  <2>2. \A i \in Ids \ {h} : Live(agent[i])' <=> Live(agent[i])
    BY <1>6, <1>7 DEF Live
  <2>3. op.todo \subseteq Ids
    BY OpFacts DEF Commands
  <2> QED  BY <1>1, <1>2, <1>5, <2>1, <2>2, <2>3 DEF IInv, Command, Emptying
<1>12. Strayless' /\ (Carries' => Carries)
  BY <1>3, <1>5 DEF Strayless, Carries, Launches, LaunchKinds
<1>13. Types' /\ Holds' /\ Named' /\ Others' /\ Budget'
  <2>1. Put(op.id, c) /\ Keeps(agent[op.id], c) /\ lock[op.id] = "op" /\ op.pc \in Holding /\ StillLaunching
    BY <1>1, <1>2, <1>3, <1>4 DEF Holding, Closings, StillLaunching
  <2>2. /\ UNCHANGED <<names, world, tick, ren, ops>> /\ mishaps' \in 0..MaxMishaps
        /\ lock' \in [Ids -> {"free", "op", "tick", "ren"}]
        /\ \A i \in Ids : lock'[i] = lock[i] \/ {lock[i], lock'[i]} \subseteq {"free", "op"}
    BY <1>1, OpFacts, OpsGrow DEF IInv
  <2> QED  BY <1>4, <1>5, <1>12, <2>1, <2>2, OpPuts
<1> QED  BY <1>8, <1>9, <1>10, <1>11, <1>12, <1>13 DEF IInv, Command

LEMMA LockForDropKeeps ==
    ASSUME IInv, LockForDrop
    PROVE  IInv'
<1>1. /\ op.pc = "acquire" /\ op.kind \in {"drop", "down"} /\ lock[op.id] = "free"
      /\ lock' = [lock EXCEPT ![op.id] = "op"]
      /\ UNCHANGED <<agent, names, world, op, tick, ren, ops, mishaps>>
  BY DEF LockForDrop
<1>2. PICK h \in Ids : h = op.id
  BY <1>1, OpFacts
<1>3. /\ lock' \in [Ids -> {"free", "op", "tick", "ren"}] /\ lock'[h] = "op"
      /\ \A i \in Ids : lock'[i] = lock[i] \/ {lock[i], lock'[i]} \subseteq {"free", "op"}
      /\ \A i \in Ids \ {h} : lock'[i] = lock[i]
  BY <1>1, <1>2, OpFacts
<1>4. UNCHANGED <<panes, gens, born, native, strays, cut>>
  BY <1>1 DEF world
<1>5. OpLocks'
  BY <1>1, <1>2, <1>3 DEF IInv, OpLocks
<1>6. KindOf' /\ First' /\ Superseding' /\ Starts' /\ Registered'
  BY <1>1, <1>4 DEF IInv, Command, KindOf, First, Superseding, Starts, Registered, Startups, Closings, Fronts
<1>7. Ending' /\ Emptying' /\ Strayless' /\ (Carries' => Carries)
  BY <1>1, <1>4 DEF IInv, Command, Ending, Emptying, Strayless, Launches, Carries, Bare, Dead, Live
<1>8. Budget'
  BY <1>1, <1>4, <1>7, BudgetOver, OpsGrow DEF IInv
<1>9. Command' /\ op' \in Commands /\ op.pc # "register" /\ ops' \in 0..MaxOps /\ mishaps' \in 0..MaxMishaps
  BY <1>1, <1>6, <1>7, OpFacts, OpsGrow DEF IInv, Command
<1> QED  BY <1>1, <1>3, <1>5, <1>8, <1>9, OpOnly

LEMMA DownNextKeeps ==
    ASSUME IInv, DownNext
    PROVE  IInv'
<1>1. PICK h \in op.todo :
        /\ op.pc = "next_drop" /\ op' = [op EXCEPT !.pc = "acquire", !.id = h, !.todo = op.todo \ {h}]
        /\ UNCHANGED <<agent, names, lock, world, tick, ren, ops, mishaps>>
  BY DEF DownNext
<1>2. h \in Ids /\ op.kind = "down"
  BY <1>1, OpFacts DEF IInv, Command, KindOf, Commands
<1>3. /\ op'.pc = "acquire" /\ op'.kind = op.kind /\ op'.id = h /\ op'.todo = op.todo \ {h} /\ op' \in Commands
  BY <1>1, <1>2, OpFacts DEF Commands, Steps
<1>4. UNCHANGED <<panes, gens, born, native, strays, cut>>
  BY <1>1 DEF world
<1>5. \A i \in Ids : lock'[i] # "op"
  BY <1>1, NoneHeld DEF Holding, Startups, Closings
<1>6. OpLocks'
  BY <1>2, <1>3, <1>5 DEF OpLocks, Holding, Startups, Closings
<1>7. KindOf' /\ First' /\ Superseding' /\ Starts' /\ Registered'
  BY <1>2, <1>3 DEF KindOf, First, Superseding, Starts, Registered, Startups, Closings, Fronts
<1>8. Ending'
  <2>1. agent'[h].here
    BY <1>1, <1>2 DEF IInv, Command, Emptying
  <2> QED  BY <1>2, <1>3, <2>1 DEF Ending, Closings
<1>9. Emptying'
  <2>1. \A i \in Ids : Live(agent[i])' <=> Live(agent[i])
    BY <1>1, <1>4 DEF Live
  <2> QED  BY <1>1, <1>2, <1>3, <2>1, OpFacts DEF IInv, Command, Emptying
<1>10. Strayless' /\ (Carries' => Carries)
  BY <1>2, <1>3 DEF Strayless, Carries, Launches, LaunchKinds
<1>11. Budget'
  BY <1>1, <1>4, <1>10, BudgetOver, OpsGrow DEF IInv
<1>12. /\ Command' /\ op.pc # "register" /\ ops' \in 0..MaxOps /\ mishaps' \in 0..MaxMishaps
       /\ lock' \in [Ids -> {"free", "op", "tick", "ren"}]
       /\ \A i \in Ids : lock'[i] = lock[i] \/ {lock[i], lock'[i]} \subseteq {"free", "op"}
  BY <1>1, <1>7, <1>8, <1>9, <1>10, OpFacts, OpsGrow DEF IInv, Command
<1> QED  BY <1>1, <1>3, <1>6, <1>11, <1>12, OpOnly

\* A claim on a record that is gone is nobody's.
LEMMA FreedGoneKeeps ==
    ASSUME IInv, NEW h \in Ids, ~agent[h].here, NEW dead, names' = Freed(names, dead, h),
           UNCHANGED <<agent, lock, world, tick, ren, ops, mishaps>>,
           op.pc # "register", op' \in Commands, Command', OpLocks', Carries' => Carries
    PROVE  IInv'
<1>1. Types /\ Holds /\ Named /\ UNCHANGED <<panes, gens, born, native, strays, cut>>
  BY DEF IInv, world
<1>2. /\ NamesOf(h)
      /\ \A n \in Names : names'[n] = h => names[n] = h
  BY <1>1, FreedIs
<1>3. Holds'
  <2>1. Put(h, agent[h]) /\ agent[h] \in Record
    BY SelfPut
  <2>2. ~agent[h].rehitch /\ StillLaunching /\ UNCHANGED Shown
    BY <1>1 DEF Holds, Owning, StillLaunching, Shown
  <2> QED  BY <1>1, <2>1, <2>2, PutHolds
<1>4. Named'
  <2>1. Naming(h)'
    BY DEF Naming
  <2> QED  BY <1>1, <1>2, <2>1, OneNamed
<1>5. \A n \in Names : names'[n] # names[n] => names[n] = h /\ names'[n] = None
  BY <1>1 DEF Types, TypeOK, Freed
<1>6. Others'
  <2>1. OtherLocks' /\ TickControl'
    BY DEF IInv, Others, OtherLocks, TickControl
  <2>2. RenControl'
    <3>1. ren.pc \in RenSteps /\ agent[ren.id].here => ren.id # h /\ ren.id \in Ids /\ ren.to \in Names /\ agent[ren.id].from \in Names
      BY DEF IInv, Others, RenControl, RenSteps
    <3>2. \A i \in Ids \ {h}, n \in Names : names'[n] = i <=> names[n] = i
      BY <1>5, NoneIsNone
    <3> QED  BY <3>1, <3>2 DEF IInv, Others, RenControl
  <2> QED  BY <2>1, <2>2 DEF Others
<1>7. Budget'
  BY <1>1, BudgetOver, OpsGrow
<1>8. Types'
  BY <1>1, <1>2, OpTypes, OpsGrow, OpFacts
<1> QED  BY <1>3, <1>4, <1>6, <1>7, <1>8 DEF IInv

LEMMA RemoveDanglingKeeps ==
    ASSUME IInv, RemoveDangling
    PROVE  IInv'
<1>1. /\ op.pc = "free" /\ op.kind = "drop" /\ names' = Freed(names, {op.name}, op.id) /\ op' = Quiet
      /\ UNCHANGED <<agent, lock, world, tick, ren, ops, mishaps>>
  BY DEF RemoveDangling
<1>2. PICK h \in Ids : h = op.id
  BY <1>1, OpFacts
<1>3. ~agent[h].here
  BY <1>1, <1>2 DEF IInv, Command, Ending
<1>4. \A i \in Ids : lock'[i] # "op"
  BY <1>1 DEF IInv, OpLocks, Holding, Startups, Closings
<1>5. Command' /\ OpLocks' /\ op' \in Commands /\ (Carries' => Carries)
  BY <1>1, <1>4, QuietCommand
<1> QED  BY <1>1, <1>2, <1>3, <1>5, FreedGoneKeeps

LEMMA RemoveNameKeeps ==
    ASSUME IInv, RemoveName
    PROVE  IInv'
<1>1. /\ op.pc = "release_name" /\ names' = Freed(names, {op.name}, op.id)
      /\ op' = IF op.kind = "down" THEN [op EXCEPT !.pc = "next_drop"] ELSE Quiet
      /\ UNCHANGED <<agent, lock, world, tick, ren, ops, mishaps>>
  BY DEF RemoveName
<1>2. PICK h \in Ids : h = op.id
  BY <1>1, OpFacts
<1>3. ~agent[h].here
  BY <1>1, <1>2 DEF IInv, Command, Ending
<1>4. \A i \in Ids : lock'[i] # "op"
  BY <1>1, NoneHeld DEF Holding, Startups, Closings
<1>5. Command' /\ OpLocks' /\ op' \in Commands /\ (Carries' => Carries)
  <2>1. CASE op.kind # "down"
    BY <1>1, <1>4, <2>1, QuietCommand
  <2>2. CASE op.kind = "down"
    <3>1. /\ op'.pc = "next_drop" /\ op'.kind = "down" /\ op'.id = h /\ op'.todo = op.todo /\ op' \in Commands
      BY <1>1, <1>2, <2>2, OpFacts DEF Commands, Steps
    <3>2. UNCHANGED <<agent, native>>
      BY <1>1 DEF world
    <3>3. OpLocks'
      BY <1>4, <3>1 DEF OpLocks, Holding, Startups, Closings
    <3>4. KindOf' /\ First' /\ Superseding' /\ Ending' /\ Starts' /\ Registered'
      BY <3>1 DEF KindOf, First, Superseding, Ending, Starts, Registered, Startups, Closings, Fronts
    <3>5. Emptying'
      <4>1. \A i \in Ids : Live(agent[i])' <=> Live(agent[i])
        BY <3>2 DEF Live
      <4> QED  BY <1>1, <1>2, <1>3, <2>2, <3>1, <3>2, <4>1 DEF IInv, Command, Emptying
    <3>6. Strayless' /\ (Carries' => Carries)
      BY <3>1 DEF Strayless, Carries, Launches, LaunchKinds
    <3> QED  BY <3>1, <3>3, <3>4, <3>5, <3>6 DEF Command
  <2> QED  BY <2>1, <2>2
<1> QED  BY <1>1, <1>2, <1>3, <1>5, FreedGoneKeeps

\* The names that a drop removes first are not the one its record goes by.
LEMMA RemoveRenameNamesKeeps ==
    ASSUME IInv, RemoveRenameNames
    PROVE  IInv'
<1> DEFINE dead == {agent[op.id].from, agent[op.id].to} \ {agent[op.id].name}
<1>1. /\ op.pc = "unname" /\ names' = Freed(names, dead, op.id)
      /\ op' = [op EXCEPT !.pc = "remove_dir", !.name = agent[op.id].name]
      /\ UNCHANGED <<agent, lock, world, tick, ren, ops, mishaps>>
  BY DEF RemoveRenameNames
<1>2. PICK h \in Ids : h = op.id
  BY <1>1, OpFacts
<1>3. /\ agent[h].here /\ Bare(h) /\ Dead(agent[h].proc) /\ op.kind \in {"drop", "down"}
      /\ lock[h] = "op" /\ agent[h] \in Record
  BY <1>1, <1>2, OpFacts DEF IInv, Command, Ending, KindOf, Holding, Closings
<1>4. op' \in Commands /\ op'.pc = "remove_dir" /\ op'.kind = op.kind /\ op'.id = h /\ op'.todo = op.todo
  BY <1>1, <1>2, <1>3, OpFacts DEF Commands, Steps, Holding, Closings, Record
<1>5. UNCHANGED <<panes, gens, born, native, strays, cut>>
  BY <1>1 DEF world
<1>6. /\ NamesOf(h)
      /\ \A n \in Names : names'[n] = h <=> names[n] = h /\ n \notin dead
  BY <1>1, <1>2, FreedIs DEF IInv
<1>7. Put(h, agent[h])
  BY <1>1, SelfPut
<1>8. Holds'
  <2>1. (~agent[h].here => ~agent[h].rehitch) /\ StillLaunching /\ UNCHANGED Shown
    BY <1>1, <1>3, <1>5 DEF StillLaunching, Shown
  <2> QED  BY <1>3, <1>7, <2>1, PutHolds DEF IInv
<1>9. Named'
  <2>1. Naming(h)'
    <3>1. Naming(h) /\ (Live(agent[h])' <=> Live(agent[h]))
      BY <1>1, <1>5 DEF IInv, Named, Live
    <3>2. agent[h].name \notin dead
      BY <1>2
    <3>3. agent[h].name = agent[h].to => agent[h].to \notin dead
      BY <3>2
    <3> HIDE DEF dead
    <3> QED  BY <1>1, <1>3, <1>5, <1>6, <3>1, <3>2, <3>3 DEF Naming
  <2>2. \A n \in Names : names'[n] = h /\ agent'[h].here =>
               n \in {agent'[h].name, agent'[h].from, agent'[h].to} \/ h \in cut'
    BY <1>1, <1>3, <1>5, <1>6, NoneIsNone DEF IInv, Named, NoForgottenNameUncut, Knows
  <2> QED  BY <1>5, <1>6, <1>7, <2>1, <2>2, OneNamed DEF IInv
<1>10. Others'
  BY <1>1, <1>3, <1>6, BesideOthers DEF IInv
<1>11. OpLocks'
  BY <1>1, <1>2, <1>3, <1>4 DEF IInv, OpLocks, Holding, Closings
<1>12. KindOf' /\ First' /\ Superseding' /\ Starts' /\ Registered'
  BY <1>3, <1>4 DEF KindOf, First, Superseding, Starts, Registered, Startups, Closings, Fronts
<1>13. Ending'
  <2>1. agent'[h].here /\ Bare(h)' /\ Dead(agent[h].proc)'
    BY <1>1, <1>3, <1>5 DEF Bare, Dead
  <2> QED  BY <1>3, <1>4, <2>1 DEF Ending, Closings
<1>14. Emptying'
  <2>1. \A i \in Ids : Live(agent[i])' <=> Live(agent[i])
    BY <1>1, <1>5 DEF Live
  <2> QED  BY <1>1, <1>2, <1>4, <2>1 DEF IInv, Command, Emptying
<1>15. Strayless' /\ (Carries' => Carries)
  BY <1>3, <1>4 DEF Strayless, Carries, Launches, LaunchKinds
<1>16. Budget'
  BY <1>1, <1>5, <1>15, BudgetOver, OpsGrow DEF IInv
<1>17. Types'
  BY <1>1, <1>3, <1>4, <1>5, <1>6, <1>7, OpTypes, OpsGrow, OpFacts DEF IInv
<1> QED  BY <1>8, <1>9, <1>10, <1>11, <1>12, <1>13, <1>14, <1>15, <1>16, <1>17 DEF IInv, Command

\* The claim that `up` takes over belonged to a record of no use to anyone.
LEMMA FreeStaleNameKeeps ==
    ASSUME IInv, FreeStaleName
    PROVE  IInv'
<1>1. /\ op.pc = "free" /\ op.kind = "up"
      /\ op' = [op EXCEPT !.pc = "mkdir", !.kind = "hitch", !.todo = {}]
      /\ UNCHANGED <<agent, world, tick, ren, ops, mishaps>>
  BY DEF FreeStaleName
<1>2. PICK old \in Ids : /\ op.todo = {old} /\ lock[old] = "op" /\ old # op.id
                         /\ agent[old].here /\ ~Live(agent[old])
                         /\ agent[old].to # None => old \in cut
  BY <1>1 DEF IInv, Command, Superseding
<1>3. names' = Freed(names, {op.name}, old) /\ lock' = [lock EXCEPT ![old] = "free"]
  BY <1>2 DEF FreeStaleName
<1>4. /\ op.id \in Ids /\ op.name \in Names
      /\ \A n \in Names : names[n] # op.id
      /\ \A k \in Pids : native[k].of # op.id
      /\ ren.id # op.id /\ ~agent[op.id].here
  BY <1>1, OpFacts DEF IInv, Command, First, KindOf
<1>5. /\ op'.pc = "mkdir" /\ op'.kind = "hitch" /\ op'.id = op.id /\ op'.name = op.name /\ op' \in Commands
  BY <1>1, OpFacts DEF Commands, Steps, Fronts, Kinds
<1>6. UNCHANGED <<panes, gens, born, native, strays, cut>>
  BY <1>1 DEF world
<1>7. /\ NamesOf(old)
      /\ \A n \in Names : names'[n] = old => names[n] = old
      /\ \A n \in Names : names'[n] # op.id
  <2>1. NamesOf(old) /\ \A n \in Names : names'[n] = old => names[n] = old
    BY <1>3, FreedIs DEF IInv
  <2> QED  BY <1>4, <2>1, NoneIsNone DEF NamesOf
<1>8. Put(old, agent[old]) /\ agent[old] \in Record
  BY <1>1, SelfPut
<1>9. Holds'
  <2>1. (~agent[old].here => ~agent[old].rehitch) /\ StillLaunching /\ UNCHANGED Shown
    BY <1>1, <1>2, <1>6 DEF StillLaunching, Shown
  <2> QED  BY <1>8, <2>1, PutHolds DEF IInv
<1>10. Named'
  <2>1. Naming(old)'
    <3>1. Naming(old) /\ ~Live(agent[old])'
      BY <1>1, <1>2, <1>6 DEF IInv, Named, Live
    <3> QED  BY <1>1, <1>2, <1>6, <3>1 DEF Naming
  <2>2. \A n \in Names : names'[n] = old /\ agent'[old].here =>
               n \in {agent'[old].name, agent'[old].from, agent'[old].to} \/ old \in cut'
    BY <1>1, <1>2, <1>6, <1>7, NoneIsNone DEF IInv, Named, NoForgottenNameUncut, Knows
  <2> QED  BY <1>6, <1>7, <1>8, <2>1, <2>2, OneNamed DEF IInv
<1>11. /\ lock \in [Ids -> {"free", "op", "tick", "ren"}] /\ lock' \in [Ids -> {"free", "op", "tick", "ren"}]
       /\ \A i \in Ids : lock'[i] = lock[i] \/ {lock[i], lock'[i]} \subseteq {"free", "op"}
       /\ \A i \in Ids : lock'[i] # "op"
  <2>1. \A i \in Ids : lock[i] = "op" => i = old
    BY <1>1, <1>2 DEF IInv, OpLocks, Holding, Startups, Closings
  <2> QED  BY <1>2, <1>3, <2>1, OpFacts
<1>12. Others'
  BY <1>1, <1>2, <1>7, <1>11, BesideOthers DEF IInv
<1>13. OpLocks'
  BY <1>5, <1>11 DEF OpLocks, Holding, Startups, Closings
<1>14. KindOf'
  BY <1>4, <1>5 DEF KindOf, Startups, Closings, Fronts
<1>15. First'
  BY <1>1, <1>4, <1>5, <1>6, <1>7 DEF First, Fronts
<1>16. Superseding' /\ Ending' /\ Starts' /\ Registered' /\ Emptying'
  BY <1>5 DEF Superseding, Ending, Starts, Registered, Emptying, Startups, Closings
<1>17. Strayless' /\ (Carries' => Carries)
  BY <1>1, <1>5, <1>6 DEF IInv, Command, Strayless, Carries, Launches, LaunchKinds, Fronts
<1>18. Budget'
  BY <1>1, <1>6, <1>17, BudgetOver, OpsGrow DEF IInv
<1>19. Types'
  BY <1>1, <1>5, <1>6, <1>7, <1>8, <1>11, OpTypes, OpsGrow DEF IInv
<1> QED  BY <1>9, <1>10, <1>12, <1>13, <1>14, <1>15, <1>16, <1>17, <1>18, <1>19 DEF IInv, Command

LEMMA SupersedeKeeps ==
    ASSUME IInv, Supersede
    PROVE  IInv'
<1>1. op.pc = "supersede" /\ UNCHANGED <<names, panes, gens, born, native, strays, tick, ren, ops, mishaps>>
  BY DEF Supersede
<1>2. CASE op' = Quiet /\ UNCHANGED <<agent, lock, cut>>
  BY <1>1, <1>2, QuietKeeps DEF Holding, Startups, Closings, world
<1>3. CASE ~(op' = Quiet /\ UNCHANGED <<agent, lock, cut>>)
  <2>1. PICK old, visible :
                   /\ old = names[op.name] /\ old # None /\ Superseded(old, visible)
                   /\ Put(old, [FailedBy(agent[old]) EXCEPT !.pane = None])
                   /\ lock' = [lock EXCEPT ![old] = "op"]
                   /\ op' = [op EXCEPT !.pc = "free", !.todo = {old}]
                   /\ cut' = IF agent[old].to = None THEN cut ELSE cut \cup {old}
    BY <1>3 DEF Supersede
  <2>2. op.kind = "up" /\ op.name \in Names /\ op.id \in Ids
    BY <1>1, OpFacts DEF IInv, Command, KindOf, Fronts
  <2>3. old \in Ids /\ agent[old] \in Record
    BY <2>1, <2>2, OpFacts
  <2>4. /\ lock[old] = "free" /\ agent[old].here /\ panes = {} /\ Dead(agent[old].proc)
        /\ agent[old].proc # None => ~native[agent[old].proc].alive
    BY <2>1 DEF Superseded, Exists, Dead
  <2>5. /\ \A n \in Names : names[n] # op.id
        /\ \A k \in Pids : native[k].of # op.id
        /\ ren.id # op.id /\ ~agent[op.id].here
    BY <1>1 DEF IInv, Command, First, Fronts
  <2>6. old # op.id
    BY <2>1, <2>2, <2>5
  <2> DEFINE c == [FailedBy(agent[old]) EXCEPT !.pane = None]
  <2>7. /\ c \in Record /\ c.here /\ c.name = agent[old].name /\ c.from = agent[old].from /\ c.to = agent[old].to
        /\ c.proc = agent[old].proc /\ c.pane = None /\ c.status = Failed /\ c.rehitch = agent[old].rehitch
    BY <2>3, <2>4 DEF FailedBy, Record, Failed
  <2>8. Put(old, c)
    BY <2>1
  <2> HIDE DEF c
  <2>9. agent'[old] = c /\ \A i \in Ids \ {old} : agent'[i] = agent[i]
    BY <2>3, <2>8, OpFacts DEF Put
  <2>10. op'.pc = "free" /\ op'.kind = "up" /\ op'.id = op.id /\ op'.name = op.name /\ op'.todo = {old} /\ op' \in Commands
    BY <2>1, <2>2, <2>3, OpFacts DEF Commands, Steps
  <2>11. ~Live(c) /\ ~Live(agent[old])'
    BY <1>1, <2>4, <2>7, <2>9 DEF Live, Failed, Booting, Active
  <2>12. cut \subseteq cut' /\ cut' \in {cut, cut \cup {old}} /\ (agent[old].to # None => old \in cut')
    BY <2>1
  <2>13. Holds'
    <3>1. StillLaunching /\ UNCHANGED Shown /\ ~Present(agent[old].pane)
      BY <1>1, <2>4 DEF StillLaunching, Shown, Present
    <3> QED  BY <2>3, <2>4, <2>7, <2>8, <3>1, PutHolds DEF IInv
  <2>14. Named'
    <3>1. NamesOf(old)
      BY <1>1, SameNames DEF IInv
    <3>2. Naming(old)'
      <4>1. Naming(old)
        BY <2>3 DEF IInv, Named
      <4> QED  BY <1>1, <2>4, <2>7, <2>9, <2>11, <2>12, <4>1 DEF Naming
    <3>3. \A n \in Names : names'[n] = old /\ agent'[old].here =>
               n \in {agent'[old].name, agent'[old].from, agent'[old].to} \/ old \in cut'
      BY <1>1, <2>3, <2>4, <2>7, <2>9, <2>12, NoneIsNone DEF IInv, Named, NoForgottenNameUncut, Knows
    <3> QED  BY <1>1, <2>3, <2>8, <2>12, <3>1, <3>2, <3>3, OneNamed DEF IInv
  <2>15. /\ lock \in [Ids -> {"free", "op", "tick", "ren"}] /\ lock' \in [Ids -> {"free", "op", "tick", "ren"}]
         /\ \A i \in Ids : lock'[i] = lock[i] \/ {lock[i], lock'[i]} \subseteq {"free", "op"}
         /\ lock'[old] = "op" /\ \A i \in Ids \ {old} : lock'[i] # "op"
    BY <1>1, <2>1, <2>3, <2>4, OpFacts, NoneHeld DEF Holding, Startups, Closings
  <2>16. Others'
    <3>1. NamesOf(old)
      BY <1>1, SameNames DEF IInv
    <3> QED  BY <1>1, <2>3, <2>4, <2>8, <2>15, <3>1, BesideOthers DEF IInv
  <2>17. OpLocks'
    BY <2>3, <2>10, <2>15 DEF OpLocks, Holding, Startups, Closings
  <2>18. KindOf'
    BY <2>2, <2>10 DEF KindOf, Startups, Closings, Fronts
  <2>19. First'
    BY <1>1, <2>2, <2>5, <2>6, <2>9, <2>10 DEF First, Fronts
  <2>20. Superseding'
    BY <2>3, <2>6, <2>7, <2>9, <2>10, <2>11, <2>12, <2>15 DEF Superseding
  <2>21. Ending' /\ Starts' /\ Registered' /\ Emptying'
    BY <2>10 DEF Ending, Starts, Registered, Emptying, Startups, Closings
  <2>22. Strayless' /\ (Carries' => Carries)
    BY <1>1, <2>2, <2>4, <2>10 DEF Strayless, Carries, Launches, LaunchKinds, Fronts
  <2>23. Budget'
    <3>1. Rehitching' \subseteq Rehitching
      BY <2>3, <2>7, <2>8, RehitchingPut DEF IInv
    <3> QED  BY <1>1, <2>22, <3>1, FewerRehitching, OpsGrow DEF IInv
  <2>24. Types'
    BY <1>1, <2>3, <2>7, <2>8, <2>10, <2>12, <2>15, OpTypes, OpsGrow DEF IInv
  <2> QED  BY <2>13, <2>14, <2>16, <2>17, <2>18, <2>19, <2>20, <2>21, <2>22, <2>23, <2>24 DEF IInv, Command
<1> QED  BY <1>2, <1>3

\* A restart takes the request it answers out of the budget.
LEMMA TakenOut ==
    ASSUME Types, Budget, NEW h \in Rehitching, Rehitching' = Rehitching \ {h}, gens' = gens, born' = born, ops' = ops,
           ~Carries
    PROVE  Budget'
<1>1. IsFiniteSet(Rehitching) /\ Cardinality(Rehitching) \in Nat /\ born \in Nat /\ ops \in Nat
  BY BornArePids, OpsGrow, FS_CardinalityType DEF Budget
<1>2. born + Cardinality(Rehitching) <= ops
  BY <1>1 DEF Budget
<1>3. IsFiniteSet(Rehitching \ {h}) /\ Cardinality(Rehitching \ {h}) = Cardinality(Rehitching) - 1
  BY <1>1, FS_RemoveElement
<1>4. born + (Cardinality(Rehitching) - 1) + (IF Carries' THEN 1 ELSE 0) <= ops
  BY <1>1, <1>2
<1> QED  BY <1>3, <1>4 DEF Budget

LEMMA PrepareRehitchKeeps ==
    ASSUME IInv, PrepareRehitch
    PROVE  IInv'
<1> DEFINE same == lock[op.id] = "free" /\ Ready(agent[op.id]) /\ agent[op.id].name = op.name
           c    == [agent[op.id] EXCEPT !.rehitch = FALSE]
<1>1. op.pc = "prepare" /\ op.kind = "rehitch" /\ UNCHANGED <<names, world, tick, ren, ops, mishaps>>
  BY DEF PrepareRehitch
<1>2. PICK h \in Ids : h = op.id
  BY <1>1, OpFacts
<1>3. op.name \in Names /\ agent[h] \in Record
  BY <1>1, OpFacts DEF IInv, Command, KindOf
<1>4. CASE op' = Quiet /\ UNCHANGED <<agent, lock>>
  BY <1>1, <1>4, QuietKeeps DEF Holding, Startups, Closings
<1>5. CASE op' = [op EXCEPT !.pc = "report"] /\ UNCHANGED <<agent, lock>>
  <2>1. /\ op'.pc = "report" /\ op'.kind = "rehitch" /\ op'.id = h /\ op'.name = op.name /\ op' \in Commands
    BY <1>1, <1>2, <1>5, OpFacts DEF Commands, Steps
  <2>2. \A i \in Ids : lock'[i] # "op"
    BY <1>1, <1>5, NoneHeld DEF Holding, Startups, Closings
  <2>3. OpLocks'
    BY <2>1, <2>2 DEF OpLocks, Holding, Startups, Closings
  <2>4. KindOf'
    BY <1>3, <2>1 DEF KindOf, Startups, Closings, Fronts, LaunchKinds
  <2>5. First' /\ Superseding' /\ Ending' /\ Starts' /\ Registered' /\ Emptying'
    BY <2>1 DEF First, Superseding, Ending, Starts, Registered, Emptying, Startups, Closings, Fronts
  <2>6. Strayless' /\ (Carries' => Carries)
    BY <2>1 DEF Strayless, Carries, Launches, Fronts
  <2>7. Command'
    BY <2>4, <2>5, <2>6 DEF Command
  <2>8. Budget'
    BY <1>1, <1>5, <2>6, BudgetOver, OpsGrow DEF IInv, world
  <2>9. /\ op.pc # "register" /\ ops' \in 0..MaxOps /\ mishaps' \in 0..MaxMishaps
        /\ lock' \in [Ids -> {"free", "op", "tick", "ren"}]
        /\ \A i \in Ids : lock'[i] = lock[i] \/ {lock[i], lock'[i]} \subseteq {"free", "op"}
    BY <1>1, <1>5, OpFacts, OpsGrow DEF IInv
  <2> QED  BY <1>1, <1>5, <2>1, <2>3, <2>7, <2>8, <2>9, OpOnly
<1>6. CASE /\ same /\ Put(op.id, c) /\ lock' = [lock EXCEPT ![op.id] = "op"]
           /\ op' = [op EXCEPT !.pc = "acquire"]
  <2>1. /\ lock[h] = "free" /\ agent[h].here /\ agent[h].rehitch /\ agent[h].status = Active /\ agent[h].name = op.name
    BY <1>2, <1>6 DEF Ready
  <2>2. /\ c \in Record /\ c.here /\ c.name = op.name /\ ~c.rehitch /\ c.pane = agent[h].pane /\ c.proc = agent[h].proc
        /\ Keeps(agent[h], c)
    BY <1>2, <1>3, <2>1 DEF Record, Keeps, Live
  <2>3. Put(h, c)
    BY <1>2, <1>6
  <2> HIDE DEF c, same
  <2>4. agent'[h] = c /\ \A i \in Ids \ {h} : agent'[i] = agent[i]
    BY <2>3, OpFacts DEF Put
  <2>5. /\ op'.pc = "acquire" /\ op'.kind = "rehitch" /\ op'.id = h /\ op'.name = op.name /\ op' \in Commands
    BY <1>1, <1>2, <1>6, OpFacts DEF Commands, Steps
  <2>6. /\ lock \in [Ids -> {"free", "op", "tick", "ren"}] /\ lock' \in [Ids -> {"free", "op", "tick", "ren"}]
        /\ \A i \in Ids : lock'[i] = lock[i] \/ {lock[i], lock'[i]} \subseteq {"free", "op"}
        /\ lock'[h] = "op" /\ \A i \in Ids \ {h} : lock'[i] # "op"
    BY <1>1, <1>2, <1>6, <2>1, OpFacts, NoneHeld DEF Holding, Startups, Closings
  <2>7. UNCHANGED <<panes, gens, born, native, strays, cut>>
    BY <1>1 DEF world
  <2>8. Holds'
    <3>1. StillLaunching /\ UNCHANGED Shown
      BY <1>1, <2>7 DEF StillLaunching, Shown
    <3> QED  BY <2>1, <2>2, <2>3, <3>1, PutHolds DEF IInv
  <2>9. Named'
    BY <1>1, <2>2, <2>3, <2>7, PutNamed DEF IInv
  <2>10. Others'
    <3>1. NamesOf(h)
      BY <1>1, SameNames DEF IInv
    <3> QED  BY <1>1, <2>1, <2>3, <2>6, <3>1, BesideOthers DEF IInv
  <2>11. OpLocks'
    BY <2>5, <2>6 DEF OpLocks
  <2>12. KindOf'
    BY <1>3, <2>5 DEF KindOf, Startups, Closings, Fronts, LaunchKinds
  <2>13. Ending'
    <3>1. names[op.name] = h
      BY <2>1 DEF IInv, Named, Naming, Live
    <3> QED  BY <1>1, <2>2, <2>4, <2>5, <3>1 DEF Ending, Closings
  <2>14. First' /\ Superseding' /\ Starts' /\ Registered' /\ Emptying'
    BY <2>5 DEF First, Superseding, Starts, Registered, Emptying, Startups, Closings, Fronts
  <2>15. Strayless' /\ ~Carries
    BY <1>1, <2>7 DEF IInv, Command, Strayless, Carries, Launches, LaunchKinds, Fronts
  <2>16. Budget'
    <3>1. h \in Rehitching
      BY <2>1 DEF Rehitching
    <3>2. Rehitching' = Rehitching \ {h}
      BY <2>2, <2>4 DEF Rehitching
    <3> QED  BY <1>1, <2>7, <2>15, <3>1, <3>2, TakenOut DEF IInv
  <2>17. Types'
    BY <1>1, <2>2, <2>3, <2>5, <2>6, <2>7, OpTypes, OpsGrow DEF IInv
  <2> QED  BY <2>8, <2>9, <2>10, <2>11, <2>12, <2>13, <2>14, <2>15, <2>16, <2>17 DEF IInv, Command
<1> HIDE DEF c, same
<1> QED  BY <1>4, <1>5, <1>6 DEF PrepareRehitch, c, same

LEMMA ReportRehitchKeeps ==
    ASSUME IInv, ReportRehitch
    PROVE  IInv'
<1>1. op.pc = "report" /\ op' = Quiet /\ UNCHANGED <<lock, world, tick, ren, ops, mishaps>>
  BY DEF ReportRehitch
<1>2. PICK h \in Ids : h = op.id
  BY <1>1, OpFacts
<1>3. CASE ~agent[h].here
  <2>1. UNCHANGED <<agent, names>>
    BY <1>2, <1>3 DEF ReportRehitch
  <2> QED  BY <1>1, <2>1, QuietKeeps DEF Holding, Startups, Closings
<1>4. CASE agent[h].here
  <2> DEFINE b == Deadlines(Renamed(h, agent[h]))
             c == [b EXCEPT !.rehitch = FALSE]
  <2>1. lock[h] = "free" /\ Put(h, c) /\ names' = RenamedNames(h, agent[h])
    BY <1>2, <1>4 DEF ReportRehitch
  <2>2. /\ b \in Record /\ b.here /\ b.from = None /\ b.to = None /\ b.name \in Names
        /\ b.name = Renamed(h, agent[h]).name /\ b.proc = agent[h].proc
        /\ b.pane = agent[h].pane \/ (b.pane = None /\ ~Present(agent[h].pane))
        /\ Live(b) => Live(agent[h])
        /\ NamesOf(h)
    BY <1>4, <2>1, TakenIs
  <2> HIDE DEF b
  <2>3. /\ c \in Record /\ c.here /\ c.from = None /\ c.to = None
        /\ c.name = Renamed(h, agent[h]).name /\ c.proc = agent[h].proc /\ ~c.rehitch
        /\ c.pane = agent[h].pane \/ (c.pane = None /\ ~Present(agent[h].pane))
        /\ Live(c) => Live(agent[h])
    BY <2>2, ZenonT(40) DEF Record, Live
  <2> HIDE DEF c
  <2>4. UNCHANGED <<panes, gens, born, native, strays, cut>>
    BY <1>1 DEF world
  <2>5. Holds'
    <3>1. StillLaunching /\ UNCHANGED Shown
      BY <1>1, <2>4 DEF StillLaunching, Shown
    <3> QED  BY <1>4, <2>1, <2>3, <3>1, PutHolds DEF IInv
  <2>6. Named'
    BY <1>4, <2>1, <2>3, <2>4, TakenNamed DEF IInv
  <2>7. Others'
    BY <1>1, <2>1, <2>2, BesideOthers DEF IInv
  <2>8. Command' /\ OpLocks' /\ op' \in Commands /\ ~Carries'
    <3>1. \A i \in Ids : lock'[i] # "op"
      BY <1>1, NoneHeld DEF Holding, Startups, Closings
    <3> QED  BY <1>1, <3>1, QuietCommand
  <2>9. Budget'
    <3>1. Rehitching' \subseteq Rehitching
      BY <2>1, <2>3, RehitchingPut DEF IInv
    <3> QED  BY <1>1, <2>4, <2>8, <3>1, FewerRehitching, OpsGrow DEF IInv
  <2>10. Types'
    BY <1>1, <2>1, <2>2, <2>3, <2>4, <2>8, OpTypes, OpsGrow, OpFacts DEF IInv
  <2> QED  BY <2>5, <2>6, <2>7, <2>8, <2>9, <2>10 DEF IInv
<1> QED  BY <1>3, <1>4

\* When `down` has dropped all that was listed, no record is of use to anyone.
LEMMA DownWipeKeeps ==
    ASSUME IInv, DownWipe
    PROVE  IInv'
<1>1. /\ op.pc = "next_drop" /\ op.todo = {} /\ agent' = [h \in Ids |-> NoRecord] /\ names' = [n \in Names |-> None]
      /\ op' = Quiet /\ UNCHANGED <<lock, world, tick, ren, ops, mishaps>>
  BY DEF DownWipe
<1>2. UNCHANGED <<panes, gens, born, native, strays, cut>>
  BY <1>1 DEF world
<1>3. \A h \in Ids : agent[h].here => ~Live(agent[h])
  BY <1>1 DEF IInv, Command, KindOf, Emptying
<1>4. \A h \in Ids : /\ ~agent'[h].here /\ agent'[h].pane = None /\ agent'[h].proc = None /\ ~agent'[h].rehitch
  BY <1>1, NoRecordIs
<1>5. /\ panes \subseteq Panes /\ native \in [Pids -> Natives] /\ agent \in [Ids -> Record]
  BY OpFacts
<1>6. \A p \in panes : p.pid \in strays
  <2> SUFFICES ASSUME NEW p \in panes, p.pid \notin strays
               PROVE  FALSE
    OBVIOUS
  <2>1. agent[native[p.pid].of].here /\ agent[native[p.pid].of].pane = p.id
    BY <1>1 DEF IInv, Holds, PaneIsRecorded
  <2>2. native[p.pid].of \in Ids
    BY DEF IInv, Types, TypeOK, Holds, Server
  <2>3. p.id # None
    BY <1>5, NoneIsNone DEF Panes
  <2> QED  BY <1>3, <2>1, <2>2, <2>3 DEF Live
<1>7. \A k \in Pids : ~(native[k].alive /\ native[k].witnessed)
  <2> SUFFICES ASSUME NEW k \in Pids, native[k].alive, native[k].witnessed
               PROVE  FALSE
    OBVIOUS
  <2>1. agent[native[k].of].here /\ agent[native[k].of].proc = k
    BY DEF IInv, Holds, WitnessKept
  <2>2. native[k].of \in Ids
    BY BornArePids DEF IInv, Types, TypeOK, Holds, Server, Pids, MaxNatives
  <2> QED  BY <1>3, <2>1, <2>2, NoneIsNone DEF Live
<1>8. Holds'
  <2>1. Server' /\ OneNative'
    BY <1>2 DEF IInv, Holds, Server, OneNative, Reachable, Used
  <2>2. \A h \in Ids : Owning(h)'
    <3> TAKE h \in Ids
    <3>1. \A p \in panes' : p.id # None
      BY <1>2, <1>5, NoneIsNone DEF Panes
    <3> QED  BY <1>4, <3>1 DEF Owning
  <2>3. PaneIsRecorded' /\ WitnessKept'
    BY <1>2, <1>6, <1>7 DEF PaneIsRecorded, WitnessKept
  <2> QED  BY <2>1, <2>2, <2>3 DEF Holds
<1>9. Named'
  BY <1>1, <1>4 DEF Named, Naming, NoForgottenNameUncut
<1>10. Others'
  <2>1. tick.pc \notin TickSteps
    BY <1>3 DEF IInv, Others, TickControl, TickSteps, Live
  <2>2. OtherLocks' /\ TickControl'
    BY <1>1, <2>1 DEF IInv, Others, OtherLocks, TickControl
  <2>3. RenControl'
    BY <1>1, <1>4 DEF IInv, Others, RenControl, RenSteps
  <2> QED  BY <2>2, <2>3 DEF Others
<1>11. Command' /\ OpLocks' /\ op' \in Commands /\ ~Carries'
  <2>1. \A i \in Ids : lock'[i] # "op"
    BY <1>1, NoneHeld DEF Holding, Startups, Closings
  <2> QED  BY <1>1, <2>1, QuietCommand
<1>12. Budget'
  <2>1. Rehitching' \subseteq Rehitching
    BY <1>4 DEF Rehitching
  <2> QED  BY <1>1, <1>2, <1>11, <2>1, FewerRehitching, OpsGrow DEF IInv
<1>13. Types'
  <2>1. agent' \in [Ids -> Record] /\ names' \in [Names -> Ids \cup {None}]
    BY <1>1, NoRecordIs
  <2> QED  BY <1>1, <1>2, <1>11, <2>1 DEF IInv, Types, TypeOK
<1> QED  BY <1>8, <1>9, <1>10, <1>11, <1>12, <1>13 DEF IInv

-----------------------------------------------------------------------------
(* The invariant.                                                            *)

LEMMA Initial == Init => IInv
<1> SUFFICES ASSUME Init PROVE IInv
  OBVIOUS
<1>1. MaxNatives \in Nat /\ 0 \in 0..MaxNatives /\ 0 \in 0..MaxOps /\ 0 \in 0..MaxMishaps
  BY RegistryAssumption DEF MaxNatives
<1>2. \A h \in Ids : /\ agent[h] = NoRecord /\ ~agent[h].here /\ agent[h].pane = None /\ agent[h].proc = None
                     /\ ~agent[h].rehitch /\ lock[h] = "free"
  BY NoRecordIs DEF Init
<1>3. \A n \in Names : names[n] = None
  BY DEF Init
<1>4. /\ panes = {} /\ gens = 0 /\ born = 0 /\ strays = {} /\ cut = {} /\ ops = 0 /\ mishaps = 0
      /\ op = Quiet /\ tick = Rest /\ ren = Rest
  BY DEF Init
<1>5. \A k \in Pids : ~native[k].alive /\ ~native[k].witnessed /\ native[k].of = None /\ native[k] \in Natives
  BY DEF Init, Natives
<1>6. Types
  <2>1. TypeOK
    BY <1>1, NoRecordIs DEF Init, TypeOK
  <2>2. native \in [Pids -> Natives]
    BY DEF Init, Natives
  <2>3. op \in Commands
    BY <1>4 DEF Quiet, Commands, Steps, Kinds
  <2>4. tick \in Ticks /\ ren \in Renames
    BY <1>4 DEF Rest, Ticks, Renames
  <2> QED  BY <1>4, <2>1, <2>2, <2>3, <2>4 DEF Types
<1>7. Holds
  <2>1. Server
    BY <1>4, <1>5 DEF Server
  <2>2. \A h \in Ids : Owning(h)
    BY <1>2, <1>4 DEF Owning
  <2>3. OneNative /\ PaneIsRecorded /\ WitnessKept
    BY <1>4, <1>5 DEF OneNative, Reachable, PaneIsRecorded, WitnessKept
  <2> QED  BY <2>1, <2>2, <2>3 DEF Holds
<1>8. Named
  BY <1>2, <1>3 DEF Named, Naming, NoForgottenNameUncut
<1>9. OpLocks /\ Others
  BY <1>2, <1>4 DEF OpLocks, Others, OtherLocks, TickControl, RenControl, Quiet, Rest, TickSteps, RenSteps,
                    Holding, Startups, Closings
<1>10. Command
  <2>1. op.pc = "none" /\ op.kind = "none" /\ op = Quiet
    BY <1>4 DEF Quiet
  <2> QED  BY <2>1 DEF Command, KindOf, First, Superseding, Ending, Starts, Registered, Emptying, Strayless,
                       Launches, LaunchKinds, Fronts, Startups, Closings
<1>11. Budget
  <2>1. Rehitching = {}
    BY <1>2 DEF Rehitching
  <2>2. IsFiniteSet(Rehitching) /\ Cardinality(Rehitching) = 0
    BY <2>1, FS_EmptySet
  <2>3. ~Carries
    BY <1>4 DEF Carries, Launches, Quiet, LaunchKinds
  <2> QED  BY <1>4, <2>2, <2>3 DEF Budget
<1> QED  BY <1>6, <1>7, <1>8, <1>9, <1>10, <1>11 DEF IInv

LEMMA StillKeeps ==
    ASSUME IInv, UNCHANGED vars
    PROVE  IInv'
<1>1. UNCHANGED <<agent, names, lock, panes, gens, born, native, op, tick, ren, ops, mishaps, strays, cut>>
  BY DEF vars
<1>2. Holds' /\ Named' /\ OpLocks' /\ Command' /\ Budget'
  <2>1. /\ UNCHANGED <<agent, names, world, op>> /\ ops' \in Nat /\ ops' >= ops
        /\ \A i \in Ids : lock'[i] = "op" <=> lock[i] = "op"
        /\ ren'.id \in {ren.id, None}
    BY <1>1, OpsGrow DEF IInv, world
  <2> QED  BY <2>1, NothingPut
<1>3. Others'
  BY <1>1 DEF IInv, Others, OtherLocks, TickControl, RenControl
<1>4. Types'
  BY <1>1 DEF IInv, Types, TypeOK
<1> QED  BY <1>2, <1>3, <1>4 DEF IInv

LEMMA LaunchKeeps ==
    ASSUME IInv, Launch
    PROVE  IInv'
<1> QED  BY SpawnFailsKeeps, CreateSessionKeeps, SpawnWindowKeeps, RegisterKeeps, WitnessServerKeeps,
            WitnessProcessKeeps, AwaitKeeps, RelockKeeps, ReleaseHoldKeeps, SaveReleasedKeeps, RemoveFailedKeeps,
            ForgetFailedKeeps DEF Launch

LEMMA OpStepKeeps ==
    ASSUME IInv, OpStep
    PROVE  IInv'
<1>1. CASE Launch
  BY <1>1, LaunchKeeps
<1>2. CASE CreateAgent \/ ClaimName \/ NameTaken \/ Supersede \/ FreeStaleName
  BY <1>2, CreateAgentKeeps, ClaimNameKeeps, NameTakenKeeps, SupersedeKeeps, FreeStaleNameKeeps
<1>3. CASE PrepareRehitch \/ SaveNext \/ PrepareStopped \/ ReportRehitch
  BY <1>3, PrepareRehitchKeeps, SaveNextKeeps, PrepareStoppedKeeps, ReportRehitchKeeps
<1>4. CASE RemoveDangling \/ DownNext \/ DownWipe \/ LockForDrop \/ Acquire
  BY <1>4, RemoveDanglingKeeps, DownNextKeeps, DownWipeKeeps, LockForDropKeeps, AcquireKeeps
<1>5. CASE RemovePane \/ StopNative \/ DropStarted \/ RemoveRenameNames \/ RemoveDirectory \/ RemoveName
  BY <1>5, RemovePaneKeeps, StopNativeKeeps, DropStartedKeeps, RemoveRenameNamesKeeps, RemoveDirectoryKeeps,
     RemoveNameKeeps
<1> QED  BY <1>1, <1>2, <1>3, <1>4, <1>5 DEF OpStep

\* Every step of a command, a tick, a rename or the world keeps the invariant.
LEMMA Inductive == IInv /\ [Next]_vars => IInv'
<1> SUFFICES ASSUME IInv, [Next]_vars PROVE IInv'
  OBVIOUS
<1>1. CASE UNCHANGED vars
  BY <1>1, StillKeeps
<1>2. ASSUME NEW h \in Ids, NEW n \in Names, NEW kind \in {"hitch", "up", "stopped"}, HitchBegin(kind, h, n)
      PROVE  IInv'
  BY <1>2, HitchBeginKeeps
<1>3. CASE (\E n \in Names : DropBegin(n)) \/ DownBegin \/ PreflightFails \/ SpawnErrs \/ RegisterFails \/ Interrupted
  BY <1>3, DropBeginKeeps, DownBeginKeeps, PreflightFailsKeeps, SpawnErrsKeeps, RegisterFailsKeeps, AwaitKeeps
<1>4. CASE \E h \in Ids, n \in Names : RenameBegin(h, n)
  BY <1>4, RenameBeginKeeps
<1>5. CASE \E h \in Ids : RequestRehitch(h) \/ TickBegin(h) \/ ReopenBoot(h) \/ DeadlinePasses(h)
  BY <1>5, RequestRehitchKeeps, TickBeginKeeps, ReopenBootKeeps, DeadlinePassesKeeps
<1>6. CASE OpStep
  BY <1>6, OpStepKeeps
<1>7. CASE RenStep
  BY <1>7, RenameIntentKeeps, RenameClaimKeeps, RenameNameKeeps, RenameFreeKeeps, RenameClearKeeps DEF RenStep
<1>8. CASE TickStep
  BY <1>8, TickObserveKeeps, TickReleaseKeeps, TickReadyKeeps, RehitchPendingKeeps DEF TickStep
<1>9. CASE \E k \in Pids : NativeExits(k) \/ \E s \in {"prompt", "ready"} : Shows(k, s)
  BY <1>9, NativeExitsKeeps, ShowsKeeps
<1>10. CASE (\E kept \in SUBSET Pids : ServerDies(kept)) \/ \E who \in {"op", "tick", "ren"} : Crash(who)
  BY <1>10, ServerDiesKeeps, CrashKeeps
<1> QED  BY <1>1, <1>2, <1>3, <1>4, <1>5, <1>6, <1>7, <1>8, <1>9, <1>10 DEF Next

LEMMA Always == Spec => []IInv
<1> QED  BY Initial, Inductive, PTL DEF Spec

-----------------------------------------------------------------------------
(* What it promises.                                                         *)

\* One agent never has two native processes at once: a restart (rehitch.go,
\* rehitch_stopped.go) starts the next one only after the previous one ended,
\* whatever crash or exit came between its writes.
THEOREM OneProcess == Spec => []OneNative
<1>1. IInv => OneNative
  BY DEF IInv, Holds
<1> QED  BY <1>1, Always, PTL

\* A pane is in the record of its agent from registration on, a saved process is
\* named by its record while it lives, and a name leads to a record that knows
\* it unless a restart or `up` cut its rename short, whatever is killed between
\* two writes (hitches.go:514, store.go:230).
THEOREM RecordsLead == Spec => []RecordsHold
<1>1. IInv => RecordsHold
  BY DEF IInv, Types, Holds, Named, RecordsHold
<1> QED  BY <1>1, Always, PTL

\* What a failed launch or a drop removes is its own agent's pane.
LEMMA OnlyOwnPanes ==
    ASSUME IInv, Next, op.pc \in {"register", "remove", "remove_pane"}, op' # op, NEW p \in panes, p \notin panes'
    PROVE  native[p.pid].of = op.id
<1>1. CASE RemoveFailed
  <2>1. op.pc = "remove" /\ p.id = op.pane
    BY <1>1 DEF RemoveFailed, Without
  <2>2. p.pid = op.pid /\ native[op.pid].of = op.id
    BY <2>1 DEF IInv, Command, Registered
  <2> QED  BY <2>2
<1>2. CASE RemovePane
  <2>1. op.pc = "remove_pane" /\ p.id = op.pane
    BY <1>2 DEF RemovePane, Without
  <2>2. op.id \in Ids /\ op.pane = agent[op.id].pane
    BY <2>1, OpFacts DEF IInv, Command, Ending
  <2> QED  BY <2>1, <2>2 DEF IInv, Holds, Owning
<1>3. CASE (\E h \in Ids, n \in Names, kind \in {"hitch", "up", "stopped"} : HitchBegin(kind, h, n))
           \/ (\E n \in Names : DropBegin(n)) \/ DownBegin \/ PreflightFails \/ SpawnErrs \/ Interrupted
  BY <1>3 DEF HitchBegin, DropBegin, DownBegin, PreflightFails, SpawnErrs, Interrupted
<1>11. CASE RegisterFails
  <2>1. op.pc = "register" /\ p.id = op.pane
    BY <1>11 DEF RegisterFails, Without
  <2>2. p.pid = op.pid /\ native[op.pid].of = op.id
    BY <2>1 DEF IInv, Command, Registered
  <2> QED  BY <2>2
<1>4. CASE (\E h \in Ids, n \in Names : RenameBegin(h, n)) \/ RenStep
           \/ \E h \in Ids : RequestRehitch(h) \/ TickBegin(h) \/ ReopenBoot(h) \/ DeadlinePasses(h)
  BY <1>4 DEF RenameBegin, RenStep, RenameIntent, RenameClaim, RenameName, RenameFree, RenameClear,
              RequestRehitch, TickBegin, ReopenBoot, DeadlinePasses
<1>5. CASE TickStep
  BY <1>5 DEF TickStep, TickObserve, TickRelease, TickReady, RehitchPending
<1>6. CASE (\E k \in Pids : NativeExits(k) \/ \E s \in {"prompt", "ready"} : Shows(k, s))
           \/ \E kept \in SUBSET Pids : ServerDies(kept)
  BY <1>6 DEF NativeExits, Shows, ServerDies
<1>7. CASE \E who \in {"op", "tick", "ren"} : Crash(who)
  BY <1>7 DEF Crash
<1>8. CASE SpawnFails \/ CreateSession \/ SpawnWindow \/ Register
  BY <1>8 DEF SpawnFails, CreateSession, SpawnWindow, Register, world
<1>12. CASE WitnessServer \/ WitnessProcess \/ AwaitExit \/ AwaitPrompt \/ AwaitNothing
            \/ AwaitReady \/ Relock \/ ReleaseHold \/ SaveReleased \/ ForgetFailed
  BY <1>12 DEF WitnessServer, WitnessProcess, AwaitExit, AwaitPrompt, AwaitNothing, AwaitReady, Relock,
               ReleaseHold, SaveReleased, ForgetFailed, world
<1>9. CASE CreateAgent \/ ClaimName \/ NameTaken \/ Supersede \/ FreeStaleName \/ PrepareRehitch \/ SaveNext
           \/ PrepareStopped \/ ReportRehitch
  BY <1>9 DEF CreateAgent, ClaimName, NameTaken, Supersede, FreeStaleName, PrepareRehitch, SaveNext,
              PrepareStopped, ReportRehitch
<1>10. CASE RemoveDangling \/ DownNext \/ DownWipe \/ LockForDrop \/ Acquire \/ StopNative \/ DropStarted
            \/ RemoveRenameNames \/ RemoveDirectory \/ RemoveName
  BY <1>10 DEF RemoveDangling, DownNext, DownWipe, LockForDrop, Acquire, StopNative, DropStarted,
               RemoveRenameNames, RemoveDirectory, RemoveName
<1> QED  BY <1>1, <1>2, <1>3, <1>4, <1>5, <1>6, <1>7, <1>8, <1>9, <1>10, <1>11, <1>12 DEF Next, OpStep, Launch

\* A launch found no pane whose process no record will ever name.
LEMMA NoneBeside ==
    ASSUME IInv, Next, born' # born, NEW p \in panes, p.pid \in strays
    PROVE  ~native[p.pid].alive
<1>1. CASE CreateSession \/ SpawnWindow \/ SpawnErrs
  <2>1. op.pc = "spawn"
    BY <1>1 DEF CreateSession, SpawnWindow, SpawnErrs
  <2>2. Launches
    BY <2>1 DEF IInv, Command, KindOf, Launches
  <2> QED  BY <2>2 DEF IInv, Command, Strayless
<1>2. CASE (\E h \in Ids, n \in Names, kind \in {"hitch", "up", "stopped"} : HitchBegin(kind, h, n))
           \/ (\E n \in Names : DropBegin(n)) \/ DownBegin \/ PreflightFails \/ RegisterFails \/ Interrupted
  BY <1>2 DEF HitchBegin, DropBegin, DownBegin, PreflightFails, RegisterFails, Interrupted, world
<1>3. CASE (\E h \in Ids, n \in Names : RenameBegin(h, n)) \/ RenStep
           \/ \E h \in Ids : RequestRehitch(h) \/ TickBegin(h) \/ ReopenBoot(h) \/ DeadlinePasses(h)
  BY <1>3 DEF RenameBegin, RenStep, RenameIntent, RenameClaim, RenameName, RenameFree, RenameClear,
              RequestRehitch, TickBegin, ReopenBoot, DeadlinePasses, world
<1>4. CASE TickStep
  BY <1>4 DEF TickStep, TickObserve, TickRelease, TickReady, RehitchPending, world
<1>5. CASE (\E k \in Pids : NativeExits(k) \/ \E s \in {"prompt", "ready"} : Shows(k, s))
           \/ (\E kept \in SUBSET Pids : ServerDies(kept)) \/ \E who \in {"op", "tick", "ren"} : Crash(who)
  BY <1>5 DEF NativeExits, Shows, ServerDies, Crash
<1>6. CASE SpawnFails \/ Register \/ WitnessServer \/ WitnessProcess
           \/ AwaitExit \/ AwaitPrompt \/ AwaitNothing \/ AwaitReady \/ Relock \/ ReleaseHold \/ SaveReleased
           \/ RemoveFailed \/ ForgetFailed
  BY <1>6 DEF SpawnFails, Register, WitnessServer, WitnessProcess, AwaitExit, AwaitPrompt, AwaitNothing,
              AwaitReady, Relock, ReleaseHold, SaveReleased, RemoveFailed, ForgetFailed, world
<1>7. CASE CreateAgent \/ ClaimName \/ NameTaken \/ Supersede \/ FreeStaleName \/ PrepareRehitch \/ SaveNext
           \/ PrepareStopped \/ ReportRehitch
  BY <1>7 DEF CreateAgent, ClaimName, NameTaken, Supersede, FreeStaleName, PrepareRehitch, SaveNext,
              PrepareStopped, ReportRehitch, world
<1>8. CASE RemoveDangling \/ DownNext \/ DownWipe \/ LockForDrop \/ Acquire \/ RemovePane \/ StopNative
           \/ DropStarted \/ RemoveRenameNames \/ RemoveDirectory \/ RemoveName
  BY <1>8 DEF RemoveDangling, DownNext, DownWipe, LockForDrop, Acquire, RemovePane, StopNative, DropStarted,
              RemoveRenameNames, RemoveDirectory, RemoveName, world
<1> QED  BY <1>1, <1>2, <1>3, <1>4, <1>5, <1>6, <1>7, <1>8 DEF Next, OpStep, Launch

\* A command removes no pane but its own agent's, though a new tmux server
\* reuses the numbers of the old one, and adds none to a session where a native
\* runs in a pane no record will ever name (registration.go:263,
\* hitches.go:299).
THEOREM PanesAreOwn == Spec => OwnPanesOnly
<1> DEFINE Removes == op.pc \in {"register", "remove", "remove_pane"} /\ op' # op
                          => \A p \in panes \ panes' : native[p.pid].of = op.id
           Adds    == born' # born => \A p \in panes : p.pid \in strays => ~native[p.pid].alive
<1>1. IInv /\ [Next]_vars => [Removes]_vars
  BY OnlyOwnPanes
<1>2. IInv /\ [Next]_vars => [Adds]_vars
  BY NoneBeside
<1>3. Spec => [][Removes]_vars /\ [][Adds]_vars
  BY <1>1, <1>2, Always, PTL DEF Spec
<1> QED  BY <1>3 DEF OwnPanesOnly, OwnPaneOnly, NoPaneBesideStray

=============================================================================
