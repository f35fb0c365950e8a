--------------------------- MODULE TeamIdleProofs ---------------------------
(***************************************************************************)
(* Theorems about TeamIdle, for any number of workers, sweeps, messages,   *)
(* notices, turns, leads and crashes.  IInv joins what the ledger, the     *)
(* latch, the window and the lead's inbox say of each other; it is         *)
(* inductive, and every property of the runs follows from it.              *)
(***************************************************************************)
EXTENDS TeamIdle, FiniteSetTheorems, TLAPS

USE MsgsAssumption, VerdictsAssumption, BoundsAssumption
USE DEF people, native, inbox, ledger, latch, intent, delivery, history, Notices

Sent(w) == {m \in Msgs : to[m] = w /\ place[m] # "unsent"}

\* Nothing is left of a dropped worker, and nothing awaits one that never joined.
Absent ==
  /\ members \cap gone = {}
  /\ \A w \in Workers \ members : turn[w] = "idle" /\ hooks[w] = {} /\ activity[w] = "idle"
  /\ \A w \in Workers \ (members \cup gone) : work[w] = 0 /\ Sent(w) = {}
  /\ \A m \in Msgs : place[m] \in {"new", "filed"} => to[m] \in members

\* The notice in the composer was reserved, and one settled there has an outcome.
Composed ==
  /\ input = 0 <=> stage = "none"
  /\ input <= notice
  /\ stage = "settled" /\ input = notice => outcome # "none"

\* Only a notice in the composer, or one with an outcome, was ever pasted.
Unpasted ==
  /\ pasted \in [Notices -> Seq(1..MaxLeads)]
  /\ \A n \in Notices :
       /\ n > notice => pasted[n] = <<>> /\ env[n] = "none"
       /\ input # n /\ (env[n] = "new" \/ (n = notice /\ outcome = "none")) => pasted[n] = <<>>

\* Evidence of work is evidence of a turn since the last notice.
Active ==
  /\ \A w \in Workers :
       turn[w] # "idle" \/ "start" \in hooks[w] \/ activity[w] = "busy" => w \in worked
  /\ armed => worked \cap known.members # {}

\* The window still shows what has happened to each worker since it began.
Shown(w) ==
  window.open /\ w \in window.members =>
    /\ window.work[w] <= Counted[w]
    /\ ~window.moved /\ w \in touched => hooks[w] # {} \/ window.work[w] < Counted[w]

Watched ==
  /\ touched \subseteq Workers /\ window.members \subseteq members \cup gone
  /\ \A w \in members : Shown(w)

IInv == TypeOK /\ Absent /\ CountedOnce /\ Composed /\ Unpasted /\ NoticeOnce /\ Active /\ Watched

-----------------------------------------------------------------------------
(* The ledger.                                                             *)

LEMMA SentFinite ==
  ASSUME NEW w \in Workers
  PROVE  IsFiniteSet(Sent(w)) /\ Cardinality(Sent(w)) \in 0..Cardinality(Msgs)
<1>1. Sent(w) \subseteq Msgs
  BY DEF Sent
<1>2. IsFiniteSet(Sent(w)) /\ Cardinality(Sent(w)) <= Cardinality(Msgs)
  BY <1>1, FS_Subset
<1>3. Cardinality(Sent(w)) \in Nat
  BY <1>2, FS_CardinalityType
<1>4. Cardinality(Msgs) \in Nat
  BY FS_CardinalityType
<1> QED
  BY <1>2, <1>3, <1>4

LEMMA CountedType ==
  ASSUME TypeOK, CountedOnce
  PROVE  Counted \in Counts
<1>1. \A w \in members : Counted[w] = Cardinality(Sent(w))
  BY DEF CountedOnce, Sent
<1>2. \A w \in Workers \ members : Counted[w] = 0
  BY DEF Counted
<1>3. Cardinality(Msgs) \in Nat
  BY FS_CardinalityType
<1>4. \A w \in Workers : Counted[w] \in 0..Cardinality(Msgs)
  BY <1>1, <1>2, <1>3, SentFinite
<1> QED
  BY <1>4 DEF Counts, Counted

\* To read the ledger changes no count.
LEMMA ReadKeeps ==
  ASSUME TypeOK, Read, members' = members, to' = to,
         \A m \in Msgs : place[m] # "unsent" <=> place'[m] # "unsent"
  PROVE  /\ Counted' = Counted
         /\ \A w : Sent(w)' = Sent(w)
<1>1. ~Linked(NoMsg)'
  BY DEF Linked
<1>2. Counted' = Counted
  BY <1>1 DEF Read, Counted
<1> QED
  BY <1>2 DEF Sent

LEMMA StillKeeps ==
  ASSUME UNCHANGED <<members, to, place, pending, work>>
  PROVE  /\ Counted' = Counted
         /\ \A w : Sent(w)' = Sent(w)
BY DEF Counted, Linked, Sent

\* A publication that dies before its link counts for nothing; one that is
\* linked counts for one.
LEMMA PublishCounts ==
  ASSUME TypeOK, CountedOnce, NEW m \in Msgs, Publish(m)
  PROVE  \/ Counted' = Counted /\ \A w : Sent(w)' = Sent(w)
         \/ /\ Counted' = [Counted EXCEPT ![to[m]] = @ + 1]
            /\ \A w : Sent(w)' = IF w = to[m] THEN Sent(w) \cup {m} ELSE Sent(w)
            /\ m \notin Sent(to[m])
<1> USE DEF TypeOK
<1>1. CASE UNCHANGED place
  <2>1. ~Linked(m)'
    BY <1>1 DEF Publish, Linked
  <2>2. Counted' = Counted
    BY <1>1, <2>1 DEF Publish, Counted
  <2> QED
    BY <1>1, <2>2 DEF Publish, Sent
<1>2. CASE place' = [place EXCEPT ![m] = "new"]
  <2>1. Linked(m)'
    BY <1>2 DEF Publish, Linked
  <2>2. Counted' = [w \in Workers |-> IF w \notin members THEN 0
                                      ELSE IF to[m] = w THEN Counted[w] + 1 ELSE Counted[w]]
    BY <1>2, <2>1 DEF Publish, Counted
  <2>3. Counted' = [Counted EXCEPT ![to[m]] = @ + 1]
    <3>1. Counted = [w \in Workers |-> Counted[w]] /\ \A w \in Workers \ members : Counted[w] = 0
      BY DEF Counted
    <3>2. to[m] \in members
      BY DEF Publish
    <3> QED
      BY <2>2, <3>1, <3>2
  <2>4. \A w : Sent(w)' = IF w = to[m] THEN Sent(w) \cup {m} ELSE Sent(w)
    BY <1>2 DEF Publish, Sent
  <2>5. m \notin Sent(to[m])
    BY DEF Publish, Sent
  <2> QED
    BY <2>3, <2>4, <2>5
<1> QED
  BY <1>1, <1>2 DEF Publish

\* What is read of the others does not change when a worker leaves.
LEMMA DropCounts ==
  ASSUME TypeOK, NEW w \in Workers, Drop(w)
  PROVE  \A v \in members' : Counted'[v] = Counted[v] /\ Sent(v)' = Sent(v)
<1> USE DEF TypeOK, Drop
<1>1. \A v \in members' : v \in members /\ v # w
  OBVIOUS
<1>2. \A v \in members' : Sent(v)' = Sent(v)
  BY <1>1 DEF Sent
<1>3. ASSUME NEW v \in members' PROVE Linked(pending)' /\ to'[pending'] = v <=> Linked(pending) /\ to[pending] = v
  BY <1>1, <1>3 DEF Linked
<1>4. ASSUME NEW v \in members' PROVE Counted'[v] = Counted[v]
  BY <1>1, <1>3, <1>4 DEF Counted
<1> QED
  BY <1>2, <1>4

LEMMA JoinCounts ==
  ASSUME TypeOK, Absent, NEW w \in Workers, Join(w)
  PROVE  /\ \A v \in members : Counted'[v] = Counted[v]
         /\ Counted'[w] = 0 /\ Sent(w) = {}
         /\ \A v : Sent(v)' = Sent(v)
<1> USE DEF TypeOK, Join
<1>1. Sent(w) = {} /\ work[w] = 0
  BY DEF Absent
<1>2. \A v : Sent(v)' = Sent(v)
  BY DEF Sent
<1>3. ASSUME pending \in Msgs, to[pending] = w PROVE place[pending] = "unsent"
  BY <1>1, <1>3 DEF Sent
<1>4. Counted'[w] = 0
  BY <1>1, <1>3 DEF Counted, Linked
<1>5. ASSUME NEW v \in members PROVE Counted'[v] = Counted[v]
  BY DEF Counted, Linked
<1> QED
  BY <1>1, <1>2, <1>4, <1>5

\* Every other step reads the ledger or leaves it alone.
Quietly == Counted' = Counted /\ \A w : Sent(w)' = Sent(w)

LEMMA CountsKept ==
  ASSUME TypeOK, [Next]_vars
  PROVE  \/ Quietly /\ UNCHANGED members
         \/ \E m \in Msgs : Publish(m)
         \/ \E w \in Workers : Join(w) \/ Drop(w)
<1> USE DEF Quietly
<1>1. CASE UNCHANGED vars
  BY <1>1, StillKeeps DEF vars
<1>2. ASSUME NEW m \in Msgs, Remove(m) PROVE Quietly /\ UNCHANGED members
  <2>1. \A k \in Msgs : place[k] # "unsent" <=> place'[k] # "unsent"
    BY <1>2 DEF Remove, TypeOK
  <2> QED
    BY <1>2, <2>1, ReadKeeps DEF Remove
<1>3. ASSUME NEW m \in Msgs, Deliver(m) PROVE Quietly /\ UNCHANGED members
  <2>1. \A k \in Msgs : place[k] # "unsent" <=> place'[k] # "unsent"
    BY <1>3 DEF Deliver, TypeOK
  <2> QED
    BY <1>3, <2>1, ReadKeeps DEF Deliver
<1>4. ASSUME NEW w \in Workers, Open(w) \/ HookOpens(w) \/ HookCloses(w) PROVE Quietly /\ UNCHANGED members
  BY <1>4, StillKeeps DEF Open, HookOpens, HookCloses
<1>5. ASSUME NEW w \in Workers, Reconcile(w) PROVE Quietly /\ UNCHANGED members
  BY <1>5, StillKeeps, ReadKeeps DEF Reconcile
<1>6. ASSUME NEW p \in Sweeps, StartSweep(p) \/ Evaluate(p) PROVE Quietly /\ UNCHANGED members
  BY <1>6, ReadKeeps DEF StartSweep, Evaluate
<1>7. ASSUME NEW p \in Sweeps, GiveUp(p) \/ Flush(p) PROVE Quietly /\ UNCHANGED members
  BY <1>7, StillKeeps DEF GiveUp, Flush
<1>8. CASE Age \/ ChangeLead
  BY <1>8, StillKeeps DEF Age, ChangeLead
<1>9. CASE Lead
  BY <1>9, StillKeeps DEF Lead, Settle, File, LateProof, Retire, Paste, Prune
<1> QED
  BY <1>1, <1>2, <1>3, <1>4, <1>5, <1>6, <1>7, <1>8, <1>9 DEF Next, HookTick, Observe

LEMMA LedgerStep ==
  ASSUME TypeOK, Absent, CountedOnce, [Next]_vars
  PROVE  CountedOnce'
<1> DEFINE Right(w) == Counted[w] = Cardinality(Sent(w))
<1>1. CountedOnce <=> \A w \in members : Right(w)
  BY DEF CountedOnce, Sent
<1>2. CountedOnce' <=> \A w \in members' : Right(w)'
  BY DEF CountedOnce, Sent
<1>3. CASE Quietly /\ UNCHANGED members
  BY <1>1, <1>2, <1>3 DEF Quietly
<1>4. ASSUME NEW m \in Msgs, Publish(m) PROVE \A w \in members' : Right(w)'
  <2>1. members' = members /\ to[m] \in Workers
    BY <1>4 DEF Publish, TypeOK
  <2>2. CASE Counted' = Counted /\ \A w : Sent(w)' = Sent(w)
    BY <1>1, <2>1, <2>2
  <2>3. CASE /\ Counted' = [Counted EXCEPT ![to[m]] = @ + 1]
             /\ \A w : Sent(w)' = IF w = to[m] THEN Sent(w) \cup {m} ELSE Sent(w)
             /\ m \notin Sent(to[m])
    <3>1. Cardinality(Sent(to[m]) \cup {m}) = Cardinality(Sent(to[m])) + 1
      BY <2>1, <2>3, SentFinite, FS_AddElement
    <3>2. ASSUME NEW w \in members PROVE Counted'[w] = Cardinality(Sent(w)')
      <4>1. Counted \in Counts
        BY CountedType
      <4>2. CASE w = to[m]
        BY <1>1, <2>1, <2>3, <3>1, <4>1, <4>2 DEF Counts
      <4>3. CASE w # to[m]
        BY <1>1, <2>1, <2>3, <4>1, <4>3 DEF Counts
      <4> QED
        BY <4>2, <4>3
    <3> QED
      BY <2>1, <3>2
  <2> QED
    BY <1>4, <2>2, <2>3, PublishCounts
<1>5. ASSUME NEW w \in Workers, Join(w) PROVE \A v \in members' : Right(v)'
  BY <1>1, <1>5, JoinCounts, FS_EmptySet DEF Join
<1>6. ASSUME NEW w \in Workers, Drop(w) PROVE \A v \in members' : Right(v)'
  BY <1>1, <1>6, DropCounts DEF Drop
<1> QED
  BY <1>2, <1>3, <1>4, <1>5, <1>6, CountsKept

-----------------------------------------------------------------------------
(* Types.                                                                  *)

LEMMA CountedFits ==
  ASSUME IInv
  PROVE  Counted \in Counts /\ Counted = [w \in Workers |-> Counted[w]]
BY CountedType DEF IInv, Counted

\* The steps of the ledger, of the workers and of the lead.
LEMMA LedgerTypes ==
  ASSUME IInv, NEW m \in Msgs, Publish(m) \/ Remove(m) \/ Deliver(m)
  PROVE  TypeOK'
<1> USE DEF IInv, TypeOK
<1>1. Counted \in Counts
  BY CountedFits
<1>2. CASE Publish(m)
  BY <1>1, <1>2, SMTT(30) DEF Publish
<1>3. CASE Remove(m)
  BY <1>1, <1>3 DEF Remove, Read
<1>4. CASE Deliver(m)
  BY <1>1, <1>4 DEF Deliver, Read
<1> QED
  BY <1>2, <1>3, <1>4

LEMMA WorkerTypes ==
  ASSUME TypeOK, NEW w \in Workers, Join(w) \/ Drop(w) \/ Open(w) \/ HookOpens(w) \/ HookCloses(w)
  PROVE  TypeOK'
<1> USE DEF TypeOK
<1>1. CASE Join(w)
  BY <1>1 DEF Join
<1>2. CASE Drop(w)
  BY <1>2 DEF Drop
<1>3. CASE Open(w)
  BY <1>3 DEF Open
<1>4. CASE HookOpens(w)
  BY <1>4 DEF HookOpens
<1>5. CASE HookCloses(w)
  BY <1>5 DEF HookCloses
<1> QED
  BY <1>1, <1>2, <1>3, <1>4, <1>5

LEMMA LeadTypes ==
  ASSUME TypeOK, Composed, Lead \/ ChangeLead
  PROVE  TypeOK'
<1> USE DEF TypeOK
<1>1. CASE ChangeLead
  BY <1>1 DEF ChangeLead
<1>2. CASE Settle \/ File \/ LateProof
  BY <1>2, SMTT(30) DEF Settle, File, LateProof
<1>3. ASSUME NEW n \in Notices, Retire(n) \/ Paste(n) \/ Prune(n)
      PROVE  TypeOK'
  <2>1. CASE Retire(n)
    BY <2>1 DEF Retire
  <2>2. CASE Paste(n)
    BY <2>2 DEF Paste
  <2>3. CASE Prune(n)
    BY <2>3 DEF Prune
  <2> QED
    BY <1>3, <2>1, <2>2, <2>3
<1> QED
  BY <1>1, <1>2, <1>3 DEF Lead

Windows == [open : BOOLEAN, old : BOOLEAN, lead : 0..MaxLeads, members : SUBSET Workers,
            work : Counts, moved : BOOLEAN]

LEMMA NoneCounts == None \in Counts
BY FS_CardinalityType DEF None, Counts

LEMMA WindowTypes ==
  ASSUME IInv
  PROVE  NoWindow \in Windows /\ NewWindow \in Windows
BY CountedFits, NoneCounts DEF IInv, TypeOK, NoWindow, NewWindow, Windows


Tasks == [on : {"no", "observe", "flush"}, lead : 0..MaxLeads, members : SUBSET Workers,
          work : Counts, observed : SUBSET Workers]

LEMMA ReconcileTypes ==
  ASSUME IInv, NEW w \in Workers, Reconcile(w), sweep' \in [Sweeps -> Tasks]
  PROVE  TypeOK'
<1> USE DEF IInv, TypeOK
<1>1. Counted \in Counts
  BY CountedFits
<1>2. pending' \in Msgs \cup {NoMsg} /\ work' \in Counts
  BY <1>1 DEF Reconcile, Read
<1>3. window' \in Windows
  <2>1. window \in Windows
    BY DEF Windows
  <2>2. [window EXCEPT !.moved = TRUE] \in Windows
    BY <2>1 DEF Windows
  <2> QED
    BY <2>1, <2>2, WindowTypes DEF Reconcile
<1>4. armed' \in BOOLEAN
  BY DEF Reconcile, Arms
<1>5. hooks' \in [Workers -> SUBSET {"start", "late", "end"}] /\ activity' \in [Workers -> {"idle", "busy"}]
  BY SMTT(30), ZenonT(40) DEF Reconcile
<1>6. TypeOK /\ UNCHANGED <<people, turn, early, turns, inbox, known, intent, delivery>>
  BY DEF Reconcile
<1> HIDE DEF IInv
<1> QED
  BY <1>2, <1>3, <1>4, <1>5, <1>6 DEF Windows, Tasks

LEMMA TaskTypes ==
  ASSUME NEW t \in Tasks, NEW w \in Workers
  PROVE  [t EXCEPT !.observed = @ \cup {w}] \in Tasks
BY DEF Tasks

LEMMA SweepTypes ==
  ASSUME IInv, NEW p \in Sweeps,
         StartSweep(p) \/ GiveUp(p) \/ Flush(p) \/ \E w \in Workers : Observe(p, w)
  PROVE  TypeOK'
<1> USE DEF IInv, TypeOK
<1>1. sweep \in [Sweeps -> Tasks] /\ NoSweep \in Tasks
  BY NoneCounts DEF Tasks, NoSweep
<1>2. CASE StartSweep(p)
  <2>1. Counted \in Counts
    BY CountedFits
  <2>2. sweep' \in [Sweeps -> Tasks]
    BY <1>1, <1>2, <2>1 DEF StartSweep, Tasks
  <2>3. work' \in Counts /\ pending' = NoMsg
    BY <1>2, <2>1 DEF StartSweep, Read
  <2> QED
    BY <1>2, <2>2, <2>3 DEF StartSweep, Tasks
<1>3. CASE GiveUp(p)
  <2>1. [sweep[p] EXCEPT !.on = "flush"] \in Tasks
    <3>1. sweep[p] \in Tasks
      BY <1>1
    <3> QED
      BY <3>1 DEF Tasks
  <2>2. sweep' \in [Sweeps -> Tasks]
    BY <1>1, <1>3, <2>1, ZenonT(40) DEF GiveUp
  <2> QED
    BY <1>3, <2>2 DEF GiveUp, Tasks
<1>4. CASE Flush(p)
  <2>1. sweep' \in [Sweeps -> Tasks]
    BY <1>1, <1>4 DEF Flush
  <2>2. env' \in [Notices -> {"none", "new", "filed", "gone"}]
    BY <1>4 DEF Flush
  <2> QED
    BY <1>4, <2>1, <2>2 DEF Flush, Tasks
<1>5. ASSUME NEW w \in Workers, Observe(p, w) PROVE TypeOK'
  <2>1. [sweep[p] EXCEPT !.observed = @ \cup {w}] \in Tasks
    <3>1. sweep[p] \in Tasks
      BY <1>1
    <3> QED
      BY <3>1, TaskTypes
  <2>2. sweep' \in [Sweeps -> Tasks]
    BY <1>1, <1>5, <2>1 DEF Observe
  <2> QED
    BY <1>5, <2>2, ReconcileTypes DEF Observe
<1> QED
  BY <1>2, <1>3, <1>4, <1>5

LEMMA EvaluateTypes ==
  ASSUME IInv, NEW p \in Sweeps, Evaluate(p)
  PROVE  TypeOK'
<1> USE DEF IInv, TypeOK
<1>1. sweep \in [Sweeps -> Tasks] /\ NoSweep \in Tasks
  BY NoneCounts DEF Tasks, NoSweep
<1>2. sweep' \in [Sweeps -> Tasks]
  BY <1>1 DEF Evaluate, Tasks
<1>3. work' \in Counts /\ pending' = NoMsg
  BY CountedFits DEF Evaluate, Read
<1>4. known' \in [lead : 0..MaxLeads, members : SUBSET Workers]
  BY DEF Evaluate
<1>5. window \in Windows
  BY DEF Windows
<1>6. window' \in Windows
  BY <1>5, WindowTypes DEF Evaluate, KeepWaiting, Reserve, SaveWindow
<1>7. armed' \in BOOLEAN
  BY DEF Evaluate, KeepWaiting, Reserve, Latched
<1>8. notice' \in 0..MaxNotices /\ bound' \in [Notices -> 0..MaxLeads] /\ early' \subseteq Workers
  <2>1. CASE UNCHANGED <<intent, early>>
    BY <2>1
  <2>2. CASE Reserve
    <3>1. notice' = notice + 1 /\ notice < MaxNotices /\ bound' = [bound EXCEPT ![notice'] = lead]
      BY <2>2 DEF Reserve
    <3>2. notice' \in 0..MaxNotices
      BY <3>1
    <3>3. bound' \in [Notices -> 0..MaxLeads]
      BY <3>1
    <3>4. early' \subseteq Workers
      BY <2>2 DEF Reserve
    <3> QED
      BY <3>2, <3>3, <3>4
  <2> QED
    BY <2>1, <2>2 DEF Evaluate, KeepWaiting
<1>9. TypeOK /\ UNCHANGED <<people, turn, hooks, turns, activity, inbox, delivery>>
  BY DEF Evaluate
<1> HIDE DEF IInv
<1> QED
  BY <1>2, <1>3, <1>4, <1>6, <1>7, <1>8, <1>9 DEF Windows, Tasks

LEMMA TypeStep ==
  ASSUME IInv, [Next]_vars
  PROVE  TypeOK'
<1>1. CASE UNCHANGED vars
  BY <1>1 DEF vars, IInv, TypeOK
<1>2. ASSUME NEW m \in Msgs, Publish(m) \/ Remove(m) \/ Deliver(m) PROVE TypeOK'
  BY <1>2, LedgerTypes
<1>3. ASSUME NEW w \in Workers, Join(w) \/ Drop(w) \/ Open(w) \/ HookOpens(w) \/ HookCloses(w) PROVE TypeOK'
  BY <1>3, WorkerTypes DEF IInv
<1>4. ASSUME NEW w \in Workers, HookTick(w) PROVE TypeOK'
  <2>1. sweep' \in [Sweeps -> Tasks]
    BY <1>4 DEF HookTick, IInv, TypeOK, Tasks
  <2> QED
    BY <1>4, <2>1, ReconcileTypes DEF HookTick
<1>5. ASSUME NEW p \in Sweeps,
             StartSweep(p) \/ GiveUp(p) \/ Flush(p) \/ \E w \in Workers : Observe(p, w)
      PROVE  TypeOK'
  BY <1>5, SweepTypes
<1>6. ASSUME NEW p \in Sweeps, Evaluate(p) PROVE TypeOK'
  BY <1>6, EvaluateTypes
<1>7. CASE Age
  <2>1. window' \in Windows
    BY <1>7 DEF Age, IInv, TypeOK, Windows
  <2> QED
    BY <1>7, <2>1 DEF Age, IInv, TypeOK, Windows
<1>8. CASE Lead \/ ChangeLead
  BY <1>8, LeadTypes DEF IInv
<1> QED
  BY <1>1, <1>2, <1>3, <1>4, <1>5, <1>6, <1>7, <1>8 DEF Next

-----------------------------------------------------------------------------
(* Workers that are not there.                                             *)

LEMMA AbsentAlone ==
  ASSUME Absent, UNCHANGED <<members, gone, turn, hooks, activity, work, to, place>>
  PROVE  Absent'
BY DEF Absent, Sent

LEMMA AbsentStep ==
  ASSUME IInv, [Next]_vars
  PROVE  Absent'
<1> USE DEF Absent
<1>1. TypeOK /\ Absent
  BY DEF IInv
<1>2. CASE UNCHANGED vars
  BY <1>1, <1>2, AbsentAlone DEF vars
<1>3. ASSUME NEW m \in Msgs, Publish(m) PROVE Absent'
  <2>1. to[m] \in members /\ UNCHANGED <<people, native, activity, to>> /\ work' = Counted
    BY <1>3 DEF Publish
  <2>2. \A w \in Workers \ members : Sent(w)' = Sent(w)
    BY <1>1, <1>3, <2>1, PublishCounts DEF IInv
  <2>3. \A w \in Workers \ members : work'[w] = 0
    BY <2>1 DEF Counted
  <2>4. \A k \in Msgs : place'[k] \in {"new", "filed"} => to'[k] \in members'
    BY <1>1, <1>3, <2>1 DEF Publish, TypeOK
  <2> QED
    BY <1>1, <2>1, <2>2, <2>3, <2>4
<1>4. ASSUME NEW m \in Msgs, Remove(m) \/ Deliver(m) PROVE Absent'
  <2>1. to[m] \in members
    BY <1>1, <1>4 DEF Remove, Deliver
  <2>2. \A w \in Workers : Sent(w)' = Sent(w)
    BY <1>1, <1>4 DEF Remove, Deliver, Sent, TypeOK
  <2>3. \A w \in Workers \ members : work'[w] = 0
    BY <1>4 DEF Remove, Deliver, Read, Counted
  <2>4. \A k \in Msgs : place'[k] \in {"new", "filed"} => to'[k] \in members
    BY <1>1, <1>4 DEF Remove, Deliver, TypeOK
  <2>5. \A w \in Workers \ members : turn'[w] = "idle" /\ hooks'[w] = {} /\ activity'[w] = "idle"
    BY <1>1, <1>4, <2>1 DEF Remove, Deliver, TypeOK
  <2>6. UNCHANGED people
    BY <1>4 DEF Remove, Deliver
  <2> QED
    BY <1>1, <2>2, <2>3, <2>4, <2>5, <2>6
<1>5. ASSUME NEW w \in Workers, Join(w) PROVE Absent'
  BY <1>1, <1>5, JoinCounts DEF Join
<1>6. ASSUME NEW w \in Workers, Drop(w) PROVE Absent'
  <2>1. \A v \in Workers \ (members' \cup gone') : work'[v] = 0 /\ Sent(v)' = {}
    BY <1>1, <1>6 DEF Drop, Sent, TypeOK
  <2>2. \A m \in Msgs : place'[m] \in {"new", "filed"} => to'[m] \in members'
    BY <1>1, <1>6 DEF Drop, TypeOK
  <2>3. \A v \in Workers \ members' : turn'[v] = "idle" /\ hooks'[v] = {} /\ activity'[v] = "idle"
    BY <1>1, <1>6 DEF Drop, TypeOK
  <2>4. members' \cap gone' = {}
    BY <1>1, <1>6 DEF Drop
  <2> QED
    BY <2>1, <2>2, <2>3, <2>4
<1>7. ASSUME NEW w \in Workers, Open(w) \/ HookOpens(w) \/ HookCloses(w) PROVE Absent'
  BY <1>1, <1>7 DEF Open, HookOpens, HookCloses, Sent, TypeOK
<1>8. ASSUME NEW w \in Workers, w \in members, Reconcile(w) PROVE Absent'
  <2>1. \A v \in Workers \ members : work'[v] = work[v] \/ work'[v] = 0
    BY <1>8 DEF Reconcile, Read, Counted
  <2>2. UNCHANGED <<people, turn, inbox>>
    BY <1>8 DEF Reconcile
  <2>3. \A v \in Workers : v # w => hooks'[v] = hooks[v] /\ activity'[v] = activity[v]
    <3>1. hooks' = hooks \/ hooks' = [hooks EXCEPT ![w] = {}]
      BY <1>8 DEF Reconcile
    <3>2. activity' = activity \/ activity' = [activity EXCEPT ![w] = IF turn[w] = "busy" THEN "busy" ELSE "idle"]
      BY <1>8 DEF Reconcile
    <3> QED
      BY <1>1, <3>1, <3>2 DEF TypeOK
  <2>4. \A v \in Workers \ (members \cup gone) : work'[v] = 0 /\ Sent(v)' = {}
    BY <1>1, <2>1, <2>2 DEF Sent
  <2>5. \A m \in Msgs : place'[m] \in {"new", "filed"} => to'[m] \in members'
    BY <1>1, <2>2
  <2>6. \A v \in Workers \ members : turn'[v] = "idle" /\ hooks'[v] = {} /\ activity'[v] = "idle"
    BY <1>1, <1>8, <2>2, <2>3
  <2> QED
    BY <1>1, <2>2, <2>4, <2>5, <2>6
<1>9. ASSUME NEW p \in Sweeps, StartSweep(p) \/ Evaluate(p) PROVE Absent'
  <2>1. \A v \in Workers \ members : work'[v] = 0
    BY <1>9 DEF StartSweep, Evaluate, Read, Counted
  <2>2. UNCHANGED <<members, gone, turn, hooks, activity, to, place>>
    BY <1>9 DEF StartSweep, Evaluate
  <2> QED
    BY <1>1, <2>1, <2>2 DEF Sent
<1>10. ASSUME NEW p \in Sweeps, GiveUp(p) \/ Flush(p) PROVE Absent'
  BY <1>1, <1>10, AbsentAlone DEF GiveUp, Flush
<1>11. CASE Age \/ ChangeLead
  BY <1>1, <1>11, AbsentAlone DEF Age, ChangeLead
<1>12. CASE Lead
  BY <1>1, <1>12, AbsentAlone DEF Lead, Settle, File, LateProof, Retire, Paste, Prune
<1> QED
  BY <1>2, <1>3, <1>4, <1>5, <1>6, <1>7, <1>8, <1>9, <1>10, <1>11, <1>12 DEF Next, HookTick, Observe

-----------------------------------------------------------------------------
(* The notice.                                                             *)

\* The steps that have no part in it.
LEMMA NoticeLeftAlone ==
  ASSUME [Next]_vars
  PROVE  \/ UNCHANGED <<intent, delivery>>
         \/ ChangeLead \/ Lead
         \/ \E p \in Sweeps : Flush(p)
         \/ \E p \in Sweeps : Evaluate(p) /\ Reserve
<1>1. CASE UNCHANGED vars
  BY <1>1 DEF vars
<1>2. ASSUME NEW m \in Msgs, Publish(m) \/ Remove(m) \/ Deliver(m) PROVE UNCHANGED <<intent, delivery>>
  BY <1>2 DEF Publish, Remove, Deliver
<1>3. ASSUME NEW w \in Workers, Join(w) \/ Drop(w) \/ Open(w) \/ HookOpens(w) \/ HookCloses(w) \/ Reconcile(w)
      PROVE  UNCHANGED <<intent, delivery>>
  BY <1>3 DEF Join, Drop, Open, HookOpens, HookCloses, Reconcile
<1>4. ASSUME NEW p \in Sweeps, StartSweep(p) \/ GiveUp(p) PROVE UNCHANGED <<intent, delivery>>
  BY <1>4 DEF StartSweep, GiveUp
<1>5. ASSUME NEW p \in Sweeps, Evaluate(p) PROVE UNCHANGED <<intent, delivery>> \/ Reserve
  BY <1>5 DEF Evaluate, KeepWaiting
<1>6. CASE Age
  BY <1>6 DEF Age
<1> USE DEF people, intent, delivery
<1> QED
  BY <1>1, <1>2, <1>3, <1>4, <1>5, <1>6 DEF Next, HookTick, Observe

\* What the steps of the notice need to know of its types.
NoticeTypes ==
  /\ MaxNotices \in Nat /\ notice \in 0..MaxNotices /\ input \in 0..MaxNotices
  /\ bound \in [Notices -> 0..MaxLeads] /\ lead \in 0..MaxLeads
  /\ env \in [Notices -> {"none", "new", "filed", "gone"}]

LEMMA ComposedStep ==
  ASSUME IInv, [Next]_vars
  PROVE  Composed'
<1> USE DEF Composed
<1>1. NoticeTypes /\ Composed
  BY DEF IInv, TypeOK, NoticeTypes
<1> USE DEF NoticeTypes
<1>2. CASE UNCHANGED <<intent, delivery>>
  BY <1>1, <1>2
<1>3. CASE ChangeLead
  BY <1>1, <1>3 DEF ChangeLead
<1>4. CASE Lead
  <2>1. CASE Settle
    BY <1>1, <2>1 DEF Settle
  <2>2. CASE File
    <3>1. stage = "settled" /\ input \in Notices
      BY <1>1, <2>2 DEF File
    <3> QED
      BY <1>1, <2>2, <3>1 DEF File
  <2>3. CASE LateProof
    BY <1>1, <2>3 DEF LateProof
  <2>4. ASSUME NEW n \in Notices, Retire(n) PROVE Composed'
    BY <1>1, <2>4 DEF Retire
  <2>5. ASSUME NEW n \in Notices, Paste(n) PROVE Composed'
    <3>1. n = notice /\ input' = n /\ n # 0 /\ stage' = "pasted" /\ UNCHANGED notice
      BY <2>5 DEF Paste, Current
    <3> QED
      BY <1>1, <3>1
  <2>6. ASSUME NEW n \in Notices, Prune(n) PROVE Composed'
    BY <1>1, <2>6 DEF Prune
  <2> QED
    BY <1>4, <2>1, <2>2, <2>3, <2>4, <2>5, <2>6 DEF Lead
<1>5. ASSUME NEW p \in Sweeps, Flush(p) PROVE Composed'
  BY <1>1, <1>5 DEF Flush
<1>6. ASSUME NEW p \in Sweeps, Evaluate(p), Reserve PROVE Composed'
  <2>1. notice' = notice + 1 /\ UNCHANGED delivery
    BY <1>6 DEF Evaluate, Reserve
  <2> QED
    BY <1>1, <2>1
<1> QED
  BY <1>2, <1>3, <1>4, <1>5, <1>6, NoticeLeftAlone

\* An envelope is linked only while its notice has no outcome.
LEMMA UnpastedStep ==
  ASSUME IInv, [Next]_vars
  PROVE  Unpasted' /\ NoticeOnce'
<1>1. NoticeTypes /\ Composed /\ Unpasted /\ NoticeOnce
  BY DEF IInv, TypeOK, NoticeTypes
<1> USE DEF NoticeTypes, Composed, Unpasted, NoticeOnce
<1>2. CASE UNCHANGED <<intent, delivery>>
  BY <1>1, <1>2
<1>3. CASE ChangeLead
  <2>1. \A n \in Notices : env'[n] = env[n] \/ (env'[n] = "gone" /\ env[n] # "none")
    <3>1. CASE UNCHANGED env
      BY <3>1
    <3>2. CASE env' = [n \in Notices |-> IF env[n] = "none" THEN "none" ELSE "gone"]
      BY <1>1, <3>2
    <3> QED
      BY <1>3, <3>1, <3>2 DEF ChangeLead
  <2>2. UNCHANGED <<intent, input, pasted>>
    BY <1>3 DEF ChangeLead
  <2> QED
    BY <1>1, <2>1, <2>2
<1>4. CASE Lead
  <2>1. CASE Settle
    BY <1>1, <2>1 DEF Settle
  <2>2. CASE File
    <3>1. stage = "settled" /\ input \in Notices
      BY <1>1, <2>2 DEF File
    <3>2. env'[input] = "filed" /\ \A n \in Notices : n # input => env'[n] = env[n]
      BY <1>1, <2>2, <3>1 DEF File
    <3>3. UNCHANGED <<intent, pasted>> /\ input' = 0
      BY <2>2 DEF File
    <3>4. \A n \in Notices : n > notice => n # input
      BY <1>1
    <3>5. Unpasted'
      BY <1>1, <3>1, <3>2, <3>3, <3>4
    <3> QED
      BY <1>1, <3>3, <3>5
  <2>3. CASE LateProof
    BY <1>1, <2>3 DEF LateProof
  <2>4. ASSUME NEW n \in Notices, Retire(n) PROVE Unpasted' /\ NoticeOnce'
    BY <1>1, <2>4 DEF Retire
  <2>5. ASSUME NEW n \in Notices, Paste(n) PROVE Unpasted' /\ NoticeOnce'
    <3>1. n = notice /\ lead = bound[n] /\ pasted[n] = <<>>
      BY <1>1, <2>5 DEF Paste, Current
    <3>2. pasted'[n] = <<bound[n]>> /\ \A k \in Notices \ {n} : pasted'[k] = pasted[k]
      BY <1>1, <2>5, <3>1 DEF Paste
    <3>3. UNCHANGED <<intent, env>> /\ input' = n /\ input = 0
      BY <2>5 DEF Paste
    <3>4. bound[n] \in 1..MaxLeads
      BY <1>1, <2>5, <3>1 DEF Paste
    <3>5. pasted' \in [Notices -> Seq(1..MaxLeads)]
      BY <1>1, <2>5, <3>1, <3>4 DEF Paste
    <3>6. \A k \in Notices : k # input
      BY <3>3
    <3>7. \A k \in Notices \ {n} : Unpasted!2!(k)'
      BY <1>1, <3>1, <3>2, <3>3, <3>6
    <3>8. Unpasted!2!(n)'
      BY <3>1, <3>3
    <3>9. \A k \in Notices : pasted'[k] \in {<<>>, <<bound'[k]>>}
      BY <1>1, <3>1, <3>2, <3>3
    <3> QED
      BY <3>5, <3>7, <3>8, <3>9
  <2>6. ASSUME NEW n \in Notices, Prune(n) PROVE Unpasted' /\ NoticeOnce'
    BY <1>1, <2>6 DEF Prune
  <2> QED
    BY <1>4, <2>1, <2>2, <2>3, <2>4, <2>5, <2>6 DEF Lead
<1>5. ASSUME NEW p \in Sweeps, Flush(p) PROVE Unpasted' /\ NoticeOnce'
  <2>1. \A n \in Notices : env'[n] = env[n] \/ (n = notice /\ outcome = "none" /\ input = 0)
    <3>1. env' = env \/ (env' = [env EXCEPT ![notice] = "new"] /\ outcome = "none" /\ input = 0)
      BY <1>5 DEF Flush
    <3> QED
      BY <1>1, <3>1
  <2>2. UNCHANGED <<notice, input, pasted, bound>> /\ (outcome' = "none" => outcome = "none")
    BY <1>5 DEF Flush
  <2>3. notice \in Nat /\ \A n \in Notices : n > notice => n # notice
    BY <1>1
  <2> QED
    BY <1>1, <2>1, <2>2, <2>3
<1>6. ASSUME NEW p \in Sweeps, Evaluate(p), Reserve PROVE Unpasted' /\ NoticeOnce'
  <2>1. notice' = notice + 1 /\ notice < MaxNotices /\ bound' = [bound EXCEPT ![notice'] = lead] /\ UNCHANGED delivery
    BY <1>6 DEF Evaluate, Reserve
  <2>2. \A n \in Notices : n > notice' => n > notice
    BY <1>1, <2>1
  <2>3. notice' \in Notices /\ notice' > notice /\ input # notice'
    BY <1>1, <2>1
  <2>4. pasted[notice'] = <<>> /\ env[notice'] = "none"
    BY <1>1, <2>3
  <2>5. \A n \in Notices : n # notice' => bound'[n] = bound[n]
    BY <1>1, <2>1, <2>3
  <2>6. \A n \in Notices : env[n] = "new" => n # notice'
    BY <2>4
  <2> QED
    BY <1>1, <2>1, <2>2, <2>3, <2>4, <2>5, <2>6
<1> QED
  BY <1>2, <1>3, <1>4, <1>5, <1>6, NoticeLeftAlone

-----------------------------------------------------------------------------
(* What the reservation of a notice is due to.                             *)

ActiveTypes ==
  /\ turn \in [Workers -> {"idle", "opening", "busy", "closing"}]
  /\ hooks \in [Workers -> SUBSET {"start", "late", "end"}]
  /\ activity \in [Workers -> {"idle", "busy"}]
  /\ known.members \subseteq Workers

LEMMA ActiveAlone ==
  ASSUME Active, UNCHANGED <<turn, hooks, activity, worked, armed, known>>
  PROVE  Active'
BY DEF Active

LEMMA ActiveStep ==
  ASSUME IInv, [Next]_vars
  PROVE  Active'
<1>1. ActiveTypes /\ Active /\ Absent
  BY DEF IInv, TypeOK, ActiveTypes
<1> USE DEF Active, ActiveTypes
<1>2. CASE UNCHANGED vars
  BY <1>1, <1>2, ActiveAlone DEF vars
<1>3. ASSUME NEW m \in Msgs, Publish(m) \/ Remove(m) PROVE Active'
  BY <1>1, <1>3, ActiveAlone DEF Publish, Remove
<1>4. ASSUME NEW m \in Msgs, Deliver(m) PROVE Active'
  <2>1. UNCHANGED <<activity, latch>> /\ worked' = worked \cup {to[m]}
    BY <1>4 DEF Deliver
  <2>2. \A w \in Workers : w # to[m] => turn'[w] = turn[w] /\ hooks'[w] = hooks[w]
    BY <1>1, <1>4 DEF Deliver
  <2> QED
    BY <1>1, <2>1, <2>2
<1>5. ASSUME NEW w \in Workers, Join(w) PROVE Active'
  BY <1>1, <1>5, ActiveAlone DEF Join
<1>6. ASSUME NEW w \in Workers, Drop(w) PROVE Active'
  BY <1>1, <1>6 DEF Drop
<1>7. ASSUME NEW w \in Workers, Open(w) \/ HookOpens(w) \/ HookCloses(w) PROVE Active'
  <2>1. CASE Open(w)
    BY <1>1, <2>1 DEF Open
  <2>2. CASE HookOpens(w)
    BY <1>1, <2>2 DEF HookOpens
  <2>3. CASE HookCloses(w)
    BY <1>1, <2>3 DEF HookCloses
  <2> QED
    BY <1>7, <2>1, <2>2, <2>3
<1>8. ASSUME NEW w \in Workers, Reconcile(w) PROVE Active'
  <2>1. UNCHANGED <<turn, known, worked>>
    BY <1>8 DEF Reconcile
  <2>2. \A v \in Workers : "start" \in hooks'[v] => "start" \in hooks[v]
    BY <1>1, <1>8 DEF Reconcile
  <2>3. \A v \in Workers : activity'[v] = "busy" => activity[v] = "busy" \/ turn[v] # "idle"
    <3>1. activity' = activity \/ activity' = [activity EXCEPT ![w] = IF turn[w] = "busy" THEN "busy" ELSE "idle"]
      BY <1>8 DEF Reconcile
    <3> QED
      BY <1>1, <3>1
  <2>4. armed' => armed \/ Arms(w)
    BY <1>8 DEF Reconcile
  <2>5. Arms(w) => w \in worked \cap known.members
    BY <1>1 DEF Arms
  <2> QED
    BY <1>1, <2>1, <2>2, <2>3, <2>4, <2>5
<1>9. ASSUME NEW p \in Sweeps, StartSweep(p) \/ GiveUp(p) \/ Flush(p) PROVE Active'
  BY <1>1, <1>9, ActiveAlone DEF StartSweep, GiveUp, Flush
<1>10. ASSUME NEW p \in Sweeps, Evaluate(p) PROVE Active'
  <2>1. UNCHANGED <<turn, hooks, activity>>
    BY <1>10 DEF Evaluate
  <2>2. CASE UNCHANGED <<latch, worked>>
    BY <1>1, <2>1, <2>2
  <2>3. CASE KeepWaiting /\ known' = [lead |-> lead, members |-> members]
    <3>1. UNCHANGED worked /\ armed' = Latched
      BY <2>3 DEF KeepWaiting
    <3>2. Latched => worked \cap members # {}
      <4>1. members \subseteq Workers
        BY DEF IInv, TypeOK
      <4> QED
        BY <1>1, <4>1 DEF Latched
    <3>3. known'.members = members
      BY <2>3
    <3> QED
      BY <1>1, <2>1, <3>1, <3>2, <3>3
  <2>4. CASE Reserve
    <3>1. \A w \in members : activity[w] = "idle" /\ hooks[w] = {}
      BY <2>4 DEF Reserve, Ready, Quiet
    <3>2. \A w \in Workers : activity[w] = "idle" /\ hooks[w] = {}
      BY <1>1, <3>1 DEF Absent
    <3>3. armed' = FALSE /\ worked' = {w \in Workers : turn[w] # "idle"}
      BY <2>4 DEF Reserve
    <3> QED
      BY <2>1, <3>2, <3>3
  <2> QED
    BY <1>10, <2>2, <2>3, <2>4 DEF Evaluate
<1>11. CASE Age \/ ChangeLead
  BY <1>1, <1>11, ActiveAlone DEF Age, ChangeLead
<1>12. CASE Lead
  BY <1>1, <1>12, ActiveAlone DEF Lead, Settle, File, LateProof, Retire, Paste, Prune
<1> QED
  BY <1>2, <1>3, <1>4, <1>5, <1>6, <1>7, <1>8, <1>9, <1>10, <1>11, <1>12 DEF Next, HookTick, Observe

\* What happens to a worker while its window stays is a hook, or counts.
LEMMA ShownKept ==
  ASSUME IInv, NEW w \in members, Shown(w),
         UNCHANGED window, Counted'[w] \in Nat, Counted[w] <= Counted'[w],
         hooks[w] # {} => hooks'[w] # {},
         w \in touched' => \/ w \in touched
                           \/ hooks'[w] # {}
                           \/ Counted[w] < Counted'[w]
  PROVE  Shown(w)'
<1>1. Counted[w] \in Nat /\ window.work[w] \in Nat
  <2>1. Counted \in Counts /\ window.work \in Counts /\ w \in Workers
    BY CountedFits DEF IInv, TypeOK
  <2>2. Cardinality(Msgs) \in Nat
    BY FS_CardinalityType
  <2> QED
    BY <2>1, <2>2 DEF Counts
<1> QED
  BY <1>1 DEF Shown

LEMMA WatchedAlone ==
  ASSUME Watched, UNCHANGED <<members, gone, window, touched, hooks>>, Counted' = Counted
  PROVE  Watched'
BY DEF Watched, Shown

\* A hook or a link is seen by the window that was open when it came.
LEMMA WatchedStep ==
  ASSUME IInv, [Next]_vars
  PROVE  Watched'
<1>1. ActiveTypes /\ Watched /\ Absent /\ TypeOK /\ members \subseteq Workers
  BY DEF IInv, TypeOK, ActiveTypes
<1>2. \A w \in Workers : Counted[w] \in Nat
  BY CountedFits, FS_CardinalityType DEF Counts
<1> USE DEF ActiveTypes
<1>3. CASE UNCHANGED vars
  BY <1>1, <1>3, WatchedAlone, StillKeeps DEF vars
<1>4. ASSUME NEW m \in Msgs, Publish(m) PROVE Watched'
  <2>1. UNCHANGED <<people, window, hooks>> /\ to[m] \in members
    BY <1>4 DEF Publish
  <2>2. CASE UNCHANGED place
    <3>1. UNCHANGED touched
      BY <1>1, <1>4, <2>2 DEF Publish, TypeOK
    <3>2. ~Linked(m)'
      BY <1>4, <2>2 DEF Publish, Linked
    <3>3. Counted' = Counted
      BY <1>4, <2>2, <3>2 DEF Publish, Counted
    <3> QED
      BY <1>1, <2>1, <3>1, <3>3, WatchedAlone
  <2>3. CASE place' = [place EXCEPT ![m] = "new"]
    <3>1. \E w \in Workers : m \in Sent(w)' /\ m \notin Sent(w)
      BY <1>1, <1>4, <2>1, <2>3 DEF Publish, Sent, TypeOK
    <3>2. ~\A w : Sent(w)' = Sent(w)
      BY <3>1
    <3>3. Counted' = [Counted EXCEPT ![to[m]] = @ + 1]
      BY <1>4, <3>2, PublishCounts DEF IInv
    <3>4. touched' = Touched(to[m])
      BY <1>1, <1>4, <2>3 DEF Publish, TypeOK
    <3>5. Counted = [w \in Workers |-> Counted[w]]
      BY DEF Counted
    <3>6. ASSUME NEW w \in members PROVE Shown(w)'
      <4>1. CASE w = to[m]
        <5>1. Counted'[w] = Counted[w] + 1 /\ Counted[w] \in Nat
          BY <1>1, <1>2, <2>1, <3>3, <3>5, <4>1
        <5> QED
          BY <1>1, <2>1, <5>1, ShownKept DEF Watched
      <4>2. CASE w # to[m]
        <5>1. Counted'[w] = Counted[w] /\ Counted[w] \in Nat
          BY <1>1, <1>2, <2>1, <3>3, <3>5, <4>2
        <5>2. w \in touched' => w \in touched
          BY <3>4, <4>2 DEF Touched
        <5> QED
          BY <1>1, <2>1, <5>1, <5>2, ShownKept DEF Watched
      <4> QED
        BY <4>1, <4>2
    <3>7. touched' \subseteq Workers
      BY <1>1, <2>1, <3>4 DEF Touched, Watched
    <3> QED
      BY <1>1, <2>1, <3>6, <3>7 DEF Watched
  <2> QED
    BY <1>4, <2>2, <2>3 DEF Publish
<1>5. ASSUME Quietly, UNCHANGED <<people, window>>, touched' \subseteq Workers,
             \A w \in members : hooks[w] # {} => hooks'[w] # {},
             \A w \in members : w \in touched' => w \in touched \/ hooks'[w] # {}
      PROVE  Watched'
  <2>1. ASSUME NEW w \in members PROVE Shown(w)'
    <3>1. Counted'[w] = Counted[w] /\ Counted[w] \in Nat
      BY <1>1, <1>2, <1>5 DEF Quietly
    <3> QED
      BY <1>1, <1>5, <3>1, ShownKept DEF Watched
  <2> QED
    BY <1>1, <1>5, <2>1 DEF Watched
<1>6. ASSUME NEW m \in Msgs, Remove(m) PROVE Watched'
  <2>1. \A k \in Msgs : place[k] # "unsent" <=> place'[k] # "unsent"
    BY <1>1, <1>6 DEF Remove, TypeOK
  <2>2. Counted' = Counted
    BY <1>1, <1>6, <2>1, ReadKeeps DEF Remove
  <2> QED
    BY <1>1, <1>6, <2>2, WatchedAlone DEF Remove
<1>7. ASSUME NEW m \in Msgs, Deliver(m) PROVE Watched'
  <2>1. \A k \in Msgs : place[k] # "unsent" <=> place'[k] # "unsent"
    BY <1>1, <1>7 DEF Deliver, TypeOK
  <2>2. Quietly /\ UNCHANGED <<people, window>>
    BY <1>1, <1>7, <2>1, ReadKeeps DEF Deliver, Quietly
  <2>3. touched' = Touched(to[m]) /\ to[m] \in Workers
    BY <1>1, <1>7 DEF Deliver, TypeOK
  <2>4. hooks' = [hooks EXCEPT ![to[m]] = @ \cup {"start"}]
    BY <1>7 DEF Deliver
  <2> QED
    BY <1>1, <1>5, <2>2, <2>3, <2>4 DEF Touched, Watched
<1>8. ASSUME NEW w \in Workers, Join(w) PROVE Watched'
  <2>1. w \notin window.members
    BY <1>1, <1>8 DEF Join, Watched
  <2>2. UNCHANGED <<window, touched, hooks, gone>> /\ members' = members \cup {w}
    BY <1>8 DEF Join
  <2>3. \A v \in members : Counted'[v] = Counted[v]
    BY <1>1, <1>8, JoinCounts
  <2> QED
    BY <1>1, <2>1, <2>2, <2>3 DEF Watched, Shown
<1>9. ASSUME NEW w \in Workers, Drop(w) PROVE Watched'
  <2>1. \A v \in members' : v \in members /\ hooks'[v] = hooks[v] /\ Counted'[v] = Counted[v]
    BY <1>1, <1>9, DropCounts DEF Drop
  <2>2. UNCHANGED <<window, touched>> /\ members' \cup gone' = members \cup gone
    BY <1>9 DEF Drop
  <2> QED
    BY <1>1, <2>1, <2>2 DEF Watched, Shown
<1>10. ASSUME NEW w \in Workers, Open(w) \/ HookOpens(w) \/ HookCloses(w) PROVE Watched'
  <2>1. Quietly /\ UNCHANGED <<people, window>>
    BY <1>10, StillKeeps DEF Open, HookOpens, HookCloses, Quietly
  <2>2. CASE Open(w)
    BY <1>1, <1>5, <2>1, <2>2 DEF Open, Watched
  <2>3. CASE HookOpens(w)
    BY <1>1, <1>5, <2>1, <2>3 DEF HookOpens, Touched, Watched
  <2>4. CASE HookCloses(w)
    BY <1>1, <1>5, <2>1, <2>4 DEF HookCloses, Touched, Watched
  <2> QED
    BY <1>10, <2>2, <2>3, <2>4
<1>11. ASSUME NEW w \in Workers, Reconcile(w) PROVE Watched'
  <2>1. Counted' = Counted /\ UNCHANGED <<people, touched>>
    BY <1>1, <1>11, ReadKeeps, StillKeeps DEF Reconcile
  <2>2. CASE window' = NoWindow
    BY <1>1, <2>1, <2>2 DEF Watched, Shown, NoWindow
  <2>3. CASE window' = [window EXCEPT !.moved = TRUE]
    <3>1. window'.moved /\ window'.work = window.work /\ window'.members = window.members /\ window'.open = window.open
      BY <1>1, <2>3 DEF TypeOK
    <3> QED
      BY <1>1, <2>1, <3>1 DEF Watched, Shown
  <2>4. CASE window' = window /\ ~window.open
    BY <1>1, <2>1, <2>4 DEF Watched, Shown
  <2>5. CASE window' = window /\ hooks[w] = {}
    <3>1. UNCHANGED hooks
      <4>1. hooks' = hooks \/ hooks' = [hooks EXCEPT ![w] = {}]
        BY <1>11 DEF Reconcile
      <4> QED
        BY <1>1, <2>5, <4>1
    <3> QED
      BY <1>1, <2>1, <2>5, <3>1, WatchedAlone
  <2> QED
    BY <1>11, <2>2, <2>3, <2>4, <2>5 DEF Reconcile
<1>12. ASSUME NEW p \in Sweeps, StartSweep(p) \/ GiveUp(p) \/ Flush(p) PROVE Watched'
  <2>1. Counted' = Counted
    BY <1>1, <1>12, ReadKeeps, StillKeeps DEF StartSweep, GiveUp, Flush
  <2> QED
    BY <1>1, <1>12, <2>1, WatchedAlone DEF StartSweep, GiveUp, Flush
<1>13. ASSUME NEW p \in Sweeps, Evaluate(p) PROVE Watched'
  <2>1. Counted' = Counted /\ UNCHANGED <<people, hooks>>
    BY <1>1, <1>13, ReadKeeps DEF Evaluate
  <2>2. CASE UNCHANGED <<window, touched>>
    BY <1>1, <2>1, <2>2, WatchedAlone
  <2>3. CASE SaveWindow(NoWindow)
    <3>1. touched' \in {{}, touched}
      BY <2>3 DEF SaveWindow
    <3>2. CASE window' = NoWindow
      BY <1>1, <2>1, <3>1, <3>2 DEF Watched, Shown, NoWindow
    <3> QED
      BY <2>2, <2>3, <3>2 DEF SaveWindow
  <2>4. CASE SaveWindow(NewWindow)
    <3>1. CASE window' = NewWindow /\ touched' = {}
      <4>1. window'.members = members /\ window'.work = Counted
        BY <3>1 DEF NewWindow
      <4>2. \A w \in members : Counted[w] <= Counted[w]
        BY <1>1, <1>2
      <4> QED
        BY <2>1, <3>1, <4>1, <4>2 DEF Watched, Shown
    <3> QED
      BY <2>2, <2>4, <3>1 DEF SaveWindow
  <2>5. CASE SaveWindow(window)
    <3>1. CASE window' = window /\ touched' = {}
      BY <1>1, <2>1, <3>1 DEF Watched, Shown
    <3> QED
      BY <2>2, <2>5, <3>1 DEF SaveWindow
  <2> QED
    BY <1>13, <2>2, <2>3, <2>4, <2>5 DEF Evaluate, KeepWaiting, Reserve
<1>14. CASE Age
  <2>1. window' = [window EXCEPT !.old = TRUE] /\ Counted' = Counted
    BY <1>14, StillKeeps DEF Age
  <2>2. \A f \in {"open", "members", "work", "moved"} : window'[f] = window[f]
    BY <1>1, <2>1 DEF TypeOK
  <2> QED
    BY <1>1, <1>14, <2>1, <2>2 DEF Age, Watched, Shown
<1>15. CASE ChangeLead
  BY <1>1, <1>15, WatchedAlone, StillKeeps DEF ChangeLead
<1>16. CASE Lead
  BY <1>1, <1>16, WatchedAlone, StillKeeps DEF Lead, Settle, File, LateProof, Retire, Paste, Prune
<1> QED
  BY <1>3, <1>4, <1>6, <1>7, <1>8, <1>9, <1>10, <1>11, <1>12, <1>13, <1>14, <1>15, <1>16
     DEF Next, HookTick, Observe

-----------------------------------------------------------------------------
LEMMA InitInv ==
  ASSUME Init
  PROVE  IInv
<1> USE DEF Init
<1>1. None \in Counts
  BY NoneCounts
<1>2. TypeOK
  <2>1. NoWindow \in Windows
    BY <1>1 DEF NoWindow, Windows
  <2>2. sweep \in [Sweeps -> Tasks]
    BY <1>1 DEF NoSweep, Tasks
  <2>3. turn \in [Workers -> {"idle", "opening", "busy", "closing"}] /\ lead \in 0..MaxLeads
    OBVIOUS
  <2>4. known \in [lead : 0..MaxLeads, members : SUBSET Workers]
    <3>1. 0 \in 0..MaxLeads /\ {} \in SUBSET Workers
      OBVIOUS
    <3>2. known = [lead |-> 0, members |-> {}]
      OBVIOUS
    <3> HIDE DEF Init
    <3> QED
      BY <3>1, <3>2
  <2>5. notice \in 0..MaxNotices /\ bound \in [Notices -> 0..MaxLeads] /\ input \in 0..MaxNotices
    OBVIOUS
  <2> QED
    BY <1>1, <2>1, <2>2, <2>3, <2>4, <2>5 DEF TypeOK, Windows, Tasks
<1>3. Absent
  BY DEF Absent, None, Sent
<1>4. CountedOnce
  BY DEF CountedOnce
<1>5. Composed /\ Unpasted /\ NoticeOnce
  BY DEF Composed, Unpasted, NoticeOnce
<1>6. Active /\ Watched
  BY DEF Active, Watched, NoWindow
<1> QED
  BY <1>2, <1>3, <1>4, <1>5, <1>6 DEF IInv

THEOREM Invariant == Spec => []IInv
<1>1. ASSUME IInv, [Next]_vars PROVE IInv'
  BY <1>1, TypeStep, AbsentStep, LedgerStep, ComposedStep, UnpastedStep, ActiveStep, WatchedStep DEF IInv
<1> QED
  BY InitInv, <1>1, PTL DEF Spec

(* Every variable keeps its type, the ledger's counts among them: none     *)
(* exceeds the messages there are.                                         *)
THEOREM TypeCorrect == Spec => []TypeOK
<1>1. IInv => TypeOK
  BY DEF IInv
<1> QED
  BY <1>1, Invariant, PTL

(* A publication is counted once, whatever is withdrawn, pruned or         *)
(* interrupted between the ledger and the link (Counted, Publish).         *)
THEOREM EachCountedOnce == Spec => []CountedOnce
<1>1. IInv => CountedOnce
  BY DEF IInv
<1> QED
  BY <1>1, Invariant, PTL

(* No notice is pasted twice, and none to another lead than its own        *)
(* (Flush, Retire, Paste).                                                 *)
THEOREM PastedOnce == Spec => []NoticeOnce
<1>1. IInv => NoticeOnce
  BY DEF IInv
<1> QED
  BY <1>1, Invariant, PTL

\* Only Reserve takes a notice.
LEMMA ReserveIsDue ==
  ASSUME IInv, [Next]_vars, notice' # notice
  PROVE  worked \cap members # {} /\ touched \cap members = {}
<1>1. PICK p \in Sweeps : Evaluate(p) /\ Reserve
  BY NoticeLeftAlone DEF ChangeLead, Lead, Settle, File, LateProof, Retire, Paste, Prune, Flush
<1>2. \A w \in members : activity[w] = "idle" /\ hooks[w] = {}
  BY <1>1 DEF Reserve, Ready, Quiet
<1>3. worked \cap members # {}
  <2>1. armed /\ known = [lead |-> lead, members |-> members]
    BY <1>1, <1>2 DEF Reserve, Ready, Latched
  <2> QED
    BY <2>1 DEF IInv, Active
<1>4. touched \cap members = {}
  <2>1. [NewWindow EXCEPT !.old = window.old] = window /\ ~window.moved
    BY <1>1 DEF Reserve, SameWindow
  <2>2. window.open /\ window.members = members /\ window.work = Counted
    BY <2>1 DEF NewWindow
  <2>3. \A w \in members : Shown(w) /\ Counted[w] \in Nat
    <3>1. members \subseteq Workers
      BY DEF IInv, TypeOK
    <3>2. Counted \in Counts
      BY CountedFits
    <3>3. \A w \in Workers : Counted[w] \in Nat
      BY <3>2, FS_CardinalityType DEF Counts
    <3> QED
      BY <3>1, <3>3 DEF IInv, Watched
  <2> QED
    BY <1>2, <2>1, <2>2, <2>3 DEF Shown
<1> QED
  BY <1>3, <1>4

(* A notice is reserved only after a worker that is still there had a      *)
(* turn, and when no hook and no message came since its window began.      *)
THEOREM NoticesAreDue == Spec => NoticeIsDue
<1>1. ASSUME IInv, [Next]_vars PROVE [notice' # notice => worked \cap members # {}]_vars
  BY <1>1, ReserveIsDue
<1>2. ASSUME IInv, [Next]_vars PROVE [notice' # notice => touched \cap members = {}]_vars
  BY <1>2, ReserveIsDue
<1>3. Spec => NoticeEndsWork
  BY <1>1, Invariant, PTL DEF Spec, NoticeEndsWork
<1>4. Spec => NoticeAfterQuiet
  BY <1>2, Invariant, PTL DEF Spec, NoticeAfterQuiet
<1> QED
  BY <1>3, <1>4 DEF NoticeIsDue
=============================================================================
