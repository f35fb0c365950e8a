------------------------------ MODULE PeerProofs ------------------------------
(* Proofs about delivery through a peer socket: a message goes in once, its  *)
(* receipts tell what was proved of it, and recorded proofs are kept and     *)
(* count for what they prove.                                                *)
EXTENDS Peer, FiniteSetTheorems, TLAPS

-----------------------------------------------------------------------------
(* The inductive invariant.                                                  *)

Attempts == [text : Messages, session : Nat, proof : [id : Nat, session : Nat], capacity : Nat]
\* The steps that settle one proof, those after the rename, and those of the
\* queue.
Filing == {"rename", "capacity", "tell", "unfail", "remove"}
Renamed == {"capacity", "tell", "unfail", "remove"}
Settlement == {"settle"} \cup Filing
Writing == {"begun", "started"}
Draining == {"drain", "finish", "notify", "await"} \cup Writing

Owners == [pc : {"none", "retire", "answer"} \cup Settlement \cup Draining,
           target : Messages \cup {None}, at : Messages \cup {None},
           todo : SUBSET Attempts, wait : BOOLEAN, result : {"queued", "unverified", "delivered"}]
Types ==
    /\ native \in [session : Nat, socket : SUBSET Messages, prompts : Nat]
    /\ hooks \in SUBSET [id : Nat, session : Nat, text : Messages]
    /\ witness \in [id : Nat, session : Nat, text : Messages \cup {None}]
    /\ pending \in SUBSET Attempts
    /\ dirs \in [Messages -> SUBSET {"new", "cur", "failed"}]
    /\ agent \in [session : Nat, turn : Nat, input : Messages \cup {None},
                  failed : Messages \cup {None}, capacity : Nat, failures : Nat]
    /\ asking \in SUBSET Messages
    /\ owner \in Owners
    /\ told \in [Messages -> SUBSET {"queued", "unverified", "delivered", "died"}]
    /\ entered \in [Messages -> Nat]
    /\ taken \in SUBSET Messages /\ proven \in SUBSET Messages
    /\ episode \in Nat

\* Sessions and prompts are counted, and nothing is numbered ahead of them.
Counted ==
    /\ agent.session \in 1..native.session
    /\ agent.turn <= native.prompts /\ witness.id <= native.prompts
    /\ episode <= native.prompts
    /\ \A h \in hooks : h.id <= native.prompts
    /\ agent.capacity <= agent.failures
    /\ \A n \in pending : n.capacity <= agent.failures

OneAttempt == \A n, o \in pending : n.text = o.text => n = o

\* What is known of a message is known because it was entered.
HasProof(m) == \E n \in Proofs(pending) : n.text = m
Causes ==
    /\ \A m \in native.socket : entered[m] # 0
    /\ \A h \in hooks : h.text \in taken
    /\ \A m \in taken : entered[m] # 0
    /\ proven \subseteq taken
    /\ \A m \in Messages : HasProof(m) => m \in proven

\* Where the owner is.
Control ==
    /\ owner = NoOwner \/ owner.pc # "none"
    /\ owner.pc # "none" /\ owner.pc # "finish" /\ owner.pc # "started" => agent.input = None
    /\ owner.pc = "finish" \/ owner.pc = "started" => agent.input = owner.at
    /\ owner.pc \in Writing \cup {"finish", "notify"} \cup Filing => owner.at \in Messages
    /\ owner.pc \in Writing => entered[owner.at] = 0 /\ "new" \in dirs[owner.at]
    /\ owner.pc \in Settlement => owner.todo \subseteq Proofs(pending)
    /\ owner.pc \in Filing => \E n \in owner.todo : n.text = owner.at
    /\ owner.target # None => owner.target \in asking

\* A message that is queued although it was entered is the open input or is
\* about to be settled.
Queue ==
    /\ \A m \in Messages : entered[m] # 0 => dirs[m] # {}
    /\ \A m \in Messages : "new" \in dirs[m] /\ entered[m] # 0 => agent.input = m \/ HasProof(m)
    /\ owner.pc \in Draining =>
           \A m \in Messages : "new" \in dirs[m] /\ entered[m] # 0 => owner.pc = "finish" /\ m = owner.at
    /\ owner.pc \in Settlement =>
           \A m \in Messages : "new" \in dirs[m] /\ entered[m] # 0 => \E n \in owner.todo : n.text = m
    /\ EnteredOnce

\* An envelope is in two directories only while its proof is settled.
Copies ==
    /\ \A m \in Messages : HasProof(m) \/ \E d \in {"new", "cur", "failed"} : dirs[m] \subseteq {d}
    /\ owner.pc \in Renamed => "cur" \in dirs[owner.at] /\ "new" \notin dirs[owner.at]
    /\ owner.pc = "remove" => dirs[owner.at] = {"cur"}
    /\ DeliveredIsTaken

\* A proof whose evidence is gone was told, or the owner is about to answer it.
Answering(m) == owner.target = m /\ owner.result = "delivered" /\ m \in asking
Known(m) == told[m] \cap {"delivered", "died"} # {} \/ Answering(m)
Kept ==
    /\ \A m \in proven : HasProof(m) \/ ("cur" \in dirs[m] /\ Known(m))
    /\ owner.result = "delivered" => owner.wait /\ owner.pc \in Settlement \cup {"answer"}
    /\ agent.input \in proven => HasProof(agent.input)
    /\ owner.pc \in {"unfail", "remove"} =>
           "delivered" \in told[owner.at] \/ (owner.wait /\ owner.target = owner.at)

\* An attempt of the present capacity episode is proved by later prompts only.
Timely ==
    \A n \in pending : n.capacity # 0 /\ n.capacity = agent.capacity =>
        /\ \A h \in hooks : h.text = n.text => h.id > episode
        /\ n.proof # NoProof => n.proof.id > episode

IInv == Types /\ Counted /\ OneAttempt /\ Causes /\ Control /\ Queue /\ Copies /\ Kept /\ Timely

-----------------------------------------------------------------------------
(* What a hook does to the evidence.                                         *)

\* The attempt n as the hook h leaves it.
Proved(n, h) ==
    IF n.proof = NoProof /\ h.session = agent.session /\ h.session = n.session /\ h.text = n.text
    THEN [n EXCEPT !.proof = [id |-> h.id, session |-> h.session]] ELSE n

(* A hook changes nothing of an attempt but a missing proof, which becomes   *)
(* its own.                                                                  *)
LEMMA WitnessedAre ==
    ASSUME Types, NEW h \in hooks
    PROVE  /\ \A n \in Witnessed(h) : \E p \in pending :
                  /\ n = Proved(p, h) /\ n.text = p.text /\ n.capacity = p.capacity
                  /\ n.session = p.session /\ n \in Attempts
                  /\ n = p \/ (h.text = n.text /\ n.proof.id = h.id)
           /\ \A p \in pending : Proved(p, h) \in Witnessed(h)
           /\ \A p \in pending : p.proof # NoProof => Proved(p, h) = p
           /\ \A p \in pending : p.proof # NoProof => p \in Witnessed(h)
<1>1. \A p \in pending : /\ Proved(p, h).text = p.text /\ Proved(p, h).capacity = p.capacity
                         /\ Proved(p, h).session = p.session /\ Proved(p, h) \in Attempts
                         /\ Proved(p, h) = p \/ (h.text = p.text /\ Proved(p, h).proof.id = h.id)
    BY DEF Proved, Types, Attempts
<1>2. Witnessed(h) = {Proved(p, h) : p \in pending}
    BY DEF Witnessed, Proved
<1>3. \A p \in pending : p.proof # NoProof => Proved(p, h) = p
    BY DEF Proved
<1>. QED
    BY <1>1, <1>2, <1>3

(* An attempt begins for a message of which nothing is proved.               *)
LEMMA BegunUnproved ==
    ASSUME Types, Queue, Causes, NEW m \in Messages, BeginNative(m)
    PROVE  /\ entered[m] = 0 /\ m \notin taken
           /\ \A q \in Messages : HasProof(q)' <=> HasProof(q)
<1>1. owner.pc = "drain" /\ "new" \in dirs[m]
    BY DEF BeginNative, At
<1>2. entered[m] = 0
    BY <1>1 DEF Queue, Draining
<1>3. m \notin taken /\ ~HasProof(m)
    BY <1>2 DEF Causes
<1>4. \A n \in pending' : (n.text # m /\ n \in pending) \/ (n.text = m /\ n.proof = NoProof)
    BY DEF BeginNative, Attempted
<1>5. \A n \in pending : n.text # m => n \in pending'
    BY DEF BeginNative, Attempted
<1>. QED
    BY <1>2, <1>3, <1>4, <1>5 DEF HasProof, Proofs

(* Every step keeps the types. *)
LEMMA TypesStep ==
    ASSUME Types /\ Control, [Next]_vars
    PROVE  Types'
<1>. USE PeerAssumption DEF None
<1>1. ASSUME NEW m \in Messages, Take(m) PROVE Types'
  <2>1. native' \in [session : Nat, socket : SUBSET Messages, prompts : Nat]
    <3>1. native.prompts + 1 \in Nat /\ native.socket \ {m} \in SUBSET Messages
      BY DEF Types
    <3>2. native' = [native EXCEPT !.socket = native.socket \ {m}, !.prompts = native.prompts + 1]
      BY <1>1 DEF Take
    <3>. QED
      BY <3>1, <3>2 DEF Types
  <2>2. [id |-> native.prompts + 1, session |-> native.session, text |-> m]
            \in [id : Nat, session : Nat, text : Messages]
    BY DEF Types
  <2>3. hooks' \in SUBSET [id : Nat, session : Nat, text : Messages]
    BY <1>1, <2>2 DEF Take, Types
  <2>. QED
    BY <1>1, <2>1, <2>3 DEF Take, Types
<1>2. ASSUME NEW m \in Messages, Send(m) PROVE Types'
    BY <1>2 DEF Send, Types, Owners, Settlement, Filing, Draining, Writing, Attempts, NoOwner,
       NoProof, world, ghosts
<1>3. ASSUME NEW m \in Messages, Busy(m) PROVE Types'
    BY <1>3 DEF Busy, Types, Owners, Settlement, Filing, Draining, Writing, Attempts, NoOwner,
       NoProof, world, ghosts
<1>4. CASE Move
    BY <1>4 DEF Move, Types, Owners, Settlement, Filing, Draining, Writing, Attempts, NoOwner,
       NoProof, Twist, ghosts
<1>5. CASE CapacityFails
  <2>1. agent' \in [session : Nat, turn : Nat, input : Messages \cup {None},
                    failed : Messages \cup {None}, capacity : Nat, failures : Nat]
    <3>1. agent.failures + 1 \in Nat
      BY DEF Types
    <3>2. agent' = [agent EXCEPT !.failures = agent.failures + 1, !.capacity = agent.failures + 1]
      BY <1>5 DEF CapacityFails
    <3>. QED
      BY <3>1, <3>2 DEF Types
  <2>2. episode' \in Nat
    BY <1>5 DEF CapacityFails, Types
  <2>. QED
    BY <1>5, <2>1, <2>2 DEF CapacityFails, Types, Owners, world
<1>6. CASE Adopt
    BY <1>6 DEF Adopt, At, Types, Owners, Settlement, Filing, Draining, Writing, Attempts,
       NoOwner, NoProof, world, ghosts
<1>7. CASE Retire
    BY <1>7 DEF Retire, Retained, Proofs, Settleable, At, Types, Owners, Settlement, Filing,
       Draining, Writing, Attempts, NoOwner, NoProof, world, ghosts
<1>8. ASSUME NEW n \in owner.todo, SettleFile(n) PROVE Types'
    BY <1>8 DEF SettleFile, At, Types, Owners, Settlement, Filing, Draining, Writing, Attempts,
       NoOwner, NoProof, world, ghosts
<1>9. CASE SettleRename
    BY <1>9 DEF SettleRename, At, Goto, Types, Owners, Settlement, Filing, Draining, Writing,
       Attempts, NoOwner, NoProof, world, ghosts
<1>10. CASE SettleCapacity
    BY <1>10 DEF SettleCapacity, At, Goto, Types, Owners, Settlement, Filing, Draining,
       Writing, Attempts, NoOwner, NoProof, world, ghosts
<1>11. CASE SettleTell
    BY <1>11 DEF SettleTell, At, Goto, Types, Owners, Settlement, Filing, Draining, Writing,
       Attempts, NoOwner, NoProof, world, ghosts
<1>12. CASE SettleUnfail
    BY <1>12 DEF SettleUnfail, Unfailed, At, Goto, Types, Owners, Settlement, Filing, Draining,
       Writing, Attempts, NoOwner, NoProof, world, ghosts
<1>13. CASE SettleRemove
    BY <1>13 DEF SettleRemove, At, Types, Owners, Settlement, Filing, Draining, Writing,
       Attempts, NoOwner, NoProof, world, ghosts
<1>14. CASE Settled
    BY <1>14 DEF Settled, At, Types, Owners, Settlement, Filing, Draining, Writing, Attempts,
       NoOwner, NoProof, world, ghosts
<1>15. ASSUME NEW m \in Messages, BeginNative(m) PROVE Types'
  <2>1. [text |-> m, session |-> agent.session, proof |-> NoProof, capacity |-> agent.capacity] \in Attempts
    BY DEF Types, Attempts, NoProof
  <2>2. pending' \in SUBSET Attempts
    BY <1>15, <2>1 DEF BeginNative, Attempted, Types
  <2>3. owner' = [owner EXCEPT !.pc = "begun", !.at = m]
    BY <1>15 DEF BeginNative
  <2>4. owner' \in Owners
    BY <2>3 DEF Types, Owners, Draining, Writing
  <2>. QED
    BY <1>15, <2>2, <2>4 DEF BeginNative, Types, world, ghosts
<1>16. ASSUME NEW m \in Messages, Keystrokes(m) PROVE Types'
    BY <1>16 DEF Keystrokes, At, Types, Owners, Settlement, Filing, Draining, Writing,
       Attempts, NoOwner, NoProof, world
<1>17. CASE StartInput
    BY <1>17 DEF StartInput, At, Goto, Types, Owners, Settlement, Filing, Draining, Writing,
       Attempts, NoOwner, NoProof, world, ghosts
<1>18. ASSUME NEW whole \in BOOLEAN, WriteSocket(whole) PROVE Types'
  <2>1. owner.at \in Messages
    BY <1>18 DEF WriteSocket, At, Control, Writing
  <2>2. native' \in [session : Nat, socket : SUBSET Messages, prompts : Nat]
    BY <1>18, <2>1 DEF WriteSocket, Types
  <2>3. entered' \in [Messages -> Nat]
    BY <1>18, <2>1 DEF WriteSocket, Types
  <2>4. PICK wait \in BOOLEAN : owner' = [owner EXCEPT !.pc = "finish", !.wait = wait]
    BY <1>18 DEF WriteSocket
  <2>5. owner' \in Owners
    BY <2>4 DEF Types, Owners, Draining
  <2>. QED
    BY <1>18, <2>2, <2>3, <2>5 DEF WriteSocket, Types
<1>19. CASE FinishInput
    BY <1>19 DEF FinishInput, Filed, At, Goto, Types, Owners, Settlement, Filing, Draining,
       Writing, Attempts, NoOwner, NoProof, world, ghosts
<1>20. CASE Notify
  <2>1. owner.at \in Messages
    BY <1>20 DEF Notify, At, Control
  <2>2. told' = told \/ told' = [told EXCEPT ![owner.at] = @ \cup {"unverified"}]
    BY <1>20 DEF Notify
  <2>3. told' \in [Messages -> SUBSET {"queued", "unverified", "delivered", "died"}]
    BY <2>1, <2>2 DEF Types
  <2>4. owner' = [owner EXCEPT !.pc = "drain"] \/ owner' = [owner EXCEPT !.pc = "drain", !.result = "unverified"]
    BY <1>20 DEF Notify, Goto
  <2>5. owner' \in Owners
    BY <2>4, ZenonT(40) DEF Types, Owners, Draining
  <2>. QED
    BY <1>20, <2>3, <2>5 DEF Notify, Types, world, ghosts
<1>21. CASE Await
    BY <1>21 DEF Await, At, Goto, Types, Owners, Settlement, Filing, Draining, Writing,
       Attempts, NoOwner, NoProof, world, ghosts
<1>22. CASE AwaitTimesOut
    BY <1>22 DEF AwaitTimesOut, At, Types, Owners, Settlement, Filing, Draining, Writing,
       Attempts, NoOwner, NoProof, world, ghosts
<1>23. CASE Answer
    BY <1>23 DEF Answer, At, Types, Owners, Settlement, Filing, Draining, Writing, Attempts,
       NoOwner, NoProof, world, ghosts
<1>24. CASE OwnerDies
    BY <1>24 DEF OwnerDies, Types, Owners, Settlement, Filing, Draining, Writing, Attempts,
       NoOwner, NoProof, Twist, world, ghosts
<1>25. ASSUME NEW h \in hooks, WriteWitness(h) PROVE Types'
    BY <1>25 DEF WriteWitness, Witnessed, Proofs, Types, Owners, Settlement, Filing, Draining,
       Writing, Attempts, NoOwner, NoProof
<1>26. ASSUME NEW h \in hooks, HookDies(h) PROVE Types'
    BY <1>26 DEF HookDies, Types, Owners, Settlement, Filing, Draining, Writing, Attempts,
       NoOwner, NoProof, Twist, ghosts
<1>27. ASSUME NEW m \in Messages \cup {None}, Acquire(m) PROVE Types'
  <2>1. owner' \in Owners
    BY <1>27 DEF Acquire, NoOwner, Owners
  <2>2. /\ agent' \in [session : Nat, turn : Nat, input : Messages \cup {None},
                       failed : Messages \cup {None}, capacity : Nat, failures : Nat]
        /\ dirs' \in [Messages -> SUBSET {"new", "cur", "failed"}]
        /\ told' \in [Messages -> SUBSET {"queued", "unverified", "delivered", "died"}]
    <3>1. CASE agent.input = None
      BY <1>27, <3>1 DEF Acquire, Types
    <3>2. CASE agent.input # None
      <4>1. agent.input \in Messages
        BY <3>2 DEF Types
      <4>2. /\ agent' = [agent EXCEPT !.input = None, !.failed = agent.input]
            /\ dirs' = [dirs EXCEPT ![agent.input] = {"failed"}]
            /\ told' = [told EXCEPT ![agent.input] = @ \cup {"unverified"}]
        BY <1>27, <3>2 DEF Acquire
      <4>. QED
        BY <4>1, <4>2 DEF Types
    <3>. QED
      BY <3>1, <3>2
  <2>. QED
    BY <1>27, <2>1, <2>2 DEF Acquire, Types, world, ghosts
<1>28. CASE UNCHANGED vars
    BY <1>28 DEF vars, Types, Owners, Settlement, Filing, Draining, Writing
<1>. QED
    BY <1>1, <1>2, <1>3, <1>4, <1>5, <1>6, <1>7, <1>8, <1>9, <1>10, <1>11, <1>12, <1>13, <1>14,
       <1>15, <1>16, <1>17, <1>18, <1>19, <1>20, <1>21, <1>22, <1>23, <1>24, <1>25, <1>26,
       <1>27, <1>28 DEF Next, OwnerStep

(* Sessions, prompts and capacity failures only count up, and what names one was
   counted before. *)
LEMMA CountedStep ==
    ASSUME Types /\ Counted, [Next]_vars
    PROVE  Counted'
<1>1. ASSUME NEW m \in Messages, Take(m) PROVE Counted'
    BY <1>1 DEF Take, Counted, Types
<1>2. ASSUME NEW m \in Messages, Send(m) PROVE Counted'
    BY <1>2 DEF Send, Counted, Types, world, ghosts
<1>3. ASSUME NEW m \in Messages, Busy(m) PROVE Counted'
    BY <1>3 DEF Busy, Counted, Types, world, ghosts
<1>4. CASE Move
    BY <1>4 DEF Move, Counted, Types, Twist, ghosts
<1>5. CASE CapacityFails
  <2>1. agent' = [agent EXCEPT !.failures = agent.failures + 1, !.capacity = agent.failures + 1]
    BY <1>5 DEF CapacityFails
  <2>2. \A n \in pending : n.capacity \in Nat
    BY DEF Types, Attempts
  <2>3. pending' = pending /\ native' = native /\ hooks' = hooks /\ witness' = witness
    BY <1>5 DEF CapacityFails, world
  <2>4. \A n \in pending : n.capacity <= agent.failures + 1
    BY <2>2 DEF Counted, Types
  <2>5. /\ agent'.session = agent.session /\ agent'.turn = agent.turn
        /\ agent'.failures = agent.failures + 1 /\ agent'.capacity = agent.failures + 1
    BY <2>1 DEF Types
  <2>6. episode' = native.prompts
    BY <1>5 DEF CapacityFails
  <2>. QED
    BY <2>3, <2>4, <2>5, <2>6 DEF Counted, Types
<1>6. CASE Adopt
    BY <1>6 DEF Adopt, At, Counted, Types, world, ghosts
<1>7. CASE Retire
    BY <1>7 DEF Retire, Retained, Proofs, Settleable, At, Counted, Types, world, ghosts
<1>8. ASSUME NEW n \in owner.todo, SettleFile(n) PROVE Counted'
    BY <1>8 DEF SettleFile, At, Counted, Types, world, ghosts
<1>9. CASE SettleRename
    BY <1>9 DEF SettleRename, At, Goto, Counted, Types, world, ghosts
<1>10. CASE SettleCapacity
    BY <1>10 DEF SettleCapacity, At, Goto, Counted, Types, world, ghosts
<1>11. CASE SettleTell
    BY <1>11 DEF SettleTell, At, Goto, Counted, Types, world, ghosts
<1>12. CASE SettleUnfail
    BY <1>12 DEF SettleUnfail, Unfailed, At, Goto, Counted, Types, world, ghosts
<1>13. CASE SettleRemove
    BY <1>13 DEF SettleRemove, At, Counted, Types, world, ghosts
<1>14. CASE Settled
    BY <1>14 DEF Settled, At, Counted, Types, world, ghosts
<1>15. ASSUME NEW m \in Messages, BeginNative(m) PROVE Counted'
    BY <1>15 DEF BeginNative, Attempted, At, Counted, Types, world, ghosts
<1>16. ASSUME NEW m \in Messages, Keystrokes(m) PROVE Counted'
    BY <1>16 DEF Keystrokes, At, Counted, Types, world
<1>17. CASE StartInput
    BY <1>17 DEF StartInput, At, Goto, Counted, Types, world, ghosts
<1>18. ASSUME NEW whole \in BOOLEAN, WriteSocket(whole) PROVE Counted'
    BY <1>18 DEF WriteSocket, At, Counted, Types
<1>19. CASE FinishInput
    BY <1>19 DEF FinishInput, Filed, At, Goto, Counted, Types, world, ghosts
<1>20. CASE Notify
    BY <1>20 DEF Notify, At, Goto, Counted, Types, world, ghosts
<1>21. CASE Await
    BY <1>21 DEF Await, At, Goto, Counted, Types, world, ghosts
<1>22. CASE AwaitTimesOut
    BY <1>22 DEF AwaitTimesOut, At, Counted, Types, world, ghosts
<1>23. CASE Answer
    BY <1>23 DEF Answer, At, Counted, Types, world, ghosts
<1>24. CASE OwnerDies
    BY <1>24 DEF OwnerDies, Counted, Types, Twist, world, ghosts
<1>25. ASSUME NEW h \in hooks, WriteWitness(h) PROVE Counted'
  <2>1. \A n \in pending' : n.capacity <= agent.failures
    BY <1>25, WitnessedAre DEF WriteWitness, Counted
  <2>2. native' = native /\ agent' = agent /\ episode' = episode /\ hooks' \subseteq hooks
    BY <1>25 DEF WriteWitness
  <2>3. witness'.id = h.id
    BY <1>25 DEF WriteWitness
  <2>. QED
    BY <2>1, <2>2, <2>3 DEF Counted
<1>26. ASSUME NEW h \in hooks, HookDies(h) PROVE Counted'
    BY <1>26 DEF HookDies, Counted, Types, Twist, ghosts
<1>27. ASSUME NEW m \in Messages \cup {None}, Acquire(m) PROVE Counted'
    BY <1>27 DEF Acquire, Counted, Types, world, ghosts
<1>28. CASE UNCHANGED vars
    BY <1>28 DEF vars, Counted, Types
<1>. QED
    BY <1>1, <1>2, <1>3, <1>4, <1>5, <1>6, <1>7, <1>8, <1>9, <1>10, <1>11, <1>12, <1>13, <1>14,
       <1>15, <1>16, <1>17, <1>18, <1>19, <1>20, <1>21, <1>22, <1>23, <1>24, <1>25, <1>26,
       <1>27, <1>28 DEF Next, OwnerStep

(* BeginNative replaces the attempt of its message, and a hook changes attempts in
   place. *)
LEMMA OneAttemptStep ==
    ASSUME Types /\ OneAttempt, [Next]_vars
    PROVE  OneAttempt'
<1>1. ASSUME NEW m \in Messages, Take(m) PROVE OneAttempt'
    BY <1>1 DEF Take, OneAttempt, Types
<1>2. ASSUME NEW m \in Messages, Send(m) PROVE OneAttempt'
    BY <1>2 DEF Send, OneAttempt, Types
<1>3. ASSUME NEW m \in Messages, Busy(m) PROVE OneAttempt'
    BY <1>3 DEF Busy, OneAttempt, Types
<1>4. CASE Move
    BY <1>4 DEF Move, OneAttempt, Types, Twist
<1>5. CASE CapacityFails
    BY <1>5 DEF CapacityFails, OneAttempt, Types, Twist
<1>6. CASE Adopt
    BY <1>6 DEF Adopt, At, OneAttempt, Types
<1>7. CASE Retire
    BY <1>7 DEF Retire, Retained, Proofs, Settleable, At, OneAttempt, Types
<1>8. ASSUME NEW n \in owner.todo, SettleFile(n) PROVE OneAttempt'
    BY <1>8 DEF SettleFile, At, OneAttempt, Types
<1>9. CASE SettleRename
    BY <1>9 DEF SettleRename, At, Goto, OneAttempt, Types
<1>10. CASE SettleCapacity
    BY <1>10 DEF SettleCapacity, At, Goto, OneAttempt, Types
<1>11. CASE SettleTell
    BY <1>11 DEF SettleTell, At, Goto, OneAttempt, Types
<1>12. CASE SettleUnfail
    BY <1>12 DEF SettleUnfail, Unfailed, At, Goto, OneAttempt, Types
<1>13. CASE SettleRemove
    BY <1>13 DEF SettleRemove, At, OneAttempt, Types
<1>14. CASE Settled
    BY <1>14 DEF Settled, At, OneAttempt, Types
<1>15. ASSUME NEW m \in Messages, BeginNative(m) PROVE OneAttempt'
    BY <1>15 DEF BeginNative, Attempted, At, OneAttempt, Types
<1>16. ASSUME NEW m \in Messages, Keystrokes(m) PROVE OneAttempt'
    BY <1>16 DEF Keystrokes, At, OneAttempt, Types
<1>17. CASE StartInput
    BY <1>17 DEF StartInput, At, Goto, OneAttempt, Types
<1>18. ASSUME NEW whole \in BOOLEAN, WriteSocket(whole) PROVE OneAttempt'
    BY <1>18 DEF WriteSocket, At, OneAttempt, Types
<1>19. CASE FinishInput
    BY <1>19 DEF FinishInput, Filed, At, Goto, OneAttempt, Types
<1>20. CASE Notify
    BY <1>20 DEF Notify, At, Goto, OneAttempt, Types
<1>21. CASE Await
    BY <1>21 DEF Await, At, Goto, OneAttempt, Types
<1>22. CASE AwaitTimesOut
    BY <1>22 DEF AwaitTimesOut, At, OneAttempt, Types
<1>23. CASE Answer
    BY <1>23 DEF Answer, At, OneAttempt, Types
<1>24. CASE OwnerDies
    BY <1>24 DEF OwnerDies, OneAttempt, Types, Twist
<1>25. ASSUME NEW h \in hooks, WriteWitness(h) PROVE OneAttempt'
  <2>1. SUFFICES ASSUME NEW n \in pending', NEW o \in pending', n.text = o.text PROVE n = o
    BY DEF OneAttempt
  <2>2. PICK p \in pending : n.text = p.text /\ n = Proved(p, h)
    BY <1>25, <2>1, WitnessedAre DEF WriteWitness
  <2>3. PICK q \in pending : o.text = q.text /\ o = Proved(q, h)
    BY <1>25, <2>1, WitnessedAre DEF WriteWitness
  <2>. QED
    BY <2>1, <2>2, <2>3 DEF OneAttempt
<1>26. ASSUME NEW h \in hooks, HookDies(h) PROVE OneAttempt'
    BY <1>26 DEF HookDies, OneAttempt, Types, Twist
<1>27. ASSUME NEW m \in Messages \cup {None}, Acquire(m) PROVE OneAttempt'
    BY <1>27 DEF Acquire, OneAttempt, Types
<1>28. CASE UNCHANGED vars
    BY <1>28 DEF vars, OneAttempt, Types
<1>. QED
    BY <1>1, <1>2, <1>3, <1>4, <1>5, <1>6, <1>7, <1>8, <1>9, <1>10, <1>11, <1>12, <1>13, <1>14,
       <1>15, <1>16, <1>17, <1>18, <1>19, <1>20, <1>21, <1>22, <1>23, <1>24, <1>25, <1>26,
       <1>27, <1>28 DEF Next, OwnerStep

(* A message reaches the socket, a hook, the witness and a proof in that order. *)
LEMMA CausesStep ==
    ASSUME Types /\ Causes /\ Control, [Next]_vars
    PROVE  Causes'
<1>1. ASSUME NEW m \in Messages, Take(m) PROVE Causes'
    BY <1>1 DEF Take, Causes, HasProof, Proofs, Types
<1>2. ASSUME NEW m \in Messages, Send(m) PROVE Causes'
    BY <1>2 DEF Send, Causes, HasProof, Proofs, Types, world, ghosts
<1>3. ASSUME NEW m \in Messages, Busy(m) PROVE Causes'
    BY <1>3 DEF Busy, Causes, HasProof, Proofs, Types, world, ghosts
<1>4. CASE Move
    BY <1>4 DEF Move, Causes, HasProof, Proofs, Types, Twist, ghosts
<1>5. CASE CapacityFails
    BY <1>5 DEF CapacityFails, Causes, HasProof, Proofs, Types, Twist, world
<1>6. CASE Adopt
    BY <1>6 DEF Adopt, At, Causes, HasProof, Proofs, Types, world, ghosts
<1>7. CASE Retire
    BY <1>7 DEF Retire, Retained, Proofs, Settleable, At, Causes, HasProof, Types, world, ghosts
<1>8. ASSUME NEW n \in owner.todo, SettleFile(n) PROVE Causes'
    BY <1>8 DEF SettleFile, At, Causes, HasProof, Proofs, Types, world, ghosts
<1>9. CASE SettleRename
    BY <1>9 DEF SettleRename, At, Goto, Causes, HasProof, Proofs, Types, world, ghosts
<1>10. CASE SettleCapacity
    BY <1>10 DEF SettleCapacity, At, Goto, Causes, HasProof, Proofs, Types, world, ghosts
<1>11. CASE SettleTell
    BY <1>11 DEF SettleTell, At, Goto, Causes, HasProof, Proofs, Types, world, ghosts
<1>12. CASE SettleUnfail
    BY <1>12 DEF SettleUnfail, Unfailed, At, Goto, Causes, HasProof, Proofs, Types, world,
       ghosts
<1>13. CASE SettleRemove
    BY <1>13 DEF SettleRemove, At, Causes, HasProof, Proofs, Types, world, ghosts
<1>14. CASE Settled
    BY <1>14 DEF Settled, At, Causes, HasProof, Proofs, Types, world, ghosts
<1>15. ASSUME NEW m \in Messages, BeginNative(m) PROVE Causes'
    BY <1>15 DEF BeginNative, Attempted, At, Causes, HasProof, Proofs, Types, world, ghosts
<1>16. ASSUME NEW m \in Messages, Keystrokes(m) PROVE Causes'
    BY <1>16 DEF Keystrokes, At, Causes, HasProof, Proofs, Types, world
<1>17. CASE StartInput
    BY <1>17 DEF StartInput, At, Goto, Causes, HasProof, Proofs, Types, world, ghosts
<1>18. ASSUME NEW whole \in BOOLEAN, WriteSocket(whole) PROVE Causes'
  <2>1. owner.at \in Messages /\ entered[owner.at] \in Nat
    BY <1>18 DEF WriteSocket, At, Control, Writing, Types
  <2>2. entered'[owner.at] # 0 /\ \A m \in Messages \ {owner.at} : entered'[m] = entered[m]
    BY <1>18, <2>1 DEF WriteSocket, Types
  <2>3. native'.socket = native.socket \cup {owner.at}
    BY <1>18 DEF WriteSocket, Types
  <2>4. \A m \in Messages : HasProof(m)' = HasProof(m)
    BY <1>18 DEF WriteSocket, HasProof, Proofs
  <2>5. hooks' = hooks /\ taken' = taken /\ proven' = proven
    BY <1>18 DEF WriteSocket
  <2>. QED
    BY <2>2, <2>3, <2>4, <2>5 DEF Causes, Types
<1>19. CASE FinishInput
    BY <1>19 DEF FinishInput, Filed, At, Goto, Causes, HasProof, Proofs, Types, world, ghosts
<1>20. CASE Notify
    BY <1>20 DEF Notify, At, Goto, Causes, HasProof, Proofs, Types, world, ghosts
<1>21. CASE Await
    BY <1>21 DEF Await, At, Goto, Causes, HasProof, Proofs, Types, world, ghosts
<1>22. CASE AwaitTimesOut
    BY <1>22 DEF AwaitTimesOut, At, Causes, HasProof, Proofs, Types, world, ghosts
<1>23. CASE Answer
    BY <1>23 DEF Answer, At, Causes, HasProof, Proofs, Types, world, ghosts
<1>24. CASE OwnerDies
    BY <1>24 DEF OwnerDies, Causes, HasProof, Proofs, Types, Twist, world, ghosts
<1>25. ASSUME NEW h \in hooks, WriteWitness(h) PROVE Causes'
  <2>1. pending' = Witnessed(h) /\ hooks' \subseteq hooks
        /\ proven' = proven \cup {n.text : n \in {o \in pending' : o.proof # NoProof}}
        /\ native' = native /\ taken' = taken /\ entered' = entered
    BY <1>25 DEF WriteWitness
  <2>2. ASSUME NEW n \in pending', n.proof # NoProof PROVE n.text \in taken
    <3>1. PICK p \in pending : n.text = p.text /\ (n = p \/ h.text = n.text)
      BY <2>1, WitnessedAre
    <3>2. CASE n = p
      BY <3>2, <2>2 DEF Causes, HasProof, Proofs, Types, Attempts
    <3>3. CASE h.text = n.text
      BY <3>3 DEF Causes
    <3>. QED
      BY <3>1, <3>2, <3>3
  <2>3. proven' \subseteq taken
    BY <2>1, <2>2 DEF Causes
  <2>4. \A m \in Messages : HasProof(m)' => m \in proven'
    BY <2>1 DEF HasProof, Proofs
  <2>. QED
    BY <2>1, <2>3, <2>4 DEF Causes
<1>26. ASSUME NEW h \in hooks, HookDies(h) PROVE Causes'
    BY <1>26 DEF HookDies, Causes, HasProof, Proofs, Types, Twist, ghosts
<1>27. ASSUME NEW m \in Messages \cup {None}, Acquire(m) PROVE Causes'
    BY <1>27 DEF Acquire, Causes, HasProof, Proofs, Types, world, ghosts
<1>28. CASE UNCHANGED vars
    BY <1>28 DEF vars, Causes, HasProof, Proofs, Types
<1>. QED
    BY <1>1, <1>2, <1>3, <1>4, <1>5, <1>6, <1>7, <1>8, <1>9, <1>10, <1>11, <1>12, <1>13, <1>14,
       <1>15, <1>16, <1>17, <1>18, <1>19, <1>20, <1>21, <1>22, <1>23, <1>24, <1>25, <1>26,
       <1>27, <1>28 DEF Next, OwnerStep

(* The owner's steps follow each other; only its own steps open an input or change
   what it is settling. *)
LEMMA ControlStep ==
    ASSUME Types /\ Control /\ Queue /\ OneAttempt, [Next]_vars
    PROVE  Control'
<1>1. ASSUME NEW m \in Messages, Take(m) PROVE Control'
    BY <1>1 DEF Take, Control, Types, Settlement, Filing, Writing, Proofs
<1>2. ASSUME NEW m \in Messages, Send(m) PROVE Control'
    BY <1>2 DEF Send, Control, Types, NoOwner, Settlement, Filing, Writing, Proofs, world,
       ghosts
<1>3. ASSUME NEW m \in Messages, Busy(m) PROVE Control'
    BY <1>3 DEF Busy, Control, Types, NoOwner, Settlement, Filing, Writing, Proofs, world,
       ghosts
<1>4. CASE Move
    BY <1>4 DEF Move, Control, Types, NoOwner, Settlement, Filing, Writing, Proofs, Twist,
       ghosts
<1>5. CASE CapacityFails
    BY <1>5 DEF CapacityFails, Control, Types, Settlement, Filing, Writing, Proofs, Twist
<1>6. CASE Adopt
    BY <1>6 DEF Adopt, At, Control, Types, Settlement, Filing, Writing, Proofs
<1>7. CASE Retire
    BY <1>7 DEF Retire, Retained, Proofs, Settleable, At, Control, Types, Settlement, Filing, Writing
<1>8. ASSUME NEW n \in owner.todo, SettleFile(n) PROVE Control'
  <2>1. owner' = [owner EXCEPT !.pc = "rename", !.at = n.text]
    BY <1>8 DEF SettleFile
  <2>2. n.text \in Messages
    BY DEF Types, Owners, Attempts
  <2>3. /\ owner'.pc = "rename" /\ owner'.at = n.text /\ owner'.todo = owner.todo /\ owner'.target = owner.target
    BY <2>1 DEF Types, Owners
  <2>4. agent' = agent /\ asking' = asking /\ pending' = pending
    BY <1>8 DEF SettleFile
  <2>. QED
    BY <1>8, <2>2, <2>3, <2>4 DEF SettleFile, At, Control, Settlement, Filing, Writing, Proofs
<1>9. CASE SettleRename
    BY <1>9 DEF SettleRename, At, Goto, Control, Types, Settlement, Filing, Writing, Proofs
<1>10. CASE SettleCapacity
    BY <1>10 DEF SettleCapacity, At, Goto, Control, Types, Settlement, Filing, Writing, Proofs
<1>11. CASE SettleTell
    BY <1>11 DEF SettleTell, At, Goto, Control, Types, Settlement, Filing, Writing, Proofs
<1>12. CASE SettleUnfail
    BY <1>12 DEF SettleUnfail, Unfailed, At, Goto, Control, Types, Settlement, Filing, Writing, Proofs
<1>13. CASE SettleRemove
    BY <1>13 DEF SettleRemove, At, Control, Types, Settlement, Filing, Writing, Proofs
<1>14. CASE Settled
    BY <1>14 DEF Settled, At, Control, Types, Settlement, Filing, Writing, Proofs
<1>15. ASSUME NEW m \in Messages, BeginNative(m) PROVE Control'
  <2>1. owner' = [owner EXCEPT !.pc = "begun", !.at = m] /\ owner.pc = "drain"
    BY <1>15 DEF BeginNative, At
  <2>2. entered[m] = 0 /\ "new" \in dirs[m]
    BY <1>15, <2>1 DEF BeginNative, Queue, Draining
  <2>3. owner'.pc = "begun" /\ owner'.at = m /\ owner'.target = owner.target
    BY <2>1 DEF Types, Owners
  <2>4. agent' = agent /\ asking' = asking /\ dirs' = dirs /\ entered' = entered
    BY <1>15 DEF BeginNative, ghosts
  <2>. QED
    BY <2>1, <2>2, <2>3, <2>4 DEF Control, Settlement, Filing, Writing
<1>16. ASSUME NEW m \in Messages, Keystrokes(m) PROVE Control'
    BY <1>16 DEF Keystrokes, At, Control, Types, Settlement, Filing, Writing, Proofs
<1>17. CASE StartInput
    BY <1>17 DEF StartInput, At, Goto, Control, Types, NoOwner, Settlement, Filing, Writing,
       Proofs, world, ghosts
<1>18. ASSUME NEW whole \in BOOLEAN, WriteSocket(whole) PROVE Control'
    BY <1>18 DEF WriteSocket, At, Control, Types, Settlement, Filing, Writing, Proofs
<1>19. CASE FinishInput
    BY <1>19 DEF FinishInput, Filed, At, Goto, Control, Types, Settlement, Filing, Writing, Proofs
<1>20. CASE Notify
  <2>1. owner'.pc = "drain" /\ owner'.target = owner.target /\ owner.pc = "notify"
    BY <1>20 DEF Notify, At, Goto, Types, Owners
  <2>2. agent' = agent /\ asking' = asking
    BY <1>20 DEF Notify
  <2>. QED
    BY <2>1, <2>2 DEF Control, Settlement, Filing, Writing
<1>21. CASE Await
    BY <1>21 DEF Await, At, Goto, Control, Types, Settlement, Filing, Writing, Proofs
<1>22. CASE AwaitTimesOut
    BY <1>22 DEF AwaitTimesOut, At, Control, Types, Settlement, Filing, Writing, Proofs
<1>23. CASE Answer
    BY <1>23 DEF Answer, At, Control, Types, NoOwner, Settlement, Filing, Writing, Proofs,
       world, ghosts
<1>24. CASE OwnerDies
    BY <1>24 DEF OwnerDies, Control, Types, NoOwner, Settlement, Filing, Writing, Proofs,
       Twist, world, ghosts
<1>25. ASSUME NEW h \in hooks, WriteWitness(h) PROVE Control'
    BY <1>25 DEF WriteWitness, Witnessed, Proofs, Control, Types, Settlement, Filing, Writing
<1>26. ASSUME NEW h \in hooks, HookDies(h) PROVE Control'
    BY <1>26 DEF HookDies, Control, Types, NoOwner, Settlement, Filing, Writing, Proofs, Twist,
       ghosts
<1>27. ASSUME NEW m \in Messages \cup {None}, Acquire(m) PROVE Control'
    BY <1>27, ZenonT(40) DEF Acquire, Control, Types, NoOwner, Settlement, Filing, Writing, Proofs, world,
       ghosts
<1>28. CASE UNCHANGED vars
    BY <1>28 DEF vars, Control, Types, Settlement, Filing, Writing, Proofs
<1>. QED
    BY <1>1, <1>2, <1>3, <1>4, <1>5, <1>6, <1>7, <1>8, <1>9, <1>10, <1>11, <1>12, <1>13, <1>14,
       <1>15, <1>16, <1>17, <1>18, <1>19, <1>20, <1>21, <1>22, <1>23, <1>24, <1>25, <1>26,
       <1>27, <1>28 DEF Next, OwnerStep

(* A queued message that was entered already is settled before the queue is drained:
   FinishInput and Acquire take it from the queue, and a proof has put it back. *)
LEMMA QueueStep ==
    ASSUME Types /\ Control /\ Queue /\ Copies, [Next]_vars
    PROVE  Queue'
<1>1. ASSUME NEW m \in Messages, Take(m) PROVE Queue'
    BY <1>1 DEF Take, Queue, EnteredOnce, HasProof, Proofs, Types, Control, Settlement, Filing, Writing, Draining
<1>2. ASSUME NEW m \in Messages, Send(m) PROVE Queue'
    BY <1>2 DEF Send, Queue, EnteredOnce, HasProof, Proofs, Types, Control, Settlement, Filing,
       Writing, Draining, NoOwner, world, ghosts
<1>3. ASSUME NEW m \in Messages, Busy(m) PROVE Queue'
    BY <1>3 DEF Busy, Queue, EnteredOnce, HasProof, Proofs, Types, Control, Settlement, Filing,
       Writing, Draining, NoOwner, world, ghosts
<1>4. CASE Move
    BY <1>4 DEF Move, Queue, EnteredOnce, HasProof, Proofs, Types, Control, Settlement, Filing,
       Writing, Draining, NoOwner, Twist, ghosts
<1>5. CASE CapacityFails
    BY <1>5 DEF CapacityFails, Queue, EnteredOnce, HasProof, Proofs, Types, Control, Settlement, Filing, Writing, Draining, Twist
<1>6. CASE Adopt
    BY <1>6 DEF Adopt, At, Queue, EnteredOnce, HasProof, Proofs, Types, Control, Settlement,
       Filing, Writing, Draining, NoOwner, world, ghosts
<1>7. CASE Retire
  <2>1. owner' = [owner EXCEPT !.pc = "settle", !.todo = Proofs(Retained)] /\ owner.pc = "retire" /\ pending' = Retained
    BY <1>7 DEF Retire, At, Settleable
  <2>2. agent'.input = agent.input /\ dirs' = dirs /\ entered' = entered
    BY <1>7 DEF Retire, Types, ghosts
  <2>3. Proofs(Retained) = Proofs(pending)
    BY DEF Proofs, Retained
  <2>4. \A m \in Messages : HasProof(m)' <=> HasProof(m)
    BY <2>1, <2>3 DEF HasProof, Proofs
  <2>5. owner'.pc = "settle" /\ owner'.todo = Proofs(pending)
    BY <2>1, <2>3 DEF Types, Owners
  <2>6. agent.input = None
    BY <2>1 DEF Control
  <2>. QED
    BY <2>2, <2>4, <2>5, <2>6, PeerAssumption DEF Queue, EnteredOnce, HasProof, Settlement, Draining, Writing, None
<1>8. ASSUME NEW n \in owner.todo, SettleFile(n) PROVE Queue'
    BY <1>8 DEF SettleFile, At, Queue, EnteredOnce, HasProof, Proofs, Types, Control,
       Settlement, Filing, Writing, Draining, NoOwner, world, ghosts
<1>9. CASE SettleRename
  <2>1. owner.pc = "rename" /\ owner'.pc = "capacity" /\ owner'.todo = owner.todo /\ owner.at \in Messages
    BY <1>9 DEF SettleRename, At, Goto, Types, Owners, Control, Filing
  <2>2. /\ dirs'[owner.at] = (dirs[owner.at] \ {"new"}) \cup {"cur"}
        /\ \A m \in Messages \ {owner.at} : dirs'[m] = dirs[m]
    BY <1>9, <2>1 DEF SettleRename, Types
  <2>3. agent'.input = agent.input /\ pending' = pending /\ entered' = entered
    BY <1>9 DEF SettleRename, Types, ghosts
  <2>4. \A m \in Messages : "new" \in dirs'[m] => "new" \in dirs[m]
    BY <2>2
  <2>5. \A m \in Messages : HasProof(m)' <=> HasProof(m)
    BY <2>3 DEF HasProof, Proofs
  <2>6. \A m \in Messages : dirs[m] # {} => dirs'[m] # {}
    BY <2>2
  <2>. QED
    BY <2>1, <2>3, <2>4, <2>5, <2>6 DEF Queue, EnteredOnce, Settlement, Filing, Draining, Writing
<1>10. CASE SettleCapacity
    BY <1>10 DEF SettleCapacity, At, Goto, Queue, EnteredOnce, HasProof, Proofs, Types,
       Control, Settlement, Filing, Writing, Draining, NoOwner, world, ghosts
<1>11. CASE SettleTell
    BY <1>11 DEF SettleTell, At, Goto, Queue, EnteredOnce, HasProof, Proofs, Types, Control,
       Settlement, Filing, Writing, Draining, NoOwner, world, ghosts
<1>12. CASE SettleUnfail
  <2>1. owner.pc = "unfail" /\ owner'.pc = "remove" /\ owner'.todo = owner.todo /\ owner.at \in Messages
    BY <1>12 DEF SettleUnfail, At, Goto, Types, Owners, Control, Filing
  <2>2. /\ dirs'[owner.at] = dirs[owner.at] \ {"failed"} /\ "cur" \in dirs[owner.at]
        /\ \A m \in Messages \ {owner.at} : dirs'[m] = dirs[m]
    BY <1>12, <2>1 DEF SettleUnfail, Unfailed, Copies, Renamed, Types
  <2>3. agent' = agent /\ pending' = pending /\ entered' = entered
    BY <1>12 DEF SettleUnfail, ghosts
  <2>4. \A m \in Messages : "new" \in dirs'[m] => "new" \in dirs[m]
    BY <2>2
  <2>5. \A m \in Messages : HasProof(m)' <=> HasProof(m)
    BY <2>3 DEF HasProof, Proofs
  <2>6. \A m \in Messages : dirs[m] # {} => dirs'[m] # {}
    BY <2>2
  <2>. QED
    BY <2>1, <2>3, <2>4, <2>5, <2>6 DEF Queue, EnteredOnce, Settlement, Filing, Draining, Writing
<1>13. CASE SettleRemove
  <2>1. /\ owner.pc = "remove" /\ owner'.pc = "settle" /\ owner'.todo = {n \in owner.todo : n.text # owner.at}
        /\ pending' = {n \in pending : n.text # owner.at}
    BY <1>13 DEF SettleRemove, At, Types, Owners
  <2>2. agent' = agent /\ dirs' = dirs /\ entered' = entered
    BY <1>13 DEF SettleRemove, ghosts
  <2>3. \A m \in Messages \ {owner.at} : HasProof(m)' <=> HasProof(m)
    BY <2>1 DEF HasProof, Proofs
  <2>4. "new" \notin dirs[owner.at]
    BY <2>1 DEF Copies, Renamed
  <2>5. \A m \in Messages : "new" \in dirs[m] /\ entered[m] # 0 => \E n \in owner'.todo : n.text = m
    BY <2>1, <2>4 DEF Queue, Settlement, Filing
  <2>6. \A m \in Messages : "new" \in dirs[m] /\ entered[m] # 0 => agent.input = m \/ HasProof(m)'
    BY <2>3, <2>4 DEF Queue
  <2>. QED
    BY <2>1, <2>2, <2>5, <2>6 DEF Queue, EnteredOnce, Settlement, Draining, Writing
<1>14. CASE Settled
    BY <1>14 DEF Settled, At, Queue, EnteredOnce, HasProof, Proofs, Types, Control, Settlement,
       Filing, Writing, Draining, NoOwner, world, ghosts
<1>15. ASSUME NEW m \in Messages, BeginNative(m) PROVE Queue'
    BY <1>15 DEF BeginNative, Attempted, At, Queue, EnteredOnce, HasProof, Proofs, Types,
       Control, Settlement, Filing, Writing, Draining, NoOwner, world, ghosts
<1>16. ASSUME NEW m \in Messages, Keystrokes(m) PROVE Queue'
    BY <1>16, SMTT(30) DEF Keystrokes, At, Queue, EnteredOnce, HasProof, Proofs, Types, Control, Settlement, Filing, Writing, Draining
<1>17. CASE StartInput
    BY <1>17 DEF StartInput, At, Goto, Queue, EnteredOnce, HasProof, Proofs, Types, Control,
       Settlement, Filing, Writing, Draining, NoOwner, world, ghosts
<1>18. ASSUME NEW whole \in BOOLEAN, WriteSocket(whole) PROVE Queue'
    BY <1>18 DEF WriteSocket, At, Queue, EnteredOnce, HasProof, Proofs, Types, Control, Settlement, Filing, Writing, Draining
<1>19. CASE FinishInput
    BY <1>19 DEF FinishInput, Filed, At, Goto, Queue, EnteredOnce, HasProof, Proofs, Types,
       Control, Settlement, Filing, Writing, Draining, NoOwner, world, ghosts
<1>20. CASE Notify
    BY <1>20 DEF Notify, At, Goto, Queue, EnteredOnce, HasProof, Proofs, Types, Control,
       Settlement, Filing, Writing, Draining, NoOwner, world, ghosts
<1>21. CASE Await
    BY <1>21 DEF Await, At, Goto, Queue, EnteredOnce, HasProof, Proofs, Types, Control,
       Settlement, Filing, Writing, Draining, NoOwner, world, ghosts
<1>22. CASE AwaitTimesOut
    BY <1>22 DEF AwaitTimesOut, At, Queue, EnteredOnce, HasProof, Proofs, Types, Control,
       Settlement, Filing, Writing, Draining, NoOwner, world, ghosts
<1>23. CASE Answer
    BY <1>23 DEF Answer, At, Queue, EnteredOnce, HasProof, Proofs, Types, Control, Settlement,
       Filing, Writing, Draining, NoOwner, world, ghosts
<1>24. CASE OwnerDies
    BY <1>24 DEF OwnerDies, Queue, EnteredOnce, HasProof, Proofs, Types, Control, Settlement,
       Filing, Writing, Draining, NoOwner, Twist, world, ghosts
<1>25. ASSUME NEW h \in hooks, WriteWitness(h) PROVE Queue'
    BY <1>25 DEF WriteWitness, Witnessed, Proofs, Queue, EnteredOnce, HasProof, Types, Control, Settlement, Filing, Writing, Draining
<1>26. ASSUME NEW h \in hooks, HookDies(h) PROVE Queue'
    BY <1>26 DEF HookDies, Queue, EnteredOnce, HasProof, Proofs, Types, Control, Settlement,
       Filing, Writing, Draining, NoOwner, Twist, ghosts
<1>27. ASSUME NEW m \in Messages \cup {None}, Acquire(m) PROVE Queue'
  <2>1. /\ UNCHANGED <<entered, pending>> /\ owner'.pc = "retire"
        /\ \/ agent.input = None /\ UNCHANGED <<agent, dirs>>
           \/ /\ agent.input # None /\ agent' = [agent EXCEPT !.input = None, !.failed = agent.input]
              /\ dirs' = [dirs EXCEPT ![agent.input] = {"failed"}]
    BY <1>27 DEF Acquire, NoOwner, world, ghosts
  <2>2. "retire" \notin Draining /\ "retire" \notin Settlement
    BY DEF Draining, Settlement, Filing, Writing
  <2>3. \A k \in Messages : HasProof(k)' = HasProof(k)
    BY <2>1 DEF HasProof, Proofs
  <2>4. \A k \in Messages : dirs'[k] = dirs[k] \/ (k = agent.input /\ dirs'[k] = {"failed"})
    BY <2>1 DEF Types
  <2>5. ASSUME NEW k \in Messages, "new" \in dirs'[k], entered[k] # 0
        PROVE  agent'.input = k \/ HasProof(k)
    <3>1. CASE agent.input = None /\ UNCHANGED <<agent, dirs>>
      BY <2>5, <3>1 DEF Queue
    <3>2. CASE agent.input # None /\ dirs' = [dirs EXCEPT ![agent.input] = {"failed"}]
      <4>1. k # agent.input
        BY <2>5, <3>2 DEF Types
      <4>2. dirs'[k] = dirs[k]
        BY <2>4, <4>1
      <4>. QED
        BY <2>5, <4>1, <4>2 DEF Queue
    <3>. QED
      BY <2>1, <3>1, <3>2
  <2>6. \A k \in Messages : entered'[k] # 0 => dirs'[k] # {}
    BY <2>1, <2>4 DEF Queue
  <2>. QED
    BY <2>1, <2>2, <2>3, <2>5, <2>6 DEF Queue, EnteredOnce
<1>28. CASE UNCHANGED vars
    BY <1>28 DEF vars, Queue, EnteredOnce, HasProof, Proofs, Types, Control, Settlement, Filing, Writing, Draining
<1>. QED
    BY <1>1, <1>2, <1>3, <1>4, <1>5, <1>6, <1>7, <1>8, <1>9, <1>10, <1>11, <1>12, <1>13, <1>14,
       <1>15, <1>16, <1>17, <1>18, <1>19, <1>20, <1>21, <1>22, <1>23, <1>24, <1>25, <1>26,
       <1>27, <1>28 DEF Next, OwnerStep

(* A second copy of an envelope is written for a proof alone, and is gone again before
   the proof is. *)
LEMMA CopiesStep ==
    ASSUME Types /\ Control /\ Causes /\ Queue /\ Copies, [Next]_vars
    PROVE  Copies'
<1>1. ASSUME NEW m \in Messages, Take(m) PROVE Copies'
    BY <1>1 DEF Take, Copies, DeliveredIsTaken, HasProof, Proofs, Types, Control, Settlement, Filing, Renamed, Writing
<1>2. ASSUME NEW m \in Messages, Send(m) PROVE Copies'
    BY <1>2 DEF Send, Copies, DeliveredIsTaken, HasProof, Proofs, Types, Control, Settlement,
       Filing, Renamed, Writing, NoOwner, world, ghosts
<1>3. ASSUME NEW m \in Messages, Busy(m) PROVE Copies'
    BY <1>3 DEF Busy, Copies, DeliveredIsTaken, HasProof, Proofs, Types, Control, Settlement,
       Filing, Renamed, Writing, NoOwner, world, ghosts
<1>4. CASE Move
    BY <1>4 DEF Move, Copies, DeliveredIsTaken, HasProof, Proofs, Types, Control, Settlement,
       Filing, Renamed, Writing, NoOwner, Twist, ghosts
<1>5. CASE CapacityFails
    BY <1>5 DEF CapacityFails, Copies, DeliveredIsTaken, HasProof, Proofs, Types, Control, Settlement, Filing, Renamed, Writing, Twist
<1>6. CASE Adopt
    BY <1>6 DEF Adopt, At, Copies, DeliveredIsTaken, HasProof, Proofs, Types, Control,
       Settlement, Filing, Renamed, Writing, NoOwner, world, ghosts
<1>7. CASE Retire
    BY <1>7 DEF Retire, Retained, Proofs, Settleable, At, Copies, DeliveredIsTaken, HasProof,
       Types, Control, Settlement, Filing, Renamed, Writing, NoOwner, world, ghosts
<1>8. ASSUME NEW n \in owner.todo, SettleFile(n) PROVE Copies'
    BY <1>8 DEF SettleFile, At, Copies, DeliveredIsTaken, HasProof, Proofs, Types, Control,
       Settlement, Filing, Renamed, Writing, NoOwner, world, ghosts
<1>9. CASE SettleRename
  <2>1. owner.pc = "rename" /\ owner'.pc = "capacity" /\ owner'.at = owner.at /\ owner.at \in Messages
    BY <1>9 DEF SettleRename, At, Goto, Types, Owners, Control, Filing
  <2>2. PICK n \in Proofs(pending) : n.text = owner.at
    BY <2>1 DEF Control, Filing, Settlement
  <2>3. HasProof(owner.at) /\ owner.at \in taken
    BY <2>1, <2>2 DEF HasProof, Causes
  <2>4. /\ dirs'[owner.at] = (dirs[owner.at] \ {"new"}) \cup {"cur"}
        /\ \A m \in Messages \ {owner.at} : dirs'[m] = dirs[m]
    BY <1>9, <2>1 DEF SettleRename, Types
  <2>5. \A m \in Messages : HasProof(m)' <=> HasProof(m)
    BY <1>9 DEF SettleRename, HasProof, Proofs
  <2>6. taken' = taken
    BY <1>9 DEF SettleRename, ghosts
  <2>. QED
    BY <2>1, <2>3, <2>4, <2>5, <2>6 DEF Copies, DeliveredIsTaken, Renamed
<1>10. CASE SettleCapacity
    BY <1>10 DEF SettleCapacity, At, Goto, Copies, DeliveredIsTaken, HasProof, Proofs, Types,
       Control, Settlement, Filing, Renamed, Writing, NoOwner, world, ghosts
<1>11. CASE SettleTell
    BY <1>11 DEF SettleTell, At, Goto, Copies, DeliveredIsTaken, HasProof, Proofs, Types,
       Control, Settlement, Filing, Renamed, Writing, NoOwner, world, ghosts
<1>12. CASE SettleUnfail
    BY <1>12 DEF SettleUnfail, Unfailed, At, Goto, Copies, DeliveredIsTaken, HasProof, Proofs,
       Types, Control, Settlement, Filing, Renamed, Writing, NoOwner, world, ghosts
<1>13. CASE SettleRemove
    BY <1>13 DEF SettleRemove, At, Copies, DeliveredIsTaken, HasProof, Proofs, Types, Control,
       Settlement, Filing, Renamed, Writing, NoOwner, world, ghosts
<1>14. CASE Settled
    BY <1>14 DEF Settled, At, Copies, DeliveredIsTaken, HasProof, Proofs, Types, Control,
       Settlement, Filing, Renamed, Writing, NoOwner, world, ghosts
<1>15. ASSUME NEW m \in Messages, BeginNative(m) PROVE Copies'
  <2>1. \A q \in Messages : HasProof(q)' <=> HasProof(q)
    BY <1>15, BegunUnproved
  <2>2. dirs' = dirs /\ taken' = taken
    BY <1>15 DEF BeginNative, ghosts
  <2>3. owner'.pc = "begun"
    BY <1>15 DEF BeginNative, Types, Owners
  <2>. QED
    BY <2>1, <2>2, <2>3 DEF Copies, DeliveredIsTaken, Renamed
<1>16. ASSUME NEW m \in Messages, Keystrokes(m) PROVE Copies'
    BY <1>16 DEF Keystrokes, At, Copies, DeliveredIsTaken, HasProof, Proofs, Types, Control, Settlement, Filing, Renamed, Writing
<1>17. CASE StartInput
    BY <1>17 DEF StartInput, At, Goto, Copies, DeliveredIsTaken, HasProof, Proofs, Types,
       Control, Settlement, Filing, Renamed, Writing, NoOwner, world, ghosts
<1>18. ASSUME NEW whole \in BOOLEAN, WriteSocket(whole) PROVE Copies'
    BY <1>18 DEF WriteSocket, At, Copies, DeliveredIsTaken, HasProof, Proofs, Types, Control, Settlement, Filing, Renamed, Writing
<1>19. CASE FinishInput
    BY <1>19 DEF FinishInput, Filed, At, Goto, Copies, DeliveredIsTaken, HasProof, Proofs,
       Types, Control, Settlement, Filing, Renamed, Writing, NoOwner, world, ghosts
<1>20. CASE Notify
  <2>1. owner'.pc = "drain"
    BY <1>20 DEF Notify, Goto, Types, Owners
  <2>2. dirs' = dirs /\ taken' = taken /\ pending' = pending
    BY <1>20 DEF Notify, ghosts
  <2>3. \A q \in Messages : HasProof(q)' <=> HasProof(q)
    BY <2>2 DEF HasProof, Proofs
  <2>. QED
    BY <2>1, <2>2, <2>3 DEF Copies, DeliveredIsTaken, Renamed
<1>21. CASE Await
    BY <1>21 DEF Await, At, Goto, Copies, DeliveredIsTaken, HasProof, Proofs, Types, Control,
       Settlement, Filing, Renamed, Writing, NoOwner, world, ghosts
<1>22. CASE AwaitTimesOut
    BY <1>22 DEF AwaitTimesOut, At, Copies, DeliveredIsTaken, HasProof, Proofs, Types, Control,
       Settlement, Filing, Renamed, Writing, NoOwner, world, ghosts
<1>23. CASE Answer
    BY <1>23 DEF Answer, At, Copies, DeliveredIsTaken, HasProof, Proofs, Types, Control,
       Settlement, Filing, Renamed, Writing, NoOwner, world, ghosts
<1>24. CASE OwnerDies
    BY <1>24 DEF OwnerDies, Copies, DeliveredIsTaken, HasProof, Proofs, Types, Control,
       Settlement, Filing, Renamed, Writing, NoOwner, Twist, world, ghosts
<1>25. ASSUME NEW h \in hooks, WriteWitness(h) PROVE Copies'
    BY <1>25 DEF WriteWitness, Witnessed, Proofs, Copies, DeliveredIsTaken, HasProof, Types, Control, Settlement, Filing, Renamed, Writing
<1>26. ASSUME NEW h \in hooks, HookDies(h) PROVE Copies'
    BY <1>26 DEF HookDies, Copies, DeliveredIsTaken, HasProof, Proofs, Types, Control,
       Settlement, Filing, Renamed, Writing, NoOwner, Twist, ghosts
<1>27. ASSUME NEW m \in Messages \cup {None}, Acquire(m) PROVE Copies'
    BY <1>27 DEF Acquire, Copies, DeliveredIsTaken, HasProof, Proofs, Types, Control,
       Settlement, Filing, Renamed, Writing, NoOwner, world, ghosts
<1>28. CASE UNCHANGED vars
    BY <1>28 DEF vars, Copies, DeliveredIsTaken, HasProof, Proofs, Types, Control, Settlement, Filing, Renamed, Writing
<1>. QED
    BY <1>1, <1>2, <1>3, <1>4, <1>5, <1>6, <1>7, <1>8, <1>9, <1>10, <1>11, <1>12, <1>13, <1>14,
       <1>15, <1>16, <1>17, <1>18, <1>19, <1>20, <1>21, <1>22, <1>23, <1>24, <1>25, <1>26,
       <1>27, <1>28 DEF Next, OwnerStep

(* SettleRemove removes evidence of what the receipt says and the sender was told, or
   is told by the owner's answer or its death. *)
LEMMA KeptStep ==
    ASSUME Types /\ Kept /\ Control /\ Causes /\ Queue /\ Copies, [Next]_vars
    PROVE  Kept'
<1>1. ASSUME NEW m \in Messages, Take(m) PROVE Kept'
    BY <1>1 DEF Take, Kept, Known, Answering, HasProof, Proofs, Types, Settlement, Filing, Draining, Writing
<1>2. ASSUME NEW m \in Messages, Send(m) PROVE Kept'
    BY <1>2 DEF Send, Kept, Known, Answering, HasProof, Proofs, Types, Settlement, Filing,
       Draining, Writing, NoOwner, world, ghosts
<1>3. ASSUME NEW m \in Messages, Busy(m) PROVE Kept'
    BY <1>3 DEF Busy, Kept, Known, Answering, HasProof, Proofs, Types, Settlement, Filing,
       Draining, Writing, NoOwner, world, ghosts
<1>4. CASE Move
    BY <1>4 DEF Move, Kept, Known, Answering, HasProof, Proofs, Types, Settlement, Filing,
       Draining, Writing, NoOwner, Twist, ghosts
<1>5. CASE CapacityFails
    BY <1>5 DEF CapacityFails, Kept, Known, Answering, HasProof, Proofs, Types, Settlement, Filing, Draining, Writing, Twist
<1>6. CASE Adopt
    BY <1>6 DEF Adopt, At, Kept, Known, Answering, HasProof, Proofs, Types, Settlement, Filing,
       Draining, Writing, NoOwner, world, ghosts
<1>7. CASE Retire
    BY <1>7 DEF Retire, Retained, Proofs, Settleable, At, Kept, Known, Answering, HasProof,
       Types, Settlement, Filing, Draining, Writing, NoOwner, world, ghosts
<1>8. ASSUME NEW n \in owner.todo, SettleFile(n) PROVE Kept'
    BY <1>8 DEF SettleFile, At, Kept, Known, Answering, HasProof, Proofs, Types, Settlement,
       Filing, Draining, Writing, NoOwner, world, ghosts
<1>9. CASE SettleRename
    BY <1>9 DEF SettleRename, At, Goto, Kept, Known, Answering, HasProof, Proofs, Types,
       Settlement, Filing, Draining, Writing, NoOwner, world, ghosts
<1>10. CASE SettleCapacity
    BY <1>10 DEF SettleCapacity, At, Goto, Kept, Known, Answering, HasProof, Proofs, Types,
       Settlement, Filing, Draining, Writing, NoOwner, world, ghosts
<1>11. CASE SettleTell
  <2>1. /\ owner.pc = "tell" /\ owner'.pc = "unfail" /\ owner'.at = owner.at /\ owner.at \in Messages
        /\ owner'.wait = owner.wait /\ owner'.target = owner.target /\ owner'.result = owner.result
    BY <1>11 DEF SettleTell, At, Goto, Types, Owners, Control, Filing
  <2>2. told' = told \/ told' = [told EXCEPT ![owner.at] = @ \cup {"delivered"}]
    BY <1>11 DEF SettleTell
  <2>3. \A m \in Messages : told[m] \subseteq told'[m]
    BY <2>1, <2>2 DEF Types
  <2>4. (owner.wait /\ owner.target = owner.at) \/ "delivered" \in told'[owner.at]
    BY <1>11, <2>1 DEF SettleTell, Types
  <2>5. dirs' = dirs /\ agent' = agent /\ asking' = asking /\ pending' = pending /\ proven' = proven
    BY <1>11 DEF SettleTell, ghosts
  <2>6. \A m \in Messages : HasProof(m)' <=> HasProof(m)
    BY <2>5 DEF HasProof, Proofs
  <2>7. agent.input = None
    BY <2>1 DEF Control
  <2>8. \A m \in Messages : Known(m) => Known(m)'
    BY <2>1, <2>3, <2>5 DEF Known, Answering
  <2>. QED
    BY <2>1, <2>4, <2>5, <2>6, <2>7, <2>8, PeerAssumption DEF Kept, Types, Settlement, Filing
<1>12. CASE SettleUnfail
    BY <1>12 DEF SettleUnfail, Unfailed, At, Goto, Kept, Known, Answering, HasProof, Proofs,
       Types, Settlement, Filing, Draining, Writing, NoOwner, world, ghosts
<1>13. CASE SettleRemove
  <2>1. /\ owner.pc = "remove" /\ owner'.pc = "settle" /\ owner.at \in Messages
        /\ owner'.wait = owner.wait /\ owner'.target = owner.target
        /\ owner'.result = IF owner.wait /\ owner.target = owner.at THEN "delivered" ELSE owner.result
        /\ pending' = {n \in pending : n.text # owner.at}
    BY <1>13 DEF SettleRemove, At, Types, Owners, Control, Filing
  <2>2. dirs' = dirs /\ agent' = agent /\ asking' = asking /\ told' = told /\ proven' = proven
    BY <1>13 DEF SettleRemove, ghosts
  <2>3. \A m \in Messages \ {owner.at} : HasProof(m)' <=> HasProof(m)
    BY <2>1 DEF HasProof, Proofs
  <2>4. agent.input = None
    BY <2>1 DEF Control
  <2>5. \A m \in Messages : Known(m) => Known(m)'
    BY <2>1, <2>2 DEF Known, Answering
  <2>6. dirs[owner.at] = {"cur"}
    BY <2>1 DEF Copies
  <2>7. ASSUME NEW m \in Messages, m = owner.at PROVE Known(m)'
    <3>1. CASE owner.wait /\ owner.target = owner.at
      <4>1. m \in asking
        BY <3>1, <2>1, <2>7, PeerAssumption DEF Control
      <4>. QED
        BY <3>1, <4>1, <2>1, <2>2, <2>7 DEF Known, Answering
    <3>2. CASE ~(owner.wait /\ owner.target = owner.at)
      BY <3>2, <2>1, <2>2, <2>7 DEF Known, Kept
    <3>. QED
      BY <3>1, <3>2
  <2>8. owner'.result = "delivered" => owner'.wait
    BY <2>1 DEF Kept
  <2>9. \A m \in proven : HasProof(m)' \/ ("cur" \in dirs'[m] /\ Known(m)')
    BY <2>2, <2>3, <2>5, <2>6, <2>7 DEF Kept, Types
  <2>. QED
    BY <2>1, <2>2, <2>4, <2>8, <2>9, PeerAssumption DEF Kept, Types, Settlement
<1>14. CASE Settled
    BY <1>14 DEF Settled, At, Kept, Known, Answering, HasProof, Proofs, Types, Settlement,
       Filing, Draining, Writing, NoOwner, world, ghosts
<1>15. ASSUME NEW m \in Messages, BeginNative(m) PROVE Kept'
  <2>1. \A q \in Messages : HasProof(q)' <=> HasProof(q)
    BY <1>15, BegunUnproved
  <2>2. dirs' = dirs /\ agent' = agent /\ asking' = asking /\ told' = told /\ proven' = proven
    BY <1>15 DEF BeginNative, ghosts
  <2>3. /\ owner.pc = "drain" /\ owner'.pc = "begun" /\ owner'.target = owner.target
        /\ owner'.result = owner.result
    BY <1>15 DEF BeginNative, At, Types, Owners
  <2>4. owner.result # "delivered" /\ agent.input = None
    BY <2>3 DEF Kept, Settlement, Filing, Control
  <2>5. \A q \in Messages : Known(q) => Known(q)'
    BY <2>2, <2>3 DEF Known, Answering
  <2>. QED
    BY <2>1, <2>2, <2>3, <2>4, <2>5, PeerAssumption DEF Kept, Types
<1>16. ASSUME NEW m \in Messages, Keystrokes(m) PROVE Kept'
    BY <1>16 DEF Keystrokes, At, Kept, Known, Answering, HasProof, Proofs, Types, Settlement, Filing, Draining, Writing
<1>17. CASE StartInput
  <2>1. /\ owner.pc = "begun" /\ owner'.pc = "started" /\ owner'.target = owner.target
        /\ owner'.result = owner.result /\ agent'.input = owner.at /\ owner.at \in Messages
    BY <1>17 DEF StartInput, At, Goto, Types, Owners, Control, Writing
  <2>2. dirs' = dirs /\ asking' = asking /\ told' = told /\ proven' = proven /\ pending' = pending
    BY <1>17 DEF StartInput, ghosts
  <2>3. owner.at \notin proven
    BY <2>1 DEF Causes, Control, Writing
  <2>4. \A q \in Messages : HasProof(q)' <=> HasProof(q)
    BY <2>2 DEF HasProof, Proofs
  <2>5. owner.result # "delivered"
    BY <2>1 DEF Kept, Settlement, Filing
  <2>6. \A q \in Messages : Known(q) => Known(q)'
    BY <2>1, <2>2 DEF Known, Answering
  <2>. QED
    BY <2>1, <2>2, <2>3, <2>4, <2>5, <2>6 DEF Kept, Types
<1>18. ASSUME NEW whole \in BOOLEAN, WriteSocket(whole) PROVE Kept'
    BY <1>18 DEF WriteSocket, At, Kept, Known, Answering, HasProof, Proofs, Types, Settlement, Filing, Draining, Writing
<1>19. CASE FinishInput
  <2>1. /\ owner.pc = "finish" /\ owner'.pc \in {"await", "notify"} /\ owner'.target = owner.target
        /\ owner'.result = owner.result /\ agent'.input = None /\ owner.at \in Messages
        /\ agent.input = owner.at
    BY <1>19 DEF FinishInput, At, Goto, Types, Owners, Control
  <2>2. asking' = asking /\ told' = told /\ proven' = proven /\ pending' = pending
    BY <1>19 DEF FinishInput, ghosts
  <2>3. \A m \in Messages \ {owner.at} : dirs'[m] = dirs[m]
    BY <1>19 DEF FinishInput, Types
  <2>4. owner.at \in proven => HasProof(owner.at)
    BY <2>1 DEF Kept
  <2>5. \A q \in Messages : HasProof(q)' <=> HasProof(q)
    BY <2>2 DEF HasProof, Proofs
  <2>6. owner.result # "delivered"
    BY <2>1 DEF Kept, Settlement, Filing
  <2>7. \A q \in Messages : Known(q) => Known(q)'
    BY <2>1, <2>2 DEF Known, Answering
  <2>. QED
    BY <2>1, <2>2, <2>3, <2>4, <2>5, <2>6, <2>7, PeerAssumption DEF Kept, Types
<1>20. CASE Notify
  <2>1. /\ owner.pc = "notify" /\ owner'.pc = "drain" /\ owner'.target = owner.target
        /\ owner'.result \in {owner.result, "unverified"} /\ owner.at \in Messages
    BY <1>20, ZenonT(40) DEF Notify, At, Goto, Types, Owners, Control
  <2>2. asking' = asking /\ proven' = proven /\ pending' = pending /\ agent' = agent /\ dirs' = dirs
    BY <1>20 DEF Notify, ghosts
  <2>3. told' = told \/ told' = [told EXCEPT ![owner.at] = @ \cup {"unverified"}]
    BY <1>20 DEF Notify
  <2>4. \A m \in Messages : told[m] \subseteq told'[m]
    BY <2>1, <2>3 DEF Types
  <2>5. \A q \in Messages : HasProof(q)' <=> HasProof(q)
    BY <2>2 DEF HasProof, Proofs
  <2>6. owner.result # "delivered" /\ agent.input = None
    BY <2>1 DEF Kept, Settlement, Filing, Control
  <2>7. \A q \in Messages : Known(q) => Known(q)'
    BY <2>1, <2>2, <2>4, <2>6 DEF Known, Answering
  <2>. QED
    BY <2>1, <2>2, <2>5, <2>6, <2>7, PeerAssumption DEF Kept, Types
<1>21. CASE Await
    BY <1>21 DEF Await, At, Goto, Kept, Known, Answering, HasProof, Proofs, Types, Settlement,
       Filing, Draining, Writing, NoOwner, world, ghosts
<1>22. CASE AwaitTimesOut
    BY <1>22 DEF AwaitTimesOut, At, Kept, Known, Answering, HasProof, Proofs, Types,
       Settlement, Filing, Draining, Writing, NoOwner, world, ghosts
<1>23. CASE Answer
  <2>1. owner' = NoOwner /\ owner.pc # "finish" /\ owner.pc # "started" /\ owner.pc # "none"
    BY <1>23 DEF Answer, At
  <2>2. proven' = proven /\ pending' = pending /\ agent' = agent /\ dirs' = dirs
    BY <1>23 DEF Answer, ghosts
  <2>3. agent.input = None
    BY <2>1 DEF Control
  <2>4. told' = told \/ (owner.target # None /\ told' = [told EXCEPT ![owner.target] = @ \cup {owner.result}])
    BY <1>23 DEF Answer
  <2>5. \A m \in Messages : told[m] \subseteq told'[m]
    BY <2>4 DEF Types, Owners
  <2>6. \A m \in Messages : Answering(m) => "delivered" \in told'[m]
    BY <1>23, PeerAssumption DEF Answer, Answering, Types, Owners
  <2>7. \A m \in Messages : Known(m) => Known(m)'
    BY <2>5, <2>6 DEF Known
  <2>8. \A q \in Messages : HasProof(q)' <=> HasProof(q)
    BY <2>2 DEF HasProof, Proofs
  <2>. QED
    BY <2>1, <2>2, <2>3, <2>7, <2>8, PeerAssumption DEF Kept, Types, NoOwner
<1>24. CASE OwnerDies
  <2>1. owner' = NoOwner
    BY <1>24 DEF OwnerDies
  <2>2. proven' = proven /\ pending' = pending /\ agent' = agent /\ dirs' = dirs
    BY <1>24 DEF OwnerDies, ghosts
  <2>4. told' = told \/ (owner.target # None /\ told' = [told EXCEPT ![owner.target] = @ \cup {"died"}])
    BY <1>24 DEF OwnerDies
  <2>5. \A m \in Messages : told[m] \subseteq told'[m]
    BY <2>4 DEF Types, Owners
  <2>6. \A m \in Messages : Answering(m) => "died" \in told'[m]
    BY <1>24, PeerAssumption DEF OwnerDies, Answering, Types, Owners
  <2>7. \A m \in Messages : Known(m) => Known(m)'
    BY <2>5, <2>6 DEF Known
  <2>8. \A q \in Messages : HasProof(q)' <=> HasProof(q)
    BY <2>2 DEF HasProof, Proofs
  <2>9. agent'.input \in proven => HasProof(agent.input)'
    BY <2>2, <2>8 DEF Kept, Types
  <2>. QED
    BY <2>1, <2>2, <2>7, <2>8, <2>9 DEF Kept, Types, NoOwner
<1>25. ASSUME NEW h \in hooks, WriteWitness(h) PROVE Kept'
    BY <1>25 DEF WriteWitness, Witnessed, Proofs, Kept, Known, Answering, HasProof, Types, Settlement, Filing, Draining, Writing
<1>26. ASSUME NEW h \in hooks, HookDies(h) PROVE Kept'
    BY <1>26 DEF HookDies, Kept, Known, Answering, HasProof, Proofs, Types, Settlement, Filing,
       Draining, Writing, NoOwner, Twist, ghosts
<1>27. ASSUME NEW m \in Messages \cup {None}, Acquire(m) PROVE Kept'
  <2>1. /\ owner = NoOwner /\ owner'.pc = "retire" /\ owner'.result = "queued"
    BY <1>27 DEF Acquire, NoOwner
  <2>2. proven' = proven /\ pending' = pending /\ asking' = asking
    BY <1>27 DEF Acquire, ghosts
  <2>3. \A q \in Messages : HasProof(q)' <=> HasProof(q)
    BY <2>2 DEF HasProof, Proofs
  <2>4. agent'.input = None
    BY <1>27 DEF Acquire, Types
  <2>5. /\ \A q \in Messages \ {agent.input} : dirs'[q] = dirs[q]
        /\ \A q \in Messages : told[q] \subseteq told'[q]
    <3>1. CASE agent.input = None
      BY <1>27, <3>1 DEF Acquire
    <3>2. CASE agent.input # None
      <4>1. agent.input \in Messages
        BY <3>2 DEF Types
      <4>2. /\ dirs' = [dirs EXCEPT ![agent.input] = {"failed"}]
            /\ told' = [told EXCEPT ![agent.input] = @ \cup {"unverified"}]
        BY <1>27, <3>2 DEF Acquire
      <4>. QED
        BY <4>1, <4>2 DEF Types
    <3>. QED
      BY <3>1, <3>2
  <2>6. \A q \in Messages : Known(q) => Known(q)'
    BY <2>1, <2>5 DEF Known, Answering, NoOwner
  <2>. QED
    BY <2>1, <2>2, <2>3, <2>4, <2>5, <2>6, PeerAssumption DEF Kept, Types
<1>28. CASE UNCHANGED vars
    BY <1>28 DEF vars, Kept, Known, Answering, HasProof, Proofs, Types, Settlement, Filing, Draining, Writing
<1>. QED
    BY <1>1, <1>2, <1>3, <1>4, <1>5, <1>6, <1>7, <1>8, <1>9, <1>10, <1>11, <1>12, <1>13, <1>14,
       <1>15, <1>16, <1>17, <1>18, <1>19, <1>20, <1>21, <1>22, <1>23, <1>24, <1>25, <1>26,
       <1>27, <1>28 DEF Next, OwnerStep

(* A message begun in a capacity episode was not entered before it, so that every
   prompt with it is a later one. *)
LEMMA TimelyStep ==
    ASSUME Types /\ Timely /\ Counted /\ Causes /\ Queue, [Next]_vars
    PROVE  Timely'
<1>1. ASSUME NEW m \in Messages, Take(m) PROVE Timely'
  <2>1. \A h \in hooks' : h \in hooks \/ h.id = native.prompts + 1
    BY <1>1 DEF Take
  <2>2. native.prompts + 1 > episode
    BY DEF Counted, Types
  <2>3. pending' = pending /\ agent' = agent /\ episode' = episode
    BY <1>1 DEF Take
  <2>. QED
    BY <2>1, <2>2, <2>3 DEF Timely
<1>2. ASSUME NEW m \in Messages, Send(m) PROVE Timely'
    BY <1>2 DEF Send, Timely, Types, NoProof, world, ghosts
<1>3. ASSUME NEW m \in Messages, Busy(m) PROVE Timely'
    BY <1>3 DEF Busy, Timely, Types, NoProof, world, ghosts
<1>4. CASE Move
    BY <1>4 DEF Move, Timely, Types, NoProof, Twist, ghosts
<1>5. CASE CapacityFails
  <2>1. pending' = pending
    BY <1>5 DEF CapacityFails
  <2>2. agent'.capacity = agent.failures + 1
    BY <1>5 DEF CapacityFails, Types
  <2>3. \A n \in pending : n.capacity # agent.failures + 1
    BY DEF Counted, Types
  <2>. QED
    BY <2>1, <2>2, <2>3 DEF Timely
<1>6. CASE Adopt
    BY <1>6 DEF Adopt, At, Timely, Types, NoProof, world, ghosts
<1>7. CASE Retire
    BY <1>7 DEF Retire, Retained, Proofs, Settleable, At, Timely, Types, NoProof, world, ghosts
<1>8. ASSUME NEW n \in owner.todo, SettleFile(n) PROVE Timely'
    BY <1>8 DEF SettleFile, At, Timely, Types, NoProof, world, ghosts
<1>9. CASE SettleRename
    BY <1>9 DEF SettleRename, At, Goto, Timely, Types, NoProof, world, ghosts
<1>10. CASE SettleCapacity
    BY <1>10 DEF SettleCapacity, At, Goto, Timely, Types, NoProof, world, ghosts
<1>11. CASE SettleTell
    BY <1>11 DEF SettleTell, At, Goto, Timely, Types, NoProof, world, ghosts
<1>12. CASE SettleUnfail
    BY <1>12 DEF SettleUnfail, Unfailed, At, Goto, Timely, Types, NoProof, world, ghosts
<1>13. CASE SettleRemove
    BY <1>13 DEF SettleRemove, At, Timely, Types, NoProof, world, ghosts
<1>14. CASE Settled
    BY <1>14 DEF Settled, At, Timely, Types, NoProof, world, ghosts
<1>15. ASSUME NEW m \in Messages, BeginNative(m) PROVE Timely'
  <2>1. \A n \in pending' : n \in pending \/ (n.text = m /\ n.proof = NoProof)
    BY <1>15 DEF BeginNative, Attempted
  <2>2. \A h \in hooks : h.text # m
    BY <1>15, BegunUnproved DEF Causes
  <2>3. hooks' = hooks /\ agent' = agent /\ episode' = episode
    BY <1>15 DEF BeginNative, world, ghosts
  <2>. QED
    BY <2>1, <2>2, <2>3 DEF Timely
<1>16. ASSUME NEW m \in Messages, Keystrokes(m) PROVE Timely'
    BY <1>16 DEF Keystrokes, At, Timely, Types, NoProof, world
<1>17. CASE StartInput
    BY <1>17 DEF StartInput, At, Goto, Timely, Types, NoProof, world, ghosts
<1>18. ASSUME NEW whole \in BOOLEAN, WriteSocket(whole) PROVE Timely'
    BY <1>18 DEF WriteSocket, At, Timely, Types
<1>19. CASE FinishInput
    BY <1>19 DEF FinishInput, Filed, At, Goto, Timely, Types, NoProof, world, ghosts
<1>20. CASE Notify
    BY <1>20 DEF Notify, At, Goto, Timely, Types, NoProof, world, ghosts
<1>21. CASE Await
    BY <1>21 DEF Await, At, Goto, Timely, Types, NoProof, world, ghosts
<1>22. CASE AwaitTimesOut
    BY <1>22 DEF AwaitTimesOut, At, Timely, Types, NoProof, world, ghosts
<1>23. CASE Answer
    BY <1>23 DEF Answer, At, Timely, Types, NoProof, world, ghosts
<1>24. CASE OwnerDies
    BY <1>24 DEF OwnerDies, Timely, Types, NoProof, Twist, world, ghosts
<1>25. ASSUME NEW h \in hooks, WriteWitness(h) PROVE Timely'
  <2>1. pending' = Witnessed(h) /\ hooks' \subseteq hooks /\ agent' = agent /\ episode' = episode
    BY <1>25 DEF WriteWitness
  <2>2. SUFFICES ASSUME NEW n \in pending', n.capacity # 0, n.capacity = agent.capacity
                 PROVE  /\ \A k \in hooks : k.text = n.text => k.id > episode
                        /\ n.proof # NoProof => n.proof.id > episode
    BY <2>1 DEF Timely
  <2>3. PICK p \in pending : /\ n.text = p.text /\ n.capacity = p.capacity
                             /\ n = p \/ (h.text = n.text /\ n.proof.id = h.id)
    BY <2>1, WitnessedAre
  <2>. QED
    BY <2>2, <2>3 DEF Timely
<1>26. ASSUME NEW h \in hooks, HookDies(h) PROVE Timely'
    BY <1>26 DEF HookDies, Timely, Types, NoProof, Twist, ghosts
<1>27. ASSUME NEW m \in Messages \cup {None}, Acquire(m) PROVE Timely'
    BY <1>27 DEF Acquire, Timely, Types, NoProof, world, ghosts
<1>28. CASE UNCHANGED vars
    BY <1>28 DEF vars, Timely, Types
<1>. QED
    BY <1>1, <1>2, <1>3, <1>4, <1>5, <1>6, <1>7, <1>8, <1>9, <1>10, <1>11, <1>12, <1>13, <1>14,
       <1>15, <1>16, <1>17, <1>18, <1>19, <1>20, <1>21, <1>22, <1>23, <1>24, <1>25, <1>26,
       <1>27, <1>28 DEF Next, OwnerStep

-----------------------------------------------------------------------------
(* The theorems.                                                             *)

(* The invariant holds at first: nothing was sent and nobody holds the lock.  *)
LEMMA InitialState == Init => IInv
<1>. SUFFICES ASSUME Init PROVE IInv
    OBVIOUS
<1>. USE PeerAssumption DEF Init
<1>1. Types
    BY DEF Types, Owners, NoOwner
<1>2. Counted /\ OneAttempt /\ Timely
    BY DEF Counted, OneAttempt, Timely
<1>3. Causes /\ Control
    BY DEF Causes, HasProof, Proofs, Control, NoOwner, Settlement, Filing, Writing
<1>4. Queue
    BY DEF Queue, EnteredOnce, Settlement, Filing, Draining, Writing
<1>5. Copies
    BY DEF Copies, DeliveredIsTaken, NoOwner, Renamed
<1>6. Kept
    BY DEF Kept, NoOwner
<1>. QED
    BY <1>1, <1>2, <1>3, <1>4, <1>5, <1>6 DEF IInv

(* The invariant holds in every state the owners, the hooks and the native    *)
(* program reach.                                                             *)
THEOREM Invariant == Spec => []IInv
<1>1. IInv /\ [Next]_vars => IInv'
    BY TypesStep, CountedStep, OneAttemptStep, CausesStep, ControlStep, QueueStep, CopiesStep,
       KeptStep, TimelyStep DEF IInv
<1>. QED
    BY <1>1, InitialState, PTL DEF Spec

(* A message goes into the native program at most once, an envelope without   *)
(* evidence is in one directory, and one retained as delivered was submitted  *)
(* (claude_native.go:118, native_pending.go:50).                              *)
THEOREM EntersAsTold == Spec => []EnteredAsTold
<1>1. IInv => EnteredAsTold
  <2>. SUFFICES ASSUME IInv PROVE EnteredAsTold
      OBVIOUS
  <2>1. TypeOK
      BY DEF IInv, Types, Counted, OneAttempt, TypeOK
  <2>2. EnteredOnce /\ DeliveredIsTaken
      BY DEF IInv, Queue, Copies
  <2>3. OneReceipt
    <3>1. SUFFICES ASSUME NEW m \in Messages, \A n \in pending : n.text # m
                   PROVE  Cardinality(dirs[m]) <= 1
        BY DEF OneReceipt
    <3>2. PICK d \in {"new", "cur", "failed"} : dirs[m] \subseteq {d}
        BY <3>1 DEF IInv, Copies, HasProof, Proofs
    <3>3. dirs[m] = {} \/ dirs[m] = {d}
        BY <3>2
    <3>4. Cardinality({}) = 0 /\ Cardinality({d}) = 1
        BY FS_EmptySet, FS_Singleton
    <3>. QED
        BY <3>3, <3>4
  <2>. QED
      BY <2>1, <2>2, <2>3 DEF EnteredAsTold
<1>. QED
    BY <1>1, Invariant, PTL

(* Of the owner's steps only the one that settles a proof ends a capacity      *)
(* episode, and only with the current input's own, later prompt               *)
(* (native_pending.go:71).                                                    *)
LEMMA EpisodeEnds ==
    ASSUME IInv, [Next]_vars, agent.capacity # 0, agent'.capacity = 0
    PROVE  Settling.proof.id > episode /\ Settling.proof.id = agent.turn
<1>. USE DEF IInv
<1>1. SettleCapacity \/ agent'.capacity = agent.capacity \/ agent'.capacity = agent.failures + 1
  <2>1. ASSUME NEW m \in Messages, Take(m)
        PROVE  agent'.capacity = agent.capacity \/ agent'.capacity = agent.failures + 1
      BY <2>1 DEF Take, Types
  <2>2. ASSUME NEW m \in Messages, Send(m)
        PROVE  agent'.capacity = agent.capacity \/ agent'.capacity = agent.failures + 1
      BY <2>2 DEF Send, Types
  <2>3. ASSUME NEW m \in Messages, Busy(m)
        PROVE  agent'.capacity = agent.capacity \/ agent'.capacity = agent.failures + 1
      BY <2>3 DEF Busy, Types
  <2>4. ASSUME Move
        PROVE  agent'.capacity = agent.capacity \/ agent'.capacity = agent.failures + 1
      BY <2>4 DEF Move, Types
  <2>5. ASSUME CapacityFails
        PROVE  agent'.capacity = agent.capacity \/ agent'.capacity = agent.failures + 1
      BY <2>5 DEF CapacityFails, Types
  <2>6. ASSUME Adopt
        PROVE  agent'.capacity = agent.capacity \/ agent'.capacity = agent.failures + 1
      BY <2>6 DEF Adopt, Types
  <2>7. ASSUME Retire
        PROVE  agent'.capacity = agent.capacity \/ agent'.capacity = agent.failures + 1
      BY <2>7 DEF Retire, Types
  <2>8. ASSUME NEW n \in owner.todo, SettleFile(n)
        PROVE  agent'.capacity = agent.capacity \/ agent'.capacity = agent.failures + 1
      BY <2>8 DEF SettleFile, Types
  <2>9. ASSUME SettleRename
        PROVE  agent'.capacity = agent.capacity \/ agent'.capacity = agent.failures + 1
      BY <2>9 DEF SettleRename, Types
  <2>10. ASSUME SettleTell
        PROVE  agent'.capacity = agent.capacity \/ agent'.capacity = agent.failures + 1
      BY <2>10 DEF SettleTell, Types
  <2>11. ASSUME SettleUnfail
        PROVE  agent'.capacity = agent.capacity \/ agent'.capacity = agent.failures + 1
      BY <2>11 DEF SettleUnfail, Types
  <2>12. ASSUME SettleRemove
        PROVE  agent'.capacity = agent.capacity \/ agent'.capacity = agent.failures + 1
      BY <2>12 DEF SettleRemove, Types
  <2>13. ASSUME Settled
        PROVE  agent'.capacity = agent.capacity \/ agent'.capacity = agent.failures + 1
      BY <2>13 DEF Settled, Types
  <2>14. ASSUME NEW m \in Messages, BeginNative(m)
        PROVE  agent'.capacity = agent.capacity \/ agent'.capacity = agent.failures + 1
      BY <2>14 DEF BeginNative, Types
  <2>15. ASSUME NEW m \in Messages, Keystrokes(m)
        PROVE  agent'.capacity = agent.capacity \/ agent'.capacity = agent.failures + 1
      BY <2>15 DEF Keystrokes, Types
  <2>16. ASSUME StartInput
        PROVE  agent'.capacity = agent.capacity \/ agent'.capacity = agent.failures + 1
      BY <2>16 DEF StartInput, Types
  <2>17. ASSUME NEW whole \in BOOLEAN, WriteSocket(whole)
        PROVE  agent'.capacity = agent.capacity \/ agent'.capacity = agent.failures + 1
      BY <2>17 DEF WriteSocket, Types
  <2>18. ASSUME FinishInput
        PROVE  agent'.capacity = agent.capacity \/ agent'.capacity = agent.failures + 1
      BY <2>18 DEF FinishInput, Types
  <2>19. ASSUME Notify
        PROVE  agent'.capacity = agent.capacity \/ agent'.capacity = agent.failures + 1
      BY <2>19 DEF Notify, Types
  <2>20. ASSUME Await
        PROVE  agent'.capacity = agent.capacity \/ agent'.capacity = agent.failures + 1
      BY <2>20 DEF Await, Types
  <2>21. ASSUME AwaitTimesOut
        PROVE  agent'.capacity = agent.capacity \/ agent'.capacity = agent.failures + 1
      BY <2>21 DEF AwaitTimesOut, Types
  <2>22. ASSUME Answer
        PROVE  agent'.capacity = agent.capacity \/ agent'.capacity = agent.failures + 1
      BY <2>22 DEF Answer, Types
  <2>23. ASSUME OwnerDies
        PROVE  agent'.capacity = agent.capacity \/ agent'.capacity = agent.failures + 1
      BY <2>23 DEF OwnerDies, Types
  <2>24. ASSUME NEW h \in hooks, WriteWitness(h)
        PROVE  agent'.capacity = agent.capacity \/ agent'.capacity = agent.failures + 1
      BY <2>24 DEF WriteWitness, Types
  <2>25. ASSUME NEW h \in hooks, HookDies(h)
        PROVE  agent'.capacity = agent.capacity \/ agent'.capacity = agent.failures + 1
      BY <2>25 DEF HookDies, Types
  <2>26. ASSUME NEW m \in Messages \cup {None}, Acquire(m)
        PROVE  agent'.capacity = agent.capacity \/ agent'.capacity = agent.failures + 1
      BY <2>26 DEF Acquire, Types
  <2>27. UNCHANGED vars => agent'.capacity = agent.capacity
      BY DEF vars
  <2>. QED
      BY <2>1, <2>2, <2>3, <2>4, <2>5, <2>6, <2>7, <2>8, <2>9, <2>10, <2>11, <2>12, <2>13,
       <2>14, <2>15, <2>16, <2>17, <2>18, <2>19, <2>20, <2>21, <2>22, <2>23, <2>24, <2>25,
       <2>26, <2>27 DEF Next, OwnerStep
<1>2. SettleCapacity
    BY <1>1 DEF Types
<1>3. EndsEpisode(Settling)
    BY <1>2 DEF SettleCapacity
<1>4. Settling \in owner.todo
    BY <1>2 DEF SettleCapacity, At, Control, Filing, Settling
<1>5. Settling \in pending /\ Settling.proof # NoProof
    BY <1>2, <1>4 DEF SettleCapacity, At, Control, Settlement, Filing, Proofs
<1>. QED
    BY <1>3, <1>5 DEF EndsEpisode, Timely

(* A recorded proof stays until the receipt says delivered and the sender      *)
(* knows, and counts against the provider's capacity only for what it proves  *)
(* (native_pending.go:50, native_pending.go:71).                               *)
THEOREM EveryProofCounts == Spec => ProofsCount
<1>1. IInv => ProofKept
  <2>. SUFFICES ASSUME IInv PROVE ProofKept
      OBVIOUS
  <2>1. ASSUME NEW m \in proven PROVE Resolved(m) \/ \E n \in Proofs(pending) : n.text = m
      BY DEF IInv, Kept, Known, Answering, Resolved, HasProof
  <2>. QED
      BY <2>1 DEF ProofKept
<1>2. IInv /\ [Next]_vars =>
          [agent.capacity # 0 /\ agent'.capacity = 0 =>
               Settling.proof.id > episode /\ Settling.proof.id = agent.turn]_vars
    BY EpisodeEnds
<1>. QED
    BY <1>1, <1>2, Invariant, PTL DEF Spec, ProofsCount, BudgetKept
===============================================================================
