--------------------------------- MODULE Peer --------------------------------
(* Delivery through a native program's peer socket: cmd/gang/claude_native.go *)
(* and native_pending.go, store/native_pending.go.                            *)
(*                                                                            *)
(* A message is written to the socket once, after evidence of the attempt was *)
(* saved in native-pending. The native program takes it later, or never; its  *)
(* submit hook, which takes no agent lock, adds the proof to the evidence. A  *)
(* later owner of the lock settles the receipt, tells the sender and only     *)
(* then removes the evidence. Owners and hooks may die between any two writes *)
(* and the native program may move on to another session.                     *)
EXTENDS Naturals, FiniteSets

CONSTANTS
    Messages,
    MaxTwists    \* bound: owners and hooks that die, new sessions, capacity failures

None == "none"
ASSUME PeerAssumption == MaxTwists \in Nat /\ None \notin Messages

VARIABLES
    native,     \* the native program: its session, what its socket holds, prompts submitted
    hooks,      \* submit hooks
    witness,    \* the last submitted prompt's witness
    pending,    \* native-pending: attempts and their proofs
    dirs,       \* the inbox directories that hold a message's envelope
    agent,      \* the agent's record
    asking,     \* messages whose sending command waits for an answer
    owner,      \* the process that holds the agent lock
    told,       \* what each sender was told
    used,       \* twists so far
    entered,    \* ghost: how often a message was written or typed
    taken,      \* ghost: messages the native program submitted as prompts
    proven,     \* ghost: messages whose proof was recorded
    episode     \* ghost: prompts submitted when the capacity failure began

vars == <<native, hooks, witness, pending, dirs, agent, asking, owner, told, used,
          entered, taken, proven, episode>>
ghosts == <<entered, taken, proven, episode>>
world == <<native, hooks, witness>>

NoProof == [id |-> 0, session |-> 0]
NoOwner == [pc |-> "none", target |-> None, at |-> None, todo |-> {}, wait |-> FALSE, result |-> "queued"]

Init ==
    /\ native = [session |-> 1, socket |-> {}, prompts |-> 0]
    /\ hooks = {} /\ witness = [id |-> 0, session |-> 0, text |-> None]
    /\ pending = {}
    /\ dirs = [m \in Messages |-> {}]
    /\ agent = [session |-> 1, turn |-> 0, input |-> None, failed |-> None, capacity |-> 0, failures |-> 0]
    /\ asking = {} /\ owner = NoOwner
    /\ told = [m \in Messages |-> {}] /\ used = 0
    /\ entered = [m \in Messages |-> 0] /\ taken = {} /\ proven = {} /\ episode = 0

Twist == used < MaxTwists /\ used' = used + 1

-----------------------------------------------------------------------------
(* The native program.                                                       *)

\* It submits a message its socket holds, when it likes; its submit hook runs.
Take(m) ==
    /\ m \in native.socket
    /\ native' = [native EXCEPT !.socket = @ \ {m}, !.prompts = @ + 1]
    /\ hooks' = hooks \cup {[id |-> native.prompts + 1, session |-> native.session, text |-> m]}
    /\ taken' = taken \cup {m}
    /\ UNCHANGED <<witness, pending, dirs, agent, asking, owner, told, used, entered, proven, episode>>
\* It moves to another session, and gang follows it under the agent lock.
Move == /\ Twist
        /\ native' = [native EXCEPT !.session = @ + 1]
        /\ UNCHANGED <<hooks, witness, pending, dirs, agent, asking, owner, told, ghosts>>

\* witnessNativePending: each exact proof is added to its attempt, of the
\* session the agent is bound to, before the ordinary witness is replaced.
Witnessed(h) ==
    {IF n.proof = NoProof /\ h.session = agent.session /\ h.session = n.session /\ h.text = n.text
     THEN [n EXCEPT !.proof = [id |-> h.id, session |-> h.session]] ELSE n : n \in pending}
WriteWitness(h) ==
    /\ pending' = Witnessed(h)
    /\ witness' = [id |-> h.id, session |-> h.session, text |-> h.text]
    /\ hooks' = hooks \ {h}
    /\ proven' = proven \cup {n.text : n \in {o \in pending' : o.proof # NoProof}}
    /\ UNCHANGED <<native, dirs, agent, asking, owner, told, used, entered, taken, episode>>
HookDies(h) ==
    /\ Twist /\ hooks' = hooks \ {h}
    /\ UNCHANGED <<native, witness, pending, dirs, agent, asking, owner, told, ghosts>>

-----------------------------------------------------------------------------
(* The lock's owner.                                                         *)

At(pc) == owner.pc = pc
Goto(pc) == owner' = [owner EXCEPT !.pc = pc]

\* A sending command publishes its message and tries the lock.
Send(m) ==
    /\ dirs[m] = {} /\ dirs' = [dirs EXCEPT ![m] = {"new"}]
    /\ asking' = asking \cup {m}
    /\ UNCHANGED <<world, pending, agent, owner, told, used, ghosts>>
Busy(m) ==
    /\ m \in asking /\ owner # NoOwner /\ owner.target # m
    /\ asking' = asking \ {m} /\ told' = [told EXCEPT ![m] = @ \cup {"queued"}]
    /\ UNCHANGED <<world, pending, dirs, agent, owner, used, ghosts>>

\* acquire: an input whose owner died is unverified, and its sender told.
Acquire(m) ==
    /\ owner = NoOwner /\ (m = None \/ m \in asking)
    /\ LET i == agent.input IN
       IF i = None THEN UNCHANGED <<agent, dirs, told>>
       ELSE /\ agent' = [agent EXCEPT !.input = None, !.failed = i]
            /\ dirs' = [dirs EXCEPT ![i] = {"failed"}]
            /\ told' = [told EXCEPT ![i] = @ \cup {"unverified"}]
    /\ owner' = [NoOwner EXCEPT !.pc = "retire", !.target = m]
    /\ UNCHANGED <<world, pending, asking, used, ghosts>>

\* Ticks adopt the session the native program moved to.
Adopt ==
    /\ At("retire") /\ agent.session # native.session
    /\ agent' = [agent EXCEPT !.session = native.session]
    /\ UNCHANGED <<world, pending, dirs, asking, owner, told, used, ghosts>>

Retained == {n \in pending : n.session = agent.session \/ n.proof # NoProof}

\* RetireNativePending; the evidence is read, and the witness taken into the
\* record if any of it is of this session.
Proofs(attempts) == {n \in attempts : n.proof # NoProof}
\* Defect: the proof of a session that was left behind is not settled.
SettledCurrent(attempts) == {n \in Proofs(attempts) : n.session = agent.session}
Settleable(attempts) == Proofs(attempts)
Retire ==
    /\ At("retire")
    /\ pending' = Retained
    /\ agent' = IF /\ \E n \in Proofs(Retained) : n.session = agent.session
                   /\ witness.session = agent.session /\ witness.id > agent.turn
                THEN [agent EXCEPT !.turn = witness.id] ELSE agent
    /\ owner' = [owner EXCEPT !.pc = "settle", !.todo = Settleable(Retained)]
    /\ UNCHANGED <<world, dirs, asking, told, used, ghosts>>

\* reconcileNativePending, for each proof: a copy of the envelope is written
\* to new and renamed to cur, ...
SettleFile(n) ==
    /\ At("settle") /\ n \in owner.todo
    /\ dirs' = [dirs EXCEPT ![n.text] = @ \cup {"new"}]
    /\ owner' = [owner EXCEPT !.pc = "rename", !.at = n.text]
    /\ UNCHANGED <<world, pending, agent, asking, told, used, ghosts>>
Settling == CHOOSE n \in owner.todo : n.text = owner.at
SettleRename ==
    /\ At("rename")
    /\ dirs' = [dirs EXCEPT ![owner.at] = (@ \ {"new"}) \cup {"cur"}]
    /\ agent' = [agent EXCEPT !.failed = IF @ = owner.at THEN None ELSE @]
    /\ Goto("capacity")
    /\ UNCHANGED <<world, pending, asking, told, used, ghosts>>

\* Defect: any proof of the episode's message ends it.
EndsAny(n) == n.capacity # 0
\* ... the episode before the write is over if this is the current input, ...
EndsEpisode(n) ==
    /\ n.capacity # 0 /\ agent.capacity = n.capacity
    /\ n.proof.session = agent.session /\ n.proof.id = agent.turn
SettleCapacity ==
    /\ At("capacity")
    /\ agent' = IF EndsEpisode(Settling) THEN [agent EXCEPT !.capacity = 0] ELSE agent
    /\ Goto("tell")
    /\ UNCHANGED <<world, pending, dirs, asking, told, used, ghosts>>
\* ... the sender is told, unless it waits for this very answer, ...
SettleTell ==
    /\ At("tell")
    /\ told' = IF owner.wait /\ owner.target = owner.at THEN told
               ELSE [told EXCEPT ![owner.at] = @ \cup {"delivered"}]
    /\ Goto("unfail")
    /\ UNCHANGED <<world, pending, dirs, agent, asking, used, ghosts>>
Unfailed(m) == dirs[m] \ {"failed"}
\* ... and the failed copy goes, then the evidence.
SettleUnfail ==
    /\ At("unfail")
    /\ dirs' = [dirs EXCEPT ![owner.at] = Unfailed(owner.at)]
    /\ Goto("remove")
    /\ UNCHANGED <<world, pending, agent, asking, told, used, ghosts>>
SettleRemove ==
    /\ At("remove")
    /\ pending' = {n \in pending : n.text # owner.at}
    /\ owner' = [owner EXCEPT !.pc = "settle", !.at = None, !.todo = {n \in @ : n.text # owner.at},
                              !.result = IF owner.wait /\ owner.target = owner.at THEN "delivered" ELSE @]
    /\ UNCHANGED <<world, dirs, agent, asking, told, used, ghosts>>
Settled ==
    /\ At("settle") /\ owner.todo = {}
    /\ owner' = [owner EXCEPT !.pc = IF owner.wait THEN "answer" ELSE "drain"]
    /\ UNCHANGED <<world, pending, dirs, agent, asking, told, used, ghosts>>

Attempted(m) ==
    {n \in pending : n.text # m} \cup
        {[text |-> m, session |-> agent.session, proof |-> NoProof, capacity |-> agent.capacity]}

\* drainLocked's next message goes to the socket of a peer that answers. The
\* evidence comes first, ...
BeginNative(m) ==
    /\ At("drain") /\ "new" \in dirs[m]
    /\ pending' = Attempted(m)
    /\ owner' = [owner EXCEPT !.pc = "begun", !.at = m]
    /\ UNCHANGED <<world, dirs, agent, asking, told, used, ghosts>>
\* ... or, without a peer, to the composer (the outcome is Delivery's).
Keystrokes(m) ==
    /\ At("drain") /\ "new" \in dirs[m]
    /\ dirs' = [dirs EXCEPT ![m] = {"cur"}]
    /\ entered' = [entered EXCEPT ![m] = @ + 1]
    /\ told' = [told EXCEPT ![m] = @ \cup {"delivered"}]
    /\ taken' = taken \cup {m}
    /\ UNCHANGED <<world, pending, agent, asking, owner, used, proven, episode>>
StartInput ==
    /\ At("begun")
    /\ agent' = [agent EXCEPT !.input = owner.at]
    /\ Goto("started")
    /\ UNCHANGED <<world, pending, dirs, asking, told, used, ghosts>>
\* A write may fail and still be taken, or be lost though it succeeded. The
\* message of an idle receiver that was asked for is waited for.
WriteSocket(whole) ==
    /\ At("started")
    /\ native' = [native EXCEPT !.socket = @ \cup {owner.at}]
    /\ entered' = [entered EXCEPT ![owner.at] = @ + 1]
    /\ owner' = [owner EXCEPT !.pc = "finish", !.wait = whole /\ owner.at = owner.target]
    /\ UNCHANGED <<hooks, witness, pending, dirs, agent, asking, told, used, taken, proven, episode>>

\* Defect: a written message that is not asked for stays queued.
FiledNew(m) == {"new"}
Filed(m) == {"failed"}
\* finishInput: unverified.
FinishInput ==
    /\ At("finish")
    /\ agent' = [agent EXCEPT !.input = None, !.failed = owner.at]
    /\ dirs' = [dirs EXCEPT ![owner.at] = Filed(owner.at)]
    /\ Goto(IF owner.wait THEN "await" ELSE "notify")
    /\ UNCHANGED <<world, pending, asking, told, used, ghosts>>
Notify ==
    /\ At("notify")
    /\ IF owner.at = owner.target
       THEN UNCHANGED told /\ owner' = [owner EXCEPT !.pc = "drain", !.result = "unverified"]
       ELSE told' = [told EXCEPT ![owner.at] = @ \cup {"unverified"}] /\ Goto("drain")
    /\ UNCHANGED <<world, pending, dirs, agent, asking, used, ghosts>>

\* awaitNativeWitness, on the evidence of the message asked for.
Await ==
    /\ At("await") /\ \E n \in Proofs(pending) : n.text = owner.target
    /\ Goto("retire")
    /\ UNCHANGED <<world, pending, dirs, agent, asking, told, used, ghosts>>
AwaitTimesOut ==
    /\ At("await")
    /\ owner' = [owner EXCEPT !.pc = "answer", !.result = "unverified", !.wait = FALSE]
    /\ UNCHANGED <<world, pending, dirs, agent, asking, told, used, ghosts>>

\* The command answers and the lock is released.
Answer ==
    /\ At("answer") \/ (At("drain") /\ \A m \in Messages : "new" \notin dirs[m])
    /\ IF owner.target = None THEN UNCHANGED told
       ELSE told' = [told EXCEPT ![owner.target] = @ \cup {owner.result}]
    /\ asking' = asking \ {owner.target}
    /\ owner' = NoOwner
    /\ UNCHANGED <<world, pending, dirs, agent, used, ghosts>>
\* A sender whose command dies knows that.
OwnerDies ==
    /\ owner # NoOwner /\ Twist
    /\ owner' = NoOwner /\ asking' = asking \ {owner.target}
    /\ told' = IF owner.target = None THEN told ELSE [told EXCEPT ![owner.target] = @ \cup {"died"}]
    /\ UNCHANGED <<world, pending, dirs, agent, ghosts>>

\* A turn fails at the provider's capacity: a new episode.
CapacityFails ==
    /\ owner = NoOwner /\ Twist
    /\ agent' = [agent EXCEPT !.failures = @ + 1, !.capacity = agent.failures + 1]
    /\ episode' = native.prompts
    /\ UNCHANGED <<world, pending, dirs, asking, owner, told, entered, taken, proven>>

-----------------------------------------------------------------------------
OwnerStep ==
    \/ Adopt \/ Retire \/ SettleRename \/ SettleCapacity \/ SettleTell \/ SettleUnfail \/ SettleRemove \/ Settled
    \/ (\E n \in owner.todo : SettleFile(n))
    \/ (\E m \in Messages : BeginNative(m) \/ Keystrokes(m))
    \/ StartInput \/ (\E whole \in BOOLEAN : WriteSocket(whole)) \/ FinishInput \/ Notify
    \/ Await \/ AwaitTimesOut \/ Answer
Next ==
    \/ \E m \in Messages : Take(m) \/ Send(m) \/ Busy(m)
    \/ Move \/ CapacityFails \/ OwnerStep \/ OwnerDies
    \/ \E h \in hooks : WriteWitness(h) \/ HookDies(h)
    \/ \E m \in Messages \cup {None} : Acquire(m)

\* The watchdog drains again, and an owner goes on.
Fairness == WF_vars(OwnerStep) /\ SF_vars(Acquire(None))
Spec == Init /\ [][Next]_vars /\ Fairness

-----------------------------------------------------------------------------
(* Properties.                                                               *)

\* Every variable keeps its type; one attempt per message.
TypeOK ==
    /\ \A m \in Messages : dirs[m] \subseteq {"new", "cur", "failed"}
    /\ \A n, o \in pending : n.text = o.text => n = o
    /\ agent.session \in 1..native.session /\ agent.turn \in 0..native.prompts
    /\ agent.input \in Messages \cup {None} /\ agent.failed \in Messages \cup {None}

\* A message is written or typed at most once, whoever died in between
\* (claude_native.go:118).
EnteredOnce == \A m \in Messages : entered[m] <= 1

\* A proof and its sender's notice never disappear (native_pending.go:50): the
\* evidence stays until the receipt says delivered and the sender knows, or saw
\* its own command die.
Resolved(m) == "cur" \in dirs[m] /\ (m \in asking \/ told[m] \cap {"delivered", "died"} # {})
ProofKept == \A m \in proven : Resolved(m) \/ \E n \in Proofs(pending) : n.text = m

\* At rest an envelope without evidence is in one directory, and one that is
\* retained as delivered was submitted.
OneReceipt ==
    owner = NoOwner => \A m \in Messages :
        (\A n \in pending : n.text # m) => Cardinality(dirs[m]) <= 1 \/ agent.input = m
DeliveredIsTaken == \A m \in Messages : "cur" \in dirs[m] => m \in taken

\* Only the current input, submitted after the failure, ends a capacity episode
\* (native_pending.go:71).
BudgetKept ==
    [][agent.capacity # 0 /\ agent'.capacity = 0 =>
           Settling.proof.id > episode /\ Settling.proof.id = agent.turn]_vars

\* Recorded proofs are settled, and their evidence removed.
ProofSettles == []<>(Proofs(pending) = {})

\* A message goes in once, and its receipts tell no more and no less than was
\* proved of it (claude_native.go:118, native_pending.go:50).
EnteredAsTold == TypeOK /\ EnteredOnce /\ OneReceipt /\ DeliveredIsTaken

\* Proofs are kept, and count for what they prove (native_pending.go:71).
ProofsCount == []ProofKept /\ BudgetKept
=============================================================================
