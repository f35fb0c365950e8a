-------------------------------- MODULE Clear --------------------------------
(* gang clear: cmd/gang/clear.go, store/clear.go, the submit and session      *)
(* hooks of events.go, and the recovery of an unsubmitted continuation in     *)
(* startup_recovery.go and startup_recovery_replace.go.                       *)
(*                                                                            *)
(* An agent asks for a clean conversation in one of its turns. After the turn *)
(* the lock's owner types /clear into the native program, whose next          *)
(* conversation must begin with the saved continuation: the submit hook, a    *)
(* process of its own that must not take the agent lock, admits exactly that  *)
(* prompt once. Owners and hooks may die at any point, hooks of the retired   *)
(* conversation may be late, and the operator types what he likes.            *)
EXTENDS Naturals, FiniteSets

CONSTANTS
    MaxClears,   \* bound: requests
    MaxPrompts,  \* bound: prompts of the native program
    MaxTwists    \* bound: what the operator does, kills, timeouts

ASSUME ClearAssumption == MaxClears \in Nat /\ MaxPrompts \in Nat /\ MaxTwists \in Nat

VARIABLES
    eager,      \* a cleared conversation starts its hook at once, or at its first prompt
    native,     \* the native program
    hooks,      \* hook processes
    start,      \* session-start: the last native SessionStart
    admission,  \* clear-admission: the request whose continuation was admitted
    witness,    \* the last submitted prompt's witness
    stop,       \* the last record of a finished turn
    agent,      \* the agent's record
    inbox,      \* where the continuation and the one ordinary message are, and the
                \* witness before a paste that no Enter can have followed (PasteOnly)
    owner,      \* the process that holds the agent lock
    now,        \* clears submitted, the clock as far as it matters
    used,       \* twists so far
    keyed,      \* ghost: for each request, how often its /clear was entered
    began,      \* ghost: prompts that began a turn, with their conversations
    dead        \* ghost: a submit or session hook died

vars == <<eager, native, hooks, start, admission, witness, stop, agent, inbox, owner,
          now, used, keyed, began, dead>>
files == <<start, admission, witness, stop>>
ghosts == <<keyed, began, dead>>

Clears == 1..MaxClears
Text(kind, id) == [kind |-> kind, id |-> id]
Nothing == Text("none", 0)
NoClear == [id |-> 0, status |-> "none", prev |-> 0, at |-> 0]
NoOwner == [op |-> "none", pc |-> "none", old |-> 0, way |-> "none"]

\* The agent is in its first turn, and its SessionStart hook was seen.
Init ==
    /\ eager \in BOOLEAN
    /\ native = [session |-> 1, phase |-> "running", text |-> Nothing, box |-> Nothing,
                 entered |-> FALSE, fresh |-> FALSE, prompts |-> 1]
    /\ hooks = {}
    /\ start = [session |-> 1, source |-> "startup", clear |-> 0, at |-> 0]
    /\ admission = 0
    /\ witness = [id |-> 1, session |-> 1, text |-> Text("typed", 0)]
    /\ stop = [id |-> 0, session |-> 1]
    /\ agent = [session |-> 1, turn |-> 1, done |-> 0, clear |-> NoClear, input |-> "none", failed |-> "none"]
    /\ inbox = [cont |-> "none", mail |-> "none", only |-> 0]
    /\ owner = NoOwner
    /\ now = 0 /\ used = 0 /\ dead = FALSE
    /\ keyed = [c \in Clears |-> 0]
    /\ began = {[id |-> 1, session |-> 1, text |-> Text("typed", 0)]}

Twist == used < MaxTwists /\ used' = used + 1

Pending(a) == a.clear.status \notin {"none", "completed"}
Cont(a) == Text("cont", a.clear.id)
Wire(a, what) == IF what = "cont" THEN Cont(a) ELSE Text("mail", 0)

-----------------------------------------------------------------------------
(* The native program.                                                       *)

SubmitHook(session, text, id) ==
    [kind |-> "submit", session |-> session, text |-> text, id |-> id, saw |-> 0, clear |-> NoClear,
     source |-> "none", at |-> 0, pc |-> "read"]
StartHook(session) ==
    [kind |-> "start", session |-> session, text |-> Nothing, id |-> 0, saw |-> 0, clear |-> NoClear,
     source |-> "clear", at |-> 0, pc |-> "read"]
StopHook(session, id) ==
    [kind |-> "stop", session |-> session, text |-> Nothing, id |-> id, saw |-> 0, clear |-> NoClear,
     source |-> "none", at |-> 0, pc |-> "read"]

\* It takes what was entered. /clear begins a conversation; a prompt runs the
\* submit hook, after the session hook of a conversation that has run none.
Prompting(n, text) == [n EXCEPT !.phase = "prompting", !.text = text, !.prompts = @ + 1]
Take ==
    /\ native.phase = "idle" /\ native.entered
    /\ LET n == [native EXCEPT !.box = Nothing, !.entered = FALSE] IN
       CASE n.box # native.box /\ native.box.kind = "clear" ->
              /\ native' = [n EXCEPT !.session = @ + 1, !.fresh = ~eager,
                                     !.phase = IF eager THEN "starting" ELSE "idle"]
              /\ hooks' = IF eager THEN hooks \cup {StartHook(n.session + 1)} ELSE hooks
         [] native.box.kind # "clear" /\ native.fresh ->
              /\ native' = [n EXCEPT !.phase = "starting", !.text = native.box, !.fresh = FALSE]
              /\ hooks' = hooks \cup {StartHook(n.session)}
         [] native.box.kind # "clear" /\ ~native.fresh ->
              /\ native' = Prompting(n, native.box)
              /\ hooks' = hooks \cup {SubmitHook(n.session, native.box, n.prompts + 1)}
    /\ UNCHANGED <<eager, files, agent, inbox, owner, now, used, ghosts>>

\* The synchronous hook is gone: the native program goes on.
Gone(kind) == ~\E h \in hooks : h.kind = kind
Started ==
    /\ native.phase = "starting" /\ Gone("start")
    /\ IF native.text = Nothing
       THEN native' = [native EXCEPT !.phase = "idle"] /\ UNCHANGED hooks
       ELSE /\ native' = Prompting(native, native.text)
            /\ hooks' = hooks \cup {SubmitHook(native.session, native.text, native.prompts + 1)}
    /\ UNCHANGED <<eager, files, agent, inbox, owner, now, used, ghosts>>
TurnBegins ==
    /\ native.phase = "prompting" /\ Gone("submit")
    /\ native' = [native EXCEPT !.phase = "running"]
    /\ began' = began \cup {[id |-> native.prompts, session |-> native.session, text |-> native.text]}
    /\ UNCHANGED <<eager, hooks, files, agent, inbox, owner, now, used, keyed, dead>>
TurnEnds ==
    /\ native.phase = "running"
    /\ native' = [native EXCEPT !.phase = "idle", !.text = Nothing]
    /\ hooks' = hooks \cup {StopHook(native.session, native.prompts)}
    /\ UNCHANGED <<eager, files, agent, inbox, owner, now, used, ghosts>>

\* Text reaches a composer that may hold something else.
Typed(text) == IF native.box = Nothing THEN text ELSE Text("mixed", 0)
Typable == ~native.entered

\* The operator submits a prompt of his own, an earlier continuation again or
\* /clear; leaves a draft; or presses Enter on what he finds.
OperatorSubmits(text) ==
    /\ Twist /\ native.phase = "idle" /\ native.box = Nothing /\ native.prompts < MaxPrompts
    /\ text.kind = "cont" => \E b \in began : b.text = text
    /\ text.kind = "clear" => agent.clear # NoClear
    /\ native' = [native EXCEPT !.box = text, !.entered = TRUE]
    /\ UNCHANGED <<eager, hooks, files, agent, inbox, owner, now, ghosts>>
OperatorDrafts ==
    /\ Twist /\ Typable /\ native.prompts < MaxPrompts
    /\ native' = [native EXCEPT !.box = Typed(Text("typed", 0))]
    /\ UNCHANGED <<eager, hooks, files, agent, inbox, owner, now, ghosts>>
OperatorEnters ==
    /\ Twist /\ Typable /\ native.box # Nothing /\ native.phase = "idle"
    /\ native' = [native EXCEPT !.entered = TRUE]
    /\ UNCHANGED <<eager, hooks, files, agent, inbox, owner, now, ghosts>>

-----------------------------------------------------------------------------
(* Hooks.                                                                    *)

Change(h, changed) == hooks' = (hooks \ {h}) \cup {changed}
Block(h) == /\ hooks' = hooks \ {h}
            /\ native' = [native EXCEPT !.phase = "idle", !.text = Nothing]
Ends(h) == hooks' = hooks \ {h} /\ UNCHANGED native

Asks(h) == h.kind = "submit" /\ (Pending(agent) \/ h.text.kind = "cont")

\* handleHook reads the agent's record, and goes on from what it read.
HookReads(h) ==
    /\ h.pc = "read"
    /\ LET r == [h EXCEPT !.saw = agent.session, !.clear = agent.clear, !.at = now]
           cleared == agent.clear # NoClear /\ h.session # agent.session
       IN IF ~Asks(h) /\ h.kind # "start" /\ cleared THEN hooks' = hooks \ {h}
          ELSE Change(h, [r EXCEPT !.pc = IF Asks(h) THEN "admit" ELSE "write"])
    /\ UNCHANGED <<eager, native, files, agent, inbox, owner, now, used, ghosts>>

\* Defect: the proof must be later than the clear.
AdmissibleLater(h) ==
    /\ h.clear.status = "continuing" /\ h.text = Text("cont", h.clear.id)
    /\ agent.clear.id = h.clear.id /\ agent.clear.status = "continuing"
    /\ start.clear = h.clear.id /\ start.session = h.session /\ h.session # agent.clear.prev
    /\ start.at > agent.clear.at
    /\ admission # h.clear.id

\* admitClearPrompt and AdmitClear: the exact continuation, awaited in the
\* record the hook read and in the one it reads now, in the new conversation,
\* and not admitted yet.
Admissible(h) ==
    /\ h.clear.status = "continuing" /\ h.text = Text("cont", h.clear.id)
    /\ agent.clear.id = h.clear.id /\ agent.clear.status = "continuing"
    /\ start.clear = h.clear.id /\ start.session = h.session /\ h.session # agent.clear.prev
    /\ start.at >= agent.clear.at
    /\ admission # h.clear.id
Admit(h) ==
    /\ h.pc = "admit"
    /\ IF Admissible(h)
       THEN /\ admission' = h.clear.id /\ UNCHANGED native
            /\ Change(h, [h EXCEPT !.pc = "write"])
       ELSE UNCHANGED admission /\ Block(h)
    /\ UNCHANGED <<eager, start, witness, stop, agent, inbox, owner, now, used, ghosts>>

\* writeWitness: refused when the binding changed while the hook ran, and for
\* the retired conversation.
Bound == start.clear = agent.clear.id
WriteWitness(h) ==
    /\ h.kind = "submit" /\ h.pc = "write"
    /\ LET changed == /\ h.saw # agent.session /\ h.session # agent.session
                      /\ ~(Bound /\ h.session = start.session)
           retired == Bound /\ start.session # agent.clear.prev /\ h.session = agent.clear.prev
       IN witness' = IF agent.clear # NoClear /\ (changed \/ retired) THEN witness
                     ELSE [id |-> h.id, session |-> h.session, text |-> h.text]
    /\ Ends(h)
    /\ UNCHANGED <<eager, start, admission, stop, agent, inbox, owner, now, used, ghosts>>

\* WriteSessionStart.
Authorized(h, c) ==
    /\ c.status \in {"queued", "completed"} => h.session = agent.session
    /\ ~(h.session = c.prev /\ c.at # 0)
    /\ ~(c.status # "completed" /\ start.clear = c.id /\ start.session # h.session)
WriteSessionStart(h) ==
    /\ h.kind = "start" /\ h.pc = "write"
    /\ LET c == agent.clear
           binds == /\ c.status \in {"submitted", "continuing", "unverified"}
                    /\ h.session # c.prev /\ h.at >= c.at
       IN start' = IF c # NoClear /\ ~Authorized(h, c) THEN start
                   ELSE [session |-> h.session, source |-> h.source,
                         clear |-> IF binds THEN c.id ELSE 0, at |-> h.at]
    /\ Ends(h)
    /\ UNCHANGED <<eager, admission, witness, stop, agent, inbox, owner, now, used, ghosts>>

\* WriteStatusHook keeps what was not seen; here, the end of the latest turn.
WriteStop(h) ==
    /\ h.kind = "stop" /\ h.pc = "write"
    /\ stop' = IF h.id > stop.id THEN [id |-> h.id, session |-> h.session] ELSE stop
    /\ Ends(h)
    /\ UNCHANGED <<eager, start, admission, witness, agent, inbox, owner, now, used, ghosts>>

\* The native program takes the prompt when the hook says nothing.
HookDies(h) ==
    /\ Twist /\ Ends(h) /\ dead' = (dead \/ h.kind # "stop")
    /\ UNCHANGED <<eager, files, agent, inbox, owner, now, keyed, began>>

-----------------------------------------------------------------------------
(* The lock's owner.                                                         *)

At(op, pc) == owner.op = op /\ owner.pc = pc
Goto(pc) == owner' = [owner EXCEPT !.pc = pc]
Release == owner' = NoOwner

Confirmed(a) ==
    /\ start.source = "clear" /\ start.clear = a.clear.id
    /\ start.session # a.clear.prev /\ start.at >= a.clear.at

\* reconcileClear: the proof binds the new conversation; only the delivered
\* continuation completes the request.
Reconciled(a, box) ==
    IF ~Pending(a) \/ a.clear.at = 0 \/ ~Confirmed(a) THEN a
    ELSE LET b == IF a.session = a.clear.prev
                  THEN [a EXCEPT !.session = start.session, !.turn = 0, !.done = 0] ELSE a
         IN IF box.cont = "cur" THEN [b EXCEPT !.clear.status = "completed"]
            ELSE IF b.clear.status = "submitted" THEN [b EXCEPT !.clear.status = "continuing"] ELSE b

\* settleReceipt, then finishInput, for the continuation and for the message.
Filed(a, what, outcome) ==
    [a EXCEPT !.failed = IF outcome = "unverified" THEN what ELSE IF @ = what THEN "none" ELSE @]
Stated(a, outcome) ==
    [a EXCEPT !.clear.status = IF outcome = "delivered" THEN "completed" ELSE "unverified"]
Settled(a, what, outcome) ==
    LET b == [Filed(a, what, outcome) EXCEPT !.input = "none"]
    IN IF what = "cont" THEN Stated(b, outcome) ELSE b
Placed(box, what, outcome) ==
    [box EXCEPT ![what] = IF outcome = "delivered" THEN "cur" ELSE "failed"]

\* recoverInput, then reconcileDelivery: an input whose owner died is
\* unverified; exact proof delivers an unverified one.
Recovered(s) ==
    IF s.a.input = "none" THEN s
    ELSE [a |-> Settled(s.a, s.a.input, "unverified"), box |-> Placed(s.box, s.a.input, "unverified")]
Proven(s) ==
    LET what == s.a.failed
    IN IF what = "none" \/ witness.text # Wire(s.a, what) \/ witness.session # s.a.session THEN s
       ELSE [a |-> Settled(s.a, what, "delivered"), box |-> Placed(s.box, what, "delivered")]
\* Defect: whichever conversation the records are of.
ObservedAny(a) ==
    LET b == IF witness.session = a.session /\ witness.id > a.turn THEN [a EXCEPT !.turn = witness.id] ELSE a
    IN IF stop.id >= b.turn THEN [b EXCEPT !.done = stop.id] ELSE b

\* The hooks' records of the current conversation.
Observed(a) ==
    LET b == IF witness.session = a.session /\ witness.id > a.turn THEN [a EXCEPT !.turn = witness.id] ELSE a
    IN IF stop.session = b.session /\ stop.id >= b.turn THEN [b EXCEPT !.done = stop.id] ELSE b

\* acquire. The agent runs gang clear in a turn of its own; ticks and sends
\* drain; the operator recovers.
Acquire(op) ==
    /\ owner = NoOwner
    /\ op = "request" => native.phase = "running" /\ agent.clear.id < MaxClears /\ native.prompts < MaxPrompts
    /\ op = "recover" => agent.failed = "cont" \/ (Pending(agent) /\ agent.input = "cont")
    /\ LET s == Proven(Recovered([a |-> Reconciled(agent, inbox), box |-> inbox]))
       IN /\ agent' = IF op = "drain" THEN Observed(s.a) ELSE s.a
          /\ inbox' = s.box
    /\ owner' = [NoOwner EXCEPT !.op = op, !.pc = "check"]
    /\ UNCHANGED <<eager, native, hooks, files, now, used, ghosts>>

\* clear: refused while another is pending, while a receipt is unresolved and
\* where no SessionStart of this conversation was seen.
Request ==
    /\ At("request", "check")
    /\ IF Pending(agent) \/ start.session # agent.session \/ agent.input # "none" \/ agent.failed # "none"
       THEN Release /\ UNCHANGED <<agent, inbox>>
       ELSE /\ agent' = [agent EXCEPT !.clear = [id |-> @.id + 1, status |-> "queued", prev |-> agent.session, at |-> 0]]
            /\ inbox' = [inbox EXCEPT !.cont = "none", !.only = 0]
            /\ Goto("publish")
    /\ UNCHANGED <<eager, native, hooks, files, now, used, ghosts>>
PublishRequest ==
    /\ At("request", "publish")
    /\ inbox' = [inbox EXCEPT !.cont = "new"]
    /\ Release
    /\ UNCHANGED <<eager, native, hooks, files, agent, now, used, ghosts>>

\* Defect: a submitted clear whose owner died is tried again.
ClearableAgain ==
    /\ agent.clear.status \in {"queued", "submitted"} /\ agent.input = "none" /\ agent.failed = "none"
    /\ agent.done # 0 /\ agent.turn <= agent.done /\ start.session = agent.session
    /\ native.phase = "idle" /\ native.box = Nothing /\ ~native.entered

\* advanceClear: the turn is over, its conversation known, the composer free.
Clearable ==
    /\ agent.clear.status = "queued" /\ agent.input = "none" /\ agent.failed = "none"
    /\ agent.done # 0 /\ agent.turn <= agent.done /\ start.session = agent.session
    /\ native.phase = "idle" /\ native.box = Nothing /\ ~native.entered
ReserveClear ==
    /\ At("drain", "check") /\ Clearable
    /\ inbox' = [inbox EXCEPT !.cont = "new"]
    /\ now' = now + 1
    /\ agent' = [agent EXCEPT !.clear.status = "submitted", !.clear.at = now']
    /\ Goto("type")
    /\ UNCHANGED <<eager, native, hooks, files, used, ghosts>>
TypeClear ==
    /\ At("drain", "type") /\ Typable
    /\ native' = [native EXCEPT !.box = Typed(Text("clear", 0))]
    /\ Goto("readback")
    /\ UNCHANGED <<eager, hooks, files, agent, inbox, now, used, ghosts>>
Unverify == agent' = [agent EXCEPT !.clear.status = "unverified"]
ReadBack ==
    /\ At("drain", "readback")
    /\ IF native.box.kind = "clear" THEN Goto("press") /\ UNCHANGED agent
       ELSE Unverify /\ Release
    /\ UNCHANGED <<eager, native, hooks, files, inbox, now, used, ghosts>>
PressClear ==
    /\ At("drain", "press")
    /\ native' = [native EXCEPT !.entered = native.box # Nothing]
    /\ keyed' = [keyed EXCEPT ![agent.clear.id] = @ + 1]
    /\ Goto("confirm")
    /\ UNCHANGED <<eager, hooks, files, agent, inbox, now, used, began, dead>>
\* The composer empties, holds something else by then, or keeps /clear too long.
ConfirmClear ==
    /\ At("drain", "confirm")
    /\ \/ /\ native.box = Nothing /\ UNCHANGED used
          /\ agent' = [agent EXCEPT !.clear.status = "continuing"]
          /\ Goto("deliver")
       \/ native.box.kind \notin {"none", "clear"} /\ Unverify /\ Release /\ UNCHANGED used
       \/ native.box.kind = "clear" /\ Twist /\ Unverify /\ Release
    /\ UNCHANGED <<eager, native, hooks, files, inbox, now, ghosts>>

\* drainLocked: while a clear is pending only its continuation is due.
Due(what) == /\ inbox[what] = "new"
             /\ IF Pending(agent) THEN agent.clear.status = "continuing" /\ what = "cont" ELSE what = "mail"
Free == native.phase = "idle" /\ native.box = Nothing /\ ~native.entered /\ native.prompts < MaxPrompts
Draining == owner.op = "drain" /\ (owner.pc = "deliver" \/ (owner.pc = "check" /\ ~Clearable))
Begin(what) ==
    /\ Draining /\ Due(what) /\ Free
    /\ agent' = [agent EXCEPT !.input = what]
    /\ owner' = [owner EXCEPT !.pc = IF what = "cont" THEN "mark" ELSE "paste", !.old = witness.id]
    /\ UNCHANGED <<eager, native, hooks, files, inbox, now, used, ghosts>>
Drained ==
    /\ Draining /\ ~(Free /\ \E what \in {"cont", "mail"} : Due(what))
    /\ Release
    /\ UNCHANGED <<eager, native, hooks, files, agent, inbox, now, used, ghosts>>
\* A startup's paste is recorded before it is made, where it is bracketed.
MarkPasteOnly ==
    /\ owner.pc = "mark"
    /\ UNCHANGED inbox \/ inbox' = [inbox EXCEPT !.only = owner.old]
    /\ Goto("paste")
    /\ UNCHANGED <<eager, native, hooks, files, agent, now, used, ghosts>>
Paste ==
    /\ owner.pc = "paste" /\ Typable
    /\ native' = [native EXCEPT !.box = Typed(Wire(agent, agent.input))]
    /\ Goto("settle")
    /\ UNCHANGED <<eager, hooks, files, agent, inbox, now, used, ghosts>>

\* The receipt is saved first, then the end of the input, then the request.
Settle(a, outcome) ==
    /\ agent' = Filed(a, a.input, outcome)
    /\ inbox' = Placed(inbox, a.input, outcome)
    /\ Goto("finish")
FinishInput ==
    /\ owner.pc = "finish"
    /\ agent' = [agent EXCEPT !.input = "none"]
    /\ Goto(IF agent.input = "cont" THEN "state" ELSE "deliver")
    /\ UNCHANGED <<eager, native, hooks, files, inbox, now, used, ghosts>>
ClearState ==
    /\ owner.pc = "state"
    /\ agent' = Stated(agent, IF inbox.cont = "cur" THEN "delivered" ELSE "unverified")
    /\ Goto("deliver")
    /\ UNCHANGED <<eager, native, hooks, files, inbox, now, used, ghosts>>

\* The paste is read back, and what says that it was not submitted is withdrawn
\* before Enter. Recovery asks for an unchanged witness too.
Unwitnessed == owner.way # "none" => witness.id = owner.old
SettlePaste ==
    /\ owner.pc = "settle"
    /\ IF native.box = Wire(agent, agent.input) /\ Unwitnessed
       THEN /\ inbox' = IF agent.input = "cont" THEN [inbox EXCEPT !.only = 0] ELSE inbox
            /\ Goto("enter") /\ UNCHANGED agent
       ELSE Settle(agent, "unverified")
    /\ UNCHANGED <<eager, native, hooks, files, now, used, ghosts>>
Enter ==
    /\ owner.pc = "enter"
    /\ native' = [native EXCEPT !.entered = native.box # Nothing]
    /\ Goto("await")
    /\ UNCHANGED <<eager, hooks, files, agent, inbox, now, used, ghosts>>

\* A new witness of exactly this text, in the current conversation.
Proof(a) == witness.text = Wire(a, a.input) /\ witness.session = a.session
Answered == witness.id # owner.old /\ (witness.text = Wire(agent, agent.input) \/ agent.input = "cont")
AwaitReceipt ==
    /\ owner.pc = "await" /\ Answered
    /\ LET a == IF witness.text = Wire(agent, agent.input) THEN Reconciled(agent, inbox) ELSE agent
       IN IF Proof(a) THEN Settle([a EXCEPT !.turn = witness.id], "delivered") ELSE Settle(a, "unverified")
    /\ UNCHANGED <<eager, native, hooks, files, now, used, ghosts>>
Hopeless == ~native.entered /\ native.phase \notin {"starting", "prompting"}
AwaitTimesOut ==
    /\ owner.pc = "await" /\ ~Answered
    /\ Hopeless \/ used < MaxTwists
    /\ used' = IF Hopeless THEN used ELSE used + 1
    /\ Settle(agent, "unverified")
    /\ UNCHANGED <<eager, native, hooks, files, now, ghosts>>

\* recoverStartup: a continuation that was not admitted. The composer still
\* holds it; or shows a paste of its length, which may be another's; or is
\* empty, and the paste was followed by no Enter and no prompt.
Recoverable(way) ==
    /\ agent.failed = "cont" /\ agent.clear.status \in {"unverified", "continuing"}
    /\ admission # agent.clear.id
    /\ ~native.entered /\ native.prompts < MaxPrompts
    /\ \/ way = "enter" /\ native.box = Cont(agent)
       \/ way = "replace" /\ (native.box = Cont(agent) \/ native.box.kind = "typed")
       \/ /\ way = "repaste" /\ native.box = Nothing /\ native.phase = "idle"
          /\ inbox.only # 0 /\ inbox.only = witness.id
Ways == {"enter", "replace", "repaste"}
Recover(way) ==
    /\ At("recover", "check") /\ Recoverable(way)
    /\ agent' = [agent EXCEPT !.clear.status = "continuing"]
    /\ owner' = [owner EXCEPT !.pc = "reopen", !.old = witness.id, !.way = way]
    /\ UNCHANGED <<eager, native, hooks, files, inbox, now, used, ghosts>>
\* reopenUnverified: whoever finds it half done calls it unverified again.
Reopen ==
    /\ owner.pc = "reopen"
    /\ agent' = [agent EXCEPT !.input = "cont", !.failed = "none"]
    /\ inbox' = [inbox EXCEPT !.cont = "new"]
    /\ Goto(IF owner.way = "repaste" THEN "empty" ELSE "possible")
    /\ UNCHANGED <<eager, native, hooks, files, now, used, ghosts>>
SubmitPossible ==
    /\ owner.pc = "possible"
    /\ inbox' = [inbox EXCEPT !.only = 0]
    /\ Goto(IF owner.way = "enter" THEN "enter" ELSE "collapsed")
    /\ UNCHANGED <<eager, native, hooks, files, agent, now, used, ghosts>>
\* replaceCollapsedStartup reads the composer before it clears it, and again
\* before it pastes.
ReadCollapsed ==
    /\ owner.pc = "collapsed"
    /\ IF (native.box = Cont(agent) \/ native.box.kind = "typed") /\ Unwitnessed
       THEN Goto("wipe") /\ UNCHANGED <<agent, inbox>>
       ELSE Settle(agent, "unverified")
    /\ UNCHANGED <<eager, native, hooks, files, now, used, ghosts>>
Wipe ==
    /\ owner.pc = "wipe" /\ Typable
    /\ native' = [native EXCEPT !.box = Nothing]
    /\ Goto("empty")
    /\ UNCHANGED <<eager, hooks, files, agent, inbox, now, used, ghosts>>
ReadEmpty ==
    /\ owner.pc = "empty"
    /\ IF native.box = Nothing /\ native.phase = "idle" /\ Unwitnessed
       THEN Goto("paste") /\ UNCHANGED <<agent, inbox>>
       ELSE Settle(agent, "unverified")
    /\ UNCHANGED <<eager, native, hooks, files, now, used, ghosts>>
Recovers ==
    /\ owner.op = "recover" /\ Release
    /\ owner.pc = "deliver" \/ (owner.pc = "check" /\ \A way \in Ways : ~Recoverable(way))
    /\ UNCHANGED <<eager, native, hooks, files, agent, inbox, now, used, ghosts>>

OwnerDies ==
    /\ owner # NoOwner /\ Twist /\ Release
    /\ UNCHANGED <<eager, native, hooks, files, agent, inbox, now, ghosts>>

\* An ordinary message arrives.
Send == /\ inbox.mail = "none" /\ inbox' = [inbox EXCEPT !.mail = "new"]
        /\ UNCHANGED <<eager, native, hooks, files, agent, owner, now, used, ghosts>>

-----------------------------------------------------------------------------
Operator ==
    \/ \E text \in {Text("typed", 0), Text("clear", 0)} \cup {Text("cont", c) : c \in Clears} : OperatorSubmits(text)
    \/ OperatorDrafts \/ OperatorEnters
HookStep(h) == HookReads(h) \/ Admit(h) \/ WriteWitness(h) \/ WriteSessionStart(h) \/ WriteStop(h)
NativeStep == Take \/ Started \/ TurnBegins \/ TurnEnds
OwnerStep ==
    \/ Request \/ PublishRequest \/ ReserveClear \/ TypeClear \/ ReadBack \/ PressClear \/ ConfirmClear
    \/ (\E what \in {"cont", "mail"} : Begin(what)) \/ Drained \/ MarkPasteOnly \/ Paste \/ SettlePaste
    \/ Enter \/ AwaitReceipt \/ AwaitTimesOut \/ FinishInput \/ ClearState
    \/ (\E way \in Ways : Recover(way)) \/ Reopen \/ SubmitPossible \/ ReadCollapsed \/ Wipe \/ ReadEmpty
    \/ Recovers
Next ==
    \/ Operator \/ NativeStep \/ Send \/ OwnerStep \/ OwnerDies
    \/ \E h \in hooks : HookStep(h) \/ HookDies(h)
    \/ \E op \in {"request", "drain", "recover"} : Acquire(op)

\* Hooks and owners run on, a turn ends, and the watchdog drains again.
Fairness ==
    /\ WF_vars(NativeStep) /\ WF_vars(OwnerStep) /\ WF_vars(\E h \in hooks : HookStep(h))
    /\ SF_vars(Acquire("drain"))
Spec == Init /\ [][Next]_vars /\ Fairness

-----------------------------------------------------------------------------
(* Properties.                                                               *)

\* Every variable keeps its type; nothing is saved as delivered and unresolved.
TypeOK ==
    /\ native.phase \in {"idle", "starting", "prompting", "running"}
    /\ agent.clear.status \in {"none", "queued", "submitted", "continuing", "unverified", "completed"}
    /\ agent.input \in {"none", "cont", "mail"} /\ agent.failed \in {"none", "cont", "mail"}
    /\ \A what \in {"cont", "mail"} : inbox[what] \in {"none", "new", "cur", "failed"}
    /\ agent.failed # "none" => inbox[agent.failed] = "failed"
    /\ admission \in 0..MaxClears /\ agent.session \in 1..native.session

\* A request enters /clear at most once, whoever died (clear.go:147).
ClearKeyedOnce == \A c \in Clears : keyed[c] <= 1

\* The continuation begins one turn at most, though the operator submits it
\* again and recovery enters it again (clear.go:115), unless its hook died.
Turned(c) == {b \in began : b.text = Text("cont", c)}
ContinuedOnce == ~dead => \A c \in Clears : Cardinality(Turned(c)) <= 1

\* A conversation bound to a request begins with its continuation: no mail and
\* no prompt of the operator comes first (events.go:119), unless its hook died.
FirstIsContinuation ==
    ~dead /\ start.clear # 0 =>
        \A b \in began : b.session = start.session =>
            \E f \in Turned(start.clear) : f.session = b.session /\ f.id <= b.id

\* A completed request's continuation is a turn of the conversation that the
\* agent is bound to (clear.go:335).
CompletedIsReal ==
    agent.clear.status = "completed" =>
        \/ \E b \in Turned(agent.clear.id) : b.session = agent.session
        \/ native.phase = "prompting" /\ native.text = Cont(agent) /\ native.session = agent.session

\* What the agent's record says of its turns is of the conversation it is bound
\* to: no late hook of a retired one counts (clear.go:347, recover.go:378).
TurnsAreOwn ==
    \A b \in began : b.id \in {agent.turn, agent.done} => b.session = agent.session

\* Left alone, a requested clear completes.
ClearCompletes == []<>(used > 0 \/ agent.clear.status \in {"none", "completed"})

\* /clear and its continuation happen once each (clear.go:115, 147).
OnceEach == ClearKeyedOnce /\ ContinuedOnce

\* The new conversation is the continuation's, and the record is about it
\* alone (clear.go:335, events.go:119).
OwnConversation == TypeOK /\ FirstIsContinuation /\ CompletedIsReal /\ TurnsAreOwn
=============================================================================
