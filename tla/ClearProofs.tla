------------------------------ MODULE ClearProofs ------------------------------
(* Proofs about gang clear: /clear and its continuation happen once each, a    *)
(* bound conversation begins with its continuation, and the agent's record is  *)
(* about its own conversation.                                                 *)
EXTENDS Clear, FiniteSetTheorems, TLAPS

-----------------------------------------------------------------------------
(* Types.                                                                    *)

Texts == [kind : {"none", "typed", "cont", "mail", "clear", "mixed"}, id : 0..MaxClears]
Statuses == {"none", "queued", "submitted", "continuing", "unverified", "completed"}
Requests == [id : 0..MaxClears, status : Statuses, prev : Nat, at : Nat]
Natives == [session : Nat, phase : {"idle", "starting", "prompting", "running"}, text : Texts,
            box : Texts, entered : BOOLEAN, fresh : BOOLEAN, prompts : Nat]
Agents == [session : Nat, turn : Nat, done : Nat, clear : Requests,
           input : {"none", "cont", "mail"}, failed : {"none", "cont", "mail"}]
Boxes == [cont : {"none", "new", "cur", "failed"}, mail : {"none", "new", "cur", "failed"}, only : Nat]
HookRecords == [kind : {"submit", "start", "stop"}, session : Nat, text : Texts, id : Nat, saw : Nat,
                clear : Requests, source : {"none", "clear"}, at : Nat, pc : {"read", "admit", "write"}]
Typing == {"type", "readback", "press", "confirm"}
Replacing == {"possible", "collapsed", "wipe", "empty"}
Entering == {"mark", "paste", "settle", "enter", "await", "finish"} \cup Replacing
Places == {"none", "check", "publish", "deliver", "reopen", "state"} \cup Typing \cup Entering
Owners == [op : {"none", "request", "drain", "recover"}, pc : Places, old : Nat, way : {"none"} \cup Ways]

Types ==
    /\ native \in Natives
    /\ hooks \subseteq HookRecords
    /\ start \in [session : Nat, source : {"none", "startup", "clear"}, clear : 0..MaxClears, at : Nat]
    /\ admission \in 0..MaxClears
    /\ witness \in [id : Nat, session : Nat, text : Texts]
    /\ stop \in [id : Nat, session : Nat]
    /\ agent \in Agents /\ inbox \in Boxes
    /\ owner \in Owners
    /\ now \in Nat /\ used \in Nat /\ dead \in BOOLEAN /\ eager \in BOOLEAN
    /\ keyed \in [Clears -> Nat]
    /\ began \subseteq [id : Nat, session : Nat, text : Texts]

-----------------------------------------------------------------------------
(* The native program and its hooks.                                         *)

\* The conversation that a prompt's number belongs to, as far as it was begun.
Own(id, s) ==
    /\ id \in 0..native.prompts
    /\ \A b \in began : b.id = id => b.session = s
    /\ native.phase = "prompting" /\ native.prompts = id => native.session = s
NoneIn(s) == \A b \in began : b.session # s

\* Turns are numbered in their order, and a conversation whose session hook
\* runs has had none.
Prompted ==
    /\ native.prompts > 0
    /\ \A b \in began : b.id \in 1..native.prompts /\ b.session \in 1..native.session
    /\ native.phase = "prompting" => \A b \in began : b.id # native.prompts
    /\ native.phase = "running" => \A b \in began : b.id = native.prompts => b.session = native.session
    /\ native.phase = "starting" \/ native.fresh => NoneIn(native.session)
    /\ native.fresh => native.phase = "idle"

\* The native program waits for the one submit hook or session hook it runs.
Hooked ==
    /\ \A h \in hooks : h.kind = "submit" => /\ native.phase = "prompting" /\ h.text = native.text
                                             /\ h.session = native.session /\ h.id = native.prompts
    /\ \A h, i \in hooks : h.kind = "submit" /\ i.kind = "submit" => h = i
    /\ \A h \in hooks : h.kind = "start" => native.phase = "starting" /\ h.session = native.session
    /\ \A h \in hooks : h.kind = "stop" => Own(h.id, h.session)
    /\ \A h \in hooks : h.pc = "admit" => h.kind = "submit"

\* What a prompt's text, hook and turn have become.
Taken(text, s) ==
    \/ \E b \in began : b.text = text /\ b.session = s
    \/ native.phase = "prompting" /\ native.text = text /\ native.session = s /\ Gone("submit")

\* The files that hooks write are about prompts that were taken.
Seen ==
    /\ Own(witness.id, witness.session) /\ Own(stop.id, stop.session)
    /\ start.session \in 1..native.session
    /\ witness.text.kind = "cont" => Taken(witness.text, witness.session)

\* A continuation goes through its hook once: it was admitted, and before that
\* it began no turn.
Through == \A h \in hooks : h.kind = "submit" => h.pc = "write"
Admitted ==
    /\ \A h \in hooks : h.kind = "submit" /\ h.pc = "write" /\ h.text.kind = "cont" => h.text.id <= admission
    /\ witness.text.kind = "cont" => witness.text.id <= admission
    /\ ~dead =>
         /\ \A b \in began : b.text.kind = "cont" => b.text.id <= admission
         /\ native.phase = "prompting" /\ native.text.kind = "cont" /\ Through =>
                native.text.id <= admission /\ \A b \in began : b.text # native.text
         /\ \A b, c \in began : b.text = c.text /\ b.text.kind = "cont" => b = c

World == Prompted /\ Hooked /\ Seen /\ Admitted

-----------------------------------------------------------------------------
(* The agent's record and its inbox.                                         *)

Open == {"submitted", "continuing", "unverified"}

\* The conversation bound to a request has begun with its continuation, is
\* beginning with it, or has not begun and awaits it.
First == \E f \in Turned(start.clear) :
             f.session = start.session /\ \A b \in began : b.session = start.session => f.id <= b.id
Beginning == /\ NoneIn(start.session) /\ Through
             /\ native.phase = "prompting" /\ native.text = Text("cont", start.clear)
             /\ native.session = start.session
Awaiting(a) == /\ NoneIn(start.session)
               /\ start.clear = a.clear.id /\ a.clear.status \in Open
               /\ native.phase = "prompting" /\ native.session = start.session => ~Through

\* A continuation that was admitted is that of the bound conversation.
Binding(a) ==
    /\ \A h \in hooks : h.kind = "submit" /\ h.pc = "write" /\ h.text = Cont(a) =>
           /\ a.clear.status \in Open /\ start.clear = a.clear.id /\ start.session = h.session
           /\ witness.text # h.text
    /\ Pending(a) /\ witness.text = Cont(a) => start.clear = a.clear.id /\ start.session = witness.session

\* A continuation whose receipt is filed as delivered, before its request is
\* completed: it has begun in the conversation that both records are bound to.
Begun(a) ==
    Pending(a) =>
        /\ start.clear = a.clear.id /\ start.session = a.session /\ admission = a.clear.id
        /\ \A h \in hooks : h.kind = "submit" /\ h.pc = "write" => h.text # Cont(a)
        /\ Taken(Cont(a), a.session)

Opened(a) == ~dead /\ start.clear # 0 => First \/ Beginning \/ Awaiting(a)

Record(a, box) ==
    /\ a \in Agents /\ box \in Boxes
    /\ a.session \in 1..native.session
    /\ a.failed # "none" => box[a.failed] = "failed"
    /\ box.cont = "cur" => a.clear.status \in Open \cup {"completed"} /\ Begun(a)
    /\ a.clear.status # "none" => a.clear.id # 0
    /\ "cont" \in {a.input, a.failed} => a.clear.status \in Open
    /\ Own(a.turn, a.session) /\ Own(a.done, a.session)
    /\ a.clear.status = "completed" => Taken(Cont(a), a.session)
    /\ admission <= a.clear.id
    /\ Binding(a)
    /\ Opened(a)

-----------------------------------------------------------------------------
(* The lock's owner.                                                         *)

Control ==
    /\ owner.pc \in Typing => owner.op = "drain" /\ agent.clear.status = "submitted"
    /\ owner.pc \in Entering => agent.input # "none"
    /\ owner.pc \in {"check", "publish", "deliver", "reopen", "state"} \cup Typing => agent.input = "none"
    /\ owner.pc \in {"reopen", "state"} => agent.clear.status \in Open
    /\ owner.pc \in Entering \ {"finish"} /\ agent.input = "cont" => inbox.cont = "new"
    /\ owner.op = "request" => owner.pc \in {"check", "publish"}
    /\ owner.op = "request" /\ owner.pc = "check" => agent.clear.id < MaxClears
    /\ owner.op = "request" /\ owner.pc = "publish" =>
           agent.failed = "none" /\ agent.clear.status = "queued"

\* /clear is entered only for the request that was reserved for it.
Keyed ==
    /\ ClearKeyedOnce
    /\ \A c \in Clears : c > agent.clear.id => keyed[c] = 0
    /\ agent.clear.status = "queued" => keyed[agent.clear.id] = 0
    /\ owner.pc \in {"type", "readback", "press"} => keyed[agent.clear.id] = 0

IInv == Types /\ World /\ Record(agent, inbox) /\ Control /\ Keyed

-----------------------------------------------------------------------------
(* What the native program's changes do to its record.                       *)

\* Nothing is a text.
LEMMA NothingIsText == Nothing \in Texts
  BY ClearAssumption DEF Texts, Nothing, Text

\* Taking what was entered empties the composer.
LEMMA Emptied ==
    ASSUME NEW m \in Natives, NEW q, q = [m EXCEPT !.box = Nothing, !.entered = FALSE]
    PROVE  /\ q \in Natives /\ q.session = m.session /\ q.prompts = m.prompts
           /\ q.phase = m.phase /\ q.fresh = m.fresh /\ q.text = m.text
  BY NothingIsText DEF Natives

\* /clear begins the next conversation (Take).
Rebeginning(m, f, p) == [m EXCEPT !.session = @ + 1, !.fresh = f, !.phase = p]
LEMMA Rebegun ==
    ASSUME NEW m \in Natives, NEW f \in BOOLEAN, NEW p \in {"starting", "idle"}, NEW q,
           q = Rebeginning(m, f, p)
    PROVE  /\ q \in Natives /\ q.session = m.session + 1 /\ q.prompts = m.prompts
           /\ q.phase = p /\ q.fresh = f
<1> DEFINE s == m.session + 1
<1>1. s \in Nat
  BY DEF Natives
<1>2. q = [m EXCEPT !.session = s, !.fresh = f, !.phase = p]
  BY DEF Rebeginning
<1> HIDE DEF s
<1>3. q \in Natives /\ q.session = s /\ q.prompts = m.prompts /\ q.phase = p /\ q.fresh = f
  BY <1>1, <1>2 DEF Natives
<1> QED  BY <1>3 DEF s

\* A prompt takes the next number (Prompting).
LEMMA PromptingIs ==
    ASSUME NEW m \in Natives, NEW x \in Texts, NEW q, q = Prompting(m, x)
    PROVE  /\ q \in Natives /\ q.session = m.session /\ q.prompts = m.prompts + 1
           /\ q.phase = "prompting" /\ q.fresh = m.fresh /\ q.text = x
<1> DEFINE s == m.prompts + 1
<1>1. s \in Nat
  BY DEF Natives
<1>2. q = [m EXCEPT !.phase = "prompting", !.text = x, !.prompts = s]
  BY DEF Prompting
<1> HIDE DEF s
<1>3. /\ q \in Natives /\ q.session = m.session /\ q.prompts = s
      /\ q.phase = "prompting" /\ q.fresh = m.fresh /\ q.text = x
  BY <1>1, <1>2 DEF Natives
<1> QED  BY <1>3 DEF s

-----------------------------------------------------------------------------
(* The native program and its hooks.                                         *)

\* Taking /clear begins a conversation without a turn; taking a prompt runs a hook
\* that has not gone through.
LEMMA TakeKeeps ==
    ASSUME Types, World, Record(agent, inbox), Take
    PROVE  Types' /\ World' /\ Record(agent, inbox)'
<1> DEFINE Cleared ==
             /\ native'.session = native.session + 1 /\ native'.phase \in {"idle", "starting"}
             /\ native'.prompts = native.prompts /\ (native'.fresh => native'.phase = "idle")
             /\ \A h \in hooks' : \/ h \in hooks
                                  \/ h = StartHook(native.session + 1) /\ native'.phase = "starting"
           Freshly ==
             /\ native.fresh /\ native'.session = native.session /\ native'.phase = "starting"
             /\ native'.prompts = native.prompts /\ ~native'.fresh
             /\ hooks' = hooks \cup {StartHook(native.session)}
           Prompts ==
             /\ ~native.fresh /\ native'.session = native.session /\ native'.phase = "prompting"
             /\ native'.prompts = native.prompts + 1 /\ ~native'.fresh
             /\ hooks' = hooks \cup {SubmitHook(native.session, native'.text, native'.prompts)}
<1>0. /\ native.phase = "idle" /\ native' \in Natives
      /\ UNCHANGED <<start, admission, witness, stop, agent, inbox, owner, now, used, keyed, began, dead, eager>>
      /\ Cleared \/ Freshly \/ Prompts
  <2> DEFINE n == [native EXCEPT !.box = Nothing, !.entered = FALSE]
  <2>1. /\ n \in Natives /\ n.session = native.session /\ n.prompts = native.prompts
        /\ n.phase = native.phase /\ n.fresh = native.fresh /\ n.text = native.text
    BY Emptied DEF Types
  <2>2. /\ native.phase = "idle" /\ native.box \in Texts /\ eager \in BOOLEAN
        /\ UNCHANGED <<start, admission, witness, stop, agent, inbox, owner, now, used, keyed, began, dead, eager>>
    BY DEF Types, Natives, Take, files, ghosts
  <2>3. CASE native.box.kind = "clear"
    <3>1. n.box # native.box
      BY <2>3 DEF Nothing, Text, Types, Natives
    <3>2. /\ native' = [n EXCEPT !.session = @ + 1, !.fresh = ~eager,
                                 !.phase = IF eager THEN "starting" ELSE "idle"]
          /\ hooks' = IF eager THEN hooks \cup {StartHook(n.session + 1)} ELSE hooks
      BY <2>3, <3>1 DEF Take
    <3> HIDE DEF n
    <3>3. /\ native' \in Natives /\ native'.session = n.session + 1 /\ native'.prompts = n.prompts
          /\ native'.phase = (IF eager THEN "starting" ELSE "idle") /\ native'.fresh = ~eager
      <4> DEFINE phase == IF eager THEN "starting" ELSE "idle"
                 fresh == ~eager
      <4>1. phase \in {"starting", "idle"} /\ fresh \in BOOLEAN
        BY <2>2
      <4>2. native' = Rebeginning(n, fresh, phase)
        BY <3>2 DEF Rebeginning
      <4> HIDE DEF phase, fresh
      <4>3. /\ native' \in Natives /\ native'.session = n.session + 1 /\ native'.prompts = n.prompts
            /\ native'.phase = phase /\ native'.fresh = fresh
        BY <2>1, <4>1, <4>2, Rebegun
      <4> QED  BY <4>3 DEF phase, fresh
    <3> QED  BY <2>1, <2>2, <3>2, <3>3
  <2>4. CASE native.box.kind # "clear" /\ native.fresh
    <3>1. /\ native' = [n EXCEPT !.phase = "starting", !.text = native.box, !.fresh = FALSE]
          /\ hooks' = hooks \cup {StartHook(n.session)}
      BY <2>4 DEF Take
    <3> HIDE DEF n
    <3>2. /\ native' \in Natives /\ native'.session = n.session /\ native'.prompts = n.prompts
          /\ native'.phase = "starting" /\ ~native'.fresh
      BY <2>1, <2>2, <3>1 DEF Natives
    <3> QED  BY <2>1, <2>2, <2>4, <3>1, <3>2
  <2>5. CASE native.box.kind # "clear" /\ ~native.fresh
    <3>1. /\ native' = Prompting(n, native.box)
          /\ hooks' = hooks \cup {SubmitHook(n.session, native.box, n.prompts + 1)}
      BY <2>5 DEF Take
    <3> HIDE DEF n
    <3>2. /\ native' \in Natives /\ native'.session = n.session /\ native'.prompts = n.prompts + 1
          /\ native'.phase = "prompting" /\ native'.fresh = n.fresh /\ native'.text = native.box
      BY <2>1, <2>2, <3>1, PromptingIs
    <3> QED  BY <2>1, <2>2, <2>5, <3>1, <3>2
  <2> QED  BY <2>3, <2>4, <2>5
<1>1. Types'
  <2>1. hooks' \subseteq HookRecords
    <3>1. \A s \in Nat : StartHook(s) \in HookRecords
      BY ClearAssumption, NothingIsText DEF StartHook, HookRecords, Requests, NoClear, Statuses
    <3>2. \A s \in Nat, t \in Texts, i \in Nat : SubmitHook(s, t, i) \in HookRecords
      BY ClearAssumption DEF SubmitHook, HookRecords, Requests, NoClear, Statuses
    <3>3. native.session \in Nat /\ native'.session \in Nat /\ native'.prompts \in Nat /\ native'.text \in Texts
      BY <1>0 DEF Types, Natives
    <3> QED  BY <1>0, <3>1, <3>2, <3>3 DEF Types
  <2> QED  BY <1>0, <2>1 DEF Types
<1>2. \A id, s : Own(id, s) => Own(id, s)'
  <2>1. CASE Cleared
    BY <1>0, <2>1 DEF Types, Natives, Own, World, Prompted
  <2>2. CASE Freshly
    BY <1>0, <2>2 DEF Types, Natives, Own, World, Prompted
  <2>3. CASE Prompts
    BY <1>0, <2>3 DEF Types, Natives, Own, World, Prompted
  <2> QED  BY <1>0, <2>1, <2>2, <2>3
<1>3. \A text, s : Taken(text, s) => Taken(text, s)'
  BY <1>0 DEF Types, Taken, World, Hooked, Gone, ghosts, HookRecords, SubmitHook, StartHook
<1>4. Prompted'
  <2>1. CASE Cleared
    BY <1>0, <2>1 DEF Types, Natives, World, Prompted, NoneIn
  <2>2. CASE Freshly
    BY <1>0, <2>2 DEF Types, Natives, World, Prompted, NoneIn
  <2>3. CASE Prompts
    BY <1>0, <2>3 DEF Types, Natives, World, Prompted, NoneIn
  <2> QED  BY <1>0, <2>1, <2>2, <2>3
<1>5. Hooked'
  BY <1>0, <1>2 DEF Types, Natives, World, Hooked, ghosts, HookRecords, SubmitHook, StartHook
<1>6. Seen'
  BY <1>0, <1>2, <1>3 DEF Types, Natives, World, Seen, files, SubmitHook, StartHook
<1>7. Admitted'
  <2>1. native'.phase = "prompting" => ~Through'
    <3>1. \A s, t, i : SubmitHook(s, t, i).kind = "submit" /\ SubmitHook(s, t, i).pc = "read"
      BY DEF SubmitHook
    <3>2. native'.phase = "prompting" => SubmitHook(native.session, native'.text, native'.prompts) \in hooks'
      BY <1>0
    <3> QED  BY <3>1, <3>2 DEF Through
  <2>2. \A h \in hooks' : h.kind = "submit" /\ h.pc = "write" => h \in hooks
    BY <1>0 DEF SubmitHook, StartHook
  <2> QED  BY <1>0, <2>1, <2>2 DEF World, Admitted
<1>8. Binding(agent)'
  BY <1>0 DEF Types, Natives, World, Prompted, Hooked, Admitted, Record, Binding, Cont, Text,
          Pending, Open, files, ghosts, HookRecords, SubmitHook, StartHook
<1>9. Opened(agent)'
  <2>1. First => First'
    BY <1>0 DEF First, Turned
  <2>2. Awaiting(agent) => Awaiting(agent)'
    <3>1. native'.phase = "prompting" => ~Through'
      <4>1. \A s, t, i : SubmitHook(s, t, i).kind = "submit" /\ SubmitHook(s, t, i).pc = "read"
        BY DEF SubmitHook
      <4>2. native'.phase = "prompting" => SubmitHook(native.session, native'.text, native'.prompts) \in hooks'
        BY <1>0
      <4> QED  BY <4>1, <4>2 DEF Through
    <3> QED  BY <1>0, <3>1 DEF Awaiting, NoneIn
  <2>3. ~Beginning
    BY <1>0 DEF Beginning
  <2> QED  BY <1>0, <2>1, <2>2, <2>3 DEF Record, Opened
<1>10. Begun(agent) => Begun(agent)'
  BY <1>0, <1>3 DEF Begun, Pending, Cont, files, ghosts, SubmitHook, StartHook
<1>11. Record(agent, inbox)'
  BY <1>0, <1>2, <1>3, <1>8, <1>9, <1>10 DEF Types, Natives, World, Prompted, Record, files, ghosts,
          SubmitHook, StartHook
<1> QED  BY <1>1, <1>4, <1>5, <1>6, <1>7, <1>11 DEF World

\* The session hook is gone: what was entered goes on to its own hook.
LEMMA StartedKeeps ==
    ASSUME Types, World, Record(agent, inbox), Started
    PROVE  Types' /\ World' /\ Record(agent, inbox)'
<1> DEFINE Starts == native'.phase = "idle" /\ hooks' = hooks /\ native'.prompts = native.prompts
           Prompts ==
             /\ native'.phase = "prompting" /\ native'.prompts = native.prompts + 1
             /\ hooks' = hooks \cup {SubmitHook(native.session, native'.text, native'.prompts)}
<1>0. /\ native.phase = "starting" /\ native' \in Natives
      /\ \A h \in hooks : h.kind # "start"
      /\ UNCHANGED <<start, admission, witness, stop, agent, inbox, owner, now, used, keyed, began, dead, eager>>
      /\ native'.session = native.session /\ native'.fresh = native.fresh
      /\ Starts \/ Prompts
  <2>1. /\ native.phase = "starting" /\ \A h \in hooks : h.kind # "start"
        /\ native \in Natives /\ native.text \in Texts
        /\ UNCHANGED <<start, admission, witness, stop, agent, inbox, owner, now, used, keyed, began, dead, eager>>
    BY DEF Types, Natives, Started, Gone, files, ghosts
  <2>2. CASE native.text = Nothing
    <3>1. native' = [native EXCEPT !.phase = "idle"] /\ hooks' = hooks
      BY <2>2 DEF Started
    <3> QED  BY <2>1, <3>1 DEF Natives
  <2>3. CASE native.text # Nothing
    <3>1. /\ native' = Prompting(native, native.text)
          /\ hooks' = hooks \cup {SubmitHook(native.session, native.text, native.prompts + 1)}
      BY <2>3 DEF Started
    <3>2. /\ native' \in Natives /\ native'.session = native.session
          /\ native'.prompts = native.prompts + 1 /\ native'.phase = "prompting"
          /\ native'.fresh = native.fresh /\ native'.text = native.text
      BY <2>1, <3>1, PromptingIs
    <3> QED  BY <2>1, <3>1, <3>2
  <2> QED  BY <2>2, <2>3
<1>1. Types'
  <2>1. hooks' \subseteq HookRecords
    <3>1. \A s \in Nat : StartHook(s) \in HookRecords
      BY ClearAssumption, NothingIsText DEF StartHook, HookRecords, Requests, NoClear, Statuses
    <3>2. \A s \in Nat, t \in Texts, i \in Nat : SubmitHook(s, t, i) \in HookRecords
      BY ClearAssumption DEF SubmitHook, HookRecords, Requests, NoClear, Statuses
    <3>3. native.session \in Nat /\ native'.session \in Nat /\ native'.prompts \in Nat /\ native'.text \in Texts
      BY <1>0 DEF Types, Natives
    <3> QED  BY <1>0, <3>1, <3>2, <3>3 DEF Types
  <2> QED  BY <1>0, <2>1 DEF Types
<1>2. \A id, s : Own(id, s) => Own(id, s)'
  <2>1. CASE Starts
    BY <1>0, <2>1 DEF Types, Natives, Own, World, Prompted
  <2>2. CASE Prompts
    BY <1>0, <2>2 DEF Types, Natives, Own, World, Prompted
  <2> QED  BY <1>0, <2>1, <2>2
<1>3. \A text, s : Taken(text, s) => Taken(text, s)'
  BY <1>0 DEF Types, Taken, World, Hooked, Gone, ghosts, HookRecords, SubmitHook, StartHook
<1>4. Prompted'
  <2>1. CASE Starts
    BY <1>0, <2>1 DEF Types, Natives, World, Prompted, NoneIn
  <2>2. CASE Prompts
    BY <1>0, <2>2 DEF Types, Natives, World, Prompted, NoneIn
  <2> QED  BY <1>0, <2>1, <2>2
<1>5. Hooked'
  BY <1>0, <1>2 DEF Types, Natives, World, Hooked, ghosts, HookRecords, SubmitHook, StartHook
<1>6. Seen'
  BY <1>0, <1>2, <1>3 DEF Types, Natives, World, Seen, files, SubmitHook, StartHook
<1>7. Admitted'
  <2>1. native'.phase = "prompting" => ~Through'
    <3>1. \A s, t, i : SubmitHook(s, t, i).kind = "submit" /\ SubmitHook(s, t, i).pc = "read"
      BY DEF SubmitHook
    <3>2. native'.phase = "prompting" => SubmitHook(native.session, native'.text, native'.prompts) \in hooks'
      BY <1>0
    <3> QED  BY <3>1, <3>2 DEF Through
  <2>2. \A h \in hooks' : h.kind = "submit" /\ h.pc = "write" => h \in hooks
    BY <1>0 DEF SubmitHook, StartHook
  <2> QED  BY <1>0, <2>1, <2>2 DEF World, Admitted
<1>8. Binding(agent)'
  BY <1>0 DEF Types, Natives, World, Prompted, Hooked, Admitted, Record, Binding, Cont, Text,
          Pending, Open, files, ghosts, HookRecords, SubmitHook, StartHook
<1>9. Opened(agent)'
  <2>1. First => First'
    BY <1>0 DEF First, Turned
  <2>2. Awaiting(agent) => Awaiting(agent)'
    <3>1. native'.phase = "prompting" => ~Through'
      <4>1. \A s, t, i : SubmitHook(s, t, i).kind = "submit" /\ SubmitHook(s, t, i).pc = "read"
        BY DEF SubmitHook
      <4>2. native'.phase = "prompting" => SubmitHook(native.session, native'.text, native'.prompts) \in hooks'
        BY <1>0
      <4> QED  BY <4>1, <4>2 DEF Through
    <3> QED  BY <1>0, <3>1 DEF Awaiting, NoneIn
  <2>3. ~Beginning
    BY <1>0 DEF Beginning
  <2> QED  BY <1>0, <2>1, <2>2, <2>3 DEF Record, Opened
<1>10. Begun(agent) => Begun(agent)'
  BY <1>0, <1>3 DEF Begun, Pending, Cont, files, ghosts, SubmitHook, StartHook
<1>11. Record(agent, inbox)'
  BY <1>0, <1>2, <1>3, <1>8, <1>9, <1>10 DEF Types, Natives, World, Prompted, Record, files, ghosts,
          SubmitHook, StartHook
<1> QED  BY <1>1, <1>4, <1>5, <1>6, <1>7, <1>11 DEF World

\* The prompt's hook is gone: its turn begins, after every other.
LEMMA TurnBeginsKeeps ==
    ASSUME Types, World, Record(agent, inbox), TurnBegins
    PROVE  Types' /\ World' /\ Record(agent, inbox)'
<1>1. Types'
  BY DEF Types, HookRecords, Requests, Agents, Texts, Text, Nothing, NoClear, Natives, files,
          ghosts, TurnBegins, Gone
<1>2. \A id, s : Own(id, s) => Own(id, s)'
  BY DEF Types, Natives, Own, World, Prompted, ghosts, TurnBegins, Gone
<1>3. \A text, s : Taken(text, s) => Taken(text, s)'
  BY DEF Types, Taken, World, Hooked, Gone, ghosts, HookRecords, TurnBegins
<1>4. Prompted'
  <2>1. /\ native.phase = "prompting" /\ native'.phase = "running" /\ native'.session = native.session
        /\ native'.prompts = native.prompts /\ native'.fresh = native.fresh
        /\ began' = began \cup {[id |-> native.prompts, session |-> native.session, text |-> native.text]}
    BY DEF TurnBegins, Types, Natives
  <2>2. native.session \in 1..native.session /\ native.prompts \in 1..native.prompts /\ ~native.fresh
    BY <2>1 DEF Types, Natives, World, Prompted, Seen
  <2> QED  BY <2>1, <2>2 DEF World, Prompted, NoneIn
<1>5. Hooked'
  BY <1>2 DEF Types, Natives, World, Hooked, ghosts, HookRecords, TurnBegins, Gone
<1>6. Seen'
  BY <1>2, <1>3 DEF Types, Natives, World, Seen, files, TurnBegins, Gone
<1>7. Admitted'
  BY DEF Types, Natives, World, Prompted, Hooked, Admitted, Through, files, ghosts, HookRecords,
          Text, Nothing, Texts, TurnBegins, Gone
<1>8. Binding(agent)'
  BY DEF Types, Natives, World, Prompted, Hooked, Admitted, Record, Binding, Cont, Text,
          Pending, Open, files, ghosts, HookRecords, TurnBegins, Gone
<1>9. Opened(agent)'
  <2> DEFINE turn == [id |-> native.prompts, session |-> native.session, text |-> native.text]
  <2>1. /\ native.phase = "prompting" /\ native'.phase = "running" /\ native'.session = native.session
        /\ began' = began \cup {turn} /\ turn \in began' /\ turn.id = native.prompts
        /\ turn.session = native.session /\ turn.text = native.text
        /\ \A h \in hooks : h.kind # "submit"
        /\ UNCHANGED <<hooks, start, agent, dead>>
    BY DEF TurnBegins, Gone, files, Types, Natives
  <2> HIDE DEF turn
  <2>2. \A b \in began : b.id \in Nat /\ b.id <= native.prompts
    BY DEF Types, Natives, World, Prompted
  <2>3. native.prompts \in Nat
    BY DEF Types, Natives
  <2>4. First => First'
    BY <2>1, <2>2, <2>3 DEF First, Turned
  <2>5. Beginning => First'
    BY <2>1, <2>2, <2>3 DEF Beginning, First, Turned, NoneIn
  <2>6. Awaiting(agent) => Awaiting(agent)'
    BY <2>1 DEF Awaiting, NoneIn, Through
  <2> QED  BY <2>1, <2>4, <2>5, <2>6 DEF Record, Opened
<1>10. Begun(agent) => Begun(agent)'
  BY <1>3 DEF Begun, Pending, Cont, files, ghosts, TurnBegins
<1>11. Record(agent, inbox)'
  BY <1>2, <1>3, <1>8, <1>9, <1>10 DEF Types, Natives, World, Prompted, Record, files, ghosts,
          TurnBegins, Gone
<1> QED  BY <1>1, <1>4, <1>5, <1>6, <1>7, <1>11 DEF World

\* The turn ends, and a stop hook tells of it.
LEMMA TurnEndsKeeps ==
    ASSUME Types, World, Record(agent, inbox), TurnEnds
    PROVE  Types' /\ World' /\ Record(agent, inbox)'
<1>1. Types'
  <2>1. native' \in Natives
    BY NothingIsText DEF TurnEnds, Types, Natives
  <2>2. StopHook(native.session, native.prompts) \in HookRecords
    BY ClearAssumption, NothingIsText DEF StopHook, HookRecords, Requests, NoClear, Statuses, Types, Natives
  <2> QED  BY <2>1, <2>2 DEF TurnEnds, Types, files, ghosts
<1>2. \A id, s : Own(id, s) => Own(id, s)'
  BY DEF Types, Natives, Own, World, Prompted, ghosts, TurnEnds, StopHook
<1>3. \A text, s : Taken(text, s) => Taken(text, s)'
  BY DEF Types, Taken, World, Hooked, Gone, ghosts, HookRecords, TurnEnds, StopHook
<1>4. Prompted'
  BY DEF Types, Natives, World, Prompted, Hooked, NoneIn, ghosts, HookRecords, TurnEnds,
          StopHook
<1>5. Hooked'
  BY <1>2 DEF Types, Natives, World, Hooked, ghosts, HookRecords, TurnEnds, StopHook, Own,
          Prompted
<1>6. Seen'
  BY <1>2, <1>3 DEF Types, Natives, World, Seen, files, TurnEnds, StopHook
<1>7. Admitted'
  BY DEF Types, Natives, World, Prompted, Hooked, Admitted, Through, files, ghosts, HookRecords,
          Text, Nothing, Texts, TurnEnds, StopHook
<1>8. Binding(agent)'
  BY DEF Types, Natives, World, Prompted, Hooked, Admitted, Record, Binding, Cont, Text,
          Pending, Open, files, ghosts, HookRecords, TurnEnds, StopHook
<1>9. Opened(agent)'
  BY DEF Types, Natives, World, Prompted, Hooked, Record, Opened, First, Beginning, Awaiting,
          NoneIn, Turned, Through, Open, Pending, Text, files, ghosts, HookRecords, TurnEnds,
          StopHook
<1>10. Begun(agent) => Begun(agent)'
  BY <1>3 DEF Begun, Pending, Cont, files, ghosts, TurnEnds, StopHook
<1>11. Record(agent, inbox)'
  BY <1>2, <1>3, <1>8, <1>9, <1>10 DEF Types, Natives, World, Prompted, Record, files, ghosts,
          TurnEnds, StopHook
<1> QED  BY <1>1, <1>4, <1>5, <1>6, <1>7, <1>11 DEF World

\* A hook that reads the record admits only what asks for it, so a continuation
\* never goes through unadmitted.
LEMMA HookReadsKeeps ==
    ASSUME Types, World, Record(agent, inbox), NEW h \in hooks, HookReads(h)
    PROVE  Types' /\ World' /\ Record(agent, inbox)'
<1>0. /\ h.pc = "read" /\ UNCHANGED <<eager, native, start, admission, witness, stop, agent, inbox, owner, now,
                                 used, keyed, began, dead>>
      /\ \/ ~Asks(h) /\ h.kind # "start" /\ hooks' = hooks \ {h}
         \/ \E r \in HookRecords :
               /\ hooks' = (hooks \ {h}) \cup {r}
               /\ r.kind = h.kind /\ r.session = h.session /\ r.text = h.text /\ r.id = h.id
               /\ r.pc = IF Asks(h) THEN "admit" ELSE "write"
  <2> DEFINE r == [h EXCEPT !.saw = agent.session, !.clear = agent.clear, !.at = now]
             q == [r EXCEPT !.pc = IF Asks(h) THEN "admit" ELSE "write"]
  <2>0. h \in HookRecords /\ agent.session \in Nat /\ agent.clear \in Requests /\ now \in Nat
    BY DEF Types, Agents
  <2>1. /\ r \in HookRecords /\ r.kind = h.kind /\ r.session = h.session
        /\ r.text = h.text /\ r.id = h.id
    BY <2>0 DEF HookRecords
  <2>2. (~Asks(h) /\ h.kind # "start" /\ hooks' = hooks \ {h}) \/ hooks' = (hooks \ {h}) \cup {q}
    BY DEF HookReads, Change
  <2>3. /\ h.pc = "read" /\ UNCHANGED <<eager, native, start, admission, witness, stop, agent, inbox, owner, now,
                                       used, keyed, began, dead>>
    BY DEF HookReads, files, ghosts
  <2> HIDE DEF r
  <2>4. /\ q \in HookRecords /\ q.kind = h.kind /\ q.session = h.session /\ q.text = h.text /\ q.id = h.id
        /\ q.pc = IF Asks(h) THEN "admit" ELSE "write"
    BY <2>1 DEF HookRecords
  <2> HIDE DEF q
  <2> QED  BY <2>2, <2>3, <2>4
<1>1. Types'
  BY <1>0 DEF Types, HookRecords, Requests, Agents, Texts, Text, Nothing, NoClear, Natives,
          files, ghosts, Asks
<1>2. \A id, s : Own(id, s) => Own(id, s)'
  BY <1>0 DEF Types, Natives, Own, World, Prompted, ghosts, Asks
<1>3. \A text, s : Taken(text, s) => Taken(text, s)'
  BY <1>0 DEF Types, Taken, World, Hooked, Gone, ghosts, HookRecords, Asks
<1>4. Prompted'
  BY <1>0 DEF Types, Natives, World, Prompted, Hooked, NoneIn, ghosts, HookRecords, Asks
<1>5. Hooked'
  BY <1>0, <1>2 DEF Types, Natives, World, Hooked, ghosts, HookRecords, Asks
<1>6. Seen'
  BY <1>0, <1>2, <1>3 DEF Types, Natives, World, Seen, files, Asks
<1>7. Admitted'
  BY <1>0 DEF Types, Natives, World, Prompted, Hooked, Admitted, Through, files, ghosts,
          HookRecords, Text, Nothing, Texts, Asks
<1>8. Binding(agent)'
  BY <1>0 DEF Types, Natives, World, Prompted, Hooked, Admitted, Record, Binding, Cont, Text,
          Pending, Open, files, ghosts, HookRecords, Asks
<1>9. Opened(agent)'
  BY <1>0 DEF Types, Natives, World, Prompted, Hooked, Record, Opened, First, Beginning,
          Awaiting, NoneIn, Turned, Through, Open, Pending, Text, files, ghosts, HookRecords,
          Asks
<1>10. Begun(agent) => Begun(agent)'
  BY <1>0, <1>3 DEF Begun, Pending, Cont, files, ghosts, Asks, Text
<1>11. Record(agent, inbox)'
  BY <1>0, <1>2, <1>3, <1>8, <1>9, <1>10 DEF Types, Natives, World, Prompted, Record, files, ghosts,
          Asks
<1> QED  BY <1>1, <1>4, <1>5, <1>6, <1>7, <1>11 DEF World

\* Admission lets the awaited continuation through once: it is above every one
\* that was admitted before.
LEMMA AdmitKeeps ==
    ASSUME Types, World, Record(agent, inbox), NEW h \in hooks, Admit(h)
    PROVE  Types' /\ World' /\ Record(agent, inbox)'
<1>0. /\ h.pc = "admit" /\ h.kind = "submit" /\ native.phase = "prompting" /\ h.text = native.text
      /\ UNCHANGED <<eager, start, witness, stop, agent, inbox, owner, now, used, keyed, began, dead>>
      /\ \A i \in hooks : i.kind \in {"submit", "start"} => i = h
      /\ \/ /\ Admissible(h) /\ admission' = h.clear.id /\ native' = native
            /\ \E r \in HookRecords :
                  /\ hooks' = (hooks \ {h}) \cup {r}
                  /\ r.kind = h.kind /\ r.session = h.session /\ r.text = h.text /\ r.id = h.id
                  /\ r.pc = "write"
         \/ /\ admission' = admission /\ hooks' = hooks \ {h}
            /\ native' \in Natives /\ native'.phase = "idle" /\ native'.session = native.session
            /\ native'.prompts = native.prompts /\ native'.fresh = native.fresh
  <2> DEFINE q == [h EXCEPT !.pc = "write"]
  <2>1. /\ q \in HookRecords
        /\ q.kind = h.kind /\ q.session = h.session /\ q.text = h.text /\ q.id = h.id /\ q.pc = "write"
    BY DEF Types, HookRecords
  <2>2. \/ Admissible(h) /\ admission' = h.clear.id /\ native' = native /\ hooks' = (hooks \ {h}) \cup {q}
        \/ /\ admission' = admission /\ hooks' = hooks \ {h}
           /\ native' = [native EXCEPT !.phase = "idle", !.text = Nothing]
    BY DEF Admit, Change, Block
  <2>3. /\ h.pc = "admit" /\ h.kind = "submit" /\ native.phase = "prompting" /\ h.text = native.text
        /\ \A i \in hooks : i.kind \in {"submit", "start"} => i = h
    BY DEF Admit, World, Hooked
  <2>4. UNCHANGED <<eager, start, witness, stop, agent, inbox, owner, now, used, keyed, began, dead>>
    BY DEF Admit, ghosts
  <2>5. native' = [native EXCEPT !.phase = "idle", !.text = Nothing] =>
            /\ native' \in Natives /\ native'.phase = "idle" /\ native'.session = native.session
            /\ native'.prompts = native.prompts /\ native'.fresh = native.fresh
    BY NothingIsText DEF Types, Natives
  <2> HIDE DEF q
  <2> QED  BY <2>1, <2>2, <2>3, <2>4, <2>5
<1>1. Types'
  <2>1. h.clear.id \in 0..MaxClears
    BY DEF Types, HookRecords, Requests
  <2> QED  BY <1>0, <2>1 DEF Types
<1>2. \A id, s : Own(id, s) => Own(id, s)'
  BY <1>0 DEF Types, Natives, Own, World, Prompted, ghosts, Admissible
<1>3. \A text, s : Taken(text, s) => Taken(text, s)'
  BY <1>0 DEF Types, Taken, World, Hooked, Gone, ghosts, HookRecords, Admissible
<1>4. Prompted'
  BY <1>0 DEF Types, Natives, World, Prompted, Hooked, NoneIn, ghosts, HookRecords, Admissible
<1>5. Hooked'
  BY <1>0, <1>2 DEF Types, Natives, World, Hooked, ghosts, HookRecords, Admissible
<1>6. Seen'
  BY <1>0, <1>2, <1>3 DEF Types, Natives, World, Seen, files, Admissible
<1>7. Admitted'
  <2>1. CASE admission' = admission /\ hooks' = hooks \ {h} /\ native'.phase = "idle"
    BY <1>0, <2>1 DEF World, Admitted
  <2>2. CASE Admissible(h) /\ admission' = h.clear.id /\ native' = native
    <3>1. /\ h.clear.id \in Nat /\ admission \in Nat /\ admission < h.clear.id
          /\ h.text = Text("cont", h.clear.id)
      BY <2>2 DEF Types, HookRecords, Requests, Record, Admissible
    <3>2. h.text.kind = "cont" /\ h.text.id = h.clear.id /\ native.text = h.text
      BY <1>0, <3>1 DEF Text
    <3>3. \A i \in hooks' : i.kind = "submit" /\ i.pc = "write" => i.text = h.text
      BY <1>0
    <3>4. witness.text.kind = "cont" => witness.text.id <= admission'
      BY <2>2, <3>1 DEF World, Admitted, Types, Texts
    <3>5. ~dead => \A b \in began : b.text.kind = "cont" => b.text.id <= admission /\ b.text.id \in Nat
      BY DEF World, Admitted, Types, Texts
    <3>6. ~dead => \A b \in began : b.text.kind = "cont" => b.text.id <= admission' /\ b.text # native.text
      BY <2>2, <3>1, <3>2, <3>5
    <3>7. ~dead => \A b, c \in began : b.text = c.text /\ b.text.kind = "cont" => b = c
      BY DEF World, Admitted
    <3> QED  BY <1>0, <2>2, <3>1, <3>2, <3>3, <3>4, <3>6, <3>7 DEF Admitted
  <2> QED  BY <1>0, <2>1, <2>2
<1>8. Binding(agent)'
  BY <1>0 DEF Types, Natives, World, Prompted, Hooked, Admitted, Record, Binding, Cont, Text,
          Pending, Open, files, ghosts, HookRecords, Admissible
<1>9. Opened(agent)'
  BY <1>0 DEF Types, Natives, World, Prompted, Hooked, Record, Opened, First, Beginning,
          Awaiting, NoneIn, Turned, Through, Open, Pending, Text, files, ghosts, HookRecords,
          Admissible
<1>10. Begun(agent) => Begun(agent)'
  <2>1. CASE admission' = admission /\ hooks' = hooks \ {h}
    BY <1>0, <1>3, <2>1 DEF Begun, Pending, Cont
  <2>2. CASE Admissible(h)
    BY <1>0, <2>2 DEF Begun, Pending, Admissible
  <2> QED  BY <1>0, <2>1, <2>2
<1>11. Record(agent, inbox)'
  BY <1>0, <1>2, <1>3, <1>8, <1>9, <1>10 DEF Types, Natives, World, Prompted, Record, files, ghosts,
          Admissible
<1> QED  BY <1>1, <1>4, <1>5, <1>6, <1>7, <1>11 DEF World

\* The witness is of a prompt that its hook let through.
LEMMA WriteWitnessKeeps ==
    ASSUME Types, World, Record(agent, inbox), NEW h \in hooks, WriteWitness(h)
    PROVE  Types' /\ World' /\ Record(agent, inbox)'
<1>1. Types'
  BY DEF Types, HookRecords, Requests, Agents, Texts, Text, Nothing, NoClear, Natives, files,
          ghosts, WriteWitness, Ends
<1>2. \A id, s : Own(id, s) => Own(id, s)'
  BY DEF Types, Natives, Own, World, Prompted, ghosts, WriteWitness, Ends
<1>3. \A text, s : Taken(text, s) => Taken(text, s)'
  BY DEF Types, Taken, World, Hooked, Gone, ghosts, HookRecords, WriteWitness, Ends
<1>4. Prompted'
  BY DEF Types, Natives, World, Prompted, Hooked, NoneIn, ghosts, HookRecords, WriteWitness,
          Ends
<1>5. Hooked'
  BY <1>2 DEF Types, Natives, World, Hooked, ghosts, HookRecords, WriteWitness, Ends
<1>6. Seen'
  <2>1. /\ h.kind = "submit" /\ native.phase = "prompting" /\ h.text = native.text
        /\ h.session = native.session /\ h.id = native.prompts /\ hooks' = hooks \ {h}
        /\ UNCHANGED <<native, began, start, stop>>
        /\ \A i \in hooks : i.kind = "submit" => i = h
        /\ witness' = witness \/ witness' = [id |-> h.id, session |-> h.session, text |-> h.text]
    BY DEF WriteWitness, Ends, World, Hooked, ghosts
  <2>2. Own(h.id, h.session)'
    BY <2>1 DEF Types, Natives, World, Prompted, Own
  <2>3. Taken(h.text, h.session)'
    BY <2>1 DEF Taken, Gone
  <2> QED  BY <1>2, <1>3, <2>1, <2>2, <2>3 DEF World, Seen
<1>7. Admitted'
  BY DEF Types, Natives, World, Prompted, Hooked, Admitted, Through, files, ghosts, HookRecords,
          Text, Nothing, Texts, WriteWitness, Ends
<1>8. Binding(agent)'
  BY DEF Types, Natives, World, Prompted, Hooked, Admitted, Record, Binding, Cont, Text,
          Pending, Open, files, ghosts, HookRecords, WriteWitness, Ends
<1>9. Opened(agent)'
  BY DEF Types, Natives, World, Prompted, Hooked, Record, Opened, First, Beginning, Awaiting,
          NoneIn, Turned, Through, Open, Pending, Text, files, ghosts, HookRecords,
          WriteWitness, Ends
<1>10. Begun(agent) => Begun(agent)'
  BY <1>3 DEF Begun, Pending, Cont, files, ghosts, WriteWitness, Ends
<1>11. Record(agent, inbox)'
  BY <1>2, <1>3, <1>8, <1>9, <1>10 DEF Types, Natives, World, Prompted, Record, files, ghosts,
          WriteWitness, Ends
<1> QED  BY <1>1, <1>4, <1>5, <1>6, <1>7, <1>11 DEF World

\* A session hook writes while its conversation has no turn, and never unbinds
\* a pending request from the conversation that its proof is of.
LEMMA WriteSessionStartKeeps ==
    ASSUME Types, World, Record(agent, inbox), NEW h \in hooks, WriteSessionStart(h)
    PROVE  Types' /\ World' /\ Record(agent, inbox)'
<1>1. Types'
  <2>1. h \in HookRecords /\ agent.clear.id \in 0..MaxClears /\ 0 \in 0..MaxClears
    BY ClearAssumption DEF Types, Agents, Requests
  <2>2. \/ start' = start
        \/ \E c \in 0..MaxClears : start' = [session |-> h.session, source |-> h.source, clear |-> c, at |-> h.at]
    BY <2>1 DEF WriteSessionStart
  <2> QED  BY <2>1, <2>2 DEF WriteSessionStart, Ends, Types, HookRecords, files, ghosts
<1>2. \A id, s : Own(id, s) => Own(id, s)'
  BY DEF Types, Natives, Own, World, Prompted, ghosts, WriteSessionStart, Ends
<1>3. \A text, s : Taken(text, s) => Taken(text, s)'
  BY DEF Types, Taken, World, Hooked, Gone, ghosts, HookRecords, WriteSessionStart, Ends
<1>4. Prompted'
  BY DEF Types, Natives, World, Prompted, Hooked, NoneIn, ghosts, HookRecords,
          WriteSessionStart, Ends
<1>5. Hooked'
  BY <1>2 DEF Types, Natives, World, Hooked, ghosts, HookRecords, WriteSessionStart, Ends
<1>6. Seen'
  BY <1>2, <1>3 DEF Types, Natives, World, Seen, files, WriteSessionStart, Ends, Hooked
<1>7. Admitted'
  BY DEF Types, Natives, World, Prompted, Hooked, Admitted, Through, files, ghosts, HookRecords,
          Text, Nothing, Texts, WriteSessionStart, Ends
<1>8. Binding(agent)'
  <2>1. /\ h.kind = "start" /\ native.phase = "starting" /\ h.session = native.session
        /\ hooks' = hooks \ {h} /\ UNCHANGED <<native, agent, witness, began>>
        /\ \A i \in hooks : i.kind # "submit"
    BY DEF WriteSessionStart, Ends, World, Hooked, files, ghosts
  <2>2. Pending(agent) /\ start.clear = agent.clear.id /\ start.session # h.session => start' = start
    BY DEF WriteSessionStart, Authorized, Pending, NoClear
  <2>3. Pending(agent) /\ witness.text = Cont(agent) => witness.session # h.session
    BY <2>1 DEF World, Prompted, Seen, NoneIn, Taken, Cont, Text
  <2> QED  BY <2>1, <2>2, <2>3 DEF Record, Binding
<1>9. Opened(agent)'
  BY DEF Types, Natives, World, Prompted, Hooked, Record, Opened, First, Beginning, Awaiting,
          NoneIn, Turned, Through, Open, Pending, Text, files, ghosts, HookRecords,
          WriteSessionStart, Ends
<1>10. Begun(agent) => Begun(agent)'
  <2>1. /\ h.kind = "start" /\ native.phase = "starting" /\ h.session = native.session
        /\ hooks' = hooks \ {h} /\ UNCHANGED <<native, agent, began, admission>>
    BY DEF WriteSessionStart, Ends, World, Hooked, files, ghosts
  <2>2. Pending(agent) /\ start.clear = agent.clear.id /\ start.session # h.session => start' = start
    BY DEF WriteSessionStart, Authorized, Pending, NoClear
  <2>3. Taken(Cont(agent), agent.session) => agent.session # h.session
    BY <2>1 DEF World, Prompted, NoneIn, Taken
  <2> QED  BY <1>3, <2>1, <2>2, <2>3 DEF Begun, Pending, Cont
<1>11. Record(agent, inbox)'
  BY <1>2, <1>3, <1>8, <1>9, <1>10 DEF Types, Natives, World, Prompted, Record, files, ghosts,
          WriteSessionStart, Ends
<1> QED  BY <1>1, <1>4, <1>5, <1>6, <1>7, <1>11 DEF World

\* A stop hook tells of a turn of the conversation it names.
LEMMA WriteStopKeeps ==
    ASSUME Types, World, Record(agent, inbox), NEW h \in hooks, WriteStop(h)
    PROVE  Types' /\ World' /\ Record(agent, inbox)'
<1>1. Types'
  BY DEF Types, HookRecords, Requests, Agents, Texts, Text, Nothing, NoClear, Natives, files,
          ghosts, WriteStop, Ends
<1>2. \A id, s : Own(id, s) => Own(id, s)'
  BY DEF Types, Natives, Own, World, Prompted, ghosts, WriteStop, Ends
<1>3. \A text, s : Taken(text, s) => Taken(text, s)'
  BY DEF Types, Taken, World, Hooked, Gone, ghosts, HookRecords, WriteStop, Ends
<1>4. Prompted'
  BY DEF Types, Natives, World, Prompted, Hooked, NoneIn, ghosts, HookRecords, WriteStop, Ends
<1>5. Hooked'
  BY <1>2 DEF Types, Natives, World, Hooked, ghosts, HookRecords, WriteStop, Ends
<1>6. Seen'
  BY <1>2, <1>3 DEF Types, Natives, World, Seen, files, WriteStop, Ends, Hooked
<1>7. Admitted'
  BY DEF Types, Natives, World, Prompted, Hooked, Admitted, Through, files, ghosts, HookRecords,
          Text, Nothing, Texts, WriteStop, Ends
<1>8. Binding(agent)'
  BY DEF Types, Natives, World, Prompted, Hooked, Admitted, Record, Binding, Cont, Text,
          Pending, Open, files, ghosts, HookRecords, WriteStop, Ends
<1>9. Opened(agent)'
  BY DEF Types, Natives, World, Prompted, Hooked, Record, Opened, First, Beginning, Awaiting,
          NoneIn, Turned, Through, Open, Pending, Text, files, ghosts, HookRecords, WriteStop,
          Ends
<1>10. Begun(agent) => Begun(agent)'
  BY <1>3 DEF Begun, Pending, Cont, files, ghosts, WriteStop, Ends
<1>11. Record(agent, inbox)'
  BY <1>2, <1>3, <1>8, <1>9, <1>10 DEF Types, Natives, World, Prompted, Record, files, ghosts,
          WriteStop, Ends
<1> QED  BY <1>1, <1>4, <1>5, <1>6, <1>7, <1>11 DEF World

\* A hook that dies writes nothing; its prompt goes on.
LEMMA HookDiesKeeps ==
    ASSUME Types, World, Record(agent, inbox), NEW h \in hooks, HookDies(h)
    PROVE  Types' /\ World' /\ Record(agent, inbox)'
<1>1. Types'
  BY DEF Types, HookRecords, Requests, Agents, Texts, Text, Nothing, NoClear, Natives, files,
          ghosts, HookDies, Ends, Twist
<1>2. \A id, s : Own(id, s) => Own(id, s)'
  BY DEF Types, Natives, Own, World, Prompted, ghosts, HookDies, Ends, Twist
<1>3. \A text, s : Taken(text, s) => Taken(text, s)'
  BY DEF Types, Taken, World, Hooked, Gone, ghosts, HookRecords, HookDies, Ends, Twist
<1>4. Prompted'
  BY DEF Types, Natives, World, Prompted, Hooked, NoneIn, ghosts, HookRecords, HookDies, Ends,
          Twist
<1>5. Hooked'
  BY <1>2 DEF Types, Natives, World, Hooked, ghosts, HookRecords, HookDies, Ends, Twist
<1>6. Seen'
  BY <1>2, <1>3 DEF Types, Natives, World, Seen, files, HookDies, Ends, Twist
<1>7. Admitted'
  BY SMTT(30), ZenonT(40) DEF Types, Natives, World, Prompted, Hooked, Admitted, Through, files, ghosts, HookRecords,
          Text, Nothing, Texts, HookDies, Ends, Twist
<1>8. Binding(agent)'
  BY DEF Types, Natives, World, Prompted, Hooked, Admitted, Record, Binding, Cont, Text,
          Pending, Open, files, ghosts, HookRecords, HookDies, Ends, Twist
<1>9. Opened(agent)'
  BY DEF Types, Natives, World, Prompted, Hooked, Record, Opened, First, Beginning, Awaiting,
          NoneIn, Turned, Through, Open, Pending, Text, files, ghosts, HookRecords, HookDies,
          Ends, Twist
<1>10. Begun(agent) => Begun(agent)'
  BY <1>3 DEF Begun, Pending, Cont, files, ghosts, HookDies, Ends, Twist
<1>11. Record(agent, inbox)'
  BY <1>2, <1>3, <1>8, <1>9, <1>10 DEF Types, Natives, World, Prompted, Record, files, ghosts,
          HookDies, Ends, Twist
<1> QED  BY <1>1, <1>4, <1>5, <1>6, <1>7, <1>11 DEF World

-----------------------------------------------------------------------------
(* What reconciling, settling and observing do to the agent's record.        *)

\* A change of the request's status changes nothing else of the record.
LEMMA StatusIs ==
    ASSUME NEW a \in Agents, NEW t \in Statuses, NEW q, q = [a EXCEPT !.clear.status = t]
    PROVE  /\ q \in Agents /\ q.session = a.session /\ q.turn = a.turn /\ q.done = a.done
           /\ q.input = a.input /\ q.failed = a.failed
           /\ q.clear.id = a.clear.id /\ q.clear.status = t /\ q.clear.prev = a.clear.prev
           /\ q.clear.at = a.clear.at
  BY DEF Agents, Requests

\* A receipt changes what has failed, and nothing else of the record.
LEMMA FiledIs ==
    ASSUME NEW a \in Agents, NEW what \in {"cont", "mail"},
           NEW outcome \in {"delivered", "unverified"}, NEW q, q = Filed(a, what, outcome)
    PROVE  /\ q \in Agents /\ q.session = a.session /\ q.turn = a.turn /\ q.done = a.done
           /\ q.input = a.input /\ q.clear = a.clear
           /\ outcome = "unverified" => q.failed = what
           /\ outcome = "delivered" => q.failed # what /\ q.failed \in {"none", a.failed}
  BY DEF Filed, Agents

\* finishInput ends the input, and completes the request or leaves it
\* unverified when the input was its continuation.
LEMMA SettledIs ==
    ASSUME NEW a \in Agents, NEW what \in {"cont", "mail"},
           NEW outcome \in {"delivered", "unverified"}, NEW q, q = Settled(a, what, outcome)
    PROVE  /\ q \in Agents /\ q.session = a.session /\ q.turn = a.turn /\ q.done = a.done
           /\ q.input = "none" /\ q.clear.id = a.clear.id
           /\ outcome = "unverified" => q.failed = what
           /\ outcome = "delivered" => q.failed # what /\ q.failed \in {"none", a.failed}
           /\ what = "mail" => q.clear.status = a.clear.status
           /\ what = "cont" => q.clear.status = IF outcome = "delivered" THEN "completed" ELSE "unverified"
<1> DEFINE f == Filed(a, what, outcome)
           b == [f EXCEPT !.input = "none"]
<1>1. /\ b \in Agents /\ b.session = a.session /\ b.turn = a.turn /\ b.done = a.done
      /\ b.input = "none" /\ b.clear = a.clear
      /\ outcome = "unverified" => b.failed = what
      /\ outcome = "delivered" => b.failed # what /\ b.failed \in {"none", a.failed}
  <2>1. /\ f \in Agents /\ f.session = a.session /\ f.turn = a.turn /\ f.done = a.done
        /\ f.clear = a.clear
        /\ outcome = "unverified" => f.failed = what
        /\ outcome = "delivered" => f.failed # what /\ f.failed \in {"none", a.failed}
    BY FiledIs
  <2> HIDE DEF f
  <2> QED  BY <2>1 DEF Agents
<1>2. q = IF what = "cont"
          THEN [b EXCEPT !.clear.status = IF outcome = "delivered" THEN "completed" ELSE "unverified"]
          ELSE b
  BY DEF Settled, Stated
<1> HIDE DEF b
<1>3. CASE what = "mail"
  BY <1>1, <1>2, <1>3
<1>4. CASE what = "cont" /\ outcome = "delivered"
  <2>1. q = [b EXCEPT !.clear.status = "completed"] /\ "completed" \in Statuses
    BY <1>2, <1>4 DEF Statuses
  <2> QED  BY <1>1, <1>4, <2>1, StatusIs
<1>5. CASE what = "cont" /\ outcome = "unverified"
  <2>1. q = [b EXCEPT !.clear.status = "unverified"] /\ "unverified" \in Statuses
    BY <1>2, <1>5 DEF Statuses
  <2> QED  BY <1>1, <1>5, <2>1, StatusIs
<1> QED  BY <1>3, <1>4, <1>5

\* An awaited continuation that was proven delivered is not awaited any more:
\* the conversation has begun with it.
LEMMA ProvenIsBegun ==
    ASSUME Types, World, NEW a, NEW box, Record(a, box), a.clear.status \in Open,
           witness.text = Cont(a), witness.session = a.session
    PROVE  /\ Taken(Cont(a), a.session)
           /\ \A h \in hooks : h.kind = "submit" /\ h.pc = "write" => h.text # Cont(a)
           /\ ~dead /\ start.clear # 0 => First \/ Beginning
           /\ Begun(a)
<1>1. Pending(a) /\ Cont(a).kind = "cont" /\ Cont(a).id = a.clear.id
  BY DEF Open, Pending, Cont, Text
<1>2. Taken(Cont(a), a.session)
  BY <1>1 DEF World, Seen
<1>3. start.clear = a.clear.id /\ start.session = a.session
  BY <1>1 DEF Record, Binding
<1>4. ~Awaiting(a)
  BY <1>2, <1>3 DEF Awaiting, Taken, NoneIn, Through, Gone
<1>5. admission = a.clear.id
  <2>1. a.clear.id <= admission /\ admission <= a.clear.id
    BY <1>1 DEF World, Admitted, Record
  <2>2. admission \in Nat /\ a.clear.id \in Nat
    BY DEF Types, Record, Agents, Requests
  <2> QED  BY <2>1, <2>2
<1>6. \A h \in hooks : h.kind = "submit" /\ h.pc = "write" => h.text # Cont(a)
  BY DEF Record, Binding
<1> QED  BY <1>2, <1>3, <1>4, <1>5, <1>6 DEF Record, Opened, Begun

\* A delivery that exact proof shows, or a failure, leaves the record true.
LEMMA SettledKept ==
    ASSUME Types, World, NEW a, NEW box, Record(a, box), NEW what \in {"cont", "mail"},
           NEW outcome \in {"delivered", "unverified"},
           what = "cont" => a.clear.status \in Open,
           outcome = "delivered" => witness.text = Wire(a, what) /\ witness.session = a.session
    PROVE  Record(Settled(a, what, outcome), Placed(box, what, outcome))
<1> DEFINE q == Settled(a, what, outcome)
           b == Placed(box, what, outcome)
<1>1. /\ q \in Agents /\ q.session = a.session /\ q.turn = a.turn /\ q.done = a.done
      /\ q.input = "none" /\ q.clear.id = a.clear.id
      /\ outcome = "unverified" => q.failed = what
      /\ outcome = "delivered" => q.failed # what /\ q.failed \in {"none", a.failed}
      /\ what = "mail" => q.clear.status = a.clear.status
      /\ what = "cont" => q.clear.status = IF outcome = "delivered" THEN "completed" ELSE "unverified"
  BY SettledIs DEF Record
<1>2. /\ b \in Boxes
      /\ what = "cont" => b.mail = box.mail /\ b.cont = IF outcome = "delivered" THEN "cur" ELSE "failed"
      /\ what = "mail" => b.cont = box.cont /\ b.mail = IF outcome = "delivered" THEN "cur" ELSE "failed"
  BY DEF Record, Boxes, Placed
<1> HIDE DEF q, b
<1>3. Cont(q) = Cont(a)
  BY <1>1 DEF Cont
<1>4. CASE what = "mail"
  <2>1. Binding(q)
    BY <1>1, <1>3, <1>4 DEF Record, Binding, Pending
  <2>2. Opened(q)
    BY <1>1, <1>3, <1>4 DEF Record, Opened, Awaiting
  <2>3. q.failed # "none" => b[q.failed] = "failed"
    BY <1>1, <1>2, <1>4 DEF Record, Agents
  <2>4. "cont" \in {q.input, q.failed} => q.clear.status \in Open
    BY <1>1, <1>4 DEF Record
  <2>5. Begun(a) => Begun(q)
    BY <1>1, <1>3, <1>4 DEF Begun, Pending
  <2> QED  BY <1>1, <1>2, <1>3, <1>4, <2>1, <2>2, <2>3, <2>4, <2>5 DEF Record, q, b
<1>5. CASE what = "cont" /\ outcome = "unverified"
  <2>1. Binding(q)
    BY <1>1, <1>3, <1>5 DEF Record, Binding, Pending, Open
  <2>2. Opened(q)
    BY <1>1, <1>3, <1>5 DEF Record, Opened, Awaiting, Open
  <2>3. q.failed # "none" => b[q.failed] = "failed"
    BY <1>1, <1>2, <1>5
  <2>4. q.clear.status = "unverified" /\ a.clear.status # "none"
    BY <1>1, <1>5 DEF Open
  <2> QED  BY <1>1, <1>2, <1>3, <1>5, <2>1, <2>2, <2>3, <2>4 DEF Record, Open, q, b
<1>6. CASE what = "cont" /\ outcome = "delivered"
  <2>1. q.clear.status = "completed" /\ ~Pending(q) /\ a.clear.status # "none"
    BY <1>1, <1>6 DEF Pending, Open
  <2>2. /\ Taken(Cont(a), a.session)
        /\ \A h \in hooks : h.kind = "submit" /\ h.pc = "write" => h.text # Cont(a)
        /\ ~dead /\ start.clear # 0 => First \/ Beginning
    BY <1>6, ProvenIsBegun DEF Wire
  <2>3. Binding(q) /\ Opened(q)
    BY <1>3, <2>1, <2>2 DEF Binding, Opened
  <2>4. q.failed # "none" => b[q.failed] = "failed"
    BY <1>1, <1>2, <1>6 DEF Record, Agents
  <2>5. Begun(q)
    BY <2>1 DEF Begun
  <2> QED  BY <1>1, <1>2, <1>3, <1>6, <2>1, <2>2, <2>3, <2>4, <2>5 DEF Record, q, b
<1> QED  BY <1>4, <1>5, <1>6

\* So does the receipt alone, while the input is not finished.
LEMMA FiledKept ==
    ASSUME Types, World, NEW a, NEW box, Record(a, box), a.input # "none",
           NEW outcome \in {"delivered", "unverified"},
           outcome = "delivered" => witness.text = Wire(a, a.input) /\ witness.session = a.session
    PROVE  Record(Filed(a, a.input, outcome), Placed(box, a.input, outcome))
<1> DEFINE what == a.input
           q == Filed(a, what, outcome)
           b == Placed(box, what, outcome)
<1>1. a \in Agents /\ what \in {"cont", "mail"} /\ (what = "cont" => a.clear.status \in Open)
  BY DEF Record, Agents
<1>2. /\ q \in Agents /\ q.session = a.session /\ q.turn = a.turn /\ q.done = a.done
      /\ q.input = a.input /\ q.clear = a.clear
      /\ outcome = "unverified" => q.failed = what
      /\ outcome = "delivered" => q.failed # what /\ q.failed \in {"none", a.failed}
  BY <1>1, FiledIs
<1>3. /\ b \in Boxes
      /\ what = "cont" => b.mail = box.mail /\ b.cont = IF outcome = "delivered" THEN "cur" ELSE "failed"
      /\ what = "mail" => b.cont = box.cont /\ b.mail = IF outcome = "delivered" THEN "cur" ELSE "failed"
  BY <1>1 DEF Record, Boxes, Placed
<1> HIDE DEF q, b
<1>4. Cont(q) = Cont(a) /\ (Pending(q) <=> Pending(a))
  BY <1>2 DEF Cont, Pending
<1>5. Binding(q) /\ Opened(q)
  BY <1>2, <1>4 DEF Record, Binding, Opened, Awaiting
<1>6. q.failed # "none" => b[q.failed] = "failed"
  BY <1>1, <1>2, <1>3 DEF Record, Agents
<1>7. "cont" \in {q.input, q.failed} => q.clear.status \in Open
  BY <1>1, <1>2 DEF Record
<1>8. b.cont = "cur" => q.clear.status \in Open \cup {"completed"} /\ Begun(q)
  <2>1. Begun(a) => Begun(q)
    BY <1>2, <1>4 DEF Begun
  <2>2. CASE what = "mail"
    BY <1>2, <1>3, <2>1, <2>2 DEF Record
  <2>3. CASE what = "cont" /\ outcome = "delivered"
    <3>1. witness.text = Cont(a) /\ witness.session = a.session
      BY <2>3 DEF Wire
    <3>2. Begun(a)
      BY <1>1, <2>3, <3>1, ProvenIsBegun
    <3> QED  BY <1>1, <1>2, <2>1, <2>3, <3>2
  <2>4. CASE what = "cont" /\ outcome = "unverified"
    BY <1>3, <2>4
  <2> QED  BY <1>1, <2>2, <2>3, <2>4
<1> QED  BY <1>2, <1>3, <1>4, <1>5, <1>6, <1>7, <1>8 DEF Record, q, b

\* reconcileClear binds the conversation of the proof, with no turn in it yet.
Proved(a) == Pending(a) /\ a.clear.at # 0 /\ Confirmed(a)
Rebound(a) == IF Proved(a) /\ a.session = a.clear.prev
              THEN [a EXCEPT !.session = start.session, !.turn = 0, !.done = 0] ELSE a
LEMMA ReboundKept ==
    ASSUME Types, World, NEW a, NEW box, Record(a, box), NEW b, b = Rebound(a)
    PROVE  Record(b, box) /\ b.clear = a.clear /\ b.input = a.input /\ b.failed = a.failed
<1>1. a \in Agents /\ start.session \in Nat
  BY DEF Record, Types
<1>2. CASE b = a
  BY <1>2
<1>3. CASE b # a
  <2>1. /\ b \in Agents /\ b.session = start.session /\ b.turn = 0 /\ b.done = 0
        /\ b.clear = a.clear /\ b.input = a.input /\ b.failed = a.failed
        /\ a.session = a.clear.prev /\ start.session # a.clear.prev /\ Pending(a)
    BY <1>1, <1>3 DEF Agents, Rebound, Proved, Confirmed
  <2>2. Own(0, start.session) /\ start.session \in 1..native.session
    BY DEF Own, World, Prompted, Types, Natives, Seen
  <2>3. Cont(b) = Cont(a) /\ Pending(b)
    BY <2>1 DEF Cont, Pending
  <2>4. Binding(b) /\ Opened(b)
    BY <2>1, <2>3 DEF Record, Binding, Opened, Awaiting
  <2>5. box.cont # "cur"
    BY <2>1 DEF Record, Begun
  <2> QED  BY <2>1, <2>2, <2>3, <2>4, <2>5 DEF Record, Pending
<1> QED  BY <1>2, <1>3

\* A confirmed request goes on, or is completed by its delivered continuation.
LEMMA ReconciledIs ==
    ASSUME NEW a, NEW box, NEW q, q = Reconciled(a, box)
    PROVE  \/ q = Rebound(a)
           \/ Proved(a) /\ box.cont = "cur" /\ q = [Rebound(a) EXCEPT !.clear.status = "completed"]
           \/ /\ Proved(a) /\ box.cont # "cur" /\ Rebound(a).clear.status = "submitted"
              /\ q = [Rebound(a) EXCEPT !.clear.status = "continuing"]
<1>1. CASE ~Proved(a)
  BY <1>1 DEF Reconciled, Rebound, Proved
<1>2. CASE Proved(a)
  <2> DEFINE b == IF a.session = a.clear.prev
                  THEN [a EXCEPT !.session = start.session, !.turn = 0, !.done = 0] ELSE a
  <2>1. b = Rebound(a)
    BY <1>2 DEF Rebound
  <2>2. q = IF box.cont = "cur" THEN [b EXCEPT !.clear.status = "completed"]
            ELSE IF b.clear.status = "submitted" THEN [b EXCEPT !.clear.status = "continuing"] ELSE b
    BY <1>2 DEF Reconciled, Proved
  <2> HIDE DEF b
  <2> QED  BY <1>2, <2>1, <2>2
<1> QED  BY <1>1, <1>2
LEMMA ReconciledFields ==
    ASSUME NEW a, NEW box, Rebound(a) \in Agents, NEW q, q = Reconciled(a, box)
    PROVE  /\ q \in Agents /\ q.session = Rebound(a).session /\ q.turn = Rebound(a).turn
           /\ q.done = Rebound(a).done /\ q.input = Rebound(a).input /\ q.failed = Rebound(a).failed
           /\ q.clear.id = Rebound(a).clear.id
           /\ \/ q.clear.status = Rebound(a).clear.status
              \/ q.clear.status = "completed" /\ Proved(a) /\ box.cont = "cur"
              \/ /\ q.clear.status = "continuing" /\ Rebound(a).clear.status = "submitted"
                 /\ box.cont # "cur"
<1> DEFINE b == Rebound(a)
<1>1. b \in Agents
  OBVIOUS
<1>2. \/ q = b
      \/ Proved(a) /\ box.cont = "cur" /\ q = [b EXCEPT !.clear.status = "completed"]
      \/ box.cont # "cur" /\ b.clear.status = "submitted" /\ q = [b EXCEPT !.clear.status = "continuing"]
  BY ReconciledIs
<1> HIDE DEF b
<1>3. "completed" \in Statuses /\ "continuing" \in Statuses
  BY DEF Statuses
<1>4. /\ q \in Agents /\ q.session = b.session /\ q.turn = b.turn
      /\ q.done = b.done /\ q.input = b.input /\ q.failed = b.failed /\ q.clear.id = b.clear.id
      /\ \/ q.clear.status = b.clear.status
         \/ q.clear.status = "completed" /\ Proved(a) /\ box.cont = "cur"
         \/ q.clear.status = "continuing" /\ b.clear.status = "submitted" /\ box.cont # "cur"
  BY <1>1, <1>2, <1>3, StatusIs
<1> QED  BY <1>4 DEF b

\* A record whose delivered continuation is still its input is not completed
\* yet; every other one stays true.
LEMMA ReconciledKept ==
    ASSUME Types, World, NEW a, NEW box, Record(a, box), a.input = "cont" => box.cont # "cur",
           NEW q, q = Reconciled(a, box)
    PROVE  /\ Record(q, box) /\ q.clear.id = a.clear.id /\ q.input = a.input /\ q.failed = a.failed
           /\ q.clear.status = "queued" => a.clear.status = "queued"
<1> DEFINE b == Rebound(a)
<1>1. Record(b, box) /\ b.clear = a.clear /\ b.input = a.input /\ b.failed = a.failed
  BY ReboundKept
<1>2. b \in Agents
  BY <1>1 DEF Record
<1>3. /\ q \in Agents /\ q.session = b.session /\ q.turn = b.turn
      /\ q.done = b.done /\ q.input = b.input /\ q.failed = b.failed /\ q.clear.id = b.clear.id
      /\ \/ q.clear.status = b.clear.status
         \/ q.clear.status = "completed" /\ Proved(a) /\ box.cont = "cur"
         \/ q.clear.status = "continuing" /\ b.clear.status = "submitted" /\ box.cont # "cur"
  BY <1>2, ReconciledFields
<1>4. Proved(a) => Pending(b)
  BY <1>1 DEF Proved, Pending
<1> HIDE DEF b
<1>5. Cont(q) = Cont(b)
  BY <1>3 DEF Cont
<1>6. CASE q.clear.status = b.clear.status
  <2>1. Pending(q) <=> Pending(b)
    BY <1>6 DEF Pending
  <2>2. Binding(q) /\ Opened(q) /\ (Begun(b) => Begun(q))
    BY <1>1, <1>3, <1>5, <1>6, <2>1 DEF Record, Binding, Opened, Awaiting, Begun
  <2> QED  BY <1>1, <1>3, <1>5, <1>6, <2>2 DEF Record
<1>7. CASE q.clear.status = "completed" /\ Proved(a) /\ box.cont = "cur"
  <2>1. /\ Pending(b) /\ ~Pending(q) /\ b.clear.status \in Open
        /\ start.clear = b.clear.id /\ start.session = b.session
        /\ \A h \in hooks : h.kind = "submit" /\ h.pc = "write" => h.text # Cont(b)
        /\ Taken(Cont(b), b.session)
    BY <1>1, <1>4, <1>7 DEF Record, Begun, Pending
  <2>2. ~Awaiting(b)
    BY <2>1 DEF Awaiting, Taken, NoneIn, Through, Gone
  <2>3. Binding(q) /\ Opened(q) /\ Begun(q)
    BY <1>1, <1>5, <2>1, <2>2 DEF Record, Binding, Opened, Begun
  <2>4. q.failed # "cont" /\ q.input # "cont"
    BY <1>1, <1>3, <1>7 DEF Record
  <2> QED  BY <1>1, <1>3, <1>5, <1>7, <2>1, <2>3, <2>4 DEF Record, Open
<1>8. CASE q.clear.status = "continuing" /\ b.clear.status = "submitted" /\ box.cont # "cur"
  <2>1. Pending(q) /\ Pending(b) /\ q.clear.status \in Open /\ b.clear.status \in Open
    BY <1>8 DEF Pending, Open
  <2>2. Binding(q) /\ Opened(q)
    BY <1>1, <1>3, <1>5, <2>1 DEF Record, Binding, Opened, Awaiting
  <2> QED  BY <1>1, <1>3, <1>5, <1>8, <2>1, <2>2 DEF Record
<1> QED  BY <1>1, <1>3, <1>6, <1>7, <1>8

\* A continuation that is unverified again keeps the record of an open request.
LEMMA UnverifiedKept ==
    ASSUME Types, World, NEW a, NEW box, Record(a, box), a.clear.status \in Open,
           NEW q \in Agents, NEW b \in Boxes, q.session = a.session, q.turn = a.turn, q.done = a.done,
           q.input = "none", q.failed = "cont", q.clear.id = a.clear.id,
           q.clear.status = "unverified", b.cont = "failed", b.mail = box.mail
    PROVE  Record(q, b)
<1>1. Cont(q) = Cont(a) /\ Pending(q) /\ Pending(a) /\ q.clear.status \in Open /\ a.clear.status # "none"
  BY DEF Cont, Pending, Open
<1>2. Binding(q) /\ Opened(q)
  BY <1>1 DEF Record, Binding, Opened, Awaiting
<1> QED  BY <1>1, <1>2 DEF Record

\* recoverInput, after reconcileClear, fails what a dead owner left; a delivery
\* that it had filed already is among what it fails.
LEMMA RecoveredKept ==
    ASSUME Types, World, NEW a, NEW box, Record(a, box),
           NEW s, s = Recovered([a |-> Reconciled(a, box), box |-> box])
    PROVE  /\ Record(s.a, s.box) /\ s.a.clear.id = a.clear.id /\ s.a.input = "none"
           /\ s.a.clear.status = "queued" => a.clear.status = "queued"
<1> DEFINE r == Reconciled(a, box)
           b == Rebound(a)
<1>1. Record(b, box) /\ b.clear = a.clear /\ b.input = a.input /\ b.failed = a.failed
  BY ReboundKept
<1>2. b \in Agents
  BY <1>1 DEF Record
<1>3. /\ r \in Agents /\ r.session = b.session /\ r.turn = b.turn
      /\ r.done = b.done /\ r.input = b.input /\ r.clear.id = b.clear.id
      /\ r.clear.status = "queued" => b.clear.status = "queued"
  BY <1>2, ReconciledFields
<1>4. ~(a.input = "cont" /\ box.cont = "cur") => Record(r, box)
  BY ReconciledKept
<1>5. s = IF r.input = "none" THEN [a |-> r, box |-> box]
          ELSE [a |-> Settled(r, r.input, "unverified"), box |-> Placed(box, r.input, "unverified")]
  BY DEF Recovered
<1> HIDE DEF r, b
<1>6. CASE r.input = "none"
  BY <1>1, <1>3, <1>4, <1>5, <1>6
<1>7. CASE r.input # "none"
  <2> DEFINE q == Settled(r, r.input, "unverified")
             c == Placed(box, r.input, "unverified")
  <2>1. s.a = q /\ s.box = c
    BY <1>5, <1>7
  <2>2. r.input \in {"cont", "mail"}
    BY <1>3, <1>7 DEF Agents
  <2>3. /\ q \in Agents /\ q.session = r.session /\ q.turn = r.turn /\ q.done = r.done
        /\ q.input = "none" /\ q.clear.id = r.clear.id /\ q.failed = r.input
        /\ r.input = "mail" => q.clear.status = r.clear.status
        /\ r.input = "cont" => q.clear.status = "unverified"
    BY <1>3, <2>2, SettledIs
  <2>4. CASE a.input = "cont" /\ box.cont = "cur"
    <3>1. r.input = "cont" /\ b.clear.status \in Open
      BY <1>1, <1>3, <2>4 DEF Record
    <3>2. c \in Boxes /\ c.cont = "failed" /\ c.mail = box.mail
      BY <1>1, <3>1 DEF Placed, Record, Boxes
    <3> HIDE DEF q, c
    <3>3. Record(q, c)
      BY <1>1, <1>3, <2>3, <3>1, <3>2, UnverifiedKept
    <3> QED  BY <1>1, <1>3, <2>1, <2>3, <3>1, <3>3
  <2>5. CASE ~(a.input = "cont" /\ box.cont = "cur")
    <3>1. Record(r, box)
      BY <1>4, <2>5
    <3>2. r.input = "cont" => r.clear.status \in Open
      BY <3>1 DEF Record
    <3>3. Record(q, c)
      BY <2>2, <3>1, <3>2, SettledKept
    <3> HIDE DEF q, c
    <3> QED  BY <1>1, <1>3, <2>1, <2>2, <2>3, <3>3
  <2> QED  BY <2>4, <2>5
<1> QED  BY <1>6, <1>7

\* reconcileDelivery delivers what the witness proves.
LEMMA ProvenKept ==
    ASSUME Types, World, NEW r, Record(r.a, r.box), r.a.input = "none", NEW s, s = Proven(r)
    PROVE  /\ Record(s.a, s.box) /\ s.a.clear.id = r.a.clear.id /\ s.a.input = "none"
           /\ s.a.clear.status = "queued" => r.a.clear.status = "queued"
<1> DEFINE what == r.a.failed
<1>1. CASE what = "none" \/ witness.text # Wire(r.a, what) \/ witness.session # r.a.session
  BY <1>1 DEF Proven
<1>2. CASE what # "none" /\ witness.text = Wire(r.a, what) /\ witness.session = r.a.session
  <2>1. what \in {"cont", "mail"} /\ r.a \in Agents
    BY <1>2 DEF Record, Agents
  <2>2. s = [a |-> Settled(r.a, what, "delivered"), box |-> Placed(r.box, what, "delivered")]
    BY <1>2 DEF Proven
  <2>3. Record(Settled(r.a, what, "delivered"), Placed(r.box, what, "delivered"))
    BY <1>2, <2>1, SettledKept DEF Record
  <2>4. /\ Settled(r.a, what, "delivered").clear.id = r.a.clear.id
        /\ Settled(r.a, what, "delivered").input = "none"
        /\ Settled(r.a, what, "delivered").clear.status \in {r.a.clear.status, "completed"}
    BY <2>1, SettledIs
  <2> QED  BY <2>2, <2>3, <2>4
<1> QED  BY <1>1, <1>2

\* The hooks' records that count are of the agent's own conversation.
LEMMA ObservedKept ==
    ASSUME Types, World, NEW a, NEW box, Record(a, box), NEW q, q = Observed(a)
    PROVE  /\ Record(q, box) /\ q.clear = a.clear /\ q.input = a.input
<1> DEFINE b == IF witness.session = a.session /\ witness.id > a.turn THEN [a EXCEPT !.turn = witness.id] ELSE a
<1>1. a \in Agents /\ witness.id \in Nat /\ stop.id \in Nat
  BY DEF Record, Types
<1>2. /\ b \in Agents /\ b.session = a.session /\ b.done = a.done /\ b.clear = a.clear
      /\ b.input = a.input /\ b.failed = a.failed
      /\ b.turn = a.turn \/ (b.turn = witness.id /\ a.session = witness.session)
  BY <1>1 DEF Agents
<1>3. q = IF stop.session = b.session /\ stop.id >= b.turn THEN [b EXCEPT !.done = stop.id] ELSE b
  BY DEF Observed
<1> HIDE DEF b
<1>4. /\ q \in Agents /\ q.session = a.session /\ q.turn = b.turn /\ q.clear = a.clear
      /\ q.input = a.input /\ q.failed = a.failed
      /\ q.done = a.done \/ (q.done = stop.id /\ a.session = stop.session)
  BY <1>1, <1>2, <1>3 DEF Agents
<1>5. Own(q.turn, q.session) /\ Own(q.done, q.session)
  BY <1>2, <1>4 DEF Record, World, Seen
<1>6. Cont(q) = Cont(a) /\ (Pending(q) <=> Pending(a))
  BY <1>4 DEF Cont, Pending
<1>7. Binding(q) /\ Opened(q) /\ (Begun(a) => Begun(q))
  BY <1>4, <1>6 DEF Record, Binding, Opened, Awaiting, Begun
<1> QED  BY <1>4, <1>5, <1>6, <1>7 DEF Record

-----------------------------------------------------------------------------
(* The steps of the owner and of the operator.                               *)

\* They leave the native program's progress and what hooks wrote as they are.
Still == /\ native' \in Natives
         /\ native'.phase = native.phase /\ native'.session = native.session
         /\ native'.text = native.text /\ native'.fresh = native.fresh
         /\ native'.prompts = native.prompts
         /\ UNCHANGED <<began, hooks, start, admission, witness, stop, dead>>

\* Such a step is known to keep the invariant from what it does to the record,
\* to the owner and to the ghost of the entered requests.
LEMMA StillKeeps ==
    ASSUME Types, World, Still, Record(agent', inbox'), Control', Keyed',
           owner' \in Owners, now' \in Nat, used' \in Nat, keyed' \in [Clears -> Nat], eager' = eager
    PROVE  IInv'
<1>1. \A id, s : Own(id, s) => Own(id, s)'
  BY DEF Still, Own
<1>2. \A text, s : Taken(text, s) => Taken(text, s)'
  BY DEF Still, Taken, Gone
<1>3. Types'
  BY DEF Still, Types, Record
<1>4. Prompted'
  BY DEF World, Prompted, NoneIn, Still
<1>5. Hooked'
  BY <1>1 DEF World, Hooked, Still
<1>6. Seen'
  BY <1>1, <1>2 DEF World, Seen, Still
<1>7. Admitted'
  BY DEF World, Admitted, Through, Still
<1>8. Binding(agent)'
  BY DEF Record, Binding, Pending, Cont, Still
<1>9. Opened(agent)'
  BY DEF Record, Opened, First, Turned, Beginning, Awaiting, NoneIn, Through, Still
<1>10. inbox'.cont = "cur" => agent'.clear.status \in Open \cup {"completed"} /\ Begun(agent)'
  BY <1>2 DEF Record, Begun, Pending, Cont, Still
<1>11. Record(agent, inbox)'
  BY <1>1, <1>2, <1>8, <1>9, <1>10 DEF Record, Cont, Still
<1> QED  BY <1>3, <1>4, <1>5, <1>6, <1>7, <1>11 DEF IInv, World

\* The owner goes on, or releases the lock.
LEMMA Goes ==
    ASSUME Types, NEW pc \in Places, Goto(pc)
    PROVE  owner' \in Owners /\ owner'.op = owner.op /\ owner'.pc = pc
  BY DEF Types, Owners, Goto

\* An owner that leaves is none.
LEMMA Leaves ==
    ASSUME Release
    PROVE  owner' \in Owners /\ owner'.op = "none" /\ owner'.pc = "none"
  BY DEF Release, NoOwner, Owners, Places

\* An owner that leaves takes nothing of its control with it.
LEMMA LeftControl ==
    ASSUME Release
    PROVE  Control'
  BY Leaves DEF Control, Typing, Entering, Replacing

\* What is typed is a text.
LEMMA TypedIsText ==
    ASSUME NEW text \in Texts
    PROVE  Typed(text) \in Texts
  BY ClearAssumption DEF Typed, Text, Texts

\* So is every text that the model writes.
LEMMA KindIsText ==
    ASSUME NEW kind \in {"none", "typed", "cont", "mail", "clear", "mixed"}, NEW id \in 0..MaxClears
    PROVE  Text(kind, id) \in Texts
  BY DEF Text, Texts

\* A step that leaves the native program alone leaves its progress.
LEMMA Untouched ==
    ASSUME Types, UNCHANGED <<native, began, hooks, start, admission, witness, stop, dead>>
    PROVE  Still
  BY DEF Types, Still

\* The operator changes only the composer.
LEMMA OperatorKeeps ==
    ASSUME IInv, Operator
    PROVE  IInv'
<1>1. Types /\ World /\ Record(agent, inbox) /\ Control /\ Keyed
  BY DEF IInv
<1>2. /\ UNCHANGED <<eager, hooks, start, admission, witness, stop, agent, inbox, owner, now, keyed, began, dead>>
      /\ used' = used + 1
      /\ \/ \E text \in Texts : native' = [native EXCEPT !.box = text, !.entered = TRUE]
         \/ native' = [native EXCEPT !.box = Typed(Text("typed", 0))]
         \/ native' = [native EXCEPT !.entered = TRUE]
  <2>1. ASSUME NEW text \in {Text("typed", 0), Text("clear", 0)} \cup {Text("cont", c) : c \in Clears},
               OperatorSubmits(text)
        PROVE  text \in Texts
    BY <2>1, ClearAssumption, KindIsText DEF Clears
  <2> QED  BY <2>1 DEF Operator, OperatorSubmits, OperatorDrafts, OperatorEnters, Twist, files, ghosts
<1>3. Still
  <2>1. Typed(Text("typed", 0)) \in Texts
    BY ClearAssumption, KindIsText, TypedIsText
  <2> QED  BY <1>1, <1>2, <2>1, ZenonT(40) DEF Types, Natives, Still
<1>4. Control' /\ Keyed'
  BY <1>1, <1>2 DEF Control, Keyed, ClearKeyedOnce
<1>5. Record(agent', inbox')
  BY <1>1, <1>2
<1>6. used' \in Nat
  <2>1. used' = used + 1 /\ used \in Nat
    BY <1>1, <1>2 DEF Types
  <2> QED  BY <2>1
<1> QED  BY <1>1, <1>2, <1>3, <1>4, <1>5, <1>6, StillKeeps DEF Types

\* A message that arrives changes only its own place.
LEMMA SendKeeps ==
    ASSUME IInv, Send
    PROVE  IInv'
<1>1. Types /\ World /\ Record(agent, inbox) /\ Control /\ Keyed
  BY DEF IInv
<1>2. /\ UNCHANGED <<eager, native, hooks, start, admission, witness, stop, agent, owner, now, used, keyed, began, dead>>
      /\ inbox.mail = "none" /\ inbox' = [inbox EXCEPT !.mail = "new"]
  BY DEF Send, files, ghosts
<1>3. Still
  BY <1>1, <1>2, Untouched
<1>4. inbox' \in Boxes /\ inbox'.cont = inbox.cont /\ inbox.mail # "failed"
  BY <1>1, <1>2 DEF Types, Boxes
<1>5. Record(agent', inbox')
  <2>1. agent.failed # "none" => inbox'[agent.failed] = "failed"
    BY <1>1, <1>4 DEF Record, Agents
  <2> QED  BY <1>1, <1>2, <1>4, <2>1 DEF Record
<1>6. Control' /\ Keyed'
  BY <1>1, <1>2 DEF Control, Keyed, ClearKeyedOnce
<1> QED  BY <1>1, <1>2, <1>3, <1>5, <1>6, StillKeeps DEF Types

\* An owner may die anywhere: the record it leaves is true as it is.
LEMMA OwnerDiesKeeps ==
    ASSUME IInv, OwnerDies
    PROVE  IInv'
<1>1. Types /\ World /\ Record(agent, inbox) /\ Control /\ Keyed
  BY DEF IInv
<1>2. /\ UNCHANGED <<eager, native, hooks, start, admission, witness, stop, agent, inbox, now, keyed, began, dead>>
      /\ used' = used + 1 /\ Release
  BY DEF OwnerDies, Twist, files, ghosts
<1>3. Still
  BY <1>1, <1>2, Untouched
<1>4. Control' /\ Keyed'
  BY <1>1, <1>2, Leaves, LeftControl DEF Keyed, ClearKeyedOnce
<1>5. Record(agent', inbox') /\ used' \in Nat
  BY <1>1, <1>2 DEF Types
<1> QED  BY <1>1, <1>2, <1>3, <1>4, <1>5, Leaves, StillKeeps DEF Types

\* Taking the lock reconciles, recovers, proves and observes, in this order.
LEMMA AcquireKeeps ==
    ASSUME IInv, NEW op \in {"request", "drain", "recover"}, Acquire(op)
    PROVE  IInv'
<1> DEFINE r == Reconciled(agent, inbox)
           u == Recovered([a |-> r, box |-> inbox])
           v == Proven(u)
           q == IF op = "drain" THEN Observed(v.a) ELSE v.a
<1>1. Types /\ World /\ Record(agent, inbox) /\ Control /\ Keyed
  BY DEF IInv
<1>2. /\ UNCHANGED <<eager, native, hooks, start, admission, witness, stop, now, used, keyed, began, dead>>
      /\ agent' = q /\ inbox' = v.box /\ owner' = [NoOwner EXCEPT !.op = op, !.pc = "check"]
      /\ op = "request" => agent.clear.id < MaxClears
  BY DEF Acquire, files, ghosts
<1>4. /\ Record(u.a, u.box) /\ u.a.clear.id = agent.clear.id /\ u.a.input = "none"
      /\ u.a.clear.status = "queued" => agent.clear.status = "queued"
  BY <1>1, RecoveredKept
<1>5. /\ Record(v.a, v.box) /\ v.a.clear.id = agent.clear.id /\ v.a.input = "none"
      /\ v.a.clear.status = "queued" => agent.clear.status = "queued"
  <2> HIDE DEF u
  <2> QED  BY <1>1, <1>4, ProvenKept
<1>6. /\ Record(q, v.box) /\ q.clear.id = agent.clear.id /\ q.input = "none"
      /\ q.clear.status = "queued" => agent.clear.status = "queued"
  <2> HIDE DEF v
  <2> QED  BY <1>1, <1>5, ObservedKept
<1> HIDE DEF q, v, u, r
<1>7. Still
  BY <1>1, <1>2, Untouched
<1>8. owner' \in Owners /\ owner'.pc = "check" /\ owner'.op = op
  BY <1>2 DEF Owners, Places, NoOwner
<1>9. Control'
  BY <1>2, <1>6, <1>8 DEF Control, Typing, Entering, Replacing
<1>10. Keyed'
  BY <1>1, <1>2, <1>6, <1>8 DEF Keyed, ClearKeyedOnce
<1> QED  BY <1>1, <1>2, <1>6, <1>7, <1>8, <1>9, <1>10, StillKeeps DEF Types

\* A new status of a request that stays open keeps the record true, whatever
\* becomes of an input and of the continuation's place.
LEMMA OpenKept ==
    ASSUME Types, World, NEW a, NEW box, Record(a, box), a.clear.status \in Open \cup {"queued"},
           NEW q \in Agents, NEW b \in Boxes, q.session = a.session, q.turn = a.turn, q.done = a.done,
           q.clear.id = a.clear.id, q.clear.status \in Open, q.failed \in {"none", a.failed},
           b.mail = box.mail, b.cont \in {box.cont, "new"}, q.failed = "cont" => b.cont = box.cont
    PROVE  Record(q, b)
<1>1. /\ Cont(q) = Cont(a) /\ Pending(q) /\ Pending(a)
      /\ a.clear.status # "completed" /\ a.clear.status # "none"
      /\ q.clear.status # "completed" /\ q.clear.status # "none"
  BY DEF Cont, Pending, Open
<1>2. Binding(q)
  BY <1>1 DEF Record, Binding
<1>3. Opened(q)
  BY <1>1 DEF Record, Opened, Awaiting
<1>4. q.failed # "none" => b[q.failed] = "failed"
  BY DEF Record, Agents
<1>5. b.cont = "cur" => Begun(q)
  BY <1>1 DEF Record, Begun
<1> QED  BY <1>1, <1>2, <1>3, <1>4, <1>5 DEF Record

\* The mark of a paste is nothing that the record depends on.
LEMMA OnlyKept ==
    ASSUME NEW a, NEW box, Record(a, box), NEW b \in Boxes, b.cont = box.cont, b.mail = box.mail
    PROVE  Record(a, b)
  BY DEF Record, Agents

\* A new request is above every admission, and nothing is bound to it.
LEMMA RequestKeeps ==
    ASSUME IInv, Request
    PROVE  IInv'
<1>1. Types /\ World /\ Record(agent, inbox) /\ Control /\ Keyed
  BY DEF IInv
<1>2. /\ UNCHANGED <<eager, native, hooks, start, admission, witness, stop, now, used, keyed, began, dead>>
      /\ owner.op = "request" /\ owner.pc = "check"
  BY DEF Request, At, files, ghosts
<1>3. Still
  BY <1>1, <1>2, Untouched
<1>4. CASE Release /\ UNCHANGED <<agent, inbox>>
  <2>1. Control' /\ Keyed' /\ Record(agent', inbox')
    BY <1>1, <1>2, <1>4, Leaves, LeftControl DEF Keyed, ClearKeyedOnce
  <2> QED  BY <1>1, <1>2, <1>3, <1>4, <2>1, Leaves, StillKeeps DEF Types
<1>5. CASE ~(Release /\ UNCHANGED <<agent, inbox>>)
  <2> DEFINE n == agent.clear.id + 1
             c == [id |-> n, status |-> "queued", prev |-> agent.session, at |-> 0]
  <2>1. /\ ~Pending(agent) /\ agent.input = "none" /\ agent.failed = "none"
        /\ agent' = [agent EXCEPT !.clear = c]
        /\ inbox' = [inbox EXCEPT !.cont = "none", !.only = 0] /\ Goto("publish")
    BY <1>5 DEF Request
  <2>2. /\ n \in Clears /\ n \in 0..MaxClears /\ n > agent.clear.id /\ n # 0
        /\ admission < n /\ agent.clear.id \in Nat
    <3>1. agent.clear.id \in 0..MaxClears /\ agent.session \in Nat /\ admission \in Nat
      BY <1>1, ClearAssumption DEF Types, Agents, Requests
    <3>2. agent.clear.id < MaxClears
      BY <1>1, <1>2 DEF Control
    <3>3. admission <= agent.clear.id
      BY <1>1 DEF Record
    <3>4. n \in Nat /\ n > agent.clear.id /\ n > 0 /\ n <= MaxClears /\ admission < n
      BY <3>1, <3>2, <3>3, ClearAssumption
    <3> HIDE DEF n
    <3> QED  BY <3>1, <3>4, ClearAssumption DEF Clears
  <2>3. c \in Requests /\ c.id = n /\ c.status = "queued"
    BY <1>1, <2>2 DEF Types, Agents, Requests, Statuses
  <2> HIDE DEF n, c
  <2>4. /\ agent' \in Agents /\ agent'.session = agent.session /\ agent'.turn = agent.turn
        /\ agent'.done = agent.done /\ agent'.input = "none" /\ agent'.failed = "none"
        /\ agent'.clear.id = n /\ agent'.clear.status = "queued"
    BY <1>1, <2>1, <2>3 DEF Types, Agents
  <2>5. inbox' \in Boxes /\ inbox'.cont = "none"
    BY <1>1, <2>1 DEF Types, Boxes
  <2>6. Binding(agent')
    <3>1. \A h \in hooks : h.kind = "submit" /\ h.pc = "write" => h.text # Cont(agent')
      BY <1>1, <2>2, <2>4 DEF World, Admitted, Types, Cont, Text
    <3>2. witness.text # Cont(agent')
      BY <1>1, <2>2, <2>4 DEF World, Admitted, Types, Cont, Text
    <3> QED  BY <3>1, <3>2 DEF Binding
  <2>7. Opened(agent')
    BY <1>1, <2>1 DEF Record, Opened, Awaiting, Open, Pending
  <2>8. Record(agent', inbox')
    BY <1>1, <2>2, <2>4, <2>5, <2>6, <2>7 DEF Record, Types
  <2>9. /\ owner' \in Owners /\ owner'.op = "request" /\ owner'.pc = "publish"
    BY <1>1, <1>2, <2>1, Goes DEF Places
  <2>10. Control'
    BY <2>4, <2>9 DEF Control, Typing, Entering, Replacing
  <2>11. Keyed'
    <3>1. \A i \in Clears : i \in Nat
      BY DEF Clears
    <3>2. \A i \in Clears : i > agent.clear.id => keyed[i] = 0
      BY <1>1 DEF Keyed
    <3>3. n > agent.clear.id /\ n \in Nat /\ \A i \in Clears : i > n => i > agent.clear.id
      BY <2>2, <3>1
    <3>4. keyed[n] = 0 /\ \A i \in Clears : i > n => keyed[i] = 0
      BY <2>2, <3>2, <3>3
    <3>5. agent'.clear.id = n /\ owner'.pc = "publish" /\ keyed' = keyed
      BY <1>2, <2>4, <2>9
    <3>6. ClearKeyedOnce
      BY <1>1 DEF Keyed
    <3> QED  BY <3>4, <3>5, <3>6 DEF Keyed, ClearKeyedOnce
  <2> QED  BY <1>1, <1>2, <1>3, <2>8, <2>9, <2>10, <2>11, StillKeeps DEF Types
<1> QED  BY <1>4, <1>5

\* The continuation is published for the request just queued.
LEMMA PublishRequestKeeps ==
    ASSUME IInv, PublishRequest
    PROVE  IInv'
<1>1. Types /\ World /\ Record(agent, inbox) /\ Control /\ Keyed
  BY DEF IInv
<1>2. /\ UNCHANGED <<eager, native, hooks, start, admission, witness, stop, agent, now, used, keyed, began, dead>>
      /\ inbox' = [inbox EXCEPT !.cont = "new"] /\ Release
      /\ owner.op = "request" /\ owner.pc = "publish"
  BY DEF PublishRequest, At, files, ghosts
<1>3. Still
  BY <1>1, <1>2, Untouched
<1>4. inbox' \in Boxes /\ inbox'.cont = "new" /\ agent.failed = "none"
  BY <1>1, <1>2 DEF Types, Boxes, Control
<1>5. Record(agent', inbox')
  BY <1>1, <1>2, <1>4 DEF Record
<1>6. Control' /\ Keyed'
  BY <1>1, <1>2, Leaves, LeftControl DEF Keyed, ClearKeyedOnce
<1> QED  BY <1>1, <1>2, <1>3, <1>5, <1>6, Leaves, StillKeeps DEF Types

\* A request is reserved before its /clear is typed.
LEMMA ReserveClearKeeps ==
    ASSUME IInv, ReserveClear
    PROVE  IInv'
<1>1. Types /\ World /\ Record(agent, inbox) /\ Control /\ Keyed
  BY DEF IInv
<1>2. /\ UNCHANGED <<eager, native, hooks, start, admission, witness, stop, used, keyed, began, dead>>
      /\ owner.op = "drain" /\ Goto("type") /\ now' = now + 1
      /\ inbox' = [inbox EXCEPT !.cont = "new"]
      /\ agent' = [agent EXCEPT !.clear.status = "submitted", !.clear.at = now']
      /\ agent.clear.status = "queued" /\ agent.input = "none" /\ agent.failed = "none"
  BY DEF ReserveClear, Clearable, At, files, ghosts
<1>3. Still
  BY <1>1, <1>2, Untouched
<1>4. now' \in Nat
  BY <1>1, <1>2 DEF Types
<1>5. /\ agent' \in Agents /\ agent'.session = agent.session /\ agent'.turn = agent.turn
      /\ agent'.done = agent.done /\ agent'.input = "none" /\ agent'.failed = "none"
      /\ agent'.clear.id = agent.clear.id /\ agent'.clear.status = "submitted"
  <2> HIDE DEF Statuses
  <2>1. "submitted" \in Statuses
    BY DEF Statuses
  <2> QED  BY <1>1, <1>2, <1>4, <2>1 DEF Types, Agents, Requests
<1>6. inbox' \in Boxes /\ inbox'.mail = inbox.mail /\ inbox'.cont = "new"
  BY <1>1, <1>2 DEF Types, Boxes
<1>7. Record(agent', inbox')
  <2>1. agent.clear.status \in Open \cup {"queued"} /\ agent'.clear.status \in Open
    BY <1>2, <1>5 DEF Open
  <2>2. /\ agent'.failed \in {"none", agent.failed}
        /\ inbox'.cont \in {inbox.cont, "new"} /\ agent'.failed # "cont"
    BY <1>5, <1>6
  <2> QED  BY <1>1, <1>5, <1>6, <2>1, <2>2, OpenKept
<1>8. owner' \in Owners /\ owner'.op = "drain" /\ owner'.pc = "type"
  BY <1>1, <1>2, Goes DEF Places, Typing
<1>9. Control'
  BY <1>5, <1>8 DEF Control, Typing, Entering, Replacing
<1>10. Keyed'
  BY <1>1, <1>2, <1>5, <1>8 DEF Keyed, ClearKeyedOnce
<1> QED  BY <1>1, <1>2, <1>3, <1>4, <1>7, <1>8, <1>9, <1>10, StillKeeps DEF Types

\* /clear is typed into the composer.
LEMMA TypeClearKeeps ==
    ASSUME IInv, TypeClear
    PROVE  IInv'
<1>1. Types /\ World /\ Record(agent, inbox) /\ Control /\ Keyed
  BY DEF IInv
<1>2. /\ UNCHANGED <<eager, hooks, start, admission, witness, stop, agent, inbox, now, used, keyed, began, dead>>
      /\ owner.op = "drain" /\ owner.pc = "type" /\ Goto("readback")
      /\ native' = [native EXCEPT !.box = Typed(Text("clear", 0))]
  BY DEF TypeClear, At, files, ghosts
<1>3. Still
  <2>1. Typed(Text("clear", 0)) \in Texts
    BY ClearAssumption, KindIsText, TypedIsText
  <2> QED  BY <1>1, <1>2, <2>1 DEF Types, Natives, Still
<1>4. owner' \in Owners /\ owner'.op = "drain" /\ owner'.pc = "readback"
  BY <1>1, <1>2, Goes DEF Places, Typing
<1>5. Control' /\ Keyed'
  BY <1>1, <1>2, <1>4 DEF Control, Keyed, ClearKeyedOnce, Typing, Entering, Replacing
<1> QED  BY <1>1, <1>2, <1>3, <1>4, <1>5, StillKeeps DEF Types

\* A submitted request's clear settles as continuing or unverified.
LEMMA UnverifyKept ==
    ASSUME Types, World, Record(agent, inbox), agent.clear.status = "submitted", agent.input = "none",
           NEW t \in Open, agent' = [agent EXCEPT !.clear.status = t], inbox' = inbox
    PROVE  /\ Record(agent', inbox') /\ agent'.input = "none"
           /\ agent'.clear.id = agent.clear.id /\ agent'.clear.status = t
<1>1. t \in Statuses
  BY DEF Open, Statuses
<1>2. /\ agent' \in Agents /\ agent'.session = agent.session /\ agent'.turn = agent.turn
      /\ agent'.done = agent.done /\ agent'.input = agent.input /\ agent'.failed = agent.failed
      /\ agent'.clear.id = agent.clear.id /\ agent'.clear.status = t
  <2>1. agent \in Agents
    BY DEF Types
  <2> QED  BY <1>1, <2>1 DEF Agents, Requests
<1>3. inbox' \in Boxes /\ inbox'.mail = inbox.mail /\ inbox'.cont = inbox.cont
  BY DEF Types
<1> QED  BY <1>2, <1>3, OpenKept DEF Open

\* What the composer shows decides whether Enter is pressed.
LEMMA ReadBackKeeps ==
    ASSUME IInv, ReadBack
    PROVE  IInv'
<1>1. Types /\ World /\ Record(agent, inbox) /\ Control /\ Keyed
  BY DEF IInv
<1>2. /\ UNCHANGED <<eager, native, hooks, start, admission, witness, stop, inbox, now, used, keyed, began, dead>>
      /\ owner.op = "drain" /\ owner.pc = "readback"
      /\ (Goto("press") /\ agent' = agent) \/ (Unverify /\ Release)
  BY DEF ReadBack, At, files, ghosts
<1>3. Still
  BY <1>1, <1>2, Untouched
<1>4. agent.clear.status = "submitted" /\ agent.input = "none"
  BY <1>1, <1>2 DEF Control, Typing
<1>5. CASE Goto("press") /\ agent' = agent
  <2>1. owner' \in Owners /\ owner'.op = "drain" /\ owner'.pc = "press"
    BY <1>1, <1>2, <1>5, Goes DEF Places, Typing
  <2>2. Control' /\ Keyed'
    BY <1>1, <1>2, <1>4, <1>5, <2>1 DEF Control, Keyed, ClearKeyedOnce, Typing, Entering, Replacing
  <2> QED  BY <1>1, <1>2, <1>3, <1>5, <2>1, <2>2, StillKeeps DEF Types
<1>6. CASE Unverify /\ Release
  <2>1. /\ Record(agent', inbox') /\ agent'.clear.id = agent.clear.id
        /\ agent'.clear.status = "unverified"
    BY <1>1, <1>2, <1>4, <1>6, UnverifyKept DEF Unverify, Open
  <2>2. Control' /\ Keyed'
    BY <1>1, <1>2, <1>6, <2>1, Leaves, LeftControl DEF Keyed, ClearKeyedOnce
  <2> QED  BY <1>1, <1>2, <1>3, <1>6, <2>1, <2>2, Leaves, StillKeeps DEF Types
<1> QED  BY <1>2, <1>5, <1>6

\* Enter is pressed only for the reserved request, which had none before.
LEMMA PressClearKeeps ==
    ASSUME IInv, PressClear
    PROVE  IInv'
<1>1. Types /\ World /\ Record(agent, inbox) /\ Control /\ Keyed
  BY DEF IInv
<1>2. /\ UNCHANGED <<eager, hooks, start, admission, witness, stop, agent, inbox, now, used, began, dead>>
      /\ owner.op = "drain" /\ owner.pc = "press" /\ Goto("confirm")
      /\ native' = [native EXCEPT !.entered = native.box # Nothing]
      /\ keyed' = [keyed EXCEPT ![agent.clear.id] = @ + 1]
  BY DEF PressClear, At, files
<1>3. Still
  <2> DEFINE e == native.box # Nothing
  <2>1. e \in BOOLEAN /\ native' = [native EXCEPT !.entered = e]
    BY <1>2
  <2> HIDE DEF e
  <2> QED  BY <1>1, <1>2, <2>1 DEF Types, Natives, Still
<1>4. /\ agent.clear.status = "submitted" /\ agent.clear.id \in Clears /\ keyed[agent.clear.id] = 0
      /\ keyed \in [Clears -> Nat]
  BY <1>1, <1>2 DEF Control, Keyed, Typing, Types, Agents, Requests, Record, Clears
<1>5. owner' \in Owners /\ owner'.op = "drain" /\ owner'.pc = "confirm"
  BY <1>1, <1>2, Goes DEF Places, Typing
<1>6. /\ keyed' \in [Clears -> Nat] /\ keyed'[agent.clear.id] = 1
      /\ \A c \in Clears : c # agent.clear.id => keyed'[c] = keyed[c]
  BY <1>2, <1>4
<1>7. Control'
  BY <1>1, <1>2, <1>4, <1>5 DEF Control, Typing, Entering, Replacing
<1>8. Keyed'
  <2>1. \A c \in Clears : c > agent.clear.id => c # agent.clear.id
    BY <1>4 DEF Clears
  <2> QED  BY <1>1, <1>2, <1>4, <1>5, <1>6, <2>1 DEF Keyed, ClearKeyedOnce
<1> QED  BY <1>1, <1>2, <1>3, <1>5, <1>6, <1>7, <1>8, StillKeeps DEF Types

\* The composer empties, or the request is unverified.
LEMMA ConfirmClearKeeps ==
    ASSUME IInv, ConfirmClear
    PROVE  IInv'
<1>1. Types /\ World /\ Record(agent, inbox) /\ Control /\ Keyed
  BY DEF IInv
<1>2. /\ UNCHANGED <<eager, native, hooks, start, admission, witness, stop, inbox, now, keyed, began, dead>>
      /\ owner.op = "drain" /\ owner.pc = "confirm"
      /\ used' \in {used, used + 1}
      /\ \/ agent' = [agent EXCEPT !.clear.status = "continuing"] /\ Goto("deliver")
         \/ Unverify /\ Release
  BY DEF ConfirmClear, Twist, At, files, ghosts
<1>3. Still
  BY <1>1, <1>2, Untouched
<1>4. used' \in Nat
  <2>1. used \in Nat /\ used' \in {used, used + 1}
    BY <1>1, <1>2 DEF Types
  <2> QED  BY <2>1
<1>5. agent.clear.status = "submitted" /\ agent.input = "none"
  BY <1>1, <1>2 DEF Control, Typing
<1>6. CASE agent' = [agent EXCEPT !.clear.status = "continuing"] /\ Goto("deliver")
  <2>1. /\ Record(agent', inbox') /\ agent'.input = "none" /\ agent'.clear.id = agent.clear.id
        /\ agent'.clear.status = "continuing"
    BY <1>1, <1>2, <1>5, <1>6, UnverifyKept DEF Open
  <2>2. owner' \in Owners /\ owner'.op = "drain" /\ owner'.pc = "deliver"
    BY <1>1, <1>2, <1>6, Goes DEF Places
  <2>3. Control' /\ Keyed'
    BY <1>1, <1>2, <2>1, <2>2 DEF Control, Keyed, ClearKeyedOnce, Typing, Entering, Replacing
  <2> QED  BY <1>1, <1>2, <1>3, <1>4, <2>1, <2>2, <2>3, StillKeeps DEF Types
<1>7. CASE Unverify /\ Release
  <2>1. /\ Record(agent', inbox') /\ agent'.clear.id = agent.clear.id
        /\ agent'.clear.status = "unverified"
    BY <1>1, <1>2, <1>5, <1>7, UnverifyKept DEF Unverify, Open
  <2>2. Control' /\ Keyed'
    BY <1>1, <1>2, <1>7, <2>1, Leaves, LeftControl DEF Keyed, ClearKeyedOnce
  <2> QED  BY <1>1, <1>2, <1>3, <1>4, <1>7, <2>1, <2>2, Leaves, StillKeeps DEF Types
<1> QED  BY <1>2, <1>6, <1>7

\* A delivery begins; the continuation's only while its request continues.
LEMMA BeginKeeps ==
    ASSUME IInv, NEW what \in {"cont", "mail"}, Begin(what)
    PROVE  IInv'
<1>1. Types /\ World /\ Record(agent, inbox) /\ Control /\ Keyed
  BY DEF IInv
<1>2. /\ UNCHANGED <<eager, native, hooks, start, admission, witness, stop, inbox, now, used, keyed, began, dead>>
      /\ owner.op = "drain"
      /\ owner' = [owner EXCEPT !.pc = IF what = "cont" THEN "mark" ELSE "paste", !.old = witness.id]
      /\ agent' = [agent EXCEPT !.input = what]
      /\ inbox[what] = "new" /\ (what = "cont" => agent.clear.status = "continuing")
  BY DEF Begin, Draining, Due, files, ghosts
<1>3. Still
  BY <1>1, <1>2, Untouched
<1>4. /\ agent' \in Agents /\ agent'.session = agent.session /\ agent'.turn = agent.turn
      /\ agent'.done = agent.done /\ agent'.input = what /\ agent'.failed = agent.failed
      /\ agent'.clear = agent.clear
  BY <1>1, <1>2 DEF Types, Agents
<1>5. owner' \in Owners /\ owner'.op = "drain" /\ owner'.pc \in {"mark", "paste"}
  <2>1. owner \in Owners /\ witness.id \in Nat
    BY <1>1 DEF Types
  <2> QED  BY <1>2, <2>1 DEF Owners, Places, Entering, Replacing
<1>6. Cont(agent') = Cont(agent) /\ (Pending(agent') <=> Pending(agent))
  BY <1>4 DEF Cont, Pending
<1>7. Binding(agent') /\ Opened(agent') /\ (Begun(agent) => Begun(agent'))
  BY <1>1, <1>4, <1>6 DEF Record, Binding, Opened, Awaiting, Begun
<1>8. Record(agent', inbox')
  <2>1. "cont" \in {agent'.input, agent'.failed} => agent'.clear.status \in Open
    BY <1>1, <1>2, <1>4 DEF Record, Open
  <2> QED  BY <1>1, <1>2, <1>4, <1>6, <1>7, <2>1 DEF Record
<1>9. Control' /\ Keyed'
  BY <1>1, <1>2, <1>4, <1>5 DEF Control, Keyed, ClearKeyedOnce, Typing, Entering, Replacing
<1> QED  BY <1>1, <1>2, <1>3, <1>5, <1>8, <1>9, StillKeeps DEF Types

\* The owner is done.
LEMMA DrainedKeeps ==
    ASSUME IInv, Drained \/ Recovers
    PROVE  IInv'
<1>1. Types /\ World /\ Record(agent, inbox) /\ Control /\ Keyed
  BY DEF IInv
<1>2. /\ UNCHANGED <<eager, native, hooks, start, admission, witness, stop, agent, inbox, now, used, keyed, began, dead>>
      /\ Release
  BY DEF Drained, Recovers, files, ghosts
<1>3. Still
  BY <1>1, <1>2, Untouched
<1>4. Control' /\ Keyed' /\ Record(agent', inbox')
  BY <1>1, <1>2, Leaves, LeftControl DEF Keyed, ClearKeyedOnce
<1> QED  BY <1>1, <1>2, <1>3, <1>4, Leaves, StillKeeps DEF Types

\* The delivery is pasted.
LEMMA PasteKeeps ==
    ASSUME IInv, Paste
    PROVE  IInv'
<1>1. Types /\ World /\ Record(agent, inbox) /\ Control /\ Keyed
  BY DEF IInv
<1>2. /\ UNCHANGED <<eager, hooks, start, admission, witness, stop, agent, inbox, now, used, keyed, began, dead>>
      /\ owner.pc = "paste" /\ Goto("settle")
      /\ native' = [native EXCEPT !.box = Typed(Wire(agent, agent.input))]
  BY DEF Paste, files, ghosts
<1>3. Still
  <2>1. Wire(agent, agent.input) \in Texts
    <3>1. agent.clear.id \in 0..MaxClears /\ 0 \in 0..MaxClears
      BY <1>1, ClearAssumption DEF Types, Agents, Requests
    <3> QED  BY <3>1, KindIsText DEF Wire, Cont
  <2>2. Typed(Wire(agent, agent.input)) \in Texts
    BY <2>1, TypedIsText
  <2> QED  BY <1>1, <1>2, <2>2 DEF Types, Natives, Still
<1>4. owner' \in Owners /\ owner'.op = owner.op /\ owner'.pc = "settle"
  BY <1>1, <1>2, Goes DEF Places, Entering, Replacing
<1>5. Control' /\ Keyed'
  BY <1>1, <1>2, <1>4 DEF Control, Keyed, ClearKeyedOnce, Typing, Entering, Replacing
<1> QED  BY <1>1, <1>2, <1>3, <1>4, <1>5, StillKeeps DEF Types

\* The mark of a paste changes, and nothing else.
LEMMA MarkKeeps ==
    ASSUME IInv, MarkPasteOnly \/ SubmitPossible
    PROVE  IInv'
<1>1. Types /\ World /\ Record(agent, inbox) /\ Control /\ Keyed
  BY DEF IInv
<1>2. /\ UNCHANGED <<eager, native, hooks, start, admission, witness, stop, agent, now, used, keyed, began, dead>>
      /\ owner.pc \in {"mark", "possible"}
      /\ \E pc \in {"paste", "enter", "collapsed"} : Goto(pc)
      /\ inbox' \in {inbox, [inbox EXCEPT !.only = owner.old], [inbox EXCEPT !.only = 0]}
  BY DEF MarkPasteOnly, SubmitPossible, files, ghosts
<1>3. Still
  BY <1>1, <1>2, Untouched
<1>4. inbox' \in Boxes /\ inbox'.cont = inbox.cont /\ inbox'.mail = inbox.mail
  <2>1. owner.old \in Nat /\ inbox \in Boxes
    BY <1>1 DEF Types, Owners
  <2> QED  BY <1>2, <2>1 DEF Boxes
<1>5. Record(agent', inbox')
  BY <1>1, <1>2, <1>4, OnlyKept
<1>6. owner' \in Owners /\ owner'.op = owner.op /\ owner'.pc \in {"paste", "enter", "collapsed"}
  <2>1. PICK pc \in {"paste", "enter", "collapsed"} : Goto(pc)
    BY <1>2
  <2>2. pc \in Places
    BY DEF Places, Entering, Replacing
  <2> QED  BY <1>1, <2>1, <2>2, Goes
<1>7. Control' /\ Keyed'
  BY <1>1, <1>2, <1>4, <1>6 DEF Control, Keyed, ClearKeyedOnce, Typing, Entering, Replacing
<1> QED  BY <1>1, <1>2, <1>3, <1>5, <1>6, <1>7, StillKeeps DEF Types

\* A receipt is filed for the input, of a record that reconciling may have
\* changed; the input is not finished by it.
LEMMA SettleKeeps ==
    ASSUME IInv, Still, owner.pc \in Entering \ {"finish"}, UNCHANGED <<eager, keyed>>,
           now' \in Nat, used' \in Nat,
           NEW a, Record(a, inbox), a.input = agent.input, a.clear.id = agent.clear.id,
           a.clear.status = "queued" => agent.clear.status = "queued",
           NEW outcome \in {"delivered", "unverified"},
           outcome = "delivered" => witness.text = Wire(a, a.input) /\ witness.session = a.session,
           Settle(a, outcome)
    PROVE  IInv'
<1>1. Types /\ World /\ Record(agent, inbox) /\ Control /\ Keyed
  BY DEF IInv
<1>2. agent' = Filed(a, a.input, outcome) /\ inbox' = Placed(inbox, a.input, outcome) /\ Goto("finish")
  BY DEF Settle
<1>3. a.input \in {"cont", "mail"} /\ a \in Agents
  BY <1>1 DEF Control, Record, Agents
<1>4. Record(agent', inbox')
  BY <1>1, <1>2, <1>3, FiledKept
<1>5. agent'.input = a.input /\ agent'.clear = a.clear
  BY <1>2, <1>3, FiledIs
<1>6. owner' \in Owners /\ owner'.op = owner.op /\ owner'.pc = "finish"
  BY <1>1, <1>2, Goes DEF Places, Entering
<1>7. Control'
  <2>1. owner.op # "request"
    BY <1>1 DEF Control, Entering, Replacing
  <2> QED  BY <1>3, <1>5, <1>6, <2>1 DEF Control, Typing, Entering, Replacing
<1>8. Keyed'
  BY <1>1, <1>5, <1>6 DEF Keyed, ClearKeyedOnce
<1> QED  BY <1>1, <1>4, <1>6, <1>7, <1>8, StillKeeps DEF Types

\* The input ends; the request's state is saved after it.
LEMMA FinishInputKeeps ==
    ASSUME IInv, FinishInput
    PROVE  IInv'
<1>1. Types /\ World /\ Record(agent, inbox) /\ Control /\ Keyed
  BY DEF IInv
<1>2. /\ UNCHANGED <<eager, native, hooks, start, admission, witness, stop, inbox, now, used, keyed, began, dead>>
      /\ owner.pc = "finish" /\ agent' = [agent EXCEPT !.input = "none"]
      /\ Goto(IF agent.input = "cont" THEN "state" ELSE "deliver")
  BY DEF FinishInput, files, ghosts
<1>3. Still
  BY <1>1, <1>2, Untouched
<1>4. /\ agent' \in Agents /\ agent'.session = agent.session /\ agent'.turn = agent.turn
      /\ agent'.done = agent.done /\ agent'.input = "none" /\ agent'.failed = agent.failed
      /\ agent'.clear = agent.clear
  BY <1>1, <1>2 DEF Types, Agents
<1>5. Cont(agent') = Cont(agent) /\ (Pending(agent') <=> Pending(agent))
  BY <1>4 DEF Cont, Pending
<1>6. Binding(agent') /\ Opened(agent') /\ (Begun(agent) => Begun(agent'))
  BY <1>1, <1>4, <1>5 DEF Record, Binding, Opened, Awaiting, Begun
<1>7. Record(agent', inbox')
  BY <1>1, <1>2, <1>4, <1>5, <1>6 DEF Record
<1>8. /\ owner' \in Owners /\ owner'.op = owner.op
      /\ owner'.pc = IF agent.input = "cont" THEN "state" ELSE "deliver"
  BY <1>1, <1>2, Goes DEF Places
<1>9. agent.input = "cont" => agent'.clear.status \in Open
  BY <1>1, <1>4 DEF Record
<1>10. Control' /\ Keyed'
  BY <1>1, <1>2, <1>4, <1>8, <1>9 DEF Control, Keyed, ClearKeyedOnce, Typing, Entering, Replacing
<1> QED  BY <1>1, <1>2, <1>3, <1>7, <1>8, <1>10, StillKeeps DEF Types

\* The request is completed by a delivered continuation, or unverified.
LEMMA ClearStateKeeps ==
    ASSUME IInv, ClearState
    PROVE  IInv'
<1>1. Types /\ World /\ Record(agent, inbox) /\ Control /\ Keyed
  BY DEF IInv
<1>2. /\ UNCHANGED <<eager, native, hooks, start, admission, witness, stop, inbox, now, used, keyed, began, dead>>
      /\ owner.pc = "state" /\ Goto("deliver")
      /\ agent' = Stated(agent, IF inbox.cont = "cur" THEN "delivered" ELSE "unverified")
  BY DEF ClearState, files, ghosts
<1>3. Still
  BY <1>1, <1>2, Untouched
<1>4. agent \in Agents /\ agent.input = "none" /\ agent.clear.status \in Open
  BY <1>1, <1>2 DEF Types, Control
<1>5. /\ agent' \in Agents /\ agent'.session = agent.session /\ agent'.turn = agent.turn
      /\ agent'.done = agent.done /\ agent'.input = "none" /\ agent'.failed = agent.failed
      /\ agent'.clear.id = agent.clear.id
      /\ agent'.clear.status = IF inbox.cont = "cur" THEN "completed" ELSE "unverified"
  <2> DEFINE t == IF inbox.cont = "cur" THEN "completed" ELSE "unverified"
  <2>1. t \in Statuses /\ agent' = [agent EXCEPT !.clear.status = t]
    BY <1>2 DEF Stated, Statuses
  <2> HIDE DEF t
  <2>2. /\ agent' \in Agents /\ agent'.session = agent.session /\ agent'.turn = agent.turn
        /\ agent'.done = agent.done /\ agent'.input = agent.input /\ agent'.failed = agent.failed
        /\ agent'.clear.id = agent.clear.id /\ agent'.clear.status = t
    BY <1>4, <2>1, SMT DEF Agents, Requests
  <2> QED  BY <1>4, <2>2 DEF t
<1>6. Cont(agent') = Cont(agent)
  BY <1>5 DEF Cont
<1>7. Record(agent', inbox')
  <2>1. CASE inbox.cont = "cur"
    <3>1. /\ Pending(agent) /\ ~Pending(agent')
          /\ start.clear = agent.clear.id /\ start.session = agent.session
          /\ \A h \in hooks : h.kind = "submit" /\ h.pc = "write" => h.text # Cont(agent)
          /\ Taken(Cont(agent), agent.session)
      BY <1>1, <1>4, <1>5, <2>1 DEF Record, Begun, Pending, Open
    <3>2. ~Awaiting(agent)
      BY <3>1 DEF Awaiting, Taken, NoneIn, Through, Gone
    <3>3. Binding(agent') /\ Opened(agent') /\ Begun(agent')
      BY <1>1, <1>6, <3>1, <3>2 DEF Record, Binding, Opened, Begun
    <3>4. agent'.failed # "cont"
      BY <1>1, <1>5, <2>1 DEF Record
    <3> QED  BY <1>1, <1>2, <1>4, <1>5, <1>6, <2>1, <3>1, <3>3, <3>4 DEF Record, Open
  <2>2. CASE inbox.cont # "cur"
    <3>1. agent'.clear.status \in Open /\ agent'.failed \in {"none", agent.failed}
      BY <1>5, <2>2 DEF Open
    <3>2. inbox' \in Boxes /\ inbox'.mail = inbox.mail /\ inbox'.cont = inbox.cont
      BY <1>1, <1>2 DEF Types
    <3> QED  BY <1>1, <1>4, <1>5, <3>1, <3>2, OpenKept
  <2> QED  BY <2>1, <2>2
<1>8. owner' \in Owners /\ owner'.op = owner.op /\ owner'.pc = "deliver"
  BY <1>1, <1>2, Goes DEF Places
<1>9. Control' /\ Keyed'
  BY <1>1, <1>2, <1>4, <1>5, <1>8 DEF Control, Keyed, ClearKeyedOnce, Typing, Entering, Replacing
<1> QED  BY <1>1, <1>2, <1>3, <1>7, <1>8, <1>9, StillKeeps DEF Types

\* What is read before the next step lets it happen, or is a receipt.
LEMMA ReadsKeep ==
    ASSUME IInv, SettlePaste \/ ReadCollapsed \/ ReadEmpty
    PROVE  IInv'
<1>1. Types /\ World /\ Record(agent, inbox) /\ Control /\ Keyed
  BY DEF IInv
<1>2. /\ UNCHANGED <<eager, native, hooks, start, admission, witness, stop, now, used, keyed, began, dead>>
      /\ owner.pc \in {"settle", "collapsed", "empty"}
      /\ \/ /\ agent' = agent /\ inbox' \in {inbox, [inbox EXCEPT !.only = 0]}
            /\ \E pc \in {"enter", "wipe", "paste"} : Goto(pc)
         \/ Settle(agent, "unverified")
  BY DEF SettlePaste, ReadCollapsed, ReadEmpty, files, ghosts
<1>3. Still
  BY <1>1, <1>2, Untouched
<1>4. owner.pc \in Entering \ {"finish"}
  BY <1>2 DEF Entering, Replacing
<1>5. CASE Settle(agent, "unverified")
  <2>1. now' \in Nat /\ used' \in Nat
    BY <1>1, <1>2 DEF Types
  <2> QED  BY <1>1, <1>2, <1>3, <1>4, <1>5, <2>1, SettleKeeps
<1>6. ASSUME agent' = agent, inbox' \in {inbox, [inbox EXCEPT !.only = 0]},
             NEW pc \in {"enter", "wipe", "paste"}, Goto(pc)
      PROVE  IInv'
  <2>1. inbox' \in Boxes /\ inbox'.cont = inbox.cont /\ inbox'.mail = inbox.mail
    BY <1>1, <1>6 DEF Types, Boxes
  <2>2. Record(agent', inbox')
    BY <1>1, <1>6, <2>1, OnlyKept
  <2>3. pc \in Places
    BY DEF Places, Entering, Replacing
  <2>4. owner' \in Owners /\ owner'.op = owner.op /\ owner'.pc = pc
    BY <1>1, <1>6, <2>3, Goes
  <2>5. Control' /\ Keyed'
    BY <1>1, <1>2, <1>4, <1>6, <2>1, <2>4 DEF Control, Keyed, ClearKeyedOnce, Typing, Entering, Replacing
  <2> QED  BY <1>1, <1>2, <1>3, <2>2, <2>4, <2>5, StillKeeps DEF Types
<1> QED  BY <1>2, <1>5, <1>6

\* Enter submits what the composer holds by then; recovery may clear it first.
LEMMA EnterKeeps ==
    ASSUME IInv, Enter \/ Wipe
    PROVE  IInv'
<1>1. Types /\ World /\ Record(agent, inbox) /\ Control /\ Keyed
  BY DEF IInv
<1>2. /\ UNCHANGED <<eager, hooks, start, admission, witness, stop, agent, inbox, now, used, keyed, began, dead>>
      /\ owner.pc \in {"enter", "wipe"} /\ (Goto("await") \/ Goto("empty"))
      /\ \/ \E e \in BOOLEAN : native' = [native EXCEPT !.entered = e]
         \/ native' = [native EXCEPT !.box = Nothing]
  BY DEF Enter, Wipe, files, ghosts
<1>3. Still
  BY <1>1, <1>2, NothingIsText DEF Types, Natives, Still
<1>4. owner' \in Owners /\ owner'.op = owner.op /\ owner'.pc \in {"await", "empty"}
  BY <1>1, <1>2, Goes DEF Places, Entering, Replacing
<1>5. Control' /\ Keyed'
  BY <1>1, <1>2, <1>4 DEF Control, Keyed, ClearKeyedOnce, Typing, Entering, Replacing
<1> QED  BY <1>1, <1>2, <1>3, <1>4, <1>5, StillKeeps DEF Types

\* A witness answers; only exact proof of this conversation delivers.
LEMMA AwaitReceiptKeeps ==
    ASSUME IInv, AwaitReceipt
    PROVE  IInv'
<1> DEFINE a == IF witness.text = Wire(agent, agent.input) THEN Reconciled(agent, inbox) ELSE agent
           b == [a EXCEPT !.turn = witness.id]
<1>1. Types /\ World /\ Record(agent, inbox) /\ Control /\ Keyed
  BY DEF IInv
<1>2. /\ UNCHANGED <<eager, native, hooks, start, admission, witness, stop, now, used, keyed, began, dead>>
      /\ owner.pc = "await"
      /\ (Proof(a) /\ Settle(b, "delivered")) \/ Settle(a, "unverified")
  BY DEF AwaitReceipt, files, ghosts
<1>3. Still
  BY <1>1, <1>2, Untouched
<1>4. owner.pc \in Entering \ {"finish"} /\ now' \in Nat /\ used' \in Nat
  BY <1>1, <1>2 DEF Entering, Types
<1>5. /\ Record(a, inbox) /\ a.clear.id = agent.clear.id /\ a.input = agent.input
      /\ a.clear.status = "queued" => agent.clear.status = "queued"
  <2>1. agent.input = "cont" => inbox.cont # "cur"
    BY <1>1, <1>4 DEF Control
  <2> QED  BY <1>1, <2>1, ReconciledKept
<1> HIDE DEF a
<1>6. a \in Agents
  BY <1>5 DEF Record
<1>7. CASE Settle(a, "unverified")
  BY <1>2, <1>3, <1>4, <1>5, <1>7, SettleKeeps
<1>8. CASE Proof(a) /\ Settle(b, "delivered")
  <2>1. /\ b \in Agents /\ b.session = a.session /\ b.done = a.done /\ b.clear = a.clear
        /\ b.input = a.input /\ b.failed = a.failed /\ b.turn = witness.id
    BY <1>1, <1>6 DEF Agents, Types
  <2> HIDE DEF b
  <2>2. Cont(b) = Cont(a) /\ (Pending(b) <=> Pending(a)) /\ Wire(b, b.input) = Wire(a, a.input)
    BY <2>1 DEF Cont, Pending, Wire
  <2>3. Binding(b) /\ Opened(b) /\ (Begun(a) => Begun(b))
    BY <1>5, <2>1, <2>2 DEF Record, Binding, Opened, Awaiting, Begun
  <2>4. Own(b.turn, b.session)
    BY <1>1, <1>8, <2>1 DEF World, Seen, Proof
  <2>5. Record(b, inbox)
    BY <1>5, <2>1, <2>2, <2>3, <2>4 DEF Record
  <2>6. witness.text = Wire(b, b.input) /\ witness.session = b.session
    BY <1>8, <2>1, <2>2 DEF Proof
  <2> QED  BY <1>2, <1>3, <1>4, <1>5, <1>8, <2>1, <2>5, <2>6, SettleKeeps
<1> QED  BY <1>2, <1>7, <1>8

\* No witness came: the input is unverified.
LEMMA AwaitTimesOutKeeps ==
    ASSUME IInv, AwaitTimesOut
    PROVE  IInv'
<1>1. Types /\ World /\ Record(agent, inbox) /\ Control /\ Keyed
  BY DEF IInv
<1>2. /\ UNCHANGED <<eager, native, hooks, start, admission, witness, stop, now, keyed, began, dead>>
      /\ owner.pc = "await" /\ Settle(agent, "unverified")
      /\ used' \in {used, used + 1}
  BY DEF AwaitTimesOut, files, ghosts
<1>3. Still
  BY <1>1, <1>2, Untouched
<1>4. now' \in Nat /\ used' \in Nat
  <2>1. used \in Nat /\ used' \in {used, used + 1}
    BY <1>1, <1>2 DEF Types
  <2> QED  BY <1>1, <1>2, <2>1 DEF Types
<1>5. owner.pc \in Entering \ {"finish"}
  BY <1>2 DEF Entering
<1> QED  BY <1>1, <1>2, <1>3, <1>4, <1>5, SettleKeeps

\* A recovery states that the request continues.
LEMMA RecoverKeeps ==
    ASSUME IInv, NEW way \in Ways, Recover(way)
    PROVE  IInv'
<1>1. Types /\ World /\ Record(agent, inbox) /\ Control /\ Keyed
  BY DEF IInv
<1>2. /\ UNCHANGED <<eager, native, hooks, start, admission, witness, stop, inbox, now, used, keyed, began, dead>>
      /\ owner.op = "recover" /\ owner.pc = "check" /\ agent.clear.status \in {"unverified", "continuing"}
      /\ agent' = [agent EXCEPT !.clear.status = "continuing"]
      /\ owner' = [owner EXCEPT !.pc = "reopen", !.old = witness.id, !.way = way]
  BY DEF Recover, Recoverable, At, files, ghosts
<1>3. Still
  BY <1>1, <1>2, Untouched
<1>4. agent \in Agents /\ owner \in Owners /\ witness.id \in Nat /\ "continuing" \in Statuses
  BY <1>1 DEF Types, Statuses
<1>5. /\ agent' \in Agents /\ agent'.session = agent.session /\ agent'.turn = agent.turn
      /\ agent'.done = agent.done /\ agent'.input = agent.input /\ agent'.failed = agent.failed
      /\ agent'.clear.id = agent.clear.id /\ agent'.clear.status = "continuing"
  BY <1>2, <1>4, SMT DEF Agents, Requests
<1>6. Record(agent', inbox')
  <2>1. agent.clear.status \in Open \cup {"queued"} /\ agent'.clear.status \in Open
    BY <1>2, <1>5 DEF Open
  <2>2. /\ agent'.failed \in {"none", agent.failed}
        /\ inbox' \in Boxes /\ inbox'.mail = inbox.mail /\ inbox'.cont = inbox.cont
    BY <1>1, <1>2, <1>5 DEF Types
  <2> QED  BY <1>1, <1>5, <2>1, <2>2, OpenKept
<1>7. owner' \in Owners /\ owner'.op = "recover" /\ owner'.pc = "reopen"
  BY <1>2, <1>4 DEF Owners, Places
<1>8. agent'.input = "none" /\ agent'.clear.status \in Open
  BY <1>1, <1>2, <1>5 DEF Control, Open
<1>9. Control' /\ Keyed'
  BY <1>1, <1>2, <1>5, <1>7, <1>8 DEF Control, Keyed, ClearKeyedOnce, Typing, Entering, Replacing
<1> QED  BY <1>1, <1>2, <1>3, <1>6, <1>7, <1>9, StillKeeps DEF Types

\* Its continuation is the input again.
LEMMA ReopenKeeps ==
    ASSUME IInv, Reopen
    PROVE  IInv'
<1>1. Types /\ World /\ Record(agent, inbox) /\ Control /\ Keyed
  BY DEF IInv
<1>2. /\ UNCHANGED <<eager, native, hooks, start, admission, witness, stop, now, used, keyed, began, dead>>
      /\ owner.pc = "reopen" /\ (Goto("empty") \/ Goto("possible"))
      /\ agent' = [agent EXCEPT !.input = "cont", !.failed = "none"]
      /\ inbox' = [inbox EXCEPT !.cont = "new"]
  BY DEF Reopen, files, ghosts
<1>3. Still
  BY <1>1, <1>2, Untouched
<1>4. /\ agent' \in Agents /\ agent'.session = agent.session /\ agent'.turn = agent.turn
      /\ agent'.done = agent.done /\ agent'.input = "cont" /\ agent'.failed = "none"
      /\ agent'.clear = agent.clear /\ agent.clear.status \in Open
  BY <1>1, <1>2 DEF Types, Agents, Control
<1>5. inbox' \in Boxes /\ inbox'.mail = inbox.mail /\ inbox'.cont = "new"
  BY <1>1, <1>2 DEF Types, Boxes
<1>6. Record(agent', inbox')
  BY <1>1, <1>4, <1>5, OpenKept
<1>7. owner' \in Owners /\ owner'.op = owner.op /\ owner'.pc \in {"empty", "possible"}
  BY <1>1, <1>2, Goes DEF Places, Entering, Replacing
<1>8. Control' /\ Keyed'
  BY <1>1, <1>2, <1>4, <1>5, <1>7 DEF Control, Keyed, ClearKeyedOnce, Typing, Entering, Replacing
<1> QED  BY <1>1, <1>2, <1>3, <1>6, <1>7, <1>8, StillKeeps DEF Types

-----------------------------------------------------------------------------
(* The inductive invariant, and what follows from it.                        *)

\* The first turn, with its hooks' records, satisfies it.
LEMMA Initial ==
    ASSUME Init
    PROVE  IInv
<1> DEFINE first == [id |-> 1, session |-> 1, text |-> Text("typed", 0)]
<1>1. Types
  <2>1. Text("typed", 0) \in Texts /\ 0 \in 0..MaxClears
    BY ClearAssumption, KindIsText
  <2>2. native \in Natives
    BY <2>1, NothingIsText DEF Init, Natives
  <2>3. agent \in Agents /\ inbox \in Boxes /\ owner \in Owners
    BY <2>1 DEF Init, Agents, Requests, NoClear, Statuses, Boxes, Owners, NoOwner, Places
  <2>4. keyed \in [Clears -> Nat]
    BY DEF Init
  <2>5. start \in [session : Nat, source : {"none", "startup", "clear"}, clear : 0..MaxClears, at : Nat]
    BY <2>1 DEF Init
  <2>6. witness \in [id : Nat, session : Nat, text : Texts] /\ stop \in [id : Nat, session : Nat]
    BY <2>1 DEF Init
  <2>7. began \subseteq [id : Nat, session : Nat, text : Texts]
    BY <2>1 DEF Init
  <2>8. admission \in 0..MaxClears /\ now \in Nat /\ used \in Nat /\ dead \in BOOLEAN /\ eager \in BOOLEAN
    BY <2>1 DEF Init
  <2> QED  BY <2>2, <2>3, <2>4, <2>5, <2>6, <2>7, <2>8 DEF Init, Types
<1>2. /\ native.session = 1 /\ native.phase = "running" /\ ~native.fresh /\ native.prompts = 1
      /\ hooks = {} /\ began = {first} /\ first.id = 1 /\ first.session = 1 /\ first.text.kind = "typed"
      /\ start.session = 1 /\ start.clear = 0 /\ admission = 0
      /\ witness.id = 1 /\ witness.session = 1 /\ witness.text.kind = "typed"
      /\ stop.id = 0 /\ stop.session = 1
      /\ agent.session = 1 /\ agent.turn = 1 /\ agent.done = 0 /\ agent.input = "none"
      /\ agent.failed = "none" /\ agent.clear = NoClear
      /\ inbox.cont = "none" /\ owner.op = "none" /\ owner.pc = "none"
      /\ keyed = [c \in Clears |-> 0]
  BY DEF Init, NoOwner, Text
<1> HIDE DEF first
<1>3. Own(1, 1) /\ Own(0, 1)
  BY <1>2 DEF Own
<1>4. Prompted /\ Hooked /\ Seen
  BY <1>2, <1>3 DEF Prompted, Hooked, Seen, NoneIn
<1>5. Admitted
  BY <1>2 DEF Admitted
<1>6. Record(agent, inbox)
  BY <1>1, <1>2, <1>3 DEF Types, Record, Binding, Opened, NoClear, Cont, Text, Pending
<1>7. Control /\ Keyed
  BY <1>2 DEF Control, Keyed, ClearKeyedOnce, NoClear, Typing, Entering, Replacing
<1> QED  BY <1>1, <1>4, <1>5, <1>6, <1>7 DEF IInv, World

\* Every step keeps it.
LEMMA Inductive ==
    ASSUME IInv, [Next]_vars
    PROVE  IInv'
<1>1. Types /\ World /\ Record(agent, inbox) /\ Control /\ Keyed
  BY DEF IInv
<1>2. ASSUME UNCHANGED <<agent, inbox, owner, keyed>>, Types', World', Record(agent, inbox)'
      PROVE  IInv'
  BY <1>1, <1>2 DEF IInv, Control, Keyed, ClearKeyedOnce
<1>3. CASE NativeStep
  <2>1. UNCHANGED <<agent, inbox, owner, keyed>>
    BY <1>3 DEF NativeStep, Take, Started, TurnBegins, TurnEnds, ghosts
  <2> QED  BY <1>1, <1>2, <1>3, <2>1, TakeKeeps, StartedKeeps, TurnBeginsKeeps, TurnEndsKeeps
           DEF NativeStep
<1>4. ASSUME NEW h \in hooks, HookStep(h) \/ HookDies(h)
      PROVE  IInv'
  <2>1. UNCHANGED <<agent, inbox, owner, keyed>>
    BY <1>4 DEF HookStep, HookReads, Admit, WriteWitness, WriteSessionStart, WriteStop, HookDies, ghosts
  <2> QED  BY <1>1, <1>2, <1>4, <2>1, HookReadsKeeps, AdmitKeeps, WriteWitnessKeeps,
              WriteSessionStartKeeps, WriteStopKeeps, HookDiesKeeps DEF HookStep
<1>5. CASE OwnerStep
  BY <1>5, RequestKeeps, PublishRequestKeeps, ReserveClearKeeps, TypeClearKeeps, ReadBackKeeps,
     PressClearKeeps, ConfirmClearKeeps, BeginKeeps, DrainedKeeps, PasteKeeps, MarkKeeps, ReadsKeep,
     EnterKeeps, AwaitReceiptKeeps, AwaitTimesOutKeeps, FinishInputKeeps, ClearStateKeeps, RecoverKeeps,
     ReopenKeeps DEF OwnerStep
<1>6. CASE UNCHANGED vars
  <2>1. Still /\ UNCHANGED <<agent, inbox, owner, keyed, now, used, eager>>
    BY <1>1, <1>6, Untouched DEF vars
  <2>2. Control' /\ Keyed'
    BY <1>1, <2>1 DEF Control, Keyed, ClearKeyedOnce
  <2> QED  BY <1>1, <2>1, <2>2, StillKeeps DEF Types
<1> QED  BY <1>3, <1>4, <1>5, <1>6, OperatorKeeps, SendKeeps, OwnerDiesKeeps, AcquireKeeps DEF Next

\* So it always holds.
LEMMA Always == Spec => []IInv
<1>1. Init => IInv
  BY Initial
<1>2. IInv /\ [Next]_vars => IInv'
  BY Inductive
<1> QED  BY <1>1, <1>2, PTL DEF Spec

\* A request enters /clear at most once, and its continuation begins one turn
\* at most unless its hook died, whoever dies and whatever the operator enters
\* (clear.go:115, 147): admission is monotone, and a continuation that was not
\* admitted began no turn.
THEOREM HappensOnce == Spec => []OnceEach
<1>1. IInv => OnceEach
  <2> SUFFICES ASSUME IInv PROVE OnceEach
    OBVIOUS
  <2>1. ClearKeyedOnce
    BY DEF IInv, Keyed
  <2>2. ASSUME ~dead, NEW c \in Clears PROVE Cardinality(Turned(c)) <= 1
    <3>1. \A b, d \in Turned(c) : b = d
      BY <2>2 DEF IInv, World, Admitted, Turned, Text
    <3>2. CASE Turned(c) = {}
      BY <3>2, FS_EmptySet
    <3>3. CASE Turned(c) # {}
      <4>1. PICK b : Turned(c) = {b}
        BY <3>1, <3>3
      <4>2. Cardinality({b}) = 1
        BY FS_Singleton
      <4>3. Cardinality(Turned(c)) = 1
        BY <4>1, <4>2
      <4> QED  BY <4>3
    <3> QED  BY <3>2, <3>3
  <2> QED  BY <2>1, <2>2 DEF OnceEach, ContinuedOnce
<1> QED  BY <1>1, Always, PTL

\* Every variable keeps its type; a conversation bound to a request begins with
\* its continuation, unless a hook died; a completed request's continuation is
\* a turn of the agent's conversation; and what the record says of turns is of
\* that conversation (clear.go:335, events.go:119).
THEOREM ConversationIsItsOwn == Spec => []OwnConversation
<1>1. IInv => OwnConversation
  <2> SUFFICES ASSUME IInv PROVE OwnConversation
    OBVIOUS
  <2>1. TypeOK
    BY DEF IInv, Types, Natives, Agents, Requests, Statuses, Boxes, Record, TypeOK
  <2>2. FirstIsContinuation
    BY DEF IInv, Record, Opened, First, Beginning, Awaiting, NoneIn, FirstIsContinuation
  <2>3. CompletedIsReal
    BY DEF IInv, Record, Taken, Turned, Cont, CompletedIsReal
  <2>4. TurnsAreOwn
    BY DEF IInv, Record, Own, TurnsAreOwn
  <2> QED  BY <2>1, <2>2, <2>3, <2>4 DEF OwnConversation
<1> QED  BY <1>1, Always, PTL

=============================================================================
