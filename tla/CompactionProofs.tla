--------------------------- MODULE CompactionProofs ---------------------------
(* Proofs about compactions: the note that resumes the work is entered and     *)
(* admitted once and holds no queue for ever, what is told of a failure is     *)
(* true, and a compaction ends with its own native end.                        *)
EXTENDS Compaction, TLAPS

-----------------------------------------------------------------------------
(* Types.                                                                    *)

Statuses == {"none", "queued", "submitted", "unverified", "completed", "failed"}
Times == 0 .. MaxTime
Comps == [id : Ids \cup {None}, status : Statuses, start : Times, done : Times,
          cont : BOOLEAN, admitted : BOOLEAN, recovered : BOOLEAN, before : Nat, staged : BOOLEAN]
Places == {"none", "new", "accepted", "unverified", "delivered", "cancelled"}
Queued == {"command", "note", "altered"} \X Ids
Screens == [work : {"idle", "busy", "compacting"}, composer : Texts, queue : SUBSET Queued, refusals : Nat]
HookRecords == [kind : {"note", "altered", "witness", "finished", "record"}, id : Ids \cup {None},
                at : Times]
Histories == [ran : SUBSET Ids, pasted : SUBSET Ids, again : SUBSET Ids, admitted : SUBSET Ids,
              twice : SUBSET Ids, ended : Times, lied : SUBSET Ids, misled : SUBSET Ids,
              seen : SUBSET Ids, since : Times]

Staging == {"pasteCommand", "readback", "abort", "defer", "enterCommand"}
Entering == {"pasteNote", "noteText", "enterNote", "finishNote"}
Firsts == {"request", "records", "interrupt", "admit"}
Rests == {"unlock", "drain", "start"}
Steps == {"free", "submitted", "publish", "reserve", "await", "settle", "observe", "escape", "escaped",
          "fail", "cancel", "notice", "requester"}
             \cup Staging \cup Entering \cup Firsts \cup Rests
Holders == [pc : Steps, task : {"none", "compact", "tick", "interrupt", "note", "altered"},
            id : Ids \cup {None}, phase : Phases, next : Firsts \cup Rests]

Types ==
    /\ comp \in Comps /\ input \in {"none", "compaction", "recovery", "note"}
    /\ note \in [Ids -> Places]
    /\ notices \subseteq Ids \X Phases /\ told \subseteq Ids
    /\ witness \in Times /\ confirmed \in Times /\ records \in Times /\ time \in Times
    /\ submitted \in Ids \cup {None}
    /\ screen \in Screens
    /\ hooks \subseteq HookRecords
    /\ \A h \in hooks : h.kind \in {"note", "altered", "witness"} => h.id \in Ids
    /\ holder \in Holders
    /\ history \in Histories
    /\ unused \subseteq Ids
    /\ acts \in Nat /\ crashes \in Nat /\ faults \in Nat

-----------------------------------------------------------------------------
(* Identifiers and texts.                                                    *)

\* An identifier that no compaction has is not about.
Named ==
    /\ comp.status = "none" <=> comp.id = None
    /\ comp.id \notin unused
    /\ \A i \in unused : /\ note[i] = "none" /\ i \notin history.ran /\ i \notin history.pasted
                         /\ screen.composer # Command(i) /\ Command(i) \notin screen.queue

\* A note's text, as it was or altered, is of a note that was pasted.
Texted ==
    /\ \A i \in Ids : /\ screen.composer \in {Note(i), Altered(i)} => i \in history.pasted
                      /\ Note(i) \in screen.queue => i \in history.pasted
                      /\ Altered(i) \in screen.queue => i \in history.pasted
    /\ \A h \in hooks : h.kind \in {"note", "altered"} => h.id \in history.pasted
    /\ holder.task \in {"note", "altered"} => holder.id \in history.pasted

-----------------------------------------------------------------------------
(* The holder of the lock.                                                   *)

Control ==
    /\ holder.pc \in Staging \cup {"submitted"} => comp.status = "queued" /\ input = "compaction"
    /\ holder.pc \in {"publish", "reserve", "await"} => comp.status = "submitted" /\ input = "none"
    /\ holder.pc = "publish" => note[comp.id] = "none"
    /\ holder.pc \in {"reserve", "await"} \cup Entering => note[comp.id] = "new"
    /\ holder.pc \in {"await"} \cup Entering => comp.cont
    /\ holder.pc \in Entering => comp.status \in {"submitted", "completed"} /\ ~comp.admitted
    /\ holder.pc \in Entering \ {"pasteNote"} => input = "note"
    /\ holder.pc \in {"pasteNote", "settle", "observe", "cancel", "notice", "requester"} \cup Firsts \cup Rests
           => input = "none"
    /\ holder.pc \in {"escape", "escaped"} => input = "recovery"
    /\ holder.pc = "fail" => input \in {"none", "compaction"} /\ comp.status \notin {"none", "failed"}
    /\ holder.pc \in {"cancel", "notice", "requester"} => comp.status = "failed"
    /\ "admit" \in {holder.pc, holder.next} => holder.task \in {"note", "altered"}
    /\ input = "compaction" => comp.status = "queued"
    /\ input = "recovery" => InFlight(comp)
    /\ input = "note" => comp.id \in Ids
    /\ holder.pc = "free" => holder = Idle

-----------------------------------------------------------------------------
(* The note.                                                                 *)

\* A note that was pasted left the queue, or its input is still recorded; it is
\* the reserved note of its compaction. Before that nothing admits it.
Reserved ==
    /\ \A i \in history.pasted : note[i] = "new" =>
           comp.id = i /\ input = "note" /\ holder.pc \in {"enterNote", "finishNote", "free"}
    /\ \A i \in history.pasted : note[i] # "none"
    /\ comp.id \in history.pasted => comp.cont
    /\ comp.status = "queued" => comp.id \notin history.pasted /\ note[comp.id] = "none"
    /\ history.admitted \subseteq history.pasted
    /\ comp.admitted <=> comp.id \in history.admitted
    /\ NoteOnce

\* Without a crash, a note in the queue is the one that the holder is entering
\* or withdraws.
Unstranded ==
    crashes = 0 => \A i \in Ids : note[i] = "new" =>
        comp.id = i /\ holder.pc \in {"reserve", "await", "fail", "cancel"} \cup Entering

-----------------------------------------------------------------------------
(* The end of a compaction.                                                  *)

Timed ==
    /\ history.ended = time /\ history.since <= time
    /\ witness <= time /\ records <= time /\ confirmed <= time
    /\ comp.start <= time /\ comp.done <= time
    /\ \A h \in hooks : h.at <= time
    /\ InFlight(comp) \/ comp.status = "completed" \/ input = "compaction" => comp.start = history.since
    /\ comp.status = "completed" => Done(comp)
    /\ (InFlight(comp) \/ input = "compaction") /\ confirmed > comp.start => Done(comp)

-----------------------------------------------------------------------------
(* The native program, when nobody else is at the keyboard.                  *)

Unrun(i) == i \notin history.ran /\ Command(i) \notin screen.queue
Typed ==
    /\ holder.pc \in {"pasteCommand", "pasteNote", "noteText"} => screen.composer = Empty
    /\ holder.pc = "enterCommand" => screen.composer = Command(comp.id)
    /\ holder.pc = "enterNote" => screen.composer = Note(comp.id)
    /\ comp.status = "queued" /\ input # "compaction" => Unrun(comp.id)
    /\ holder.pc \in Staging => Unrun(comp.id) /\ screen.refusals = comp.before
    /\ (InFlight(comp) \/ input = "compaction") /\ screen.refusals > comp.before =>
           Unrun(comp.id) /\ comp.id \notin history.pasted
    /\ holder.pc \in Entering /\ InFlight(comp) => screen.refusals <= comp.before
    /\ holder.pc = "fail" /\ holder.phase = "not run" => Unrun(comp.id)
    /\ holder.pc = "fail" => comp.id \notin history.admitted
    /\ history.lied = {} /\ history.misled = {}
Alone == acts = 0 => Typed

-----------------------------------------------------------------------------
(* What is told.                                                             *)

Noticed == \E p \in Phases : <<comp.id, p>> \in notices
Telling ==
    crashes = 0 =>
        /\ holder.pc = "requester" => Noticed
        /\ /\ comp.status = "failed" /\ holder.pc \notin {"cancel", "notice", "requester"}
           /\ note[comp.id] # "delivered"
           => Noticed /\ comp.id \in told \cup history.seen

IInv == Types /\ Named /\ Texted /\ Control /\ Reserved /\ Unstranded /\ Timed /\ Alone /\ Telling

-----------------------------------------------------------------------------
(* Texts and Enter.                                                          *)

\* A text is nothing, the operator's own, a command or a note of one
\* compaction, and these differ.
LEMMA TextKinds ==
    /\ \A t \in Texts : \/ t = Empty \/ t = Other
                        \/ \E i \in Ids : t \in {Command(i), Note(i), Altered(i)}
    /\ {Empty, Other} \subseteq Texts
    /\ \A i \in Ids : {Command(i), Note(i), Altered(i)} \subseteq Texts
    /\ Empty # Other
    /\ \A i, j : /\ Command(i) \notin {Empty, Other, Note(j), Altered(j)}
                 /\ Note(i) \notin {Empty, Other, Altered(j)}
                 /\ Altered(i) \notin {Empty, Other}
                 /\ Command(i) = Command(j) <=> i = j
                 /\ Note(i) = Note(j) <=> i = j
                 /\ Altered(i) = Altered(j) <=> i = j
                 /\ Command(i)[1] = "command" /\ Command(i)[2] = i
                 /\ Note(i)[1] = "note" /\ Note(i)[2] = i
                 /\ Altered(i)[1] = "altered" /\ Altered(i)[2] = i
    /\ Empty[1] = "empty" /\ Other[1] = "other"
    /\ \A t \in Queued : \E i \in Ids : t \in {Command(i), Note(i), Altered(i)}
    /\ Queued \subseteq Texts /\ Texts \subseteq Queued \cup {Empty, Other}
BY DEF Texts, Queued, Empty, Other, Command, Note, Altered

\* Enter, by what the composer holds.
LEMMA EnterDoes ==
    ASSUME Types, Enter
    PROVE  /\ screen' \in Screens /\ history' \in Histories
           /\ screen'.composer \in {Empty, screen.composer}
           /\ screen'.queue \subseteq screen.queue \cup {screen.composer}
           /\ \/ hooks' = hooks
              \/ \E i \in Ids : /\ screen.composer \in {Note(i), Altered(i)}
                                /\ hooks' = hooks \cup {Submitted(screen.composer)}
           /\ \/ history' = history
              \/ \E i \in Ids : /\ screen.composer = Command(i)
                                /\ history' = [history EXCEPT !.ran = @ \cup {i}]
           /\ \/ screen'.refusals = screen.refusals
              \/ /\ screen'.refusals = screen.refusals + 1
                 /\ screen'.queue = screen.queue /\ history' = history
           /\ \A i \in Ids : screen.composer = Note(i) =>
                 screen'.refusals = screen.refusals /\ history' = history
<1> DEFINE t == screen.composer
<1> DEFINE gone == [screen EXCEPT !.composer = Empty]
<1> DEFINE behind == [gone EXCEPT !.queue = @ \cup {t}]
<1>1. /\ screen \in Screens /\ t \in Texts /\ history \in Histories
  BY DEF Types, Screens
<1>2. /\ gone \in Screens /\ gone.composer = Empty /\ gone.queue = screen.queue
      /\ gone.refusals = screen.refusals
  BY <1>1, TextKinds DEF Screens
<1>3. /\ t \notin {Empty, Other} => behind \in Screens
      /\ behind.composer = Empty /\ behind.queue = screen.queue \cup {t}
      /\ behind.refusals = screen.refusals
  <2> HIDE DEF gone, t
  <2>1. t \notin {Empty, Other} => t \in Queued
    BY <1>1, TextKinds
  <2> QED  BY <1>2, <2>1 DEF Screens
<1>4. CASE t = Empty
  <2>1. UNCHANGED <<screen, hooks, history>>
    BY <1>4, TextKinds DEF Enter
  <2> QED  BY <2>1, <1>1
<1>5. CASE t = Other
  <2>1. screen' = [gone EXCEPT !.work = IF @ = "idle" THEN "busy" ELSE @] /\ UNCHANGED <<hooks, history>>
    BY <1>5, TextKinds DEF Enter
  <2> HIDE DEF gone
  <2>2. /\ screen' \in Screens /\ screen'.composer = Empty /\ screen'.queue = screen.queue
        /\ screen'.refusals = screen.refusals
    BY <1>2, <2>1 DEF Screens
  <2> QED  BY <1>1, <2>1, <2>2
<1>6. ASSUME NEW i \in Ids, t = Command(i)
      PROVE  /\ screen' \in Screens /\ history' \in Histories /\ hooks' = hooks
             /\ screen'.composer = Empty /\ screen'.queue \subseteq screen.queue \cup {t}
             /\ \/ history' = history
                \/ history' = [history EXCEPT !.ran = @ \cup {i}]
             /\ \/ screen'.refusals = screen.refusals
                \/ /\ screen'.refusals = screen.refusals + 1
                   /\ screen'.queue = screen.queue /\ history' = history
  <2>1. /\ hooks' = hooks
        /\ \/ /\ screen' = [gone EXCEPT !.work = "compacting"]
              /\ history' = [history EXCEPT !.ran = @ \cup {i}]
           \/ screen' = [gone EXCEPT !.refusals = @ + 1] /\ history' = history
           \/ screen' = behind /\ history' = history
           \/ screen' = gone /\ history' = history
    BY <1>6, TextKinds DEF Enter
  <2>2. [history EXCEPT !.ran = @ \cup {i}] \in Histories
    BY <1>1 DEF Histories
  <2> HIDE DEF t, gone, behind
  <2>3. [gone EXCEPT !.work = "compacting"] \in Screens
    BY <1>2 DEF Screens
  <2>4. gone.refusals + 1 \in Nat /\ screen.refusals \in Nat
    BY <1>1, <1>2 DEF Screens
  <2>5. ASSUME NEW n \in Nat
        PROVE  /\ [gone EXCEPT !.refusals = n] \in Screens
               /\ [gone EXCEPT !.refusals = n].composer = Empty
               /\ [gone EXCEPT !.refusals = n].queue = screen.queue
               /\ [gone EXCEPT !.refusals = n].refusals = n
    BY <1>2 DEF Screens
  <2>6. CASE screen' = [gone EXCEPT !.refusals = @ + 1] /\ history' = history
    <3>1. screen' = [gone EXCEPT !.refusals = gone.refusals + 1]
      BY <2>6
    <3> QED  BY <1>1, <1>2, <2>1, <2>4, <2>5, <2>6, <3>1
  <2>7. CASE /\ screen' = [gone EXCEPT !.work = "compacting"]
             /\ history' = [history EXCEPT !.ran = @ \cup {i}]
    <3>1. /\ screen'.composer = Empty /\ screen'.queue = screen.queue /\ screen'.refusals = screen.refusals
      BY <1>2, <2>7 DEF Screens
    <3> QED  BY <1>1, <2>1, <2>2, <2>3, <2>7, <3>1
  <2>8. CASE screen' \in {gone, behind} /\ history' = history
    BY <1>1, <1>2, <1>3, <1>6, <2>1, <2>8, TextKinds
  <2> QED  BY <2>1, <2>6, <2>7, <2>8
<1>7. ASSUME NEW i \in Ids, t \in {Note(i), Altered(i)}
      PROVE  /\ screen' \in Screens /\ history' = history /\ screen'.composer = Empty
             /\ screen'.queue \subseteq screen.queue \cup {t}
             /\ hooks' \in {hooks, hooks \cup {Submitted(t)}}
             /\ screen'.refusals = screen.refusals
  <2>1. /\ history' = history
        /\ \/ screen' = gone /\ hooks' = hooks \cup {Submitted(t)}
           \/ screen' = behind /\ hooks' = hooks
    BY <1>7, TextKinds DEF Enter
  <2> HIDE DEF t, gone, behind
  <2> QED  BY <1>2, <1>3, <1>7, <2>1, TextKinds
<1> HIDE DEF gone, behind
<1>8. \/ t = Empty \/ t = Other \/ \E i \in Ids : t \in {Command(i), Note(i), Altered(i)}
  BY <1>1, TextKinds
<1>9. ASSUME NEW i \in Ids, t = Command(i) PROVE \A j \in Ids : t # Note(j)
  BY <1>9, TextKinds
<1>10. CASE \E i \in Ids : t = Command(i)
  <2> HIDE DEF t
  <2> QED  BY <1>1, <1>6, <1>9, <1>10 DEF t
<1>11. CASE \E i \in Ids : t \in {Note(i), Altered(i)}
  BY <1>1, <1>7, <1>11
<1> QED  BY <1>4, <1>5, <1>8, <1>10, <1>11

\* What the native queue runs.
LEMMA RunDoes ==
    ASSUME Types, RunQueued
    PROVE  /\ Types'
           /\ screen'.composer = screen.composer /\ screen'.queue \subseteq screen.queue
           /\ screen'.refusals = screen.refusals
           /\ \E i \in Ids :
                \/ /\ Command(i) \in screen.queue /\ hooks' = hooks
                   /\ history' = [history EXCEPT !.ran = @ \cup {i}]
                \/ /\ {Note(i), Altered(i)} \cap screen.queue # {} /\ history' = history
                   /\ \E t \in {Note(i), Altered(i)} \cap screen.queue : hooks' = hooks \cup {Submitted(t)}
<1>1. PICK t \in screen.queue :
        LET rest == [screen EXCEPT !.queue = @ \ {t}] IN
        \/ /\ t[1] = "command"
           /\ screen' = [rest EXCEPT !.work = "compacting"]
           /\ history' = [history EXCEPT !.ran = @ \cup {t[2]}]
           /\ UNCHANGED hooks
        \/ /\ t[1] # "command"
           /\ screen' = rest
           /\ hooks' = hooks \cup {Submitted(t)}
           /\ UNCHANGED history
  BY DEF RunQueued
<1> DEFINE rest == [screen EXCEPT !.queue = @ \ {t}]
<1>2. /\ screen \in Screens /\ t \in Queued /\ history \in Histories /\ hooks \subseteq HookRecords
      /\ UNCHANGED <<files, proofs, holder, bounds>>
  BY DEF Types, Screens, RunQueued
<1>3. /\ rest \in Screens /\ rest.composer = screen.composer /\ rest.queue = screen.queue \ {t}
      /\ rest.refusals = screen.refusals
  BY <1>2 DEF Screens
<1>4. \/ /\ t[1] = "command" /\ screen' = [rest EXCEPT !.work = "compacting"]
         /\ history' = [history EXCEPT !.ran = @ \cup {t[2]}] /\ hooks' = hooks
      \/ /\ t[1] # "command" /\ screen' = rest
         /\ hooks' = hooks \cup {Submitted(t)} /\ history' = history
  BY <1>1
<1> HIDE DEF rest
<1>5. CASE t[1] = "command"
  <2>1. PICK i \in Ids : t = Command(i)
    BY <1>2, <1>5, TextKinds
  <2>2. /\ screen' \in Screens /\ screen'.composer = rest.composer /\ screen'.queue = rest.queue
        /\ screen'.refusals = rest.refusals
    BY <1>3, <1>4, <1>5 DEF Screens
  <2>3. history' = [history EXCEPT !.ran = @ \cup {i}] /\ hooks' = hooks
    BY <1>4, <1>5, <2>1, TextKinds
  <2>4. history' \in Histories
    BY <1>2, <2>3 DEF Histories
  <2>5. Types'
    BY <1>2, <2>2, <2>3, <2>4 DEF Types, files, proofs, bounds
  <2> QED  BY <1>3, <2>1, <2>2, <2>3, <2>5
<1>6. CASE t[1] # "command"
  <2>1. PICK i \in Ids : t \in {Note(i), Altered(i)}
    BY <1>2, <1>6, TextKinds
  <2>2. screen' = rest /\ hooks' = hooks \cup {Submitted(t)} /\ history' = history
    BY <1>4, <1>6
  <2>3. Submitted(t) \in HookRecords /\ Submitted(t).id \in Ids
    BY <2>1, TextKinds, BoundsAssumption DEF HookRecords, Submitted, Times
  <2>4. Types'
    BY <1>2, <1>3, <2>2, <2>3 DEF Types, files, proofs, bounds
  <2> QED  BY <1>3, <2>1, <2>2, <2>4
<1> QED  BY <1>5, <1>6

\* What the operator does.
LEMMA OperatorDoes ==
    ASSUME Types, OperatorActs
    PROVE  /\ Types' /\ acts' = acts + 1 /\ acts' # 0 /\ UNCHANGED <<files, proofs, holder>>
           /\ UNCHANGED <<unused, collar, time, crashes, faults>>
           /\ \/ screen'.composer \in {Empty, Other, screen.composer}
              \/ \E i \in Ids : /\ screen.composer \in {Note(i), Altered(i)}
                                /\ screen'.composer = Altered(i)
           /\ screen'.queue \subseteq screen.queue \cup {screen.composer}
           /\ \/ hooks' = hooks
              \/ \E i \in Ids : /\ screen.composer \in {Note(i), Altered(i)}
                                /\ hooks' = hooks \cup {Submitted(screen.composer)}
           /\ \/ history' = history
              \/ \E i \in Ids : /\ screen.composer = Command(i)
                                /\ history' = [history EXCEPT !.ran = @ \cup {i}]
<1> DEFINE t == screen.composer
<1>1. /\ screen \in Screens /\ t \in Texts /\ history \in Histories /\ hooks \subseteq HookRecords
      /\ acts \in Nat /\ acts' = acts + 1
      /\ UNCHANGED <<files, proofs, holder>> /\ UNCHANGED <<unused, collar, time, crashes, faults>>
  BY DEF Types, Screens, OperatorActs
<1>2. CASE Enter
  <2>1. ASSUME NEW i \in Ids, t \in {Note(i), Altered(i)}
        PROVE  Submitted(t) \in HookRecords /\ Submitted(t).id \in Ids
    BY <2>1, TextKinds, BoundsAssumption DEF HookRecords, Submitted, Times
  <2>2. screen' \in Screens /\ history' \in Histories
    BY <1>2, EnterDoes
  <2>3. \/ hooks' = hooks
        \/ \E i \in Ids : t \in {Note(i), Altered(i)} /\ hooks' = hooks \cup {Submitted(t)}
    BY <1>2, EnterDoes
  <2> HIDE DEF t
  <2>4. hooks' \subseteq HookRecords /\ \A h \in hooks' : h \in hooks \/ h.id \in Ids
    BY <1>1, <2>1, <2>3
  <2>5. Types'
    BY <1>1, <2>2, <2>4 DEF Types, files, proofs
  <2> QED  BY <1>1, <1>2, <2>5, EnterDoes
<1>3. CASE /\ screen' = [screen EXCEPT !.composer = IF @[1] \in {"note", "altered"} THEN Altered(@[2]) ELSE Other]
           /\ UNCHANGED <<hooks, history>>
  <2>1. screen'.queue = screen.queue
    BY <1>1, <1>3 DEF Screens
  <2>2. \/ screen' = [screen EXCEPT !.composer = Other]
        \/ \E i \in Ids : t \in {Note(i), Altered(i)} /\ screen' = [screen EXCEPT !.composer = Altered(i)]
    BY <1>1, <1>3, TextKinds
  <2>3. /\ screen' \in Screens
        /\ \/ screen'.composer = Other
           \/ \E i \in Ids : t \in {Note(i), Altered(i)} /\ screen'.composer = Altered(i)
    BY <1>1, <2>2, TextKinds DEF Screens
  <2>4. Types'
    BY <1>1, <1>3, <2>3 DEF Types, files, proofs
  <2> QED  BY <1>1, <1>3, <2>1, <2>3, <2>4
<1>4. CASE screen' = [screen EXCEPT !.composer = Empty] /\ UNCHANGED <<hooks, history>>
  <2>1. screen' \in Screens /\ screen'.composer = Empty /\ screen'.queue = screen.queue
    BY <1>1, <1>4, TextKinds DEF Screens
  <2>2. Types'
    BY <1>1, <1>4, <2>1 DEF Types, files, proofs
  <2> QED  BY <1>1, <1>4, <2>1, <2>2
<1>5. CASE screen' = [screen EXCEPT !.work = "compacting"] /\ UNCHANGED <<hooks, history>>
  <2>1. screen' \in Screens /\ screen'.composer = t /\ screen'.queue = screen.queue
    BY <1>1, <1>5 DEF Screens
  <2>2. Types'
    BY <1>1, <1>5, <2>1 DEF Types, files, proofs
  <2> QED  BY <1>1, <1>5, <2>1, <2>2
<1> QED  BY <1>2, <1>3, <1>4, <1>5 DEF OperatorActs, Work

-----------------------------------------------------------------------------
(* The holder of the lock.                                                   *)

LEMMA HolderMoves ==
    ASSUME Types
    PROVE  /\ \A p \in Steps : Go(p) =>
                /\ holder' \in Holders /\ holder'.pc = p /\ holder'.task = holder.task
                /\ holder'.id = holder.id /\ holder'.phase = holder.phase /\ holder'.next = holder.next
           /\ \A p \in Phases, n \in Firsts \cup Rests : Fail(p, n) =>
                /\ holder' \in Holders /\ holder'.pc = "fail" /\ holder'.task = holder.task
                /\ holder'.id = holder.id /\ holder'.phase = p /\ holder'.next = n
           /\ Unlock => /\ holder' \in Holders /\ holder' = Idle /\ holder'.pc = "free"
                        /\ holder'.task = "none"
<1>1. holder \in Holders /\ "fail" \in Steps
  BY DEF Types, Steps
<1>2. \A p \in Steps : Go(p) =>
        /\ holder' \in Holders /\ holder'.pc = p /\ holder'.task = holder.task
        /\ holder'.id = holder.id /\ holder'.phase = holder.phase /\ holder'.next = holder.next
  BY <1>1 DEF Go, Holders
<1>3. \A p \in Phases, n \in Firsts \cup Rests : Fail(p, n) =>
        /\ holder' \in Holders /\ holder'.pc = "fail" /\ holder'.task = holder.task
        /\ holder'.id = holder.id /\ holder'.phase = p /\ holder'.next = n
  BY <1>1 DEF Fail, Holders
<1>4. Idle \in Holders /\ Idle.pc = "free" /\ Idle.task = "none"
  BY DEF Idle, Holders, Steps, Phases, Firsts, Rests
<1> QED  BY <1>2, <1>3, <1>4 DEF Unlock

\* The holder goes on, or fails the compaction, in the same operation.
Moved ==
    /\ holder'.task = holder.task /\ holder'.id = holder.id
    /\ holder'.phase = holder.phase /\ holder'.next = holder.next
Fails == holder'.pc = "fail" /\ holder'.task = holder.task /\ holder'.id = holder.id

\* A note's input ended: the note is out of the queue, and a start goes on.
NoteEnded ==
    /\ input' = "none" /\ note'[comp.id] # "new" /\ note'[comp.id] # "none"
    /\ \A i \in Ids : i # comp.id =>
          note'[i] = note[i] \/ (note[i] # "new" /\ note[i] # "none" /\ note'[i] = "delivered")
    /\ \/ comp.status # "submitted" /\ holder' = Idle
       \/ /\ comp.status = "submitted" /\ Fails
          /\ holder'.phase = "may have run" /\ holder'.next \in Rests
       \/ comp.status = "submitted" /\ Moved /\ holder'.pc = "settle"

LEMMA EndNoteDoes ==
    ASSUME Types, comp.id \in Ids, NEW outcome \in {"accepted", "unverified"}, NEW failed \in BOOLEAN,
           EndNote(outcome, failed)
    PROVE  NoteEnded /\ note' \in [Ids -> Places] /\ holder' \in Holders
<1> DEFINE n == [note EXCEPT ![comp.id] = outcome]
<1>1. /\ n \in [Ids -> Places] /\ n[comp.id] = outcome /\ \A i \in Ids : i # comp.id => n[i] = note[i]
  BY DEF Types, Places
<1>2. note' = Proven(n) /\ submitted \in Ids \cup {None}
  BY DEF EndNote, Types
<1> HIDE DEF n
<1>3. /\ note' \in [Ids -> Places]
      /\ \A i \in Ids : note'[i] = n[i] \/ (n[i] \in {"accepted", "unverified"} /\ note'[i] = "delivered")
  BY <1>1, <1>2, IdsAssumption DEF Proven, Places
<1>4. Rest \in Rests /\ Rests \subseteq Firsts \cup Rests /\ {"settle", "fail"} \subseteq Steps /\ "may have run" \in Phases
  BY DEF Rest, RestOf, Rests, Steps, Phases
<1>5. /\ input' = "none"
      /\ IF comp.status # "submitted" THEN Unlock
         ELSE IF failed THEN Fail("may have run", Rest) ELSE Go("settle")
  BY DEF EndNote
<1>6. /\ note'[comp.id] # "new" /\ note'[comp.id] # "none"
      /\ \A i \in Ids : i # comp.id =>
            note'[i] = note[i] \/ (note[i] # "new" /\ note[i] # "none" /\ note'[i] = "delivered")
  BY <1>1, <1>3
<1>7. CASE comp.status # "submitted"
  BY <1>3, <1>5, <1>6, <1>7, HolderMoves DEF NoteEnded
<1>8. CASE comp.status = "submitted" /\ failed
  BY <1>3, <1>4, <1>5, <1>6, <1>8, HolderMoves DEF NoteEnded, Fails
<1>9. CASE comp.status = "submitted" /\ ~failed
  BY <1>3, <1>4, <1>5, <1>6, <1>9, HolderMoves DEF NoteEnded, Moved
<1> QED  BY <1>7, <1>8, <1>9

-----------------------------------------------------------------------------
(* The compaction's record.                                                  *)

\* The same compaction, with this status.
Restated(d, c, s) ==
    /\ d \in Comps /\ d.status = s /\ d.id = c.id /\ d.start = c.start /\ d.done = c.done
    /\ d.cont = c.cont /\ d.admitted = c.admitted /\ d.before = c.before

LEMMA RecordMoves ==
    ASSUME NEW c \in Comps
    PROVE  /\ \A s \in Statuses : Restated([c EXCEPT !.status = s], c, s)
           /\ Restated(Submit(c), c, "submitted")
           /\ Restated(Complete(c), c, "completed")
           /\ \A r \in BOOLEAN : Restated(Unverify(c, r), c, "unverified")
           /\ Restated(Continued(c), c, IF InFlight(c) /\ Done(c) THEN "completed" ELSE c.status)
<1>1. \A s \in Statuses : Restated([c EXCEPT !.status = s], c, s)
  BY DEF Comps, Restated
<1>2. Restated(Submit(c), c, "submitted")
  BY <1>1 DEF Submit, Statuses
<1>3. Restated(Complete(c), c, "completed")
  BY <1>1 DEF Complete, Statuses
<1>4. \A r \in BOOLEAN : Restated(Unverify(c, r), c, "unverified")
  BY DEF Comps, Restated, Unverify, Statuses
<1>5. Restated(c, c, c.status)
  BY DEF Restated
<1>6. Restated(Continued(c), c, IF InFlight(c) /\ Done(c) THEN "completed" ELSE c.status)
  BY <1>3, <1>5 DEF Continued
<1> QED  BY <1>1, <1>2, <1>3, <1>4, <1>6

\* An end that came after the start is the compaction's.
LEMMA AcceptedIs ==
    ASSUME NEW c \in Comps, NEW at \in Times
    PROVE  LET d == Accepted(c, at) IN
           /\ d \in Comps /\ d.status = c.status /\ d.id = c.id /\ d.start = c.start
           /\ d.done = (IF InFlight(c) /\ at > c.start THEN at ELSE c.done)
           /\ d.cont = c.cont /\ d.admitted = c.admitted /\ d.before = c.before
BY DEF Accepted, Comps

\* What a start records.
LEMMA StartRecords ==
    ASSUME NEW h \in Histories, NEW t \in Times
    PROVE  LET d == [h EXCEPT !.since = t] IN
           /\ d \in Histories /\ d.since = t /\ d.ran = h.ran /\ d.pasted = h.pasted /\ d.again = h.again
           /\ d.admitted = h.admitted /\ d.twice = h.twice /\ d.ended = h.ended /\ d.lied = h.lied
           /\ d.misled = h.misled /\ d.seen = h.seen
BY DEF Histories

-----------------------------------------------------------------------------
(* The screen.                                                               *)

\* The composer shows t; the native queue and its refusals are as they were.
Shows(s, t) ==
    s \in Screens /\ s.composer = t /\ s.queue = screen.queue /\ s.refusals = screen.refusals

LEMMA ScreenShows ==
    ASSUME Types
    PROVE  /\ Shows(screen, screen.composer)
           /\ Shows([screen EXCEPT !.composer = Empty], Empty)
           /\ \A i \in Ids :
                /\ screen.composer = Empty => /\ Shows(Pasted(Command(i)), Command(i))
                                              /\ Shows(Pasted(Note(i)), Note(i))
                /\ \E t \in {Command(i), Other} : Shows(Pasted(Command(i)), t)
                /\ \E t \in {Note(i), Altered(i)} : Shows(Pasted(Note(i)), t)
<1>1. screen \in Screens
  BY DEF Types
<1>2. \A t \in Texts : Shows([screen EXCEPT !.composer = t], t)
  BY <1>1 DEF Screens, Shows
<1>3. Shows(screen, screen.composer)
  BY <1>1 DEF Shows
<1>4. ASSUME NEW i \in Ids
      PROVE  /\ Pasted(Command(i)) = IF screen.composer = Empty THEN [screen EXCEPT !.composer = Command(i)]
                                     ELSE [screen EXCEPT !.composer = Other]
             /\ Pasted(Note(i)) = IF screen.composer = Empty THEN [screen EXCEPT !.composer = Note(i)]
                                  ELSE [screen EXCEPT !.composer = Altered(i)]
  BY TextKinds DEF Pasted
<1> QED  BY <1>2, <1>3, <1>4, TextKinds

\* A failure to read or to type is counted.
LEMMA FaultCounts ==
    ASSUME Types, Fault \/ NoFault
    PROVE  faults' \in Nat
BY DEF Types, Fault, NoFault

-----------------------------------------------------------------------------
(* Keys that may have been entered.                                          *)

Entered ==
    /\ screen'.composer = Empty \/ screen'.composer = screen.composer
    /\ screen'.queue \subseteq screen.queue \cup {screen.composer}
    /\ \A h \in hooks' : \/ h \in hooks
                         \/ \E i \in Ids : /\ screen.composer = Note(i) \/ screen.composer = Altered(i)
                                           /\ h.id = i /\ h.at = 0 /\ h.kind \in {"note", "altered"}
    /\ \A i \in history'.ran : i \in history.ran \/ screen.composer = Command(i)
    /\ history'.pasted = history.pasted /\ history'.again = history.again
    /\ history'.admitted = history.admitted /\ history'.twice = history.twice
    /\ history'.ended = history.ended /\ history'.lied = history.lied
    /\ history'.misled = history.misled /\ history'.seen = history.seen /\ history'.since = history.since
    /\ \/ screen'.refusals = screen.refusals
       \/ /\ screen'.refusals = screen.refusals + 1
          /\ screen'.queue = screen.queue /\ history'.ran = history.ran
    /\ \A i \in Ids : screen.composer = Note(i) =>
          screen'.refusals = screen.refusals /\ history'.ran = history.ran

LEMMA MayEnter ==
    ASSUME Types, Enter \/ UNCHANGED <<screen, hooks, history>>
    PROVE  /\ Entered /\ screen' \in Screens /\ history' \in Histories /\ hooks' \subseteq HookRecords
           /\ \A h \in hooks' : h \in hooks \/ h.id \in Ids
<1>1. screen \in Screens /\ screen.composer \in Texts /\ history \in Histories /\ hooks \subseteq HookRecords
  BY DEF Types, Screens
<1>2. CASE UNCHANGED <<screen, hooks, history>>
  BY <1>1, <1>2 DEF Entered
<1>3. CASE Enter
  <2>1. /\ screen' \in Screens /\ history' \in Histories
        /\ screen'.composer = Empty \/ screen'.composer = screen.composer
        /\ screen'.queue \subseteq screen.queue \cup {screen.composer}
        /\ \/ screen'.refusals = screen.refusals
           \/ /\ screen'.refusals = screen.refusals + 1
              /\ screen'.queue = screen.queue /\ history' = history
        /\ \A i \in Ids : screen.composer = Note(i) =>
              screen'.refusals = screen.refusals /\ history' = history
    BY <1>3, EnterDoes
  <2>2. \A h \in hooks' : \/ h \in hooks
                          \/ \E i \in Ids : /\ screen.composer = Note(i) \/ screen.composer = Altered(i)
                                            /\ h.id = i /\ h.at = 0 /\ h.kind \in {"note", "altered"}
                                            /\ h \in HookRecords
    <3>1. ASSUME NEW i \in Ids, NEW t \in {Note(i), Altered(i)}
          PROVE  LET h == Submitted(t) IN
                 h.id = i /\ h.at = 0 /\ h.kind \in {"note", "altered"} /\ h \in HookRecords
      BY TextKinds, BoundsAssumption DEF Submitted, HookRecords, Times
    <3>2. \/ hooks' = hooks
          \/ \E i \in Ids : /\ screen.composer \in {Note(i), Altered(i)}
                            /\ hooks' = hooks \cup {Submitted(screen.composer)}
      BY <1>3, EnterDoes
    <3>3. CASE hooks' = hooks
      BY <3>3
    <3>4. ASSUME NEW i \in Ids, screen.composer \in {Note(i), Altered(i)},
                 hooks' = hooks \cup {Submitted(screen.composer)}
          PROVE  \A h \in hooks' : \/ h \in hooks
                                   \/ /\ screen.composer = Note(i) \/ screen.composer = Altered(i)
                                      /\ h.id = i /\ h.at = 0 /\ h.kind \in {"note", "altered"}
                                      /\ h \in HookRecords
      BY <3>1, <3>4
    <3> QED  BY <3>2, <3>3, <3>4
  <2>3. /\ \A i \in history'.ran : i \in history.ran \/ screen.composer = Command(i)
        /\ history'.pasted = history.pasted /\ history'.again = history.again
        /\ history'.admitted = history.admitted /\ history'.twice = history.twice
        /\ history'.ended = history.ended /\ history'.lied = history.lied
        /\ history'.misled = history.misled /\ history'.seen = history.seen /\ history'.since = history.since
    <3>1. \/ history' = history
          \/ \E i \in Ids : /\ screen.composer = Command(i)
                            /\ history' = [history EXCEPT !.ran = @ \cup {i}]
      BY <1>3, EnterDoes
    <3> QED  BY <1>1, <3>1 DEF Histories
  <2> QED  BY <1>1, <2>1, <2>2, <2>3 DEF Entered
<1> QED  BY <1>2, <1>3

\* Refusals are counted, and so is what was seen of them before a start.
LEMMA CountedRefusals ==
    Types => screen.refusals \in Nat /\ comp.before \in Nat
BY DEF Types, Screens, Comps

-----------------------------------------------------------------------------
(* The end of a note's input.                                                *)

LEMMA NoteEndedKeeps ==
    ASSUME IInv, NoteEnded, UNCHANGED <<comp, notices, told, crashes, unused>>,
           holder.pc \in Entering, note[comp.id] = "new", comp.id \in Ids,
           comp.status = "submitted" \/ comp.status = "completed", comp.cont,
           history'.pasted = history.pasted \/ history'.pasted = history.pasted \cup {comp.id},
           history'.admitted = history.admitted, history'.again = history.again,
           history'.twice = history.twice
    PROVE  /\ Control' /\ Reserved' /\ Unstranded' /\ Telling'
           /\ \A i \in unused : note'[i] = "none"
           /\ holder'.task = "none" \/ (holder'.task = holder.task /\ holder'.id = holder.id)
           /\ input' = "none"
           /\ \/ holder'.pc = "free" \/ holder'.pc = "settle"
              \/ holder'.pc = "fail" /\ holder'.phase = "may have run"
<1>1. /\ input' = "none" /\ holder'.pc \in {"free", "fail", "settle"}
      /\ holder'.pc = "free" => holder' = Idle
      /\ holder'.pc # "free" => holder'.task = holder.task /\ holder'.id = holder.id
      /\ holder'.pc = "fail" => holder'.next \in Rests
      /\ holder'.pc = "settle" => holder'.next = holder.next
  <2>1. CASE holder' = Idle
    BY <2>1 DEF NoteEnded, Idle
  <2>2. CASE Fails /\ holder'.next \in Rests
    BY <2>2 DEF NoteEnded, Fails
  <2>3. CASE Moved /\ holder'.pc = "settle"
    BY <2>3 DEF NoteEnded, Moved
  <2> QED  BY <2>1, <2>2, <2>3 DEF NoteEnded
<1>2. Control'
  BY <1>1 DEF IInv, Control, Staging, Entering, Firsts, Rests, InFlight, Idle
<1>3. \A i \in Ids : note'[i] = "new" => note[i] = "new" /\ i # comp.id
  BY DEF NoteEnded
<1>4. \A i \in Ids : note[i] # "none" => note'[i] # "none"
  BY DEF NoteEnded
<1>5. history.pasted \subseteq Ids /\ unused \subseteq Ids
  BY DEF IInv, Types, Histories
<1>6. Reserved'
  BY <1>3, <1>4, <1>5 DEF IInv, Reserved, NoteOnce
<1>7. Unstranded'
  BY <1>3 DEF IInv, Unstranded
<1>8. Telling'
  BY <1>1 DEF IInv, Telling, Noticed
<1>9. \A i \in unused : note'[i] = "none"
  BY <1>5 DEF IInv, Named, NoteEnded
<1>10. holder'.task = "none" \/ (holder'.task = holder.task /\ holder'.id = holder.id)
  BY <1>1 DEF Idle
<1>11. \/ holder'.pc = "free" \/ holder'.pc = "settle"
       \/ holder'.pc = "fail" /\ holder'.phase = "may have run"
  <2>1. CASE holder' = Idle
    BY <2>1 DEF Idle
  <2>2. CASE Fails /\ holder'.next \in Rests /\ holder'.phase = "may have run"
    BY <2>2 DEF Fails
  <2>3. CASE Moved /\ holder'.pc = "settle"
    BY <2>3 DEF Moved
  <2> QED  BY <2>1, <2>2, <2>3 DEF NoteEnded
<1> QED  BY <1>1, <1>2, <1>6, <1>7, <1>8, <1>9, <1>10, <1>11

LEMMA NotMore ==
    ASSUME NEW m \in Nat, NEW n \in Nat
    PROVE  ~(m <= n /\ m > n)
OBVIOUS

\* Nobody else at the keyboard: what holds while a note is entered holds when
\* its input goes on or ends.
LEMMA EnteringIsTyped ==
    ASSUME IInv, UNCHANGED <<comp, acts>>, holder.pc \in Entering, input = "note", comp.id \in Ids,
           comp.status = "submitted" \/ comp.status = "completed",
           history'.admitted = history.admitted, history'.lied = history.lied,
           history'.misled = history.misled,
           acts = 0 => screen'.refusals = screen.refusals,
           acts = 0 /\ holder'.pc = "enterNote" => screen'.composer = Note(comp.id),
           input' = "note" \/ input' = "none",
           \/ holder'.pc = "enterNote" \/ holder'.pc = "finishNote"
           \/ holder'.pc = "free" \/ holder'.pc = "settle"
           \/ holder'.pc = "fail" /\ holder'.phase = "may have run"
    PROVE  Alone'
<1> SUFFICES ASSUME acts = 0
             PROVE  Typed'
  BY DEF Alone
<1>1. Typed
  BY DEF IInv, Alone
<1>2. comp.id \notin history'.admitted
  BY DEF IInv, Reserved, Control
<1>3. /\ history'.lied = {} /\ history'.misled = {}
      /\ InFlight(comp) => screen'.refusals <= comp.before
  BY <1>1 DEF Typed
<1>4. /\ holder'.pc # "pasteCommand" /\ holder'.pc # "pasteNote" /\ holder'.pc # "noteText"
      /\ holder'.pc # "enterCommand" /\ holder'.pc \notin Staging
  BY DEF Staging
<1>5. comp'.status # "queued" /\ input' # "compaction"
  OBVIOUS
<1>6. (InFlight(comp) /\ screen'.refusals > comp.before) => FALSE
  <2>1. screen'.refusals \in Nat /\ comp.before \in Nat
    BY CountedRefusals DEF IInv
  <2> QED  BY <1>3, <2>1, NotMore
<1>7. InFlight(comp)' <=> InFlight(comp)
  BY DEF InFlight
<1>8. holder'.pc = "enterNote" => screen'.composer = Note(comp'.id)
  OBVIOUS
<1>9. holder'.pc = "fail" => holder'.phase # "not run"
  OBVIOUS
<1>10. comp'.before = comp.before /\ comp'.id = comp.id
  OBVIOUS
<1> HIDE DEF Typed
<1> QED  BY <1>2, <1>3, <1>4, <1>5, <1>6, <1>7, <1>8, <1>9, <1>10 DEF Typed
-----------------------------------------------------------------------------
(* Taking the lock.                                                          *)

\* A compaction under way, a dead owner's too, completes by an end that the
\* witness or the record has; any other record stays as it is.
Underway == InFlight(comp) \/ input = "compaction"

LEMMA RecordRead ==
    ASSUME Types, Control, NEW late \in BOOLEAN
    PROVE  LET c == Continued(Witnessed(Recover(comp, input)))
               d == IF late /\ c.status = "submitted" THEN Unverify(c, FALSE) ELSE c
           IN /\ d \in Comps /\ d.id = comp.id /\ d.start = comp.start /\ d.cont = comp.cont
              /\ d.admitted = comp.admitted /\ d.before = comp.before
              /\ d.done = (IF Underway /\ Fresh /\ witness > comp.start THEN witness ELSE comp.done)
              /\ Underway => IF Done(d) THEN d.status = "completed" ELSE InFlight(d)
              /\ ~Underway => d.status = comp.status
              /\ c.status = "completed" => c = d
<1> DEFINE r == Recover(comp, input)
<1> DEFINE w == Witnessed(r)
<1> DEFINE c == Continued(w)
<1> DEFINE d == IF late /\ c.status = "submitted" THEN Unverify(c, FALSE) ELSE c
<1>1. comp \in Comps /\ witness \in Times
  BY DEF Types
<1>2. /\ input = "compaction" => comp.status = "queued"
      /\ input = "recovery" => InFlight(comp)
  BY DEF Control
<1>3. /\ input = "compaction" \/ input = "recovery" => Restated(r, comp, "unverified")
      /\ input # "compaction" /\ input # "recovery" => r = comp
  BY <1>1, RecordMoves DEF Recover
<1>4. /\ r \in Comps /\ r.id = comp.id /\ r.start = comp.start /\ r.done = comp.done
      /\ r.cont = comp.cont /\ r.admitted = comp.admitted /\ r.before = comp.before
      /\ InFlight(r) <=> Underway
      /\ ~Underway => r = comp
  BY <1>1, <1>2, <1>3 DEF Restated, Underway, InFlight
<1> HIDE DEF r
<1>5. /\ w \in Comps /\ w.id = comp.id /\ w.start = comp.start /\ w.status = r.status
      /\ w.cont = comp.cont /\ w.admitted = comp.admitted /\ w.before = comp.before
      /\ w.done = (IF Underway /\ Fresh /\ witness > comp.start THEN witness ELSE comp.done)
      /\ ~Underway => w = comp
  <2>1. CASE Fresh
    <3>1. w = Accepted(r, witness)
      BY <2>1 DEF Witnessed
    <3>2. ~Underway => w = comp
      BY <1>4, <3>1 DEF Accepted
    <3> HIDE DEF w
    <3> QED  BY <1>1, <1>4, <2>1, <3>1, <3>2, AcceptedIs
  <2>2. CASE ~Fresh
    BY <1>4, <2>2 DEF Witnessed
  <2> QED  BY <2>1, <2>2
<1>6. InFlight(w) <=> Underway
  BY <1>4, <1>5 DEF InFlight
<1> HIDE DEF w
<1>7. /\ c \in Comps /\ c.id = comp.id /\ c.start = comp.start /\ c.done = w.done
      /\ c.cont = comp.cont /\ c.admitted = comp.admitted /\ c.before = comp.before
      /\ c.status = (IF InFlight(w) /\ Done(w) THEN "completed" ELSE w.status)
  BY <1>5, RecordMoves DEF Restated
<1>8. /\ ~Underway => c = comp
      /\ Underway => IF Done(c) THEN c.status = "completed" ELSE InFlight(c)
  BY <1>5, <1>6, <1>7 DEF Continued, Done, InFlight
<1> HIDE DEF c
<1>9. /\ d \in Comps /\ d.id = comp.id /\ d.start = comp.start /\ d.done = c.done
      /\ d.cont = comp.cont /\ d.admitted = comp.admitted /\ d.before = comp.before
      /\ d.status = c.status \/ (c.status = "submitted" /\ d.status = "unverified")
      /\ c.status # "submitted" => d = c
  <2>1. Restated(Unverify(c, FALSE), c, "unverified")
    BY <1>7, RecordMoves
  <2> QED  BY <1>7, <2>1 DEF Restated
<1>10. ~Underway => c.status # "submitted"
  BY <1>8 DEF Underway, InFlight
<1> HIDE DEF d
<1>11. /\ Underway => IF Done(d) THEN d.status = "completed" ELSE InFlight(d)
       /\ ~Underway => d.status = comp.status
       /\ c.status = "completed" => c = d
  BY <1>7, <1>8, <1>9, <1>10 DEF Done, InFlight
<1> QED  BY <1>5, <1>7, <1>9, <1>11 DEF c, d, w, r

LEMMA NoteRead ==
    ASSUME Types, input = "note" => comp.id \in Ids
    PROVE  LET n == Proven(RecoverNote(input)) IN
           /\ n \in [Ids -> Places]
           /\ \A i \in Ids : n[i] = "new" => note[i] = "new" /\ ~(input = "note" /\ i = comp.id)
           /\ \A i \in Ids : n[i] = "none" <=> note[i] = "none"
           /\ \A i \in Ids : note[i] = "delivered" => n[i] = "delivered"
<1> DEFINE m == RecoverNote(input)
<1>1. note \in [Ids -> Places] /\ submitted \in Ids \cup {None}
  BY DEF Types
<1>2. /\ m \in [Ids -> Places]
      /\ \A i \in Ids : m[i] = "new" => note[i] = "new" /\ ~(input = "note" /\ i = comp.id)
      /\ \A i \in Ids : m[i] = "none" <=> note[i] = "none"
      /\ \A i \in Ids : note[i] = "delivered" => m[i] = "delivered"
  BY <1>1 DEF RecoverNote, Places
<1> HIDE DEF m
<1>3. /\ Proven(m) \in [Ids -> Places]
      /\ \A i \in Ids : \/ Proven(m)[i] = m[i]
                        \/ Proven(m)[i] = "delivered" /\ m[i] \in {"accepted", "unverified"}
  BY <1>1, <1>2, IdsAssumption DEF Proven, Places
<1> QED  BY <1>2, <1>3 DEF m

LEMMA TakeLockKeeps ==
    ASSUME IInv, NEW task \in {"compact", "tick", "interrupt", "note", "altered"},
           NEW id \in Ids \cup {None}, NEW first \in Firsts, TakeLock(task, id, first),
           first = "admit" => task \in {"note", "altered"},
           task \in {"note", "altered"} => id \in history.pasted
    PROVE  IInv'
<1>1. PICK late \in BOOLEAN :
        LET c == Continued(Witnessed(Recover(comp, input)))
            d == IF late /\ c.status = "submitted" THEN Unverify(c, FALSE) ELSE c
            n == Proven(RecoverNote(input))
        IN /\ comp' = d
           /\ note' = n
           /\ holder' = [Idle EXCEPT
                !.task = task, !.id = id, !.next = first,
                !.pc = IF Unentered(c, n) THEN "fail" ELSE first]
  BY DEF TakeLock
<1>2. /\ holder.pc = "free" /\ input' = "none" /\ confirmed' = IF Fresh THEN witness ELSE confirmed
      /\ UNCHANGED <<notices, told, witness, records, submitted, screen, hooks, history>>
      /\ UNCHANGED <<unused, collar, acts, time, crashes, faults>>
  BY DEF TakeLock, bounds
<1> DEFINE c == Continued(Witnessed(Recover(comp, input)))
<1>3. /\ comp' \in Comps /\ comp'.id = comp.id /\ comp'.start = comp.start /\ comp'.cont = comp.cont
      /\ comp'.admitted = comp.admitted /\ comp'.before = comp.before
      /\ comp'.done = (IF Underway /\ Fresh /\ witness > comp.start THEN witness ELSE comp.done)
      /\ Underway => IF Done(comp') THEN comp'.status = "completed" ELSE InFlight(comp')
      /\ ~Underway => comp'.status = comp.status
      /\ c.status = "completed" => c = comp'
  BY <1>1, RecordRead DEF IInv
<1>4. input = "note" => comp.id \in Ids
  BY DEF IInv, Control
<1>5. /\ note' \in [Ids -> Places]
      /\ \A i \in Ids : note'[i] = "new" => note[i] = "new" /\ ~(input = "note" /\ i = comp.id)
      /\ \A i \in Ids : note'[i] = "none" <=> note[i] = "none"
      /\ \A i \in Ids : note[i] = "delivered" => note'[i] = "delivered"
  BY <1>1, <1>4, NoteRead DEF IInv
<1>6. /\ holder'.task = task /\ holder'.id = id /\ holder'.next = first /\ holder'.phase = "ran"
      /\ holder'.pc = first \/ (holder'.pc = "fail" /\ Unentered(c, note'))
      /\ holder' \in Holders
  <2>1. holder' = [pc |-> IF Unentered(c, note') THEN "fail" ELSE first, task |-> task, id |-> id,
                   phase |-> "ran", next |-> first]
    BY <1>1 DEF Idle
  <2>2. "fail" \in Steps /\ first \in Steps /\ "ran" \in Phases
    BY DEF Steps, Phases, Firsts
  <2> QED  BY <2>1, <2>2 DEF Holders
<1> HIDE DEF c
<1>7. Reserved'
  <2>1. \A i \in history.pasted : i \in Ids /\ note'[i] # "new" /\ note'[i] # "none"
    BY <1>2, <1>5 DEF IInv, Reserved, Types, Histories
  <2>2. comp'.status = "queued" => comp.status = "queued" /\ comp.id \in Ids
    BY <1>3 DEF Underway, InFlight, IInv, Named, Types, Comps
  <2> QED  BY <1>2, <1>3, <1>5, <2>1, <2>2 DEF IInv, Reserved, NoteOnce
<1>8. holder'.pc = "fail" => comp'.status = "completed" /\ comp.id \notin history.admitted
  <2> SUFFICES ASSUME Unentered(c, note')
               PROVE  comp'.status = "completed" /\ comp.id \notin history.admitted
    BY <1>6 DEF Firsts
  <2>1. comp'.status = "completed" /\ c = comp' /\ (~comp.cont \/ note'[comp.id] = "new")
    BY <1>3 DEF Unentered
  <2>2. comp.id \in history.admitted => comp.id \in history.pasted /\ comp.id \in Ids
    BY DEF IInv, Reserved, Types, Histories
  <2> QED  BY <1>2, <1>3, <1>5, <2>1, <2>2 DEF IInv, Reserved
<1>9. Types'
  <2>1. confirmed' \in Times
    BY <1>2 DEF IInv, Types
  <2> QED  BY <1>2, <1>3, <1>5, <1>6, <2>1 DEF IInv, Types
<1>10. Named'
  <2>1. comp'.status = "none" <=> comp.status = "none"
    BY <1>3 DEF IInv, Control, Underway, InFlight
  <2> QED  BY <1>2, <1>3, <1>5, <2>1 DEF IInv, Named, Types
<1>11. Texted'
  BY <1>2, <1>6 DEF IInv, Texted
<1>12. Control'
  <2>1. first \notin {"free", "fail", "submitted", "publish", "reserve", "await", "settle", "observe",
                      "escape", "escaped", "cancel", "notice", "requester"} \cup Staging \cup Entering
    BY DEF Firsts, Staging, Entering
  <2>2. \/ holder'.pc = first
        \/ holder'.pc = "fail" /\ comp'.status = "completed"
    BY <1>6, <1>8
  <2>3. holder'.next = first /\ holder'.task = task /\ input' = "none"
    BY <1>2, <1>6
  <2> QED  BY <2>1, <2>2, <2>3 DEF Control, Staging, Entering, Firsts, Rests
<1>13. Unstranded'
  BY <1>2, <1>5 DEF IInv, Unstranded, Entering
<1>14. Timed'
  <2>1. (Underway \/ comp.status = "completed") => comp.start = history.since
    BY DEF IInv, Timed, Underway
  <2>2. comp'.status = "completed" /\ ~Underway => Done(comp')
    BY <1>3 DEF IInv, Timed, Done
  <2>3. InFlight(comp') => Underway
    BY <1>3 DEF Underway, InFlight
  <2>4. comp'.status = "completed" => Done(comp') /\ (Underway \/ comp.status = "completed")
    BY <1>3, <2>2 DEF Done, InFlight
  <2>5. InFlight(comp') /\ confirmed' > comp'.start => Done(comp')
    <3> SUFFICES ASSUME InFlight(comp'), confirmed' > comp.start
                 PROVE  Done(comp')
      BY <1>3
    <3>1. CASE Fresh
      BY <1>2, <1>3, <2>3, <3>1 DEF Done
    <3>2. CASE ~Fresh
      BY <1>2, <1>3, <2>3, <3>2 DEF Done, Underway, IInv, Timed
    <3> QED  BY <3>1, <3>2
  <2>6. confirmed' <= time /\ comp'.done <= time
    BY <1>2, <1>3 DEF IInv, Timed
  <2> QED  BY <1>2, <1>3, <2>1, <2>3, <2>4, <2>5, <2>6 DEF IInv, Timed
<1>15. Alone'
  <2> SUFFICES ASSUME acts = 0
               PROVE  Typed'
    BY <1>2 DEF Alone
  <2>1. Typed
    BY DEF IInv, Alone
  <2>2. /\ holder'.pc \notin Staging \cup Entering /\ holder'.pc # "enterCommand" /\ holder'.pc # "enterNote"
        /\ holder'.pc # "pasteCommand" /\ holder'.pc # "pasteNote" /\ holder'.pc # "noteText"
        /\ holder'.pc = "fail" => holder'.phase # "not run"
    BY <1>6 DEF Firsts, Staging, Entering
  <2>3. comp'.status = "queued" => comp.status = "queued" /\ input # "compaction"
    BY <1>3 DEF Underway, InFlight
  <2>4. InFlight(comp') => Underway
    BY <1>3 DEF Underway, InFlight
  <2>5. /\ comp.status = "queued" /\ input # "compaction" => Unrun(comp.id)
        /\ Underway /\ screen.refusals > comp.before => Unrun(comp.id) /\ comp.id \notin history.pasted
        /\ history.lied = {} /\ history.misled = {}
    BY <2>1 DEF Typed, Underway
  <2>6. Unrun(comp.id)' <=> Unrun(comp.id)
    BY <1>2, <1>3 DEF Unrun
  <2> HIDE DEF Typed
  <2> QED  BY <1>2, <1>3, <1>8, <2>2, <2>3, <2>4, <2>5, <2>6 DEF Typed, Unrun
<1>16. Telling'
  <2>1. comp'.status = "failed" => comp.status = "failed" /\ comp.id \in Ids
    BY <1>3 DEF Underway, InFlight, IInv, Named, Types, Comps
  <2>2. holder'.pc # "requester"
    BY <1>6 DEF Firsts
  <2> QED  BY <1>2, <1>3, <1>5, <2>1, <2>2 DEF IInv, Telling, Noticed
<1> QED  BY <1>7, <1>9, <1>10, <1>11, <1>12, <1>13, <1>14, <1>15, <1>16 DEF IInv
-----------------------------------------------------------------------------
(* Every step of the holder keeps the invariant.                             *)

LEMMA CrashKeeps ==
    ASSUME IInv, Crash
    PROVE  IInv'
<1>0. /\ Types'
      /\ holder' = Idle /\ crashes' # 0
      /\ holder' \in Holders /\ holder.pc # "free"
      /\ UNCHANGED <<comp, input, note, notices, told, witness, confirmed, records,
                  submitted, screen, hooks, history, unused, collar, acts, time, faults>>
  BY HolderMoves DEF IInv, Types, Crash, Unlock, files, proofs, bounds, Quiet
<1>1. Types'
  BY <1>0
<1>2. Named'
  BY <1>0, IdsAssumption DEF IInv, Named, NoteEnded, Shows, Types, Restated
<1>3. Texted'
  BY <1>0 DEF IInv, Texted, NoteEnded, Shows, Moved, Fails, Idle
<1>4. Control'
  BY <1>0 DEF IInv, Control, NoteEnded, Moved, Fails, Idle, Restated, InFlight, Staging,
          Entering, Firsts, Rests
<1>5. Reserved'
  BY <1>0 DEF IInv, Reserved, NoteEnded, Types, Histories, NoteOnce, Moved, Fails, Idle,
          Restated, Control, Staging, Entering, Firsts, Rests
<1>6. Unstranded'
  BY <1>0 DEF IInv, Unstranded, NoteEnded, Moved, Fails, Idle, Control, Restated, Entering,
          Firsts, Rests
<1>7. Timed'
  BY <1>0, BoundsAssumption DEF IInv, Timed, Types, Times, Restated, InFlight, Done, Control
<1>8. Alone'
  BY <1>0 DEF IInv, Alone, NoteEnded, Shows, Typed, Unrun, Moved, Fails, Idle, Restated,
          InFlight, Staging, Entering, Firsts, Rests, Control
<1>9. Telling'
  BY <1>0 DEF IInv, Telling, NoteEnded, Noticed, Moved, Fails, Idle, Restated, Control,
          Firsts, Rests
<1> QED  BY <1>1, <1>2, <1>3, <1>4, <1>5, <1>6, <1>7, <1>8, <1>9 DEF IInv

LEMMA ReleaseKeeps ==
    ASSUME IInv, Release
    PROVE  IInv'
<1>0. /\ Types'
      /\ holder' = Idle
      /\ holder.pc = "unlock"
      /\ UNCHANGED <<comp, input, note, notices, told, witness, confirmed, records,
                  submitted, screen, hooks, history, unused, collar, acts, time, crashes,
                  faults>>
  BY HolderMoves DEF IInv, Types, Release, files, proofs, bounds, Quiet
<1>1. Types'
  BY <1>0
<1>2. Named'
  BY <1>0, IdsAssumption DEF IInv, Named, NoteEnded, Shows, Types, Restated
<1>3. Texted'
  BY <1>0 DEF IInv, Texted, NoteEnded, Shows, Moved, Fails, Idle
<1>4. Control'
  BY <1>0 DEF IInv, Control, NoteEnded, Moved, Fails, Idle, Restated, InFlight, Staging,
          Entering, Firsts, Rests
<1>5. Reserved'
  BY <1>0 DEF IInv, Reserved, NoteEnded, Types, Histories, NoteOnce, Moved, Fails, Idle,
          Restated, Control, Staging, Entering, Firsts, Rests
<1>6. Unstranded'
  BY <1>0 DEF IInv, Unstranded, NoteEnded, Moved, Fails, Idle, Control, Restated, Entering,
          Firsts, Rests
<1>7. Timed'
  BY <1>0, BoundsAssumption DEF IInv, Timed, Types, Times, Restated, InFlight, Done, Control
<1>8. Alone'
  BY <1>0 DEF IInv, Alone, NoteEnded, Shows, Typed, Unrun, Moved, Fails, Idle, Restated,
          InFlight, Staging, Entering, Firsts, Rests, Control
<1>9. Telling'
  BY <1>0 DEF IInv, Telling, NoteEnded, Noticed, Moved, Fails, Idle, Restated, Control,
          Firsts, Rests
<1> QED  BY <1>1, <1>2, <1>3, <1>4, <1>5, <1>6, <1>7, <1>8, <1>9 DEF IInv

LEMMA MarkFailedKeeps ==
    ASSUME IInv, MarkFailed
    PROVE  IInv'
<1>0. /\ Types'
      /\ holder.pc = "fail" /\ comp.id \in Ids
      /\ Restated(comp', comp, "failed") /\ input' = "none" /\ Moved /\ holder'.pc = "cancel"
      /\ history'.ran = history.ran /\ history'.pasted = history.pasted
      /\ history'.again = history.again /\ history'.admitted = history.admitted
      /\ history'.twice = history.twice /\ history'.ended = history.ended
      /\ history'.seen = history.seen /\ history'.since = history.since
      /\ history'.lied = (IF holder.phase = "not run" /\ comp.id \in history.ran
                         THEN history.lied \cup {comp.id} ELSE history.lied)
      /\ history'.misled = (IF comp.id \in history.admitted THEN history.misled \cup {comp.id} ELSE history.misled)
      /\ UNCHANGED <<note, notices, told, witness, confirmed, records, submitted,
                  screen, hooks, unused, collar, acts, time, crashes, faults>>
  <2>1. holder.pc = "fail" /\ comp \in Comps /\ comp.id \in Ids /\ history \in Histories
    BY DEF IInv, Types, Comps, Control, Named, MarkFailed
  <2>2. Restated(comp', comp, "failed") /\ input' = "none"
    BY <2>1, RecordMoves DEF MarkFailed, Statuses
  <2>3. (Moved /\ holder'.pc = "cancel") /\ holder' \in Holders
    BY HolderMoves DEF IInv, MarkFailed, Steps, Moved
  <2>4. /\ history' \in Histories
        /\ history'.ran = history.ran /\ history'.pasted = history.pasted
        /\ history'.again = history.again /\ history'.admitted = history.admitted
        /\ history'.twice = history.twice /\ history'.ended = history.ended
        /\ history'.seen = history.seen /\ history'.since = history.since
        /\ history'.lied = (IF holder.phase = "not run" /\ comp.id \in history.ran
                           THEN history.lied \cup {comp.id} ELSE history.lied)
        /\ history'.misled = (IF comp.id \in history.admitted
                             THEN history.misled \cup {comp.id} ELSE history.misled)
    BY <2>1 DEF MarkFailed, Histories
  <2> QED
    BY <2>1, <2>2, <2>3, <2>4 DEF IInv, Types, MarkFailed, Restated, files, proofs, bounds,
       Quiet
<1>1. Types'
  BY <1>0
<1>2. Named'
  BY <1>0, IdsAssumption DEF IInv, Named, NoteEnded, Shows, Types, Restated
<1>3. Texted'
  BY <1>0 DEF IInv, Texted, NoteEnded, Shows, Moved, Fails, Idle
<1>4. Control'
  BY <1>0 DEF IInv, Control, NoteEnded, Moved, Fails, Idle, Restated, InFlight, Staging,
          Entering, Firsts, Rests
<1>5. Reserved'
  BY <1>0, ZenonT(40) DEF IInv, Reserved, NoteEnded, Types, Histories, NoteOnce, Moved, Fails, Idle,
          Restated, Control, Staging, Entering, Firsts, Rests
<1>6. Unstranded'
  BY <1>0 DEF IInv, Unstranded, NoteEnded, Moved, Fails, Idle, Control, Restated, Entering,
          Firsts, Rests
<1>7. Timed'
  BY <1>0, BoundsAssumption DEF IInv, Timed, Types, Times, Restated, InFlight, Done, Control
<1>8. Alone'
  BY <1>0 DEF IInv, Alone, NoteEnded, Shows, Typed, Unrun, Moved, Fails, Idle, Restated,
          InFlight, Staging, Entering, Firsts, Rests, Control
<1>9. Telling'
  BY <1>0 DEF IInv, Telling, NoteEnded, Noticed, Moved, Fails, Idle, Restated, Control,
          Firsts, Rests
<1> QED  BY <1>1, <1>2, <1>3, <1>4, <1>5, <1>6, <1>7, <1>8, <1>9 DEF IInv

LEMMA CancelNoteKeeps ==
    ASSUME IInv, CancelNote
    PROVE  IInv'
<1>0. /\ Types'
      /\ holder.pc = "cancel" /\ comp.id \in Ids
      /\ \A i \in Ids : i # comp.id => note'[i] = note[i]
      /\ note'[comp.id] = (IF note[comp.id] \in {"new", "accepted", "unverified"}
                           THEN "cancelled" ELSE note[comp.id])
      /\ \/ note[comp.id] = "delivered" /\ holder' = Idle
         \/ note[comp.id] # "delivered" /\ Moved /\ holder'.pc = "notice"
      /\ UNCHANGED <<comp, input, notices, told, witness, confirmed, records,
                  submitted, screen, hooks, history, unused, collar, acts, time, crashes,
                  faults>>
  <2>1. holder.pc = "cancel" /\ comp.id \in Ids /\ note \in [Ids -> Places]
    BY DEF IInv, Types, Comps, Control, Named, CancelNote
  <2>2. /\ note' \in [Ids -> Places] /\ \A i \in Ids : i # comp.id => note'[i] = note[i]
        /\ note'[comp.id] = (IF note[comp.id] \in {"new", "accepted", "unverified"}
                            THEN "cancelled" ELSE note[comp.id])
    BY <2>1 DEF CancelNote, Places
  <2>3. /\ holder' \in Holders
        /\ \/ note[comp.id] = "delivered" /\ holder' = Idle
           \/ note[comp.id] # "delivered" /\ Moved /\ holder'.pc = "notice"
    BY HolderMoves DEF IInv, CancelNote, Steps, Moved
  <2> QED
    BY <2>1, <2>2, <2>3 DEF IInv, Types, CancelNote, files, proofs, bounds, Quiet
<1>1. Types'
  BY <1>0
<1>2. Named'
  BY <1>0, IdsAssumption DEF IInv, Named, NoteEnded, Shows, Types, Restated
<1>3. Texted'
  BY <1>0 DEF IInv, Texted, NoteEnded, Shows, Moved, Fails, Idle
<1>4. Control'
  BY <1>0 DEF IInv, Control, NoteEnded, Moved, Fails, Idle, Restated, InFlight, Staging,
          Entering, Firsts, Rests
<1>5. Reserved'
  BY <1>0 DEF IInv, Reserved, NoteEnded, Types, Histories, NoteOnce, Moved, Fails, Idle,
          Restated, Control, Staging, Entering, Firsts, Rests
<1>6. Unstranded'
  BY <1>0 DEF IInv, Unstranded, NoteEnded, Moved, Fails, Idle, Control, Restated, Entering,
          Firsts, Rests
<1>7. Timed'
  BY <1>0, BoundsAssumption DEF IInv, Timed, Types, Times, Restated, InFlight, Done, Control
<1>8. Alone'
  <2>1. CASE holder' = Idle
    BY <1>0, <2>1 DEF IInv, Alone, Typed, Unrun, Moved, Fails, Idle, Restated, InFlight,
       Staging, Entering, Firsts, Rests, Control
  <2>2. CASE (Moved /\ holder'.pc = "notice")
    BY <1>0, <2>2 DEF IInv, Alone, Typed, Unrun, Moved, Fails, Idle, Restated, InFlight,
       Staging, Entering, Firsts, Rests, Control
  <2> QED  BY <1>0, <2>1, <2>2
<1>9. Telling'
  BY <1>0 DEF IInv, Telling, NoteEnded, Noticed, Moved, Fails, Idle, Restated, Control,
          Firsts, Rests
<1> QED  BY <1>1, <1>2, <1>3, <1>4, <1>5, <1>6, <1>7, <1>8, <1>9 DEF IInv

LEMMA PublishNoticeKeeps ==
    ASSUME IInv, PublishNotice
    PROVE  IInv'
<1>0. /\ Types'
      /\ holder.pc = "notice" /\ Moved /\ holder'.pc = "requester" /\ holder.phase \in Phases
      /\ notices' = notices \cup {<<comp.id, holder.phase>>}
      /\ UNCHANGED <<comp, input, note, told, witness, confirmed, records, submitted,
                  screen, hooks, history, unused, collar, acts, time, crashes, faults>>
  <2>1. holder.pc = "notice" /\ comp.id \in Ids /\ holder.phase \in Phases
    BY DEF IInv, Types, Comps, Holders, Control, Named, PublishNotice
  <2>2. (Moved /\ holder'.pc = "requester") /\ holder' \in Holders
    BY HolderMoves DEF IInv, PublishNotice, Steps, Moved
  <2> QED
    BY <2>1, <2>2 DEF IInv, Types, PublishNotice, files, proofs, bounds, Quiet
<1>1. Types'
  BY <1>0
<1>2. Named'
  BY <1>0, IdsAssumption DEF IInv, Named, NoteEnded, Shows, Types, Restated
<1>3. Texted'
  BY <1>0 DEF IInv, Texted, NoteEnded, Shows, Moved, Fails, Idle
<1>4. Control'
  BY <1>0 DEF IInv, Control, NoteEnded, Moved, Fails, Idle, Restated, InFlight, Staging,
          Entering, Firsts, Rests
<1>5. Reserved'
  BY <1>0 DEF IInv, Reserved, NoteEnded, Types, Histories, NoteOnce, Moved, Fails, Idle,
          Restated, Control, Staging, Entering, Firsts, Rests
<1>6. Unstranded'
  BY <1>0 DEF IInv, Unstranded, NoteEnded, Moved, Fails, Idle, Control, Restated, Entering,
          Firsts, Rests
<1>7. Timed'
  BY <1>0, BoundsAssumption DEF IInv, Timed, Types, Times, Restated, InFlight, Done, Control
<1>8. Alone'
  BY <1>0 DEF IInv, Alone, NoteEnded, Shows, Typed, Unrun, Moved, Fails, Idle, Restated,
          InFlight, Staging, Entering, Firsts, Rests, Control
<1>9. Telling'
  BY <1>0 DEF IInv, Telling, NoteEnded, Noticed, Moved, Fails, Idle, Restated, Control,
          Firsts, Rests
<1> QED  BY <1>1, <1>2, <1>3, <1>4, <1>5, <1>6, <1>7, <1>8, <1>9 DEF IInv

LEMMA NotifyRequesterKeeps ==
    ASSUME IInv, NotifyRequester
    PROVE  IInv'
<1>0. /\ Types'
      /\ holder.pc = "requester" /\ comp.id \in Ids /\ holder.next \in Firsts \cup Rests /\ Moved /\ holder'.pc = holder.next
      /\ comp.id \in told' \cup history'.seen /\ told \subseteq told'
      /\ history'.ran = history.ran /\ history'.pasted = history.pasted
      /\ history'.again = history.again /\ history'.admitted = history.admitted
      /\ history'.twice = history.twice /\ history'.ended = history.ended
      /\ history'.lied = history.lied /\ history'.misled = history.misled
      /\ history'.since = history.since
      /\ history.seen \subseteq history'.seen
      /\ UNCHANGED <<comp, input, note, notices, witness, confirmed, records,
                  submitted, screen, hooks, unused, collar, acts, time, crashes, faults>>
  <2>1. /\ holder.pc = "requester" /\ comp.id \in Ids /\ history \in Histories /\ told \subseteq Ids
        /\ holder.next \in Firsts \cup Rests
    BY DEF IInv, Types, Comps, Holders, Control, Named, NotifyRequester
  <2>2. Moved /\ holder'.pc = holder.next /\ holder' \in Holders
    BY <2>1, HolderMoves DEF IInv, NotifyRequester, Steps, Moved
  <2>3. /\ history' \in Histories /\ told' \subseteq Ids /\ history.seen \subseteq history'.seen
        /\ comp.id \in told' \cup history'.seen /\ told \subseteq told'
        /\ history'.ran = history.ran /\ history'.pasted = history.pasted
        /\ history'.again = history.again /\ history'.admitted = history.admitted
        /\ history'.twice = history.twice /\ history'.ended = history.ended
        /\ history'.lied = history.lied /\ history'.misled = history.misled
        /\ history'.since = history.since
    BY <2>1 DEF NotifyRequester, Histories
  <2> QED
    BY <2>1, <2>2, <2>3 DEF IInv, Types, NotifyRequester, files, proofs, bounds, Quiet
<1>1. Types'
  BY <1>0
<1>2. Named'
  BY <1>0, IdsAssumption DEF IInv, Named, NoteEnded, Shows, Types, Restated
<1>3. Texted'
  BY <1>0 DEF IInv, Texted, NoteEnded, Shows, Moved, Fails, Idle
<1>4. Control'
  BY <1>0 DEF IInv, Control, NoteEnded, Moved, Fails, Idle, Restated, InFlight, Staging,
          Entering, Firsts, Rests
<1>5. Reserved'
  BY <1>0 DEF IInv, Reserved, NoteEnded, Types, Histories, NoteOnce, Moved, Fails, Idle,
          Restated, Control, Staging, Entering, Firsts, Rests
<1>6. Unstranded'
  BY <1>0 DEF IInv, Unstranded, NoteEnded, Moved, Fails, Idle, Control, Restated, Entering,
          Firsts, Rests
<1>7. Timed'
  BY <1>0, BoundsAssumption DEF IInv, Timed, Types, Times, Restated, InFlight, Done, Control
<1>8. Alone'
  BY <1>0 DEF IInv, Alone, NoteEnded, Shows, Typed, Unrun, Moved, Fails, Idle, Restated,
          InFlight, Staging, Entering, Firsts, Rests, Control
<1>9. Telling'
  BY <1>0 DEF IInv, Telling, NoteEnded, Noticed, Moved, Fails, Idle, Restated, Control,
          Firsts, Rests
<1> QED  BY <1>1, <1>2, <1>3, <1>4, <1>5, <1>6, <1>7, <1>8, <1>9 DEF IInv

LEMMA BlockKeeps ==
    ASSUME IInv, Block
    PROVE  IInv'
<1>0. /\ Types'
      /\ holder.pc = "admit"
      /\ \/ holder' = Idle
         \/ /\ comp.id = holder.id /\ ~comp.admitted /\ comp.status \notin {"none", "failed"}
            /\ Fails /\ holder'.next = "unlock"
            /\ holder'.phase \in {"ran", "may have run"}
      /\ hooks' \subseteq hooks
      /\ UNCHANGED <<comp, input, note, notices, told, witness, confirmed, records,
                  submitted, screen, history, unused, collar, acts, time, crashes, faults>>
  <2>1. holder.pc = "admit" /\ holder.task \in {"note", "altered"} /\ hooks' \subseteq hooks
    BY DEF IInv, Control, Block, HookDone
  <2>2. holder.id \in Ids
    BY <2>1 DEF IInv, Texted, Types, Histories
  <2>3. /\ holder' \in Holders
        /\ \/ holder' = Idle
           \/ /\ comp.id = holder.id /\ ~comp.admitted /\ comp.status \notin {"none", "failed"}
              /\ Fails /\ holder'.next = "unlock" /\ holder'.phase \in {"ran", "may have run"}
    BY <2>2, HolderMoves, IdsAssumption DEF IInv, Named, Block, Phases, Firsts, Rests, Fails
  <2> QED
    BY <2>1, <2>3 DEF IInv, Types, Block, files, proofs, bounds, Quiet
<1>1. Types'
  BY <1>0
<1>2. Named'
  BY <1>0, IdsAssumption DEF IInv, Named, NoteEnded, Shows, Types, Restated
<1>3. Texted'
  <2>1. CASE holder' = Idle
    BY <1>0, <2>1 DEF IInv, Texted, Moved, Fails, Idle
  <2>2. CASE Fails /\ holder'.next = "unlock" /\ holder'.phase # "not run" /\ ~comp.admitted /\ comp.status \notin {"none", "failed"}
    BY <1>0, <2>2 DEF IInv, Texted, Moved, Fails, Idle
  <2> QED  BY <1>0, <2>1, <2>2
<1>4. Control'
  <2>1. CASE holder' = Idle
    BY <1>0, <2>1 DEF IInv, Control, Moved, Fails, Idle, Restated, InFlight, Staging,
       Entering, Firsts, Rests
  <2>2. CASE Fails /\ holder'.next = "unlock" /\ holder'.phase # "not run" /\ ~comp.admitted /\ comp.status \notin {"none", "failed"}
    BY <1>0, <2>2 DEF IInv, Control, Moved, Fails, Idle, Restated, InFlight, Staging,
       Entering, Firsts, Rests
  <2> QED  BY <1>0, <2>1, <2>2
<1>5. Reserved'
  BY <1>0 DEF IInv, Reserved, NoteEnded, Types, Histories, NoteOnce, Moved, Fails, Idle,
          Restated, Control, Staging, Entering, Firsts, Rests
<1>6. Unstranded'
  BY <1>0 DEF IInv, Unstranded, NoteEnded, Moved, Fails, Idle, Control, Restated, Entering,
          Firsts, Rests
<1>7. Timed'
  BY <1>0, BoundsAssumption DEF IInv, Timed, Types, Times, Restated, InFlight, Done, Control
<1>8. Alone'
  <2>1. CASE holder' = Idle
    BY <1>0, <2>1 DEF IInv, Alone, Typed, Unrun, Moved, Fails, Idle, Restated, InFlight,
       Staging, Entering, Firsts, Rests, Control, Reserved
  <2>2. CASE Fails /\ holder'.next = "unlock" /\ holder'.phase # "not run" /\ ~comp.admitted /\ comp.status \notin {"none", "failed"}
    BY <1>0, <2>2 DEF IInv, Alone, Typed, Unrun, Moved, Fails, Idle, Restated, InFlight,
       Staging, Entering, Firsts, Rests, Control, Reserved
  <2> QED  BY <1>0, <2>1, <2>2
<1>9. Telling'
  <2>1. CASE holder' = Idle
    BY <1>0, <2>1 DEF IInv, Telling, Noticed, Moved, Fails, Idle, Restated, Control, Firsts,
       Rests
  <2>2. CASE Fails /\ holder'.next = "unlock" /\ holder'.phase # "not run" /\ ~comp.admitted /\ comp.status \notin {"none", "failed"}
    BY <1>0, <2>2 DEF IInv, Telling, Noticed, Moved, Fails, Idle, Restated, Control, Firsts,
       Rests
  <2> QED  BY <1>0, <2>1, <2>2
<1> QED  BY <1>1, <1>2, <1>3, <1>4, <1>5, <1>6, <1>7, <1>8, <1>9 DEF IInv

LEMMA AdmitKeeps ==
    ASSUME IInv, Admit
    PROVE  IInv'
<1>0. /\ Types'
      /\ holder.pc = "admit" /\ holder.task = "note" /\ holder.id = comp.id /\ comp.id \in Ids
      /\ comp.id \in history.pasted /\ ~comp.admitted /\ comp'.admitted
      /\ \/ comp.status = "completed" /\ Done(comp)
         \/ InFlight(comp) /\ comp.cont
      /\ comp' \in Comps /\ comp'.id = comp.id /\ comp'.start = comp.start /\ comp'.done = comp.done
      /\ comp'.cont = comp.cont /\ comp'.before = comp.before
      /\ comp'.status = (IF comp.status = "submitted" /\ ~Done(comp) THEN "unverified" ELSE comp.status)
      /\ holder' = Idle
      /\ screen'.composer = screen.composer /\ screen'.queue = screen.queue /\ screen'.refusals = screen.refusals
      /\ history'.ran = history.ran /\ history'.pasted = history.pasted
      /\ history'.again = history.again /\ history'.ended = history.ended
      /\ history'.lied = history.lied /\ history'.misled = history.misled
      /\ history'.seen = history.seen /\ history'.since = history.since
      /\ history'.admitted = history.admitted \cup {holder.id}
      /\ history'.twice = (IF holder.id \in history.admitted THEN history.twice \cup {holder.id} ELSE history.twice)
      /\ hooks' \subseteq hooks \cup {[kind |-> "witness", id |-> holder.id, at |-> 0]}
      /\ UNCHANGED <<input, note, notices, told, witness, confirmed, records,
                  submitted, unused, collar, acts, time, crashes, faults>>
  <2>1. /\ holder.pc = "admit" /\ holder.task \in {"note", "altered"}
        /\ comp \in Comps /\ screen \in Screens /\ history \in Histories /\ hooks \subseteq HookRecords
    BY DEF IInv, Types, Control, Admit
  <2>2. holder.id \in history.pasted /\ holder.id \in Ids
    BY <2>1 DEF IInv, Texted, Types, Histories
  <2>3. /\ holder.task = "note" /\ holder.id = comp.id /\ ~comp.admitted
        /\ \/ comp.status = "completed" /\ Done(comp)
           \/ InFlight(comp) /\ comp.cont
    BY <2>1 DEF Admit, Blocks
  <2>4. /\ comp' \in Comps /\ comp'.id = comp.id /\ comp'.start = comp.start /\ comp'.done = comp.done
        /\ comp'.cont = comp.cont /\ comp'.before = comp.before /\ comp'.admitted
        /\ comp'.status = (IF comp.status = "submitted" /\ ~Done(comp) THEN "unverified" ELSE comp.status)
    BY <2>1 DEF Admit, Admitted, Comps, Statuses
  <2>5. /\ screen' \in Screens /\ screen'.composer = screen.composer /\ screen'.queue = screen.queue
        /\ screen'.refusals = screen.refusals
    BY <2>1 DEF Admit, Work, Screens
  <2>6. /\ history' \in Histories
        /\ history'.ran = history.ran /\ history'.pasted = history.pasted
        /\ history'.again = history.again /\ history'.ended = history.ended
        /\ history'.lied = history.lied /\ history'.misled = history.misled
        /\ history'.seen = history.seen /\ history'.since = history.since
        /\ history'.admitted = history.admitted \cup {holder.id}
        /\ history'.twice = (IF holder.id \in history.admitted
                            THEN history.twice \cup {holder.id} ELSE history.twice)
    BY <2>1, <2>2 DEF Admit, Histories
  <2>7. holder' = Idle /\ holder' \in Holders
    BY HolderMoves DEF IInv, Admit
  <2> DEFINE h == [kind |-> "witness", id |-> holder.id, at |-> 0]
  <2>8. hooks' \subseteq hooks \cup {h} /\ h \in HookRecords /\ h.id \in Ids
    BY <2>2, BoundsAssumption DEF Admit, HookDone, HookRecords, Times
  <2>9. hooks' \subseteq HookRecords /\ \A g \in hooks' : g \in hooks \/ g.id \in Ids
    BY <2>1, <2>8
  <2>10. Types'
    BY <2>4, <2>5, <2>6, <2>7, <2>9 DEF IInv, Types, Admit, files, proofs, bounds, Quiet
  <2> QED
    BY <2>1, <2>2, <2>3, <2>4, <2>5, <2>6, <2>7, <2>8, <2>10 DEF Admit, files, proofs, bounds,
       Quiet
<1>1. Types'
  BY <1>0
<1>2. Named'
  BY <1>0, IdsAssumption DEF IInv, Named, NoteEnded, Shows, Types, Restated, Command, Note,
          Altered, Empty, Other
<1>3. Texted'
  BY <1>0 DEF IInv, Texted, NoteEnded, Shows, Moved, Fails, Idle, Command, Note, Altered,
          Empty, Other
<1>4. Control'
  BY <1>0 DEF IInv, Control, NoteEnded, Moved, Fails, Idle, Restated, InFlight, Staging,
          Entering, Firsts, Rests
<1>5. Reserved'
  BY <1>0 DEF IInv, Reserved, NoteEnded, Types, Histories, NoteOnce, Moved, Fails, Idle,
          Restated, Control, Staging, Entering, Firsts, Rests
<1>6. Unstranded'
  BY <1>0 DEF IInv, Unstranded, NoteEnded, Moved, Fails, Idle, Control, Restated, Entering,
          Firsts, Rests
<1>7. Timed'
  BY <1>0, BoundsAssumption, BoundsAssumption DEF IInv, Timed, Types, Times, Restated,
          InFlight, Done, Control
<1>8. Alone'
  BY <1>0 DEF IInv, Alone, NoteEnded, Shows, Typed, Unrun, Moved, Fails, Idle, Restated,
          InFlight, Staging, Entering, Firsts, Rests, Control, Command, Note, Altered,
          Empty, Other
<1>9. Telling'
  BY <1>0 DEF IInv, Telling, NoteEnded, Noticed, Moved, Fails, Idle, Restated, Control,
          Firsts, Rests
<1> QED  BY <1>1, <1>2, <1>3, <1>4, <1>5, <1>6, <1>7, <1>8, <1>9 DEF IInv

LEMMA RequestKeeps ==
    ASSUME IInv, Request
    PROVE  IInv'
<1>0. /\ Types'
      /\ holder.pc = "request" /\ input = "none"
      /\ \/ holder' = Idle /\ UNCHANGED <<comp, unused>>
         \/ /\ Moved /\ holder'.pc = "start"
            /\ \E i \in unused : /\ i \in Ids /\ comp'.id = i /\ unused' = unused \ {i}
            /\ comp'.status = "queued" /\ comp'.start = time /\ comp'.done = 0 /\ ~comp'.cont
            /\ ~comp'.admitted /\ comp'.before = 0
      /\ UNCHANGED <<input, note, notices, told, witness, confirmed, records,
                  submitted, screen, hooks, history, collar, acts, time, crashes, faults>>
  <2>1. /\ holder.pc = "request" /\ input = "none" /\ unused \subseteq Ids /\ time \in Times
        /\ UNCHANGED <<input, note, notices, told, witness, confirmed, records, submitted,
           screen, hooks, history, collar, acts, time, crashes, faults>>
    BY DEF IInv, Types, Control, Request, Firsts, files, proofs, bounds, Quiet
  <2>2. CASE Unlock /\ UNCHANGED <<comp, unused>>
    <3>1. holder' = Idle /\ holder' \in Holders
      BY <2>2, HolderMoves DEF IInv
    <3> QED  BY <2>1, <2>2, <3>1 DEF IInv, Types
  <2>3. ASSUME NEW i \in unused, comp' = [NoComp EXCEPT !.id = i, !.status = "queued", !.start = time],
               unused' = unused \ {i}, Go("start")
        PROVE  /\ Types' /\ Moved /\ holder'.pc = "start" /\ i \in Ids /\ comp'.id = i
               /\ comp'.status = "queued" /\ comp'.start = time /\ comp'.done = 0 /\ ~comp'.cont
               /\ ~comp'.admitted /\ comp'.before = 0
    <3>1. (Moved /\ holder'.pc = "start") /\ holder' \in Holders
      BY <2>3, HolderMoves DEF IInv, Moved, Steps, Rests
    <3>2. 0 \in Times
      BY BoundsAssumption DEF Times
    <3>3. /\ comp' \in Comps /\ i \in Ids /\ comp'.id = i
          /\ comp'.status = "queued" /\ comp'.start = time /\ comp'.done = 0 /\ ~comp'.cont
          /\ ~comp'.admitted /\ comp'.before = 0
      BY <2>1, <2>3, <3>2 DEF NoComp, Comps, Statuses
    <3> QED  BY <2>1, <2>3, <3>1, <3>3 DEF IInv, Types
  <2>4. \/ Unlock /\ UNCHANGED <<comp, unused>>
        \/ \E i \in unused : /\ comp' = [NoComp EXCEPT !.id = i, !.status = "queued", !.start = time]
                            /\ unused' = unused \ {i} /\ Go("start")
    BY DEF Request
  <2> QED  BY <2>1, <2>2, <2>3, <2>4, HolderMoves DEF IInv
<1>1. Types'
  BY <1>0
<1>2. Named'
  BY <1>0, IdsAssumption DEF IInv, Named, NoteEnded, Shows, Types, Restated
<1>3. Texted'
  BY <1>0 DEF IInv, Texted, NoteEnded, Shows, Moved, Fails, Idle
<1>4. Control'
  BY <1>0 DEF IInv, Control, NoteEnded, Moved, Fails, Idle, Restated, InFlight, Staging,
          Entering, Firsts, Rests
<1>5. Reserved'
  <2>1. CASE holder' = Idle /\ UNCHANGED <<comp, unused>>
    BY <1>0, <2>1 DEF IInv, Reserved, Types, Histories, NoteOnce, Moved, Fails, Idle,
       Restated, Control, Staging, Entering, Firsts, Rests, Named
  <2>2. CASE (Moved /\ holder'.pc = "start") /\ comp'.id \in unused /\ comp'.status = "queued" /\ ~comp'.cont /\ ~comp'.admitted
    BY <1>0, <2>2 DEF IInv, Reserved, Types, Histories, NoteOnce, Moved, Fails, Idle,
       Restated, Control, Staging, Entering, Firsts, Rests, Named
  <2> QED  BY <1>0, <2>1, <2>2
<1>6. Unstranded'
  BY <1>0 DEF IInv, Unstranded, NoteEnded, Moved, Fails, Idle, Control, Restated, Entering,
          Firsts, Rests
<1>7. Timed'
  BY <1>0, BoundsAssumption DEF IInv, Timed, Types, Times, Restated, InFlight, Done, Control
<1>8. Alone'
  <2>1. CASE holder' = Idle /\ UNCHANGED <<comp, unused>>
    BY <1>0, <2>1 DEF IInv, Alone, Typed, Unrun, Moved, Fails, Idle, Restated, InFlight,
       Staging, Entering, Firsts, Rests, Control, Named, Types
  <2>2. CASE (Moved /\ holder'.pc = "start") /\ comp'.id \in unused /\ comp'.status = "queued" /\ ~comp'.cont /\ ~comp'.admitted
    BY <1>0, <2>2 DEF IInv, Alone, Typed, Unrun, Moved, Fails, Idle, Restated, InFlight,
       Staging, Entering, Firsts, Rests, Control, Named, Types
  <2> QED  BY <1>0, <2>1, <2>2
<1>9. Telling'
  <2>1. CASE holder' = Idle /\ UNCHANGED <<comp, unused>>
    BY <1>0, <2>1 DEF IInv, Telling, Noticed, Moved, Fails, Idle, Restated, Control, Firsts,
       Rests, Types
  <2>2. CASE (Moved /\ holder'.pc = "start") /\ comp'.id \in unused /\ comp'.status = "queued" /\ ~comp'.cont /\ ~comp'.admitted
    BY <1>0, <2>2 DEF IInv, Telling, Noticed, Moved, Fails, Idle, Restated, Control, Firsts,
       Rests, Types
  <2> QED  BY <1>0, <2>1, <2>2
<1> QED  BY <1>1, <1>2, <1>3, <1>4, <1>5, <1>6, <1>7, <1>8, <1>9 DEF IInv

LEMMA StartKeeps ==
    ASSUME IInv, Start
    PROVE  IInv'
<1>0. /\ Types'
      /\ holder.pc = "start" /\ input = "none"
      /\ \/ UNCHANGED <<comp, input, history>> /\ Moved /\ holder'.pc \in Rests
         \/ /\ comp.status = "queued" /\ comp.id \in Ids /\ screen.composer = Empty
            /\ comp' \in Comps /\ comp'.id = comp.id /\ comp'.status = "queued"
            /\ comp'.before = screen.refusals /\ comp'.start = time /\ comp'.done = comp.done
            /\ comp'.cont = comp.cont /\ comp'.admitted = comp.admitted
            /\ input' = "compaction" /\ history'.since = time
            /\ history'.ran = history.ran /\ history'.pasted = history.pasted
            /\ history'.again = history.again /\ history'.admitted = history.admitted
            /\ history'.twice = history.twice /\ history'.ended = history.ended
            /\ history'.lied = history.lied /\ history'.misled = history.misled
            /\ history'.seen = history.seen
            /\ Moved /\ holder'.pc = "pasteCommand"
      /\ UNCHANGED <<note, notices, told, witness, confirmed, records, submitted,
                  screen, hooks, unused, collar, acts, time, crashes, faults>>
  <2>1. /\ holder.pc = "start" /\ input = "none" /\ comp \in Comps /\ time \in Times
        /\ screen.refusals \in Nat /\ history \in Histories
        /\ comp.status # "none" => comp.id \in Ids
        /\ UNCHANGED <<note, notices, told, witness, confirmed, records, submitted, screen,
           hooks, unused, collar, acts, time, crashes, faults>>
    BY DEF IInv, Types, Control, Named, Comps, Screens, Start, StartFrom, Firsts, Rests,
       files, proofs, bounds, Quiet
  <2>2. CASE Go(Rest) /\ UNCHANGED <<comp, input, history>>
    <3>1. Rest \in Rests /\ Rests \subseteq Steps
      BY DEF Rest, RestOf, Rests, Steps
    <3>2. Moved /\ holder'.pc = Rest /\ holder' \in Holders
      BY <2>2, <3>1, HolderMoves DEF IInv, Moved
    <3>3. Types'
      BY <2>1, <2>2, <3>2 DEF IInv, Types
    <3> QED  BY <2>1, <2>2, <3>1, <3>2, <3>3
  <2>3. CASE /\ comp.status = "queued" /\ screen.composer = Empty
             /\ comp' = [comp EXCEPT !.before = screen.refusals, !.start = time]
             /\ input' = "compaction" /\ history' = [history EXCEPT !.since = time] /\ Go("pasteCommand")
    <3>1. (Moved /\ holder'.pc = "pasteCommand") /\ holder' \in Holders
      BY <2>3, HolderMoves DEF IInv, Moved, Steps, Staging
    <3>0. comp \in Comps /\ screen.refusals \in Nat /\ time \in Times
      BY <2>1
    <3> DEFINE c == [comp EXCEPT !.before = screen.refusals, !.start = time]
    <3> DEFINE h == [history EXCEPT !.since = time]
    <3>2. /\ c \in Comps /\ c.id = comp.id /\ c.status = comp.status
          /\ c.before = screen.refusals /\ c.start = time /\ c.done = comp.done
          /\ c.cont = comp.cont /\ c.admitted = comp.admitted
      BY <3>0 DEF Comps
    <3>3. /\ h \in Histories /\ h.since = time
          /\ h.ran = history.ran /\ h.pasted = history.pasted /\ h.again = history.again
          /\ h.admitted = history.admitted /\ h.twice = history.twice
          /\ h.ended = history.ended /\ h.lied = history.lied /\ h.misled = history.misled
          /\ h.seen = history.seen
      BY <2>1, StartRecords
    <3>5. comp' = c /\ history' = h /\ input' = "compaction" /\ comp.status = "queued" /\ screen.composer = Empty
      BY <2>3
    <3> HIDE DEF c, h
    <3>4. Types'
      BY <2>1, <3>1, <3>2, <3>3, <3>5 DEF IInv, Types
    <3> QED  BY <2>1, <3>1, <3>2, <3>3, <3>4, <3>5
  <2>4. \/ Go(Rest) /\ UNCHANGED <<comp, input, history>>
        \/ /\ comp.status = "queued" /\ screen.composer = Empty
           /\ comp' = [comp EXCEPT !.before = screen.refusals, !.start = time]
           /\ input' = "compaction" /\ history' = [history EXCEPT !.since = time] /\ Go("pasteCommand")
    BY DEF Start, StartFrom
  <2> QED  BY <2>2, <2>3, <2>4
<1>1. Types'
  BY <1>0
<1>2. Named'
  BY <1>0, IdsAssumption DEF IInv, Named, NoteEnded, Shows, Types, Restated
<1>3. Texted'
  BY <1>0 DEF IInv, Texted, NoteEnded, Shows, Moved, Fails, Idle
<1>4. Control'
  BY <1>0 DEF IInv, Control, NoteEnded, Moved, Fails, Idle, Restated, InFlight, Staging,
          Entering, Firsts, Rests
<1>5. Reserved'
  BY <1>0 DEF IInv, Reserved, NoteEnded, Types, Histories, NoteOnce, Moved, Fails, Idle,
          Restated, Control, Staging, Entering, Firsts, Rests
<1>6. Unstranded'
  BY <1>0 DEF IInv, Unstranded, NoteEnded, Moved, Fails, Idle, Control, Restated, Entering,
          Firsts, Rests
<1>7. Timed'
  BY <1>0, BoundsAssumption DEF IInv, Timed, Types, Times, Restated, InFlight, Done, Control
<1>8. Alone'
  <2>1. CASE UNCHANGED <<comp, input, history>> /\ Moved /\ holder'.pc \in Rests
    BY <1>0, <2>1 DEF IInv, Alone, Typed, Unrun, Moved, Fails, Idle, Restated, InFlight,
       Staging, Entering, Firsts, Rests, Control, Types, Screens
  <2>2. CASE /\ comp.status = "queued" /\ input = "none" /\ Moved /\ holder'.pc = "pasteCommand"
             /\ comp'.before = screen.refusals /\ comp'.id = comp.id /\ comp'.status = "queued"
             /\ screen.composer = Empty
    BY <1>0, <2>2 DEF IInv, Alone, Typed, Unrun, Moved, Fails, Idle, Restated, InFlight,
       Staging, Entering, Firsts, Rests, Control, Types, Screens
  <2> QED  BY <1>0, <2>1, <2>2
<1>9. Telling'
  BY <1>0 DEF IInv, Telling, NoteEnded, Noticed, Moved, Fails, Idle, Restated, Control,
          Firsts, Rests
<1> QED  BY <1>1, <1>2, <1>3, <1>4, <1>5, <1>6, <1>7, <1>8, <1>9 DEF IInv

LEMMA PasteCommandKeeps ==
    ASSUME IInv, PasteCommand
    PROVE  IInv'
<1>0. /\ Types'
      /\ holder.pc = "pasteCommand" /\ comp.status = "queued" /\ input = "compaction" /\ comp.id \in Ids
      /\ faults' \in Nat
      /\ (screen'.composer = screen.composer \/ screen'.composer = Command(comp.id) \/ screen'.composer = Other)
      /\ screen'.queue = screen.queue /\ screen'.refusals = screen.refusals
      /\ (Moved /\ holder'.pc = "readback") \/ (Moved /\ holder'.pc = "abort")
      /\ UNCHANGED <<comp, input, note, notices, told, witness, confirmed, records,
                  submitted, hooks, history, unused, collar, acts, time, crashes>>
  <2>1. /\ holder.pc = "pasteCommand" /\ comp.status = "queued" /\ input = "compaction" /\ comp.id \in Ids
        /\ UNCHANGED <<comp, input, note, notices, told, witness, confirmed, records, submitted,
           hooks, history, unused, collar, acts, time, crashes>>
    BY DEF IInv, Types, Comps, Control, Named, Staging, PasteCommand, files, proofs, bounds,
       Quiet
  <2>2. /\ Rest \in Rests /\ Rests \subseteq Firsts \cup Rests
        /\ {"not run", "may have run"} \subseteq Phases
        /\ Staging \subseteq Steps /\ Rests \subseteq Steps
    BY DEF Rest, RestOf, Rests, Phases, Steps
  <2>3. faults' \in Nat
    BY FaultCounts DEF IInv, PasteCommand
  <2>4. \E t \in {screen.composer, Command(comp.id), Other} : Shows(screen', t)
    BY <2>1, ScreenShows DEF IInv, PasteCommand
  <2>5. holder' \in Holders /\ ((Moved /\ holder'.pc = "readback") \/ (Moved /\ holder'.pc = "abort"))
    BY <2>2, HolderMoves DEF IInv, PasteCommand, Staging, Moved
  <2> QED
    BY <2>1, <2>3, <2>4, <2>5 DEF IInv, Types, Shows
<1>1. Types'
  BY <1>0
<1>2. Named'
  BY <1>0, IdsAssumption DEF IInv, Named, NoteEnded, Shows, Types, Restated, Command, Note,
          Altered, Empty, Other
<1>3. Texted'
  BY <1>0 DEF IInv, Texted, NoteEnded, Shows, Moved, Fails, Idle, Command, Note, Altered,
          Empty, Other
<1>4. Control'
  BY <1>0 DEF IInv, Control, NoteEnded, Moved, Fails, Idle, Restated, InFlight, Staging,
          Entering, Firsts, Rests
<1>5. Reserved'
  BY <1>0 DEF IInv, Reserved, NoteEnded, Types, Histories, NoteOnce, Moved, Fails, Idle,
          Restated, Control, Staging, Entering, Firsts, Rests
<1>6. Unstranded'
  BY <1>0 DEF IInv, Unstranded, NoteEnded, Moved, Fails, Idle, Control, Restated, Entering,
          Firsts, Rests
<1>7. Timed'
  BY <1>0, BoundsAssumption DEF IInv, Timed, Types, Times, Restated, InFlight, Done, Control
<1>8. Alone'
  BY <1>0 DEF IInv, Alone, NoteEnded, Shows, Typed, Unrun, Moved, Fails, Idle, Restated,
          InFlight, Staging, Entering, Firsts, Rests, Control, Command, Note, Altered,
          Empty, Other
<1>9. Telling'
  BY <1>0 DEF IInv, Telling, NoteEnded, Noticed, Moved, Fails, Idle, Restated, Control,
          Firsts, Rests
<1> QED  BY <1>1, <1>2, <1>3, <1>4, <1>5, <1>6, <1>7, <1>8, <1>9 DEF IInv

LEMMA ReadbackKeeps ==
    ASSUME IInv, Readback
    PROVE  IInv'
<1>0. /\ Types'
      /\ holder.pc = "readback" /\ comp.status = "queued" /\ input = "compaction" /\ comp.id \in Ids
      /\ faults' \in Nat
      /\ (screen'.composer = screen.composer \/ screen'.composer = Empty)
      /\ screen'.queue = screen.queue /\ screen'.refusals = screen.refusals
      /\ \/ (Moved /\ holder'.pc = "abort") \/ (Moved /\ holder'.pc = "defer")
         \/ (Moved /\ holder'.pc = "enterCommand") /\ screen'.composer = Command(comp.id)
         \/ Fails /\ holder'.phase = "not run" /\ holder'.next \in Rests
      /\ UNCHANGED <<comp, input, note, notices, told, witness, confirmed, records,
                  submitted, hooks, history, unused, collar, acts, time, crashes>>
  <2>1. /\ holder.pc = "readback" /\ comp.status = "queued" /\ input = "compaction" /\ comp.id \in Ids
        /\ UNCHANGED <<comp, input, note, notices, told, witness, confirmed, records, submitted,
           hooks, history, unused, collar, acts, time, crashes>>
    BY DEF IInv, Types, Comps, Control, Named, Staging, Readback, files, proofs, bounds, Quiet
  <2>2. /\ Rest \in Rests /\ Rests \subseteq Firsts \cup Rests
        /\ {"not run", "may have run"} \subseteq Phases
        /\ Staging \subseteq Steps /\ Rests \subseteq Steps
    BY DEF Rest, RestOf, Rests, Phases, Steps
  <2>3. faults' \in Nat
    BY FaultCounts DEF IInv, Readback
  <2>4. \E t \in {screen.composer, Empty} : Shows(screen', t)
    BY <2>1, ScreenShows DEF IInv, Readback
  <2>5. /\ holder' \in Holders
        /\ \/ (Moved /\ holder'.pc = "abort") \/ (Moved /\ holder'.pc = "defer")
           \/ (Moved /\ holder'.pc = "enterCommand") /\ screen'.composer = Command(comp.id)
           \/ Fails /\ holder'.phase = "not run" /\ holder'.next \in Rests
    BY <2>2, HolderMoves DEF IInv, Readback, Staging, Moved, Fails
  <2> QED
    BY <2>1, <2>3, <2>4, <2>5 DEF IInv, Types, Shows
<1>1. Types'
  BY <1>0
<1>2. Named'
  <2>1. /\ comp'.status = comp.status /\ comp'.id = comp.id /\ UNCHANGED <<note, unused, history>>
        /\ screen'.queue = screen.queue /\ (screen'.composer = screen.composer \/ screen'.composer = Empty)
    BY <1>0 DEF Moved, Fails, Restated
  <2> QED  BY <2>1 DEF IInv, Named, Command, Empty
<1>3. Texted'
  <2>1. /\ screen'.queue = screen.queue /\ (screen'.composer = screen.composer \/ screen'.composer = Empty)
        /\ holder'.task = holder.task /\ holder'.id = holder.id /\ UNCHANGED <<hooks, history>>
    BY <1>0 DEF Moved, Fails, Restated
  <2> QED  BY <2>1 DEF IInv, Texted, Note, Altered, Empty
<1>4. Control'
  BY <1>0 DEF IInv, Control, NoteEnded, Moved, Fails, Idle, Restated, InFlight, Staging,
          Entering, Firsts, Rests
<1>5. Reserved'
  BY <1>0 DEF IInv, Reserved, NoteEnded, Types, Histories, NoteOnce, Moved, Fails, Idle,
          Restated, Control, Staging, Entering, Firsts, Rests
<1>6. Unstranded'
  BY <1>0 DEF IInv, Unstranded, NoteEnded, Moved, Fails, Idle, Control, Restated, Entering,
          Firsts, Rests
<1>7. Timed'
  BY <1>0, BoundsAssumption DEF IInv, Timed, Types, Times, Restated, InFlight, Done, Control
<1>8. Alone'
  <2>1. /\ comp.status = "queued" /\ holder.pc = "readback" /\ input = "compaction"
        /\ screen'.queue = screen.queue /\ screen'.refusals = screen.refusals
        /\ UNCHANGED <<comp, input, history, acts>>
        /\ \/ holder'.pc \in {"abort", "defer"}
           \/ holder'.pc = "enterCommand" /\ screen'.composer = Command(comp.id)
           \/ holder'.pc = "fail"
    BY <1>0 DEF Moved, Fails, Restated
  <2> QED  BY <2>1 DEF IInv, Alone, Typed, Unrun, Reserved, InFlight, Staging, Entering, Rests
<1>9. Telling'
  BY <1>0 DEF IInv, Telling, NoteEnded, Noticed, Moved, Fails, Idle, Restated, Control,
          Firsts, Rests
<1> QED  BY <1>1, <1>2, <1>3, <1>4, <1>5, <1>6, <1>7, <1>8, <1>9 DEF IInv

LEMMA AbortKeeps ==
    ASSUME IInv, Abort
    PROVE  IInv'
<1>0. /\ Types'
      /\ holder.pc = "abort" /\ comp.status = "queued" /\ input = "compaction" /\ comp.id \in Ids
      /\ faults' \in Nat
      /\ (screen'.composer = screen.composer \/ screen'.composer = Empty)
      /\ screen'.queue = screen.queue /\ screen'.refusals = screen.refusals
      /\ Fails /\ holder'.phase # "ran"
      /\ holder'.next \in Rests
      /\ UNCHANGED <<comp, input, note, notices, told, witness, confirmed, records,
                  submitted, hooks, history, unused, collar, acts, time, crashes>>
  <2>1. /\ holder.pc = "abort" /\ comp.status = "queued" /\ input = "compaction" /\ comp.id \in Ids
        /\ UNCHANGED <<comp, input, note, notices, told, witness, confirmed, records, submitted,
           hooks, history, unused, collar, acts, time, crashes>>
    BY DEF IInv, Types, Comps, Control, Named, Staging, Abort, files, proofs, bounds, Quiet
  <2>2. /\ Rest \in Rests /\ Rests \subseteq Firsts \cup Rests
        /\ {"not run", "may have run"} \subseteq Phases
        /\ Staging \subseteq Steps /\ Rests \subseteq Steps
    BY DEF Rest, RestOf, Rests, Phases, Steps
  <2>3. faults' \in Nat
    BY FaultCounts DEF IInv, Abort
  <2>4. \E t \in {screen.composer, Empty} : Shows(screen', t)
    BY <2>1, ScreenShows DEF IInv, Abort
  <2>5. holder' \in Holders /\ Fails /\ holder'.phase # "ran" /\ holder'.next \in Rests
    BY <2>2, HolderMoves DEF IInv, Abort, Fails
  <2> QED
    BY <2>1, <2>3, <2>4, <2>5 DEF IInv, Types, Shows
<1>1. Types'
  BY <1>0
<1>2. Named'
  <2>1. /\ comp'.status = comp.status /\ comp'.id = comp.id /\ UNCHANGED <<note, unused, history>>
        /\ screen'.queue = screen.queue /\ (screen'.composer = screen.composer \/ screen'.composer = Empty)
    BY <1>0 DEF Moved, Fails, Restated
  <2> QED  BY <2>1 DEF IInv, Named, Command, Empty
<1>3. Texted'
  <2>1. /\ screen'.queue = screen.queue /\ (screen'.composer = screen.composer \/ screen'.composer = Empty)
        /\ holder'.task = holder.task /\ holder'.id = holder.id /\ UNCHANGED <<hooks, history>>
    BY <1>0 DEF Moved, Fails, Restated
  <2> QED  BY <2>1 DEF IInv, Texted, Note, Altered, Empty
<1>4. Control'
  BY <1>0 DEF IInv, Control, NoteEnded, Moved, Fails, Idle, Restated, InFlight, Staging,
          Entering, Firsts, Rests
<1>5. Reserved'
  BY <1>0 DEF IInv, Reserved, NoteEnded, Types, Histories, NoteOnce, Moved, Fails, Idle,
          Restated, Control, Staging, Entering, Firsts, Rests
<1>6. Unstranded'
  BY <1>0 DEF IInv, Unstranded, NoteEnded, Moved, Fails, Idle, Control, Restated, Entering,
          Firsts, Rests
<1>7. Timed'
  BY <1>0, BoundsAssumption DEF IInv, Timed, Types, Times, Restated, InFlight, Done, Control
<1>8. Alone'
  <2>1. /\ comp.status = "queued" /\ holder.pc = "abort" /\ input = "compaction"
        /\ screen'.queue = screen.queue /\ screen'.refusals = screen.refusals
        /\ UNCHANGED <<comp, input, history, acts>>
        /\ holder'.pc = "fail"
    BY <1>0 DEF Moved, Fails, Restated
  <2> QED  BY <2>1 DEF IInv, Alone, Typed, Unrun, Reserved, InFlight, Staging, Entering, Rests
<1>9. Telling'
  BY <1>0 DEF IInv, Telling, NoteEnded, Noticed, Moved, Fails, Idle, Restated, Control,
          Firsts, Rests
<1> QED  BY <1>1, <1>2, <1>3, <1>4, <1>5, <1>6, <1>7, <1>8, <1>9 DEF IInv

LEMMA DeferKeeps ==
    ASSUME IInv, Defer
    PROVE  IInv'
<1>0. /\ Types'
      /\ holder.pc = "defer" /\ comp.status = "queued" /\ input = "compaction" /\ comp.id \in Ids
      /\ faults' \in Nat
      /\ (screen'.composer = screen.composer \/ screen'.composer = Empty)
      /\ screen'.queue = screen.queue /\ screen'.refusals = screen.refusals
      /\ Restated(comp', comp, "queued")
      /\ \/ input' = input /\ Fails /\ holder'.phase = "not run" /\ holder'.next \in Rests
         \/ input' = "none" /\ Moved /\ holder'.pc \in Rests
      /\ UNCHANGED <<note, notices, told, witness, confirmed, records, submitted,
                  hooks, history, unused, collar, acts, time, crashes>>
  <2>1. /\ holder.pc = "defer" /\ comp.status = "queued" /\ input = "compaction" /\ comp.id \in Ids /\ comp \in Comps
        /\ UNCHANGED <<note, notices, told, witness, confirmed, records, submitted, hooks,
           history, unused, collar, acts, time, crashes>>
    BY DEF IInv, Types, Comps, Control, Named, Staging, Defer, files, proofs, bounds, Quiet
  <2>2. /\ Rest \in Rests /\ Rests \subseteq Firsts \cup Rests
        /\ {"not run", "may have run"} \subseteq Phases
        /\ Staging \subseteq Steps /\ Rests \subseteq Steps
    BY DEF Rest, RestOf, Rests, Phases, Steps
  <2>3. faults' \in Nat
    BY FaultCounts DEF IInv, Defer
  <2>4. /\ \E t \in {screen.composer, Empty} : Shows(screen', t)
        /\ comp' = comp \/ \E b \in BOOLEAN : comp' = [comp EXCEPT !.staged = b]
    BY <2>1, ScreenShows DEF IInv, Defer
  <2>5. \A b \in BOOLEAN : Restated([comp EXCEPT !.staged = b], comp, comp.status)
    BY <2>1 DEF Comps, Restated
  <2>6. Restated(comp', comp, "queued")
    BY <2>1, <2>4, <2>5 DEF Restated
  <2>7. /\ holder' \in Holders
        /\ \/ input' = input /\ Fails /\ holder'.phase = "not run" /\ holder'.next \in Rests
           \/ input' = "none" /\ Moved /\ holder'.pc \in Rests
    BY <2>2, HolderMoves DEF IInv, Defer, Moved, Fails
  <2> QED
    BY <2>1, <2>3, <2>4, <2>6, <2>7 DEF IInv, Types, Shows, Restated
<1>1. Types'
  BY <1>0
<1>2. Named'
  <2>1. /\ comp'.status = comp.status /\ comp'.id = comp.id /\ UNCHANGED <<note, unused, history>>
        /\ screen'.queue = screen.queue /\ (screen'.composer = screen.composer \/ screen'.composer = Empty)
    BY <1>0 DEF Moved, Fails, Restated
  <2> QED  BY <2>1 DEF IInv, Named, Command, Empty
<1>3. Texted'
  <2>1. /\ screen'.queue = screen.queue /\ (screen'.composer = screen.composer \/ screen'.composer = Empty)
        /\ holder'.task = holder.task /\ holder'.id = holder.id /\ UNCHANGED <<hooks, history>>
    BY <1>0 DEF Moved, Fails, Restated
  <2> QED  BY <2>1 DEF IInv, Texted, Note, Altered, Empty
<1>4. Control'
  BY <1>0 DEF IInv, Control, NoteEnded, Moved, Fails, Idle, Restated, InFlight, Staging,
          Entering, Firsts, Rests
<1>5. Reserved'
  BY <1>0 DEF IInv, Reserved, NoteEnded, Types, Histories, NoteOnce, Moved, Fails, Idle,
          Restated, Control, Staging, Entering, Firsts, Rests
<1>6. Unstranded'
  BY <1>0 DEF IInv, Unstranded, NoteEnded, Moved, Fails, Idle, Control, Restated, Entering,
          Firsts, Rests
<1>7. Timed'
  BY <1>0, BoundsAssumption DEF IInv, Timed, Types, Times, Restated, InFlight, Done, Control
<1>8. Alone'
  <2>1. /\ comp.status = "queued" /\ holder.pc = "defer" /\ input = "compaction"
        /\ screen'.queue = screen.queue /\ screen'.refusals = screen.refusals
        /\ UNCHANGED <<history, acts>>
        /\ comp'.status = "queued" /\ comp'.id = comp.id /\ comp'.before = comp.before
        /\ (input' = input /\ holder'.pc = "fail") \/ (input' = "none" /\ holder'.pc \in Rests)
    BY <1>0 DEF Moved, Fails, Restated
  <2> QED  BY <2>1 DEF IInv, Alone, Typed, Unrun, Reserved, InFlight, Staging, Entering, Rests
<1>9. Telling'
  BY <1>0 DEF IInv, Telling, NoteEnded, Noticed, Moved, Fails, Idle, Restated, Control,
          Firsts, Rests
<1> QED  BY <1>1, <1>2, <1>3, <1>4, <1>5, <1>6, <1>7, <1>8, <1>9 DEF IInv

LEMMA EnterCommandKeeps ==
    ASSUME IInv, EnterCommand
    PROVE  IInv'
<1>0. /\ Types'
      /\ holder.pc = "enterCommand" /\ comp \in Comps /\ comp.status = "queued" /\ input = "compaction" /\ comp.id \in Ids
      /\ faults' \in Nat
      /\ Entered
      /\ \/ UNCHANGED <<comp, input>> /\ Moved /\ holder'.pc = "submitted"
         \/ Restated(comp', comp, "unverified") /\ input' = "none" /\ holder' = Idle
      /\ UNCHANGED <<note, notices, told, witness, confirmed, records, submitted,
                  unused, collar, acts, time, crashes>>
  <2>1. /\ holder.pc = "enterCommand" /\ comp \in Comps /\ comp.status = "queued" /\ input = "compaction" /\ comp.id \in Ids
        /\ UNCHANGED <<note, notices, told, witness, confirmed, records, submitted, unused,
           collar, acts, time, crashes>>
    BY DEF IInv, Types, Comps, Control, Named, Staging, EnterCommand, files, proofs, bounds,
       Quiet
  <2>2. faults' \in Nat
    BY FaultCounts DEF IInv, EnterCommand
  <2>3. /\ Entered /\ screen' \in Screens /\ history' \in Histories /\ hooks' \subseteq HookRecords
        /\ \A h \in hooks' : h \in hooks \/ h.id \in Ids
    BY MayEnter DEF IInv, EnterCommand
  <2>4. /\ holder' \in Holders
        /\ \/ UNCHANGED <<comp, input>> /\ Moved /\ holder'.pc = "submitted"
           \/ Restated(comp', comp, "unverified") /\ input' = "none" /\ holder' = Idle
    BY <2>1, HolderMoves, RecordMoves DEF IInv, EnterCommand, Steps, Moved
  <2>5. comp' \in Comps /\ (input' = "none" \/ input' = input)
    BY <2>1, <2>4 DEF Restated
  <2> QED
    BY <2>1, <2>2, <2>3, <2>4, <2>5 DEF IInv, Types
<1>1. Types'
  BY <1>0
<1>2. Named'
  <2>1. /\ comp.id \in Ids
        /\ UNCHANGED <<note, unused>> /\ Entered
        /\ comp'.id = comp.id /\ comp.status # "none" /\ comp'.status # "none"
    BY <1>0 DEF Moved, Fails, Restated
  <2> QED  BY <2>1, TextKinds, IdsAssumption DEF IInv, Named, Types, Entered
<1>3. Texted'
  <2>1. /\ Entered
        /\ holder'.task = "none" \/ (holder'.task = holder.task /\ holder'.id = holder.id)
    BY <1>0 DEF Moved, Idle
  <2> QED  BY <2>1, TextKinds DEF IInv, Texted, Entered
<1>4. Control'
  BY <1>0 DEF IInv, Control, NoteEnded, Moved, Fails, Idle, Restated, InFlight, Staging,
          Entering, Firsts, Rests
<1>5. Reserved'
  <2>1. /\ comp.status = "queued" /\ comp'.id = comp.id /\ comp'.cont = comp.cont /\ comp'.admitted = comp.admitted /\ UNCHANGED note
        /\ comp'.status = comp.status \/ comp'.status = "unverified"
        /\ history'.pasted = history.pasted /\ history'.again = history.again
        /\ history'.admitted = history.admitted /\ history'.twice = history.twice
        /\ comp.id \in Ids
    BY <1>0 DEF Restated, Entered
  <2> QED  BY <2>1 DEF IInv, Reserved, NoteOnce, Types, Histories
<1>6. Unstranded'
  BY <1>0 DEF IInv, Unstranded, NoteEnded, Moved, Fails, Idle, Control, Restated, Entering,
          Firsts, Rests
<1>7. Timed'
  <2>1. /\ input = "compaction" /\ comp'.start = comp.start /\ comp'.done = comp.done
        /\ comp.status = "queued" /\ (comp'.status = "queued" \/ comp'.status = "unverified")
        /\ history'.ended = history.ended /\ history'.since = history.since
        /\ UNCHANGED <<time, witness, records, confirmed>>
        /\ \A h \in hooks' : h \in hooks \/ h.at = 0
    BY <1>0 DEF Restated, Entered
  <2> QED  BY <2>1, BoundsAssumption DEF IInv, Timed, Types, Times, InFlight, Done
<1>8. Alone'
  <2>1. /\ comp.status = "queued" /\ holder.pc = "enterCommand" /\ input = "compaction" /\ UNCHANGED acts
        /\ comp'.id = comp.id /\ comp'.before = comp.before /\ comp.id \notin history.pasted
        /\ screen.refusals \in Nat /\ comp.before \in Nat
        /\ \/ screen'.refusals = screen.refusals
           \/ /\ screen'.refusals = screen.refusals + 1
              /\ screen'.queue = screen.queue /\ history'.ran = history.ran
        /\ history'.lied = history.lied /\ history'.misled = history.misled /\ history'.pasted = history.pasted
        /\ \/ comp'.status = "queued" /\ input' = input /\ holder'.pc = "submitted"
           \/ comp'.status = "unverified" /\ holder'.pc = "free" /\ input' = "none"
    BY <1>0, CountedRefusals DEF IInv, Reserved, Moved, Restated, Idle, Entered
  <2>2. acts = 0 => Unrun(comp.id) /\ screen.refusals = comp.before /\ history.lied = {} /\ history.misled = {}
    BY <2>1 DEF IInv, Alone, Typed, Staging
  <2>3. acts = 0 /\ screen'.refusals > comp.before => Unrun(comp.id)'
    BY <2>1, <2>2 DEF Unrun
  <2> QED  BY <2>1, <2>2, <2>3 DEF Alone, Typed, Unrun, InFlight, Staging, Entering
<1>9. Telling'
  BY <1>0 DEF IInv, Telling, NoteEnded, Noticed, Moved, Fails, Idle, Restated, Control,
          Firsts, Rests
<1> QED  BY <1>1, <1>2, <1>3, <1>4, <1>5, <1>6, <1>7, <1>8, <1>9 DEF IInv

LEMMA SaveSubmittedKeeps ==
    ASSUME IInv, SaveSubmitted
    PROVE  IInv'
<1>0. /\ Types'
      /\ holder.pc = "submitted" /\ comp.status = "queued" /\ input = "compaction" /\ comp.id \in Ids
      /\ Restated(comp', comp, "submitted") /\ input' = "none"
      /\ Moved /\ holder'.pc = "publish"
      /\ UNCHANGED <<note, notices, told, witness, confirmed, records, submitted,
                  screen, hooks, history, unused, collar, acts, time, crashes, faults>>
  <2>1. /\ holder.pc = "submitted" /\ comp \in Comps /\ comp.status = "queued" /\ input = "compaction" /\ comp.id \in Ids
        /\ UNCHANGED <<note, notices, told, witness, confirmed, records, submitted, screen,
           hooks, history, unused, collar, acts, time, crashes, faults>>
    BY DEF IInv, Types, Comps, Control, Named, SaveSubmitted, files, proofs, bounds, Quiet
  <2>2. Restated(comp', comp, "submitted") /\ input' = "none"
    BY <2>1, RecordMoves DEF SaveSubmitted
  <2>3. Moved /\ holder'.pc = "publish" /\ holder' \in Holders
    BY HolderMoves DEF IInv, SaveSubmitted, Steps, Moved
  <2> QED
    BY <2>1, <2>2, <2>3 DEF IInv, Types, Restated
<1>1. Types'
  BY <1>0
<1>2. Named'
  BY <1>0, IdsAssumption DEF IInv, Named, NoteEnded, Shows, Types, Restated
<1>3. Texted'
  BY <1>0 DEF IInv, Texted, NoteEnded, Shows, Moved, Fails, Idle
<1>4. Control'
  BY <1>0 DEF IInv, Control, NoteEnded, Moved, Fails, Idle, Restated, InFlight, Staging,
          Entering, Firsts, Rests, Reserved
<1>5. Reserved'
  BY <1>0 DEF IInv, Reserved, NoteEnded, Types, Histories, NoteOnce, Moved, Fails, Idle,
          Restated, Control, Staging, Entering, Firsts, Rests
<1>6. Unstranded'
  BY <1>0 DEF IInv, Unstranded, NoteEnded, Moved, Fails, Idle, Control, Restated, Entering,
          Firsts, Rests
<1>7. Timed'
  BY <1>0, BoundsAssumption DEF IInv, Timed, Types, Times, Restated, InFlight, Done, Control
<1>8. Alone'
  BY <1>0 DEF IInv, Alone, NoteEnded, Shows, Typed, Unrun, Moved, Fails, Idle, Restated,
          InFlight, Staging, Entering, Firsts, Rests, Control
<1>9. Telling'
  BY <1>0 DEF IInv, Telling, NoteEnded, Noticed, Moved, Fails, Idle, Restated, Control,
          Firsts, Rests
<1> QED  BY <1>1, <1>2, <1>3, <1>4, <1>5, <1>6, <1>7, <1>8, <1>9 DEF IInv

LEMMA PublishNoteKeeps ==
    ASSUME IInv, PublishNote
    PROVE  IInv'
<1>0. /\ Types'
      /\ holder.pc = "publish" /\ comp.status = "submitted" /\ input = "none" /\ comp.id \in Ids /\ note[comp.id] = "none"
      /\ note'[comp.id] = "new" /\ \A i \in Ids : i # comp.id => note'[i] = note[i]
      /\ Moved /\ holder'.pc = "reserve"
      /\ UNCHANGED <<comp, input, notices, told, witness, confirmed, records,
                  submitted, screen, hooks, history, unused, collar, acts, time, crashes,
                  faults>>
  <2>1. /\ holder.pc = "publish" /\ comp.status = "submitted" /\ input = "none" /\ comp.id \in Ids
        /\ note[comp.id] = "none" /\ note \in [Ids -> Places]
        /\ UNCHANGED <<comp, input, notices, told, witness, confirmed, records, submitted,
           screen, hooks, history, unused, collar, acts, time, crashes, faults>>
    BY DEF IInv, Types, Comps, Control, Named, PublishNote, files, proofs, bounds, Quiet
  <2>2. /\ note' \in [Ids -> Places] /\ note'[comp.id] = "new"
        /\ \A i \in Ids : i # comp.id => note'[i] = note[i]
    BY <2>1 DEF PublishNote, Places
  <2>3. Moved /\ holder'.pc = "reserve" /\ holder' \in Holders
    BY HolderMoves DEF IInv, PublishNote, Steps, Moved
  <2> QED
    BY <2>1, <2>2, <2>3 DEF IInv, Types
<1>1. Types'
  BY <1>0
<1>2. Named'
  BY <1>0, IdsAssumption DEF IInv, Named, NoteEnded, Shows, Types, Restated
<1>3. Texted'
  BY <1>0 DEF IInv, Texted, NoteEnded, Shows, Moved, Fails, Idle
<1>4. Control'
  BY <1>0 DEF IInv, Control, NoteEnded, Moved, Fails, Idle, Restated, InFlight, Staging,
          Entering, Firsts, Rests
<1>5. Reserved'
  BY <1>0 DEF IInv, Reserved, NoteEnded, Types, Histories, NoteOnce, Moved, Fails, Idle,
          Restated, Control, Staging, Entering, Firsts, Rests
<1>6. Unstranded'
  BY <1>0 DEF IInv, Unstranded, NoteEnded, Moved, Fails, Idle, Control, Restated, Entering,
          Firsts, Rests
<1>7. Timed'
  BY <1>0, BoundsAssumption DEF IInv, Timed, Types, Times, Restated, InFlight, Done, Control
<1>8. Alone'
  BY <1>0 DEF IInv, Alone, NoteEnded, Shows, Typed, Unrun, Moved, Fails, Idle, Restated,
          InFlight, Staging, Entering, Firsts, Rests, Control
<1>9. Telling'
  BY <1>0 DEF IInv, Telling, NoteEnded, Noticed, Moved, Fails, Idle, Restated, Control,
          Firsts, Rests
<1> QED  BY <1>1, <1>2, <1>3, <1>4, <1>5, <1>6, <1>7, <1>8, <1>9 DEF IInv

LEMMA ReserveNoteKeeps ==
    ASSUME IInv, ReserveNote
    PROVE  IInv'
<1>0. /\ Types'
      /\ holder.pc = "reserve" /\ comp.status = "submitted" /\ input = "none" /\ comp.id \in Ids /\ note[comp.id] = "new"
      /\ comp'.status = comp.status /\ comp'.id = comp.id /\ comp'.cont /\ comp'.admitted = comp.admitted
      /\ comp'.start = comp.start /\ comp'.done = comp.done /\ comp'.before = comp.before
      /\ Moved /\ holder'.pc = "await"
      /\ UNCHANGED <<input, note, notices, told, witness, confirmed, records,
                  submitted, screen, hooks, history, unused, collar, acts, time, crashes,
                  faults>>
  <2>1. /\ holder.pc = "reserve" /\ comp.status = "submitted" /\ input = "none" /\ comp.id \in Ids
        /\ note[comp.id] = "new" /\ comp \in Comps
        /\ UNCHANGED <<input, note, notices, told, witness, confirmed, records, submitted,
           screen, hooks, history, unused, collar, acts, time, crashes, faults>>
    BY DEF IInv, Types, Comps, Control, Named, ReserveNote, files, proofs, bounds, Quiet
  <2>2. /\ comp' \in Comps /\ comp'.status = comp.status /\ comp'.id = comp.id /\ comp'.cont
        /\ comp'.admitted = comp.admitted /\ comp'.start = comp.start /\ comp'.done = comp.done
        /\ comp'.before = comp.before
    BY <2>1 DEF ReserveNote, Comps
  <2>3. Moved /\ holder'.pc = "await" /\ holder' \in Holders
    BY HolderMoves DEF IInv, ReserveNote, Steps, Moved
  <2> QED
    BY <2>1, <2>2, <2>3 DEF IInv, Types
<1>1. Types'
  BY <1>0
<1>2. Named'
  BY <1>0, IdsAssumption DEF IInv, Named, NoteEnded, Shows, Types, Restated
<1>3. Texted'
  BY <1>0 DEF IInv, Texted, NoteEnded, Shows, Moved, Fails, Idle
<1>4. Control'
  BY <1>0 DEF IInv, Control, NoteEnded, Moved, Fails, Idle, Restated, InFlight, Staging,
          Entering, Firsts, Rests
<1>5. Reserved'
  BY <1>0 DEF IInv, Reserved, NoteEnded, Types, Histories, NoteOnce, Moved, Fails, Idle,
          Restated, Control, Staging, Entering, Firsts, Rests
<1>6. Unstranded'
  BY <1>0 DEF IInv, Unstranded, NoteEnded, Moved, Fails, Idle, Control, Restated, Entering,
          Firsts, Rests
<1>7. Timed'
  BY <1>0, BoundsAssumption DEF IInv, Timed, Types, Times, Restated, InFlight, Done, Control
<1>8. Alone'
  BY <1>0 DEF IInv, Alone, NoteEnded, Shows, Typed, Unrun, Moved, Fails, Idle, Restated,
          InFlight, Staging, Entering, Firsts, Rests, Control
<1>9. Telling'
  BY <1>0 DEF IInv, Telling, NoteEnded, Noticed, Moved, Fails, Idle, Restated, Control,
          Firsts, Rests
<1> QED  BY <1>1, <1>2, <1>3, <1>4, <1>5, <1>6, <1>7, <1>8, <1>9 DEF IInv

LEMMA AwaitKeeps ==
    ASSUME IInv, Await
    PROVE  IInv'
<1>0. /\ Types'
      /\ holder.pc = "await" /\ comp.status = "submitted" /\ input = "none" /\ comp.id \in Ids /\ note[comp.id] = "new" /\ comp.cont
      /\ faults' \in Nat
      /\ \/ /\ Fails /\ holder'.phase = "not run" /\ screen.refusals > comp.before
            /\ holder'.next \in Rests
         \/ /\ Moved /\ holder'.pc = "pasteNote" /\ screen.refusals <= comp.before
            /\ screen.composer = Empty
         \/ Fails /\ holder'.phase = "may have run" /\ holder'.next \in Rests
      /\ UNCHANGED <<comp, input, note, notices, told, witness, confirmed, records,
                  submitted, screen, hooks, history, unused, collar, acts, time, crashes>>
  <2>1. /\ holder.pc = "await" /\ comp.status = "submitted" /\ input = "none" /\ comp.id \in Ids
        /\ note[comp.id] = "new" /\ comp.cont
        /\ UNCHANGED <<comp, input, note, notices, told, witness, confirmed, records, submitted,
           screen, hooks, history, unused, collar, acts, time, crashes>>
    BY DEF IInv, Types, Comps, Control, Named, Await, files, proofs, bounds, Quiet
  <2>2. /\ Rest \in Rests /\ Rests \subseteq Firsts \cup Rests
        /\ {"not run", "may have run"} \subseteq Phases /\ "pasteNote" \in Steps
    BY DEF Rest, RestOf, Rests, Phases, Steps, Entering
  <2>3. faults' \in Nat
    BY FaultCounts DEF IInv, Await
  <2>4. /\ holder' \in Holders
        /\ \/ /\ Fails /\ holder'.phase = "not run" /\ screen.refusals > comp.before
              /\ holder'.next \in Rests
           \/ /\ Moved /\ holder'.pc = "pasteNote" /\ screen.refusals <= comp.before
              /\ screen.composer = Empty
           \/ Fails /\ holder'.phase = "may have run" /\ holder'.next \in Rests
    BY <2>2, HolderMoves DEF IInv, Await, Moved, Fails
  <2> QED
    BY <2>1, <2>3, <2>4 DEF IInv, Types
<1>1. Types'
  BY <1>0
<1>2. Named'
  BY <1>0, IdsAssumption DEF IInv, Named, NoteEnded, Shows, Types, Restated
<1>3. Texted'
  BY <1>0 DEF IInv, Texted, NoteEnded, Shows, Moved, Fails, Idle
<1>4. Control'
  BY <1>0 DEF IInv, Control, NoteEnded, Moved, Fails, Idle, Restated, InFlight, Staging,
          Entering, Firsts, Rests, Reserved
<1>5. Reserved'
  BY <1>0 DEF IInv, Reserved, NoteEnded, Types, Histories, NoteOnce, Moved, Fails, Idle,
          Restated, Control, Staging, Entering, Firsts, Rests
<1>6. Unstranded'
  BY <1>0 DEF IInv, Unstranded, NoteEnded, Moved, Fails, Idle, Control, Restated, Entering,
          Firsts, Rests
<1>7. Timed'
  BY <1>0, BoundsAssumption DEF IInv, Timed, Types, Times, Restated, InFlight, Done, Control
<1>8. Alone'
  <2>1. /\ comp.status = "submitted" /\ input = "none" /\ comp.id \in Ids
        /\ holder.pc = "await" /\ note[comp.id] = "new" /\ UNCHANGED <<comp, input, screen, history, acts>>
        /\ \/ holder'.pc = "fail" /\ (holder'.phase = "not run" => screen.refusals > comp.before)
           \/ holder'.pc = "pasteNote" /\ screen.refusals <= comp.before /\ screen.composer = Empty
    BY <1>0 DEF Moved, Fails, Restated
  <2> QED  BY <2>1 DEF IInv, Alone, Typed, Unrun, Reserved, InFlight, Staging, Entering, Rests, Types,
     Histories
<1>9. Telling'
  BY <1>0 DEF IInv, Telling, NoteEnded, Noticed, Moved, Fails, Idle, Restated, Control,
          Firsts, Rests
<1> QED  BY <1>1, <1>2, <1>3, <1>4, <1>5, <1>6, <1>7, <1>8, <1>9 DEF IInv

LEMMA StartNoteKeeps ==
    ASSUME IInv, StartNote
    PROVE  IInv'
<1>0. /\ Types'
      /\ holder.pc = "pasteNote" /\ note[comp.id] = "new" /\ comp.id \in Ids /\ comp.cont /\ ~comp.admitted
      /\ (comp.status = "submitted" \/ comp.status = "completed") /\ input' = "note"
      /\ Moved /\ holder'.pc = "noteText"
      /\ UNCHANGED <<comp, note, notices, told, witness, confirmed, records, submitted,
                  screen, hooks, history, unused, collar, acts, time, crashes, faults>>
  <2>1. /\ holder.pc = "pasteNote" /\ note[comp.id] = "new" /\ comp.id \in Ids /\ comp.cont /\ ~comp.admitted
        /\ comp.status = "submitted" \/ comp.status = "completed"
        /\ UNCHANGED <<comp, note, notices, told, witness, confirmed, records, submitted,
           screen, hooks, history, unused, collar, acts, time, crashes, faults>>
    BY DEF IInv, Types, Comps, Control, Named, Entering, StartNote, files, proofs, bounds,
       Quiet
  <2>2. Moved /\ holder'.pc = "noteText" /\ holder' \in Holders
    BY HolderMoves DEF IInv, StartNote, Steps, Entering, Moved
  <2> QED
    BY <2>1, <2>2 DEF IInv, Types, StartNote
<1>1. Types'
  BY <1>0
<1>2. Named'
  BY <1>0, IdsAssumption DEF IInv, Named, NoteEnded, Shows, Types, Restated
<1>3. Texted'
  BY <1>0 DEF IInv, Texted, NoteEnded, Shows, Moved, Fails, Idle
<1>4. Control'
  BY <1>0 DEF IInv, Control, NoteEnded, Moved, Fails, Idle, Restated, InFlight, Staging,
          Entering, Firsts, Rests
<1>5. Reserved'
  BY <1>0 DEF IInv, Reserved, NoteEnded, Types, Histories, NoteOnce, Moved, Fails, Idle,
          Restated, Control, Staging, Entering, Firsts, Rests
<1>6. Unstranded'
  BY <1>0 DEF IInv, Unstranded, NoteEnded, Moved, Fails, Idle, Control, Restated, Entering,
          Firsts, Rests
<1>7. Timed'
  BY <1>0, BoundsAssumption DEF IInv, Timed, Types, Times, Restated, InFlight, Done, Control
<1>8. Alone'
  BY <1>0 DEF IInv, Alone, NoteEnded, Shows, Typed, Unrun, Moved, Fails, Idle, Restated,
          InFlight, Staging, Entering, Firsts, Rests, Control
<1>9. Telling'
  BY <1>0 DEF IInv, Telling, NoteEnded, Noticed, Moved, Fails, Idle, Restated, Control,
          Firsts, Rests
<1> QED  BY <1>1, <1>2, <1>3, <1>4, <1>5, <1>6, <1>7, <1>8, <1>9 DEF IInv

LEMMA PasteNoteKeeps ==
    ASSUME IInv, PasteNote
    PROVE  IInv'
<1>0. /\ Types'
      /\ holder.pc = "noteText" /\ note[comp.id] = "new" /\ comp.id \in Ids /\ comp.cont /\ ~comp.admitted /\ input = "note"
      /\ (comp.status = "submitted" \/ comp.status = "completed") /\ faults' \in Nat
      /\ history'.pasted = history.pasted \cup {comp.id} /\ history'.again = history.again
      /\ history'.ran = history.ran /\ history'.admitted = history.admitted
      /\ history'.twice = history.twice /\ history'.ended = history.ended
      /\ history'.lied = history.lied /\ history'.misled = history.misled
      /\ history'.seen = history.seen /\ history'.since = history.since
      /\ screen'.queue = screen.queue /\ screen'.refusals = screen.refusals
      /\ screen'.composer = screen.composer \/ screen'.composer = Note(comp.id) \/ screen'.composer = Altered(comp.id)
      /\ \/ /\ Moved /\ holder'.pc = "enterNote" /\ UNCHANGED <<note, input>>
            /\ screen.composer = Empty => screen'.composer = Note(comp.id)
         \/ NoteEnded
      /\ UNCHANGED <<comp, notices, told, witness, confirmed, records, submitted,
                  hooks, unused, collar, acts, time, crashes>>
  <2>1. /\ holder.pc = "noteText" /\ note[comp.id] = "new" /\ comp.id \in Ids /\ comp.cont /\ ~comp.admitted /\ input = "note"
        /\ comp.status = "submitted" \/ comp.status = "completed"
        /\ history \in Histories
        /\ UNCHANGED <<comp, notices, told, witness, confirmed, records, submitted, hooks,
           unused, collar, acts, time, crashes>>
    BY DEF IInv, Types, Comps, Control, Named, Entering, PasteNote, files, proofs, bounds,
       Quiet
  <2>2. comp.id \notin history.pasted
    BY <2>1 DEF IInv, Reserved
  <2>3. /\ history' \in Histories /\ history'.pasted = history.pasted \cup {comp.id} /\ history'.again = history.again
        /\ history'.ran = history.ran /\ history'.admitted = history.admitted
        /\ history'.twice = history.twice /\ history'.ended = history.ended
        /\ history'.lied = history.lied /\ history'.misled = history.misled
        /\ history'.seen = history.seen /\ history'.since = history.since
    BY <2>1, <2>2 DEF PasteNote, Histories
  <2>4. faults' \in Nat
    BY FaultCounts DEF IInv, PasteNote
  <2>5. \E t : /\ t = screen.composer \/ t = Note(comp.id) \/ t = Altered(comp.id)
               /\ Shows(screen', t)
    BY <2>1, ScreenShows DEF IInv, PasteNote
  <2>6. CASE /\ screen' = Pasted(Note(comp.id)) /\ Go("enterNote")
             /\ UNCHANGED <<note, input>>
    <3>1. Moved /\ holder'.pc = "enterNote" /\ holder' \in Holders
      BY <2>6, HolderMoves DEF IInv, Steps, Entering, Moved
    <3>2. screen.composer = Empty => screen'.composer = Note(comp.id)
      BY <2>1, <2>6, ScreenShows DEF IInv, Shows
    <3> QED  BY <2>1, <2>3, <2>4, <2>5, <2>6, <3>1, <3>2 DEF IInv, Types, Shows
  <2>7. CASE EndNote("unverified", TRUE)
    <3>1. NoteEnded /\ note' \in [Ids -> Places] /\ holder' \in Holders
      BY <2>1, <2>7, EndNoteDoes DEF IInv
    <3>2. input' = "none"
      BY <3>1 DEF NoteEnded
    <3> QED  BY <2>1, <2>3, <2>4, <2>5, <3>1, <3>2 DEF IInv, Types, Shows
  <2> QED  BY <2>6, <2>7 DEF PasteNote
<1>1. Types'
  BY <1>0
<1>2. Named'
  <2>1. \A i \in unused : note'[i] = "none"
    BY <1>0, NoteEndedKeeps DEF IInv, Named, Entering
  <2>2. /\ UNCHANGED <<comp, unused>> /\ comp.id \in Ids /\ history'.ran = history.ran
        /\ history'.pasted = history.pasted \cup {comp.id} /\ screen'.queue = screen.queue
        /\ screen'.composer = screen.composer \/ screen'.composer = Note(comp.id) \/ screen'.composer = Altered(comp.id)
    BY <1>0
  <2> QED  BY <2>1, <2>2 DEF IInv, Types, Named, Command, Note, Altered
<1>3. Texted'
  <2>1. holder'.task = "none" \/ (holder'.task = holder.task /\ holder'.id = holder.id)
    BY <1>0, NoteEndedKeeps DEF Entering, Moved
  <2>2. /\ comp.id \in Ids /\ UNCHANGED hooks
        /\ history'.pasted = history.pasted \cup {comp.id} /\ screen'.queue = screen.queue
        /\ screen'.composer = screen.composer \/ screen'.composer = Note(comp.id) \/ screen'.composer = Altered(comp.id)
    BY <1>0
  <2> QED  BY <2>1, <2>2 DEF IInv, Texted, Note, Altered
<1>4. Control'
  <2>1. CASE Moved /\ holder'.pc = "enterNote" /\ UNCHANGED <<note, input>>
    BY <1>0, <2>1 DEF IInv, Control, Moved, Fails, Idle, Restated, InFlight, Staging,
       Entering, Firsts, Rests
  <2>2. CASE NoteEnded
    BY <1>0, <2>2, NoteEndedKeeps DEF Entering
  <2> QED  BY <1>0, <2>1, <2>2
<1>5. Reserved'
  <2>1. CASE Moved /\ holder'.pc = "enterNote" /\ UNCHANGED <<note, input>>
    BY <1>0, <2>1 DEF IInv, Reserved, Types, Histories, NoteOnce, Moved, Fails, Idle,
       Restated, Control, Staging, Entering, Firsts, Rests
  <2>2. CASE NoteEnded
    BY <1>0, <2>2, NoteEndedKeeps DEF Entering
  <2> QED  BY <1>0, <2>1, <2>2
<1>6. Unstranded'
  <2>1. CASE Moved /\ holder'.pc = "enterNote" /\ UNCHANGED <<note, input>>
    BY <1>0, <2>1 DEF IInv, Unstranded, Moved, Fails, Idle, Control, Restated, Entering,
       Firsts, Rests
  <2>2. CASE NoteEnded
    BY <1>0, <2>2, NoteEndedKeeps DEF Entering
  <2> QED  BY <1>0, <2>1, <2>2
<1>7. Timed'
  BY <1>0, BoundsAssumption DEF IInv, Timed, Types, Times, Restated, InFlight, Done, Control
<1>8. Alone'
  <2>1. /\ holder.pc = "noteText" /\ (comp.status = "submitted" \/ comp.status = "completed") /\ input = "note"
        /\ UNCHANGED <<comp, acts>> /\ comp.id \in Ids
        /\ history'.admitted = history.admitted /\ history'.lied = history.lied
        /\ history'.misled = history.misled
    BY <1>0
  <2>2. acts = 0 => screen'.refusals = screen.refusals
    BY <1>0
  <2>3. CASE Moved /\ holder'.pc = "enterNote" /\ UNCHANGED <<note, input>> /\ (screen.composer = Empty => screen'.composer = Note(comp.id))
    <3>1. /\ holder'.pc = "enterNote" /\ input' = "note"
          /\ acts = 0 => screen'.composer = Note(comp.id)
      BY <2>1, <2>2, <2>3 DEF IInv, Alone, Typed
    <3> QED  BY <2>1, <2>2, <3>1, EnteringIsTyped DEF Entering
  <2>4. CASE NoteEnded
    <3>1. /\ input' = "none"
          /\ \/ holder'.pc = "free" \/ holder'.pc = "settle"
             \/ holder'.pc = "fail" /\ holder'.phase = "may have run"
      BY <1>0, <2>4, NoteEndedKeeps DEF Entering
    <3> QED  BY <2>1, <2>2, <3>1, EnteringIsTyped DEF Entering
  <2> QED  BY <1>0, <2>3, <2>4
<1>9. Telling'
  <2>1. CASE Moved /\ holder'.pc = "enterNote" /\ UNCHANGED <<note, input>>
    BY <1>0, <2>1 DEF IInv, Telling, Noticed, Moved, Fails, Idle, Restated, Control, Firsts,
       Rests
  <2>2. CASE NoteEnded
    BY <1>0, <2>2, NoteEndedKeeps DEF Entering
  <2> QED  BY <1>0, <2>1, <2>2
<1> QED  BY <1>1, <1>2, <1>3, <1>4, <1>5, <1>6, <1>7, <1>8, <1>9 DEF IInv

LEMMA EnterNoteKeeps ==
    ASSUME IInv, EnterNote
    PROVE  IInv'
<1>0. /\ Types'
      /\ holder.pc = "enterNote" /\ note[comp.id] = "new" /\ comp.id \in Ids /\ comp.cont /\ ~comp.admitted /\ input = "note"
      /\ (comp.status = "submitted" \/ comp.status = "completed") /\ faults' \in Nat /\ Entered
      /\ \/ Moved /\ holder'.pc = "finishNote" /\ UNCHANGED <<note, input>>
         \/ NoteEnded
      /\ UNCHANGED <<comp, notices, told, witness, confirmed, records, submitted,
                  unused, collar, acts, time, crashes>>
  <2>1. /\ holder.pc = "enterNote" /\ note[comp.id] = "new" /\ comp.id \in Ids /\ comp.cont /\ ~comp.admitted /\ input = "note"
        /\ comp.status = "submitted" \/ comp.status = "completed"
        /\ UNCHANGED <<comp, notices, told, witness, confirmed, records, submitted, unused,
           collar, acts, time, crashes>>
    BY DEF IInv, Types, Comps, Control, Named, Entering, EnterNote, files, proofs, bounds,
       Quiet
  <2>2. /\ Entered /\ screen' \in Screens /\ history' \in Histories /\ hooks' \subseteq HookRecords
        /\ \A h \in hooks' : h \in hooks \/ h.id \in Ids
    BY MayEnter DEF IInv, EnterNote
  <2>3. faults' \in Nat
    BY FaultCounts DEF IInv, EnterNote
  <2>4. CASE Go("finishNote") /\ UNCHANGED <<note, input>>
    <3>1. Moved /\ holder'.pc = "finishNote" /\ holder' \in Holders
      BY <2>4, HolderMoves DEF IInv, Steps, Entering, Moved
    <3> QED  BY <2>1, <2>2, <2>3, <2>4, <3>1 DEF IInv, Types
  <2>5. CASE EndNote("unverified", TRUE)
    <3>1. NoteEnded /\ note' \in [Ids -> Places] /\ holder' \in Holders
      BY <2>1, <2>5, EndNoteDoes DEF IInv
    <3>2. input' = "none"
      BY <3>1 DEF NoteEnded
    <3> QED  BY <2>1, <2>2, <2>3, <3>1, <3>2 DEF IInv, Types
  <2> QED  BY <2>4, <2>5 DEF EnterNote
<1>1. Types'
  BY <1>0
<1>2. Named'
  <2>1. \A i \in unused : note'[i] = "none"
    BY <1>0, NoteEndedKeeps DEF IInv, Named, Entering, Entered
  <2>2. /\ UNCHANGED <<comp, unused>> /\ comp.id \in Ids /\ Entered
    BY <1>0
  <2> QED  BY <2>1, <2>2, TextKinds DEF IInv, Types, Named, Entered
<1>3. Texted'
  <2>1. holder'.task = "none" \/ (holder'.task = holder.task /\ holder'.id = holder.id)
    BY <1>0, NoteEndedKeeps DEF Entering, Moved, Entered
  <2>2. Entered
    BY <1>0
  <2> QED  BY <2>1, <2>2, TextKinds DEF IInv, Texted, Entered
<1>4. Control'
  <2>1. CASE Moved /\ holder'.pc = "finishNote" /\ UNCHANGED <<note, input>>
    BY <1>0, <2>1 DEF IInv, Control, Moved, Fails, Idle, Restated, InFlight, Staging,
       Entering, Firsts, Rests
  <2>2. CASE NoteEnded
    BY <1>0, <2>2, NoteEndedKeeps DEF Entering, Entered
  <2> QED  BY <1>0, <2>1, <2>2
<1>5. Reserved'
  <2>1. CASE Moved /\ holder'.pc = "finishNote" /\ UNCHANGED <<note, input>>
    BY <1>0, <2>1 DEF IInv, Reserved, Entered, Types, Histories, NoteOnce, Moved, Fails, Idle,
       Restated, Control, Staging, Entering, Firsts, Rests
  <2>2. CASE NoteEnded
    BY <1>0, <2>2, NoteEndedKeeps DEF Entering, Entered
  <2> QED  BY <1>0, <2>1, <2>2
<1>6. Unstranded'
  <2>1. CASE Moved /\ holder'.pc = "finishNote" /\ UNCHANGED <<note, input>>
    BY <1>0, <2>1 DEF IInv, Unstranded, Moved, Fails, Idle, Control, Restated, Entering,
       Firsts, Rests
  <2>2. CASE NoteEnded
    BY <1>0, <2>2, NoteEndedKeeps DEF Entering, Entered
  <2> QED  BY <1>0, <2>1, <2>2
<1>7. Timed'
  <2>1. /\ UNCHANGED <<comp, input, time, witness, records, confirmed>> \/ (UNCHANGED <<comp, time, witness, records, confirmed>> /\ input' = "none")
        /\ history'.ended = history.ended /\ history'.since = history.since
        /\ \A h \in hooks' : h \in hooks \/ h.at = 0
    BY <1>0 DEF NoteEnded, Entered
  <2> QED  BY <2>1, BoundsAssumption DEF IInv, Timed, Types, Times, InFlight, Done
<1>8. Alone'
  <2>1. /\ holder.pc = "enterNote" /\ (comp.status = "submitted" \/ comp.status = "completed") /\ input = "note"
        /\ UNCHANGED <<comp, acts>> /\ comp.id \in Ids
        /\ history'.admitted = history.admitted /\ history'.lied = history.lied
        /\ history'.misled = history.misled
    BY <1>0 DEF Entered
  <2>2. acts = 0 => screen'.refusals = screen.refusals
    BY <1>0 DEF IInv, Alone, Typed, Entered
  <2>3. CASE Moved /\ holder'.pc = "finishNote" /\ UNCHANGED <<note, input>>
    <3>1. /\ holder'.pc = "finishNote" /\ input' = "note"
      BY <2>1, <2>2, <2>3
    <3> QED  BY <2>1, <2>2, <3>1, EnteringIsTyped DEF Entering
  <2>4. CASE NoteEnded
    <3>1. /\ input' = "none"
          /\ \/ holder'.pc = "free" \/ holder'.pc = "settle"
             \/ holder'.pc = "fail" /\ holder'.phase = "may have run"
      BY <1>0, <2>4, NoteEndedKeeps DEF Entering, Entered
    <3> QED  BY <2>1, <2>2, <3>1, EnteringIsTyped DEF Entering
  <2> QED  BY <1>0, <2>3, <2>4
<1>9. Telling'
  <2>1. CASE Moved /\ holder'.pc = "finishNote" /\ UNCHANGED <<note, input>>
    BY <1>0, <2>1 DEF IInv, Telling, Noticed, Moved, Fails, Idle, Restated, Control, Firsts,
       Rests
  <2>2. CASE NoteEnded
    BY <1>0, <2>2, NoteEndedKeeps DEF Entering, Entered
  <2> QED  BY <1>0, <2>1, <2>2
<1> QED  BY <1>1, <1>2, <1>3, <1>4, <1>5, <1>6, <1>7, <1>8, <1>9 DEF IInv

LEMMA FinishNoteKeeps ==
    ASSUME IInv, FinishNote
    PROVE  IInv'
<1>0. /\ Types'
      /\ holder.pc = "finishNote" /\ note[comp.id] = "new" /\ comp.id \in Ids /\ comp.cont /\ ~comp.admitted /\ input = "note"
      /\ (comp.status = "submitted" \/ comp.status = "completed") /\ faults' \in Nat /\ NoteEnded
      /\ UNCHANGED <<comp, notices, told, witness, confirmed, records, submitted,
                  screen, hooks, history, unused, collar, acts, time, crashes>>
  <2>1. /\ holder.pc = "finishNote" /\ note[comp.id] = "new" /\ comp.id \in Ids /\ comp.cont /\ ~comp.admitted /\ input = "note"
        /\ comp.status = "submitted" \/ comp.status = "completed"
        /\ UNCHANGED <<comp, notices, told, witness, confirmed, records, submitted, screen,
           hooks, history, unused, collar, acts, time, crashes>>
    BY DEF IInv, Types, Comps, Control, Named, Entering, FinishNote, files, proofs, bounds,
       Quiet
  <2>2. faults' \in Nat
    BY FaultCounts DEF IInv, FinishNote
  <2>3. \E outcome \in {"accepted", "unverified"}, failed \in BOOLEAN : EndNote(outcome, failed)
    BY DEF FinishNote
  <2>4. NoteEnded /\ note' \in [Ids -> Places] /\ holder' \in Holders
    BY <2>1, <2>3, EndNoteDoes DEF IInv
  <2>5. input' = "none"
    BY <2>4 DEF NoteEnded
  <2> QED  BY <2>1, <2>2, <2>4, <2>5 DEF IInv, Types
<1>1. Types'
  BY <1>0
<1>2. Named'
  <2>1. \A i \in unused : note'[i] = "none"
    BY <1>0, NoteEndedKeeps DEF IInv, Named, Entering
  <2>2. UNCHANGED <<comp, unused, screen, history>>
    BY <1>0
  <2> QED  BY <2>1, <2>2 DEF IInv, Named
<1>3. Texted'
  <2>1. holder'.task = "none" \/ (holder'.task = holder.task /\ holder'.id = holder.id)
    BY <1>0, NoteEndedKeeps DEF Entering, Moved
  <2>2. UNCHANGED <<hooks, screen, history>>
    BY <1>0
  <2> QED  BY <2>1, <2>2 DEF IInv, Texted
<1>4. Control'
  BY <1>0, NoteEndedKeeps DEF Entering
<1>5. Reserved'
  BY <1>0, NoteEndedKeeps DEF Entering
<1>6. Unstranded'
  BY <1>0, NoteEndedKeeps DEF Entering
<1>7. Timed'
  BY <1>0, BoundsAssumption DEF IInv, Timed, Types, Times, Restated, InFlight, Done, Control
<1>8. Alone'
  <2>1. /\ holder.pc = "finishNote" /\ (comp.status = "submitted" \/ comp.status = "completed") /\ input = "note"
        /\ UNCHANGED <<comp, acts>> /\ comp.id \in Ids
        /\ history'.admitted = history.admitted /\ history'.lied = history.lied
        /\ history'.misled = history.misled
    BY <1>0
  <2>2. acts = 0 => screen'.refusals = screen.refusals
    BY <1>0
  <2>3. /\ input' = "none"
        /\ \/ holder'.pc = "free" \/ holder'.pc = "settle"
           \/ holder'.pc = "fail" /\ holder'.phase = "may have run"
    BY <1>0, NoteEndedKeeps DEF Entering
  <2> QED  BY <2>1, <2>2, <2>3, EnteringIsTyped DEF Entering
<1>9. Telling'
  BY <1>0, NoteEndedKeeps DEF Entering
<1> QED  BY <1>1, <1>2, <1>3, <1>4, <1>5, <1>6, <1>7, <1>8, <1>9 DEF IInv

LEMMA ObserveKeeps ==
    ASSUME IInv, Observe
    PROVE  IInv'
<1>0. /\ Types'
      /\ (holder.pc = "settle" \/ holder.pc = "observe") /\ input = "none" /\ faults' \in Nat
      /\ Restated(comp', comp, IF InFlight(comp) /\ Done(comp) THEN "completed" ELSE comp.status) \/ comp' = comp
      /\ \/ /\ Fails /\ holder'.phase = "not run" /\ holder'.next \in Rests /\ InFlight(comp')
            /\ InFlight(comp) /\ screen.refusals > comp.before
         \/ Fails /\ holder'.phase = "ran" /\ holder'.next \in Rests /\ comp'.status = "completed" /\ ~comp.admitted
         \/ Moved /\ holder'.pc \in Rests
         \/ holder' = Idle
      /\ UNCHANGED <<input, note, notices, told, witness, confirmed, records,
                  submitted, screen, hooks, history, unused, collar, acts, time, crashes>>
  <2> DEFINE c == Continued(comp)
  <2>1. /\ holder.pc = "settle" \/ holder.pc = "observe"
        /\ input = "none" /\ comp \in Comps
        /\ UNCHANGED <<input, note, notices, told, witness, confirmed, records, submitted,
           screen, hooks, history, unused, collar, acts, time, crashes>>
    BY DEF IInv, Types, Control, Rests, Observe, files, proofs, bounds, Quiet
  <2>2. faults' \in Nat
    BY FaultCounts DEF IInv, Observe
  <2>3. Restated(c, comp, IF InFlight(comp) /\ Done(comp) THEN "completed" ELSE comp.status)
    BY <2>1, RecordMoves
  <2>4. /\ RestOf(comp) \in Rests /\ RestOf(c) \in Rests /\ "start" \in Rests
        /\ "not run" \in Phases /\ "ran" \in Phases /\ Rests \subseteq Steps /\ Rests \subseteq Firsts \cup Rests
    BY DEF RestOf, Rests, Phases, Steps
  <2>5. \/ comp' = comp /\ Unlock
        \/ /\ comp' = c
           /\ \/ /\ InFlight(c) /\ screen.refusals > c.before
                 /\ Fail("not run", RestOf(comp)) \/ Fail("not run", "start")
              \/ Unentered(c, note) /\ (Fail("ran", RestOf(comp)) \/ Fail("ran", "start"))
              \/ Go(RestOf(c)) \/ Go("start")
    BY DEF Observe
  <2> HIDE DEF c
  <2>6. CASE comp' = comp /\ Unlock
    BY <2>1, <2>2, <2>6, HolderMoves DEF IInv, Types
  <2>7. CASE /\ comp' = c /\ InFlight(c) /\ screen.refusals > c.before
             /\ Fail("not run", RestOf(comp)) \/ Fail("not run", "start")
    <3>1. holder' \in Holders /\ Fails /\ holder'.phase = "not run" /\ holder'.next \in Rests
      BY <2>4, <2>7, HolderMoves DEF IInv, Fails
    <3>2. InFlight(comp') /\ InFlight(comp) /\ screen.refusals > comp.before
      BY <2>3, <2>7 DEF Restated, InFlight
    <3>3. Types'
      BY <2>1, <2>2, <2>3, <2>7, <3>1 DEF IInv, Types, Restated
    <3> QED  BY <2>1, <2>2, <2>3, <2>7, <3>1, <3>2, <3>3
  <2>8. CASE /\ comp' = c /\ Unentered(c, note)
             /\ Fail("ran", RestOf(comp)) \/ Fail("ran", "start")
    <3>1. holder' \in Holders /\ Fails /\ holder'.phase = "ran" /\ holder'.next \in Rests
      BY <2>4, <2>8, HolderMoves DEF IInv, Fails
    <3>2. comp.admitted => comp.id \in history.pasted /\ comp.id \in Ids /\ comp.cont
      BY DEF IInv, Reserved, Types, Histories
    <3>3. comp'.status = "completed" /\ ~comp.admitted
      BY <2>1, <2>3, <2>8, <3>2 DEF IInv, Reserved, Unentered, Restated
    <3>4. Types'
      BY <2>1, <2>2, <2>3, <2>8, <3>1 DEF IInv, Types, Restated
    <3> QED  BY <2>1, <2>2, <2>3, <2>8, <3>1, <3>3, <3>4
  <2>9. CASE comp' = c /\ (Go(RestOf(c)) \/ Go("start"))
    <3>1. holder' \in Holders /\ Moved /\ holder'.pc \in Rests
      BY <2>4, <2>9, HolderMoves DEF IInv, Moved
    <3>2. Types'
      BY <2>1, <2>2, <2>3, <2>9, <3>1 DEF IInv, Types, Restated
    <3> QED  BY <2>1, <2>2, <2>3, <2>9, <3>1, <3>2
  <2> QED  BY <2>5, <2>6, <2>7, <2>8, <2>9
<1>1. Types'
  BY <1>0
<1>2. Named'
  <2>1. /\ comp'.id = comp.id /\ (comp'.status = "none" <=> comp.status = "none")
        /\ UNCHANGED <<note, unused, history, screen>>
    BY <1>0 DEF Restated, InFlight
  <2> QED  BY <2>1 DEF IInv, Named
<1>3. Texted'
  <2>1. CASE Fails
    BY <1>0, <2>1 DEF IInv, Texted, Fails
  <2>2. CASE Moved
    BY <1>0, <2>2 DEF IInv, Texted, Moved
  <2>3. CASE holder' = Idle
    BY <1>0, <2>3 DEF IInv, Texted, Idle
  <2> QED  BY <1>0, <2>1, <2>2, <2>3
<1>4. Control'
  <2>1. /\ comp'.id = comp.id /\ comp'.admitted = comp.admitted /\ input' = "none"
        /\ comp'.status = comp.status \/ (comp'.status = "completed" /\ InFlight(comp))
    BY <1>0 DEF Restated
  <2>2. CASE Fails /\ holder'.next \in Rests /\ (InFlight(comp') \/ comp'.status = "completed")
    BY <1>0, <2>1, <2>2 DEF IInv, Control, Fails, InFlight, Staging, Entering, Firsts, Rests
  <2>3. CASE Moved /\ holder'.pc \in Rests
    BY <1>0, <2>1, <2>3 DEF IInv, Control, Moved, Staging, Entering, Firsts, Rests
  <2>4. CASE holder' = Idle
    BY <2>1, <2>4 DEF IInv, Control, Idle, Staging, Entering, Firsts, Rests
  <2> QED  BY <1>0, <2>2, <2>3, <2>4
<1>5. Reserved'
  BY <1>0 DEF IInv, Reserved, NoteEnded, Types, Histories, NoteOnce, Moved, Fails, Idle,
          Restated, Control, Staging, Entering, Firsts, Rests
<1>6. Unstranded'
  BY <1>0 DEF IInv, Unstranded, NoteEnded, Moved, Fails, Idle, Control, Restated, Entering,
          Firsts, Rests
<1>7. Timed'
  BY <1>0, BoundsAssumption DEF IInv, Timed, Types, Times, Restated, InFlight, Done, Control
<1>8. Alone'
  <2>1. /\ comp'.id = comp.id /\ comp'.before = comp.before /\ input = "none" /\ input' = "none"
        /\ comp'.status = comp.status \/ (comp'.status = "completed" /\ InFlight(comp))
        /\ UNCHANGED <<screen, history, acts>> /\ holder.pc \notin Staging
    BY <1>0 DEF Restated, Staging
  <2>2. comp.admitted <=> comp.id \in history.admitted
    BY DEF IInv, Reserved
  <2>3. /\ holder'.pc \in {"fail", "free"} \cup Rests
        /\ holder'.pc = "fail" => \/ /\ holder'.phase = "not run" /\ InFlight(comp)
                                     /\ screen.refusals > comp.before
                                  \/ holder'.phase = "ran" /\ ~comp.admitted
    <3>1. CASE \/ /\ Fails /\ holder'.phase = "not run" /\ InFlight(comp)
                  /\ screen.refusals > comp.before
               \/ Fails /\ holder'.phase = "ran" /\ ~comp.admitted
      BY <3>1 DEF Fails
    <3>2. CASE Moved /\ holder'.pc \in Rests
      BY <3>2 DEF Rests
    <3>3. CASE holder' = Idle
      BY <3>3 DEF Idle
    <3> QED  BY <1>0, <3>1, <3>2, <3>3
  <2>4. acts = 0 => /\ history.lied = {} /\ history.misled = {}
                    /\ comp.status = "queued" => Unrun(comp.id)
                    /\ InFlight(comp) /\ screen.refusals > comp.before =>
                          Unrun(comp.id) /\ comp.id \notin history.pasted
    BY <2>1 DEF IInv, Alone, Typed
  <2>5. history.admitted \subseteq history.pasted
    BY DEF IInv, Reserved
  <2>6. acts = 0 /\ InFlight(comp') => InFlight(comp)
    BY <2>1 DEF InFlight
  <2>7. /\ holder'.pc \notin Staging \cup Entering /\ holder'.pc # "pasteCommand" /\ holder'.pc # "pasteNote"
        /\ holder'.pc # "noteText" /\ holder'.pc # "enterCommand" /\ holder'.pc # "enterNote"
    BY <2>3 DEF Staging, Entering, Rests
  <2>8. comp'.status = "queued" => comp.status = "queued"
    BY <2>1
  <2>9. Unrun(comp.id)' <=> Unrun(comp.id)
    BY <2>1 DEF Unrun
  <2> QED  BY <2>1, <2>2, <2>3, <2>4, <2>5, <2>6, <2>7, <2>8, <2>9 DEF Alone, Typed, Unrun
<1>9. Telling'
  <2>1. /\ comp'.id = comp.id /\ UNCHANGED <<notices, told, crashes, note, history>>
        /\ comp'.status # "failed" \/ comp'.status = comp.status
        /\ holder.pc = "settle" \/ holder.pc = "observe"
    BY <1>0 DEF Restated, InFlight
  <2>2. holder'.pc # "requester"
    <3>1. CASE Fails
      BY <3>1 DEF Fails
    <3>2. CASE Moved /\ holder'.pc \in Rests
      BY <3>2 DEF Rests
    <3>3. CASE holder' = Idle
      BY <3>3 DEF Idle
    <3> QED  BY <1>0, <3>1, <3>2, <3>3
  <2> QED  BY <2>1, <2>2 DEF IInv, Telling, Noticed
<1> QED  BY <1>1, <1>2, <1>3, <1>4, <1>5, <1>6, <1>7, <1>8, <1>9 DEF IInv

LEMMA ReadRecordsKeeps ==
    ASSUME IInv, ReadRecords
    PROVE  IInv'
<1>0. /\ Types'
      /\ holder.pc = "records" /\ input = "none"
      /\ comp'.status = comp.status /\ comp'.id = comp.id /\ comp'.start = comp.start
      /\ comp'.done = (IF InFlight(comp) /\ records > comp.start THEN records ELSE comp.done)
      /\ comp'.cont = comp.cont /\ comp'.admitted = comp.admitted /\ comp'.before = comp.before
      /\ confirmed' = (IF records > confirmed THEN records ELSE confirmed)
      /\ Moved /\ (holder'.pc = "observe" \/ holder'.pc = "drain")
      /\ UNCHANGED <<input, note, notices, told, witness, records, submitted, screen,
                  hooks, history, unused, collar, acts, time, crashes, faults>>
  <2>1. /\ holder.pc = "records" /\ input = "none" /\ comp \in Comps /\ records \in Times
        /\ confirmed \in Times
        /\ UNCHANGED <<input, note, notices, told, witness, records, submitted, screen, hooks,
           history, unused, collar, acts, time, crashes, faults>>
    BY DEF IInv, Types, Control, Firsts, ReadRecords, files, proofs, bounds, Quiet
  <2>2. /\ comp' \in Comps /\ comp'.status = comp.status /\ comp'.id = comp.id /\ comp'.start = comp.start
        /\ comp'.done = (IF InFlight(comp) /\ records > comp.start THEN records ELSE comp.done)
        /\ comp'.cont = comp.cont /\ comp'.admitted = comp.admitted /\ comp'.before = comp.before
    BY <2>1, AcceptedIs DEF ReadRecords
  <2>3. confirmed' = (IF records > confirmed THEN records ELSE confirmed) /\ confirmed' \in Times
    BY <2>1 DEF ReadRecords
  <2>4. Moved /\ (holder'.pc = "observe" \/ holder'.pc = "drain") /\ holder' \in Holders
    BY HolderMoves DEF IInv, ReadRecords, Steps, Rests, Moved
  <2> QED
    BY <2>1, <2>2, <2>3, <2>4 DEF IInv, Types
<1>1. Types'
  BY <1>0
<1>2. Named'
  BY <1>0, IdsAssumption DEF IInv, Named, NoteEnded, Shows, Types, Restated
<1>3. Texted'
  BY <1>0 DEF IInv, Texted, NoteEnded, Shows, Moved, Fails, Idle
<1>4. Control'
  BY <1>0 DEF IInv, Control, NoteEnded, Moved, Fails, Idle, Restated, InFlight, Staging,
          Entering, Firsts, Rests
<1>5. Reserved'
  BY <1>0 DEF IInv, Reserved, NoteEnded, Types, Histories, NoteOnce, Moved, Fails, Idle,
          Restated, Control, Staging, Entering, Firsts, Rests
<1>6. Unstranded'
  BY <1>0 DEF IInv, Unstranded, NoteEnded, Moved, Fails, Idle, Control, Restated, Entering,
          Firsts, Rests
<1>7. Timed'
  BY <1>0, BoundsAssumption DEF IInv, Timed, Types, Times, Restated, InFlight, Done, Control
<1>8. Alone'
  BY <1>0 DEF IInv, Alone, NoteEnded, Shows, Typed, Unrun, Moved, Fails, Idle, Restated,
          InFlight, Staging, Entering, Firsts, Rests, Control
<1>9. Telling'
  BY <1>0 DEF IInv, Telling, NoteEnded, Noticed, Moved, Fails, Idle, Restated, Control,
          Firsts, Rests
<1> QED  BY <1>1, <1>2, <1>3, <1>4, <1>5, <1>6, <1>7, <1>8, <1>9 DEF IInv

LEMMA DrainKeeps ==
    ASSUME IInv, Drain
    PROVE  IInv'
<1>0. /\ Types'
      /\ holder.pc = "drain" /\ input = "none"
      /\ Restated(comp', comp, IF InFlight(comp) /\ Done(comp) THEN "completed" ELSE comp.status)
      /\ \/ Fails /\ holder'.phase = "ran" /\ holder'.next = "drain" /\ comp'.status = "completed" /\ ~comp.admitted
         \/ /\ Moved /\ holder'.pc = "pasteNote" /\ comp'.status = "completed" /\ screen.composer = Empty
            /\ comp.cont /\ ~comp.admitted /\ note[comp.id] = "new"
         \/ holder' = Idle
      /\ UNCHANGED <<input, note, notices, told, witness, confirmed, records,
                  submitted, screen, hooks, history, unused, collar, acts, time, crashes,
                  faults>>
  <2>1. /\ holder.pc = "drain" /\ input = "none" /\ comp \in Comps
        /\ UNCHANGED <<input, note, notices, told, witness, confirmed, records, submitted,
           screen, hooks, history, unused, collar, acts, time, crashes, faults>>
    BY DEF IInv, Types, Control, Rests, Drain, files, proofs, bounds, Quiet
  <2>2. /\ comp' = Continued(comp)
        /\ Restated(comp', comp, IF InFlight(comp) /\ Done(comp) THEN "completed" ELSE comp.status)
    BY <2>1, RecordMoves DEF Drain
  <2>3. \/ Unentered(comp', note) /\ Fail("ran", "drain")
        \/ CompletedResume(comp', note) /\ screen.composer = Empty /\ Go("pasteNote")
        \/ Unlock
    BY <2>2 DEF Drain
  <2>4. CASE Unentered(comp', note) /\ Fail("ran", "drain")
    <3>1. holder' \in Holders /\ Fails /\ holder'.phase = "ran" /\ holder'.next = "drain"
      BY <2>4, HolderMoves DEF IInv, Phases, Rests, Fails
    <3>2. comp.admitted => comp.id \in history.pasted /\ comp.id \in Ids /\ comp.cont
      BY DEF IInv, Reserved, Types, Histories
    <3>3. comp'.status = "completed" /\ ~comp.admitted
      BY <2>1, <2>2, <2>4, <3>2 DEF IInv, Reserved, Unentered, Restated
    <3> QED  BY <2>1, <2>2, <3>1, <3>3 DEF IInv, Types, Restated
  <2>5. CASE CompletedResume(comp', note) /\ screen.composer = Empty /\ Go("pasteNote")
    <3>1. holder' \in Holders /\ Moved /\ holder'.pc = "pasteNote"
      BY <2>5, HolderMoves DEF IInv, Steps, Entering, Moved
    <3> QED  BY <2>1, <2>2, <2>5, <3>1 DEF IInv, Types, Restated, CompletedResume
  <2>6. CASE Unlock
    BY <2>1, <2>2, <2>6, HolderMoves DEF IInv, Types, Restated
  <2> QED  BY <2>3, <2>4, <2>5, <2>6
<1>1. Types'
  BY <1>0
<1>2. Named'
  <2>1. /\ comp'.id = comp.id /\ (comp'.status = "none" <=> comp.status = "none")
        /\ UNCHANGED <<note, unused, history, screen>>
    BY <1>0 DEF Restated, InFlight
  <2> QED  BY <2>1 DEF IInv, Named
<1>3. Texted'
  <2>1. /\ holder'.task = "none" \/ (holder'.task = holder.task /\ holder'.id = holder.id)
        /\ UNCHANGED <<screen, hooks, history>>
    BY <1>0 DEF Moved, Fails, Idle
  <2> QED  BY <2>1 DEF IInv, Texted
<1>4. Control'
  BY <1>0 DEF IInv, Control, NoteEnded, Moved, Fails, Idle, Restated, InFlight, Staging,
          Entering, Firsts, Rests
<1>5. Reserved'
  BY <1>0 DEF IInv, Reserved, NoteEnded, Types, Histories, NoteOnce, Moved, Fails, Idle,
          Restated, Control, Staging, Entering, Firsts, Rests
<1>6. Unstranded'
  BY <1>0 DEF IInv, Unstranded, NoteEnded, Moved, Fails, Idle, Control, Restated, Entering,
          Firsts, Rests
<1>7. Timed'
  BY <1>0, BoundsAssumption DEF IInv, Timed, Types, Times, Restated, InFlight, Done, Control
<1>8. Alone'
  <2>1. /\ comp'.id = comp.id /\ comp'.before = comp.before /\ input = "none" /\ input' = "none"
        /\ comp'.status = comp.status \/ (comp'.status = "completed" /\ InFlight(comp))
        /\ UNCHANGED <<screen, history, acts>> /\ holder.pc \notin Staging
    BY <1>0 DEF Restated, Staging
  <2>2. comp.admitted <=> comp.id \in history.admitted
    BY DEF IInv, Reserved
  <2>3. /\ holder'.pc = "fail" \/ holder'.pc = "free" \/ (/\ holder'.pc = "pasteNote" /\ screen.composer = Empty
                                                    /\ comp'.status = "completed")
        /\ holder'.pc = "fail" => holder'.phase = "ran" /\ ~comp.admitted
    BY <1>0 DEF Moved, Fails, Idle
  <2>4. acts = 0 => /\ history.lied = {} /\ history.misled = {}
                    /\ comp.status = "queued" => Unrun(comp.id)
                    /\ InFlight(comp) /\ screen.refusals > comp.before =>
                          Unrun(comp.id) /\ comp.id \notin history.pasted
    BY <2>1 DEF IInv, Alone, Typed
  <2>5. history.admitted \subseteq history.pasted
    BY DEF IInv, Reserved
  <2>6. acts = 0 /\ InFlight(comp') => InFlight(comp)
    BY <2>1 DEF InFlight
  <2>7. /\ holder'.pc \notin Staging /\ (holder'.pc \in Entering => ~InFlight(comp'))
        /\ holder'.pc # "pasteCommand" /\ (holder'.pc = "pasteNote" => screen.composer = Empty)
        /\ holder'.pc # "noteText" /\ holder'.pc # "enterCommand" /\ holder'.pc # "enterNote"
    BY <2>3 DEF Staging, Entering, InFlight
  <2>8. comp'.status = "queued" => comp.status = "queued"
    BY <2>1
  <2>9. Unrun(comp.id)' <=> Unrun(comp.id)
    BY <2>1 DEF Unrun
  <2> QED  BY <2>1, <2>2, <2>3, <2>4, <2>5, <2>6, <2>7, <2>8, <2>9 DEF Alone, Typed, Unrun
<1>9. Telling'
  BY <1>0 DEF IInv, Telling, NoteEnded, Noticed, Moved, Fails, Idle, Restated, Control,
          Firsts, Rests
<1> QED  BY <1>1, <1>2, <1>3, <1>4, <1>5, <1>6, <1>7, <1>8, <1>9 DEF IInv

LEMMA InterruptQueuedKeeps ==
    ASSUME IInv, InterruptQueued
    PROVE  IInv'
<1>0. /\ Types'
      /\ holder.pc = "interrupt" /\ input = "none" /\ comp.status = "queued"
      /\ comp'.id = None /\ comp'.status = "none" /\ comp'.start = 0 /\ comp'.done = 0
      /\ ~comp'.cont /\ ~comp'.admitted /\ comp'.before = 0 /\ holder' = Idle
      /\ UNCHANGED <<input, note, notices, told, witness, confirmed, records,
                  submitted, screen, hooks, history, unused, collar, acts, time, crashes,
                  faults>>
  <2>1. /\ holder.pc = "interrupt" /\ input = "none" /\ comp.status = "queued" /\ comp' = NoComp
        /\ UNCHANGED <<input, note, notices, told, witness, confirmed, records, submitted,
           screen, hooks, history, unused, collar, acts, time, crashes, faults>>
    BY DEF IInv, Control, Firsts, InterruptQueued, files, proofs, bounds, Quiet
  <2>2. holder' = Idle /\ holder' \in Holders
    BY HolderMoves DEF IInv, InterruptQueued
  <2>3. NoComp \in Comps
    BY BoundsAssumption DEF NoComp, Comps, Statuses, Times
  <2>4. /\ comp'.id = None /\ comp'.status = "none" /\ comp'.start = 0 /\ comp'.done = 0
        /\ ~comp'.cont /\ ~comp'.admitted /\ comp'.before = 0
    BY <2>1 DEF NoComp
  <2> QED
    BY <2>1, <2>2, <2>3, <2>4 DEF IInv, Types
<1>1. Types'
  BY <1>0
<1>2. Named'
  BY <1>0, IdsAssumption DEF IInv, Named, NoteEnded, Shows, Types, Restated
<1>3. Texted'
  BY <1>0 DEF IInv, Texted, NoteEnded, Shows, Moved, Fails, Idle
<1>4. Control'
  BY <1>0 DEF IInv, Control, NoteEnded, Moved, Fails, Idle, Restated, InFlight, Staging,
          Entering, Firsts, Rests
<1>5. Reserved'
  <2>1. /\ comp'.id = None /\ comp'.status = "none" /\ ~comp'.cont /\ ~comp'.admitted
        /\ UNCHANGED <<note, history>>
        /\ input = "none"
        /\ holder.pc = "interrupt"
    BY <1>0
  <2> QED  BY <2>1, IdsAssumption DEF IInv, Reserved, Types, Histories, NoteOnce
<1>6. Unstranded'
  BY <1>0 DEF IInv, Unstranded, NoteEnded, Moved, Fails, Idle, Control, Restated, Entering,
          Firsts, Rests
<1>7. Timed'
  BY <1>0, BoundsAssumption DEF IInv, Timed, Types, Times, Restated, InFlight, Done, Control
<1>8. Alone'
  BY <1>0 DEF IInv, Alone, NoteEnded, Shows, Typed, Unrun, Moved, Fails, Idle, Restated,
          InFlight, Staging, Entering, Firsts, Rests, Control
<1>9. Telling'
  BY <1>0 DEF IInv, Telling, NoteEnded, Noticed, Moved, Fails, Idle, Restated, Control,
          Firsts, Rests
<1> QED  BY <1>1, <1>2, <1>3, <1>4, <1>5, <1>6, <1>7, <1>8, <1>9 DEF IInv

LEMMA InterruptFailedKeeps ==
    ASSUME IInv, InterruptFailed
    PROVE  IInv'
<1>0. /\ Types'
      /\ holder.pc = "interrupt" /\ comp.status = "failed"
      /\ screen'.composer = Empty /\ screen'.queue = screen.queue /\ screen'.refusals = screen.refusals
      /\ (Moved /\ holder'.pc = "drain") \/ holder' = Idle
      /\ UNCHANGED <<comp, input, note, notices, told, witness, confirmed, records,
                  submitted, hooks, history, unused, collar, acts, time, crashes, faults>>
  <2>1. /\ holder.pc = "interrupt" /\ comp.status = "failed"
        /\ UNCHANGED <<comp, input, note, notices, told, witness, confirmed, records, submitted,
           hooks, history, unused, collar, acts, time, crashes, faults>>
    BY DEF InterruptFailed, files, proofs, bounds, Quiet
  <2>2. Shows(screen', Empty)
    BY ScreenShows DEF IInv, InterruptFailed
  <2>3. holder' \in Holders /\ ((Moved /\ holder'.pc = "drain") \/ holder' = Idle)
    BY HolderMoves DEF IInv, InterruptFailed, Steps, Rests, Moved
  <2> QED
    BY <2>1, <2>2, <2>3 DEF IInv, Types, Shows
<1>1. Types'
  BY <1>0
<1>2. Named'
  BY <1>0, IdsAssumption, TextKinds DEF IInv, Named, NoteEnded, Shows, Types, Restated,
          Empty
<1>3. Texted'
  BY <1>0, TextKinds DEF IInv, Texted, NoteEnded, Shows, Moved, Fails, Idle, Empty
<1>4. Control'
  BY <1>0 DEF IInv, Control, NoteEnded, Moved, Fails, Idle, Restated, InFlight, Staging,
          Entering, Firsts, Rests
<1>5. Reserved'
  BY <1>0 DEF IInv, Reserved, NoteEnded, Types, Histories, NoteOnce, Moved, Fails, Idle,
          Restated, Control, Staging, Entering, Firsts, Rests
<1>6. Unstranded'
  BY <1>0 DEF IInv, Unstranded, NoteEnded, Moved, Fails, Idle, Control, Restated, Entering,
          Firsts, Rests
<1>7. Timed'
  BY <1>0, BoundsAssumption DEF IInv, Timed, Types, Times, Restated, InFlight, Done, Control
<1>8. Alone'
  <2>1. /\ holder.pc = "interrupt" /\ comp.status = "failed" /\ UNCHANGED <<comp, input, history, acts>>
        /\ screen'.refusals = screen.refusals
        /\ holder'.pc = "drain" \/ holder'.pc = "free"
    BY <1>0 DEF Moved, Idle
  <2> QED  BY <2>1 DEF IInv, Alone, Typed, Unrun, InFlight, Staging, Entering, Control, Firsts
<1>9. Telling'
  BY <1>0 DEF IInv, Telling, NoteEnded, Noticed, Moved, Fails, Idle, Restated, Control,
          Firsts, Rests
<1> QED  BY <1>1, <1>2, <1>3, <1>4, <1>5, <1>6, <1>7, <1>8, <1>9 DEF IInv

LEMMA InterruptRefusedKeeps ==
    ASSUME IInv, InterruptRefused
    PROVE  IInv'
<1>0. /\ Types'
      /\ holder' = Idle
      /\ holder.pc = "interrupt"
      /\ UNCHANGED <<comp, input, note, notices, told, witness, confirmed, records,
                  submitted, screen, hooks, history, unused, collar, acts, time, crashes,
                  faults>>
  BY HolderMoves DEF IInv, Types, InterruptRefused, files, proofs, bounds
<1>1. Types'
  BY <1>0
<1>2. Named'
  BY <1>0, IdsAssumption DEF IInv, Named, NoteEnded, Shows, Types, Restated
<1>3. Texted'
  BY <1>0 DEF IInv, Texted, NoteEnded, Shows, Moved, Fails, Idle
<1>4. Control'
  BY <1>0 DEF IInv, Control, NoteEnded, Moved, Fails, Idle, Restated, InFlight, Staging,
          Entering, Firsts, Rests
<1>5. Reserved'
  BY <1>0 DEF IInv, Reserved, NoteEnded, Types, Histories, NoteOnce, Moved, Fails, Idle,
          Restated, Control, Staging, Entering, Firsts, Rests
<1>6. Unstranded'
  BY <1>0 DEF IInv, Unstranded, NoteEnded, Moved, Fails, Idle, Control, Restated, Entering,
          Firsts, Rests
<1>7. Timed'
  BY <1>0, BoundsAssumption DEF IInv, Timed, Types, Times, Restated, InFlight, Done, Control
<1>8. Alone'
  BY <1>0 DEF IInv, Alone, NoteEnded, Shows, Typed, Unrun, Moved, Fails, Idle, Restated,
          InFlight, Staging, Entering, Firsts, Rests, Control
<1>9. Telling'
  BY <1>0 DEF IInv, Telling, NoteEnded, Noticed, Moved, Fails, Idle, Restated, Control,
          Firsts, Rests
<1> QED  BY <1>1, <1>2, <1>3, <1>4, <1>5, <1>6, <1>7, <1>8, <1>9 DEF IInv

LEMMA InterruptRunningKeeps ==
    ASSUME IInv, InterruptRunning
    PROVE  IInv'
<1>0. /\ Types'
      /\ holder.pc = "interrupt" /\ InFlight(comp)
      /\ input' = "recovery"
      /\ Moved /\ holder'.pc = "escape"
      /\ UNCHANGED <<comp, note, notices, told, witness, confirmed, records, submitted,
                  screen, hooks, history, unused, collar, acts, time, crashes, faults>>
  <2>1. /\ holder.pc = "interrupt" /\ InFlight(comp) /\ input' = "recovery"
        /\ UNCHANGED <<comp, note, notices, told, witness, confirmed, records, submitted,
           screen, hooks, history, unused, collar, acts, time, crashes, faults>>
    BY DEF InterruptRunning, Recoverable, files, proofs, bounds, Quiet
  <2>2. Moved /\ holder'.pc = "escape" /\ holder' \in Holders
    BY HolderMoves DEF IInv, InterruptRunning, Steps, Moved
  <2> QED
    BY <2>1, <2>2 DEF IInv, Types
<1>1. Types'
  BY <1>0
<1>2. Named'
  BY <1>0, IdsAssumption DEF IInv, Named, NoteEnded, Shows, Types, Restated
<1>3. Texted'
  BY <1>0 DEF IInv, Texted, NoteEnded, Shows, Moved, Fails, Idle
<1>4. Control'
  BY <1>0 DEF IInv, Control, NoteEnded, Moved, Fails, Idle, Restated, InFlight, Staging,
          Entering, Firsts, Rests
<1>5. Reserved'
  BY <1>0 DEF IInv, Reserved, NoteEnded, Types, Histories, NoteOnce, Moved, Fails, Idle,
          Restated, Control, Staging, Entering, Firsts, Rests
<1>6. Unstranded'
  BY <1>0 DEF IInv, Unstranded, NoteEnded, Moved, Fails, Idle, Control, Restated, Entering,
          Firsts, Rests
<1>7. Timed'
  BY <1>0, BoundsAssumption DEF IInv, Timed, Types, Times, Restated, InFlight, Done, Control
<1>8. Alone'
  BY <1>0 DEF IInv, Alone, NoteEnded, Shows, Typed, Unrun, Moved, Fails, Idle, Restated,
          InFlight, Staging, Entering, Firsts, Rests, Control
<1>9. Telling'
  BY <1>0 DEF IInv, Telling, NoteEnded, Noticed, Moved, Fails, Idle, Restated, Control,
          Firsts, Rests
<1> QED  BY <1>1, <1>2, <1>3, <1>4, <1>5, <1>6, <1>7, <1>8, <1>9 DEF IInv

LEMMA EscapeKeeps ==
    ASSUME IInv, Escape
    PROVE  IInv'
<1>0. /\ Types'
      /\ holder.pc = "escape" /\ input = "recovery"
      /\ screen'.queue \subseteq screen.queue /\ screen'.refusals = screen.refusals
      /\ screen'.composer = screen.composer \/ screen'.composer \in screen.queue
      /\ Moved /\ holder'.pc = "escaped"
      /\ UNCHANGED <<comp, input, note, notices, told, witness, confirmed, records,
                  submitted, hooks, history, unused, collar, acts, time, crashes, faults>>
  <2>1. /\ holder.pc = "escape" /\ input = "recovery" /\ screen \in Screens
        /\ UNCHANGED <<comp, input, note, notices, told, witness, confirmed, records, submitted,
           hooks, history, unused, collar, acts, time, crashes, faults>>
    BY DEF IInv, Types, Control, Escape, files, proofs, bounds, Quiet
  <2>2. /\ screen' \in Screens /\ screen'.queue \subseteq screen.queue /\ screen'.refusals = screen.refusals
        /\ screen'.composer = screen.composer \/ screen'.composer \in screen.queue
    <3>1. ASSUME NEW t \in screen.queue,
                 screen' = [screen EXCEPT !.work = "idle", !.queue = @ \ {t}, !.composer = t]
          PROVE  /\ screen' \in Screens /\ screen'.queue \subseteq screen.queue
                 /\ screen'.refusals = screen.refusals /\ screen'.composer = t
      BY <2>1, <3>1, TextKinds DEF Screens
    <3>2. CASE screen' = [screen EXCEPT !.work = "idle"]
      BY <2>1, <3>2 DEF Screens
    <3>3. CASE screen' = screen
      BY <2>1, <3>3
    <3> QED  BY <3>1, <3>2, <3>3 DEF Escape
  <2>3. Moved /\ holder'.pc = "escaped" /\ holder' \in Holders
    BY HolderMoves DEF IInv, Escape, Steps, Moved
  <2> QED
    BY <2>1, <2>2, <2>3 DEF IInv, Types
<1>1. Types'
  BY <1>0
<1>2. Named'
  BY <1>0, IdsAssumption DEF IInv, Named, NoteEnded, Shows, Types, Restated
<1>3. Texted'
  BY <1>0 DEF IInv, Texted, NoteEnded, Shows, Moved, Fails, Idle
<1>4. Control'
  BY <1>0 DEF IInv, Control, NoteEnded, Moved, Fails, Idle, Restated, InFlight, Staging,
          Entering, Firsts, Rests
<1>5. Reserved'
  BY <1>0 DEF IInv, Reserved, NoteEnded, Types, Histories, NoteOnce, Moved, Fails, Idle,
          Restated, Control, Staging, Entering, Firsts, Rests
<1>6. Unstranded'
  BY <1>0 DEF IInv, Unstranded, NoteEnded, Moved, Fails, Idle, Control, Restated, Entering,
          Firsts, Rests
<1>7. Timed'
  BY <1>0, BoundsAssumption DEF IInv, Timed, Types, Times, Restated, InFlight, Done, Control
<1>8. Alone'
  BY <1>0 DEF IInv, Alone, NoteEnded, Shows, Typed, Unrun, Moved, Fails, Idle, Restated,
          InFlight, Staging, Entering, Firsts, Rests, Control
<1>9. Telling'
  BY <1>0 DEF IInv, Telling, NoteEnded, Noticed, Moved, Fails, Idle, Restated, Control,
          Firsts, Rests
<1> QED  BY <1>1, <1>2, <1>3, <1>4, <1>5, <1>6, <1>7, <1>8, <1>9 DEF IInv

LEMMA EscapedKeeps ==
    ASSUME IInv, Escaped
    PROVE  IInv'
<1>0. /\ Types'
      /\ holder.pc = "escaped" /\ input = "recovery" /\ InFlight(comp)
      /\ Restated(comp', comp, "unverified") /\ input' = "none" /\ holder' = Idle
      /\ UNCHANGED <<note, notices, told, witness, confirmed, records, submitted,
                  screen, hooks, history, unused, collar, acts, time, crashes, faults>>
  <2>1. /\ holder.pc = "escaped" /\ input = "recovery" /\ InFlight(comp) /\ comp \in Comps
        /\ input' = "none"
        /\ UNCHANGED <<note, notices, told, witness, confirmed, records, submitted, screen,
           hooks, history, unused, collar, acts, time, crashes, faults>>
    BY DEF IInv, Types, Control, Escaped, files, proofs, bounds, Quiet
  <2>2. Restated(comp', comp, "unverified")
    BY <2>1, RecordMoves DEF Escaped
  <2>3. holder' = Idle /\ holder' \in Holders
    BY HolderMoves DEF IInv, Escaped
  <2> QED
    BY <2>1, <2>2, <2>3 DEF IInv, Types, Restated
<1>1. Types'
  BY <1>0
<1>2. Named'
  BY <1>0, IdsAssumption DEF IInv, Named, NoteEnded, Shows, Types, Restated, InFlight
<1>3. Texted'
  BY <1>0 DEF IInv, Texted, NoteEnded, Shows, Moved, Fails, Idle
<1>4. Control'
  BY <1>0 DEF IInv, Control, NoteEnded, Moved, Fails, Idle, Restated, InFlight, Staging,
          Entering, Firsts, Rests
<1>5. Reserved'
  BY <1>0 DEF IInv, Reserved, NoteEnded, Types, Histories, NoteOnce, Moved, Fails, Idle,
          Restated, Control, Staging, Entering, Firsts, Rests
<1>6. Unstranded'
  BY <1>0 DEF IInv, Unstranded, NoteEnded, Moved, Fails, Idle, Control, Restated, Entering,
          Firsts, Rests
<1>7. Timed'
  BY <1>0, BoundsAssumption DEF IInv, Timed, Types, Times, Restated, InFlight, Done, Control
<1>8. Alone'
  BY <1>0 DEF IInv, Alone, NoteEnded, Shows, Typed, Unrun, Moved, Fails, Idle, Restated,
          InFlight, Staging, Entering, Firsts, Rests, Control
<1>9. Telling'
  BY <1>0 DEF IInv, Telling, NoteEnded, Noticed, Moved, Fails, Idle, Restated, Control,
          Firsts, Rests
<1> QED  BY <1>1, <1>2, <1>3, <1>4, <1>5, <1>6, <1>7, <1>8, <1>9 DEF IInv

-----------------------------------------------------------------------------
(* And so does every step of the native program, its hooks and the operator. *)

LEMMA EndCompactionKeeps ==
    ASSUME IInv, EndCompaction
    PROVE  IInv'
<1>0. /\ Types'
      /\ screen'.composer = screen.composer /\ screen'.queue = screen.queue /\ screen'.refusals = screen.refusals
      /\ time' = time + 1 /\ time \in Nat
      /\ history'.ran = history.ran /\ history'.pasted = history.pasted
      /\ history'.again = history.again /\ history'.admitted = history.admitted
      /\ history'.twice = history.twice /\ history'.lied = history.lied
      /\ history'.misled = history.misled /\ history'.seen = history.seen
      /\ history'.since = history.since
      /\ history'.ended = time'
      /\ \A h \in hooks' : h \in hooks \/ (h.kind = "finished" /\ h.at = time')
      /\ UNCHANGED <<comp, input, note, notices, told, witness, confirmed, records,
                  submitted, holder, unused, collar, acts, crashes, faults>>
  <2>1. /\ time \in Nat /\ time' = time + 1 /\ time' \in Times
        /\ screen \in Screens /\ history \in Histories /\ hooks \subseteq HookRecords
        /\ UNCHANGED <<comp, input, note, notices, told, witness, confirmed, records, submitted,
           holder, unused, collar, acts, crashes, faults>>
    BY BoundsAssumption DEF IInv, Types, Times, EndCompaction, files, proofs, bounds, Quiet
  <2>2. /\ screen' \in Screens /\ screen'.composer = screen.composer
        /\ screen'.queue = screen.queue /\ screen'.refusals = screen.refusals
    BY <2>1 DEF EndCompaction, Work, Screens
  <2>3. /\ history' \in Histories /\ history'.ended = time'
        /\ history'.ran = history.ran /\ history'.pasted = history.pasted
        /\ history'.again = history.again /\ history'.admitted = history.admitted
        /\ history'.twice = history.twice /\ history'.lied = history.lied
        /\ history'.misled = history.misled /\ history'.seen = history.seen
        /\ history'.since = history.since
    BY <2>1 DEF EndCompaction, Histories
  <2>4. /\ hooks' \subseteq HookRecords
        /\ \A h \in hooks' : h \in hooks \/ (h.kind = "finished" /\ h.at = time')
    <3> DEFINE r == [kind |-> "finished", id |-> None, at |-> time']
    <3>1. r \in HookRecords /\ r.kind = "finished" /\ r.at = time'
      BY <2>1 DEF HookRecords
    <3>2. hooks' = hooks \cup {r}
      BY <2>1 DEF EndCompaction
    <3> HIDE DEF r
    <3> QED  BY <2>1, <3>1, <3>2
  <2>5. \A h \in hooks' : h.kind \in {"note", "altered", "witness"} => h.id \in Ids
    BY <2>4 DEF IInv, Types
  <2> QED  BY <2>1, <2>2, <2>3, <2>4, <2>5 DEF IInv, Types
<1>1. Types'
  BY <1>0
<1>2. Named'
  BY <1>0, IdsAssumption DEF IInv, Named, NoteEnded, Shows, Types, Restated
<1>3. Texted'
  BY <1>0 DEF IInv, Texted, NoteEnded, Shows, Moved, Fails, Idle
<1>4. Control'
  BY <1>0 DEF IInv, Control, NoteEnded, Moved, Fails, Idle, Restated, InFlight, Staging,
          Entering, Firsts, Rests
<1>5. Reserved'
  BY <1>0 DEF IInv, Reserved, NoteEnded, Types, Histories, NoteOnce, Moved, Fails, Idle,
          Restated, Control, Staging, Entering, Firsts, Rests
<1>6. Unstranded'
  BY <1>0 DEF IInv, Unstranded, NoteEnded, Moved, Fails, Idle, Control, Restated, Entering,
          Firsts, Rests
<1>7. Timed'
  <2>1. /\ time \in Nat /\ time' = time + 1 /\ history'.ended = time' /\ history'.since = history.since
        /\ UNCHANGED <<comp, input, witness, records, confirmed>>
        /\ \A h \in hooks' : h \in hooks \/ h.at = time'
    BY <1>0
  <2>2. \A n \in Times : n <= time => n <= time'
    BY <2>1, BoundsAssumption DEF Times
  <2>3. /\ witness \in Times /\ records \in Times /\ confirmed \in Times /\ comp.start \in Times
        /\ comp.done \in Times /\ history.since \in Times /\ \A h \in hooks : h.at \in Times
    BY DEF IInv, Types, Comps, Histories, HookRecords
  <2>4. time' <= time'
    BY <2>1
  <2> QED  BY <2>1, <2>2, <2>3, <2>4 DEF IInv, Timed, InFlight, Done
<1>8. Alone'
  BY <1>0 DEF IInv, Alone, NoteEnded, Shows, Typed, Unrun, Moved, Fails, Idle, Restated,
          InFlight, Staging, Entering, Firsts, Rests, Control
<1>9. Telling'
  BY <1>0 DEF IInv, Telling, NoteEnded, Noticed, Moved, Fails, Idle, Restated, Control,
          Firsts, Rests
<1> QED  BY <1>1, <1>2, <1>3, <1>4, <1>5, <1>6, <1>7, <1>8, <1>9 DEF IInv

LEMMA RunQueuedKeeps ==
    ASSUME IInv, RunQueued
    PROVE  IInv'
<1>0. /\ Types'
      /\ screen'.composer = screen.composer /\ screen'.queue \subseteq screen.queue
      /\ screen'.refusals = screen.refusals
      /\ history'.pasted = history.pasted /\ history'.again = history.again
      /\ history'.admitted = history.admitted /\ history'.twice = history.twice
      /\ history'.ended = history.ended /\ history'.lied = history.lied
      /\ history'.misled = history.misled /\ history'.seen = history.seen
      /\ history'.since = history.since
      /\ \A i \in history'.ran : i \in history.ran \/ Command(i) \in screen.queue
      /\ \A h \in hooks' : \/ h \in hooks
                           \/ /\ Note(h.id) \in screen.queue \/ Altered(h.id) \in screen.queue
                              /\ h.at = 0 /\ h.id \in Ids /\ h.kind \in {"note", "altered"}
      /\ UNCHANGED <<comp, input, note, notices, told, witness, confirmed, records,
                  submitted, holder, unused, collar, acts, time, crashes, faults>>
  <2>1. /\ Types' /\ screen'.composer = screen.composer /\ screen'.queue \subseteq screen.queue
        /\ screen'.refusals = screen.refusals
    BY RunDoes DEF IInv
  <2>2. history \in Histories /\ UNCHANGED <<comp, input, note, notices, told, witness, confirmed, records, submitted,
           holder, unused, collar, acts, time, crashes, faults>>
    BY DEF IInv, Types, RunQueued, files, proofs, bounds, Quiet
  <2>3. PICK i \in Ids :
          \/ /\ Command(i) \in screen.queue /\ hooks' = hooks
             /\ history' = [history EXCEPT !.ran = @ \cup {i}]
          \/ /\ {Note(i), Altered(i)} \cap screen.queue # {} /\ history' = history
             /\ \E t \in {Note(i), Altered(i)} \cap screen.queue : hooks' = hooks \cup {Submitted(t)}
    BY RunDoes DEF IInv
  <2>4. /\ history'.pasted = history.pasted /\ history'.again = history.again
        /\ history'.admitted = history.admitted /\ history'.twice = history.twice
        /\ history'.ended = history.ended /\ history'.lied = history.lied
        /\ history'.misled = history.misled /\ history'.seen = history.seen
        /\ history'.since = history.since
        /\ \A j \in history'.ran : j \in history.ran \/ Command(j) \in screen.queue
    BY <2>2, <2>3 DEF Histories
  <2>5. \A t \in {Note(i), Altered(i)} : LET h == Submitted(t) IN
          h.id = i /\ h.at = 0 /\ h.kind \in {"note", "altered"}
    BY TextKinds DEF Submitted
  <2>6. \A h \in hooks' : \/ h \in hooks
                          \/ /\ Note(h.id) \in screen.queue \/ Altered(h.id) \in screen.queue
                             /\ h.at = 0 /\ h.id \in Ids /\ h.kind \in {"note", "altered"}
    BY <2>3, <2>5
  <2> QED  BY <2>1, <2>2, <2>4, <2>6
<1>1. Types'
  BY <1>0
<1>2. Named'
  BY <1>0, IdsAssumption DEF IInv, Named, NoteEnded, Shows, Types, Restated
<1>3. Texted'
  BY <1>0 DEF IInv, Texted, NoteEnded, Shows, Moved, Fails, Idle
<1>4. Control'
  BY <1>0 DEF IInv, Control, NoteEnded, Moved, Fails, Idle, Restated, InFlight, Staging,
          Entering, Firsts, Rests
<1>5. Reserved'
  BY <1>0 DEF IInv, Reserved, NoteEnded, Types, Histories, NoteOnce, Moved, Fails, Idle,
          Restated, Control, Staging, Entering, Firsts, Rests
<1>6. Unstranded'
  BY <1>0 DEF IInv, Unstranded, NoteEnded, Moved, Fails, Idle, Control, Restated, Entering,
          Firsts, Rests
<1>7. Timed'
  BY <1>0, BoundsAssumption DEF IInv, Timed, Types, Times, Restated, InFlight, Done, Control
<1>8. Alone'
  BY <1>0 DEF IInv, Alone, NoteEnded, Shows, Typed, Unrun, Moved, Fails, Idle, Restated,
          InFlight, Staging, Entering, Firsts, Rests, Control
<1>9. Telling'
  BY <1>0 DEF IInv, Telling, NoteEnded, Noticed, Moved, Fails, Idle, Restated, Control,
          Firsts, Rests
<1> QED  BY <1>1, <1>2, <1>3, <1>4, <1>5, <1>6, <1>7, <1>8, <1>9 DEF IInv

LEMMA TurnStartsKeeps ==
    ASSUME IInv, TurnStarts
    PROVE  IInv'
<1>0. /\ Types'
      /\ screen'.composer = screen.composer /\ screen'.queue = screen.queue /\ screen'.refusals = screen.refusals
      /\ UNCHANGED <<comp, input, note, notices, told, witness, confirmed, records,
                  submitted, hooks, holder, history, unused, collar, acts, time, crashes,
                  faults>>
  <2>1. /\ screen \in Screens
        /\ UNCHANGED <<comp, input, note, notices, told, witness, confirmed, records, submitted,
           hooks, holder, history, unused, collar, acts, time, crashes, faults>>
    BY DEF IInv, Types, TurnStarts, files, proofs, bounds, Quiet
  <2>2. /\ screen' \in Screens /\ screen'.composer = screen.composer
        /\ screen'.queue = screen.queue /\ screen'.refusals = screen.refusals
    BY <2>1 DEF TurnStarts, Work, Screens
  <2> QED  BY <2>1, <2>2 DEF IInv, Types
<1>1. Types'
  BY <1>0
<1>2. Named'
  BY <1>0, IdsAssumption DEF IInv, Named, NoteEnded, Shows, Types, Restated
<1>3. Texted'
  BY <1>0 DEF IInv, Texted, NoteEnded, Shows, Moved, Fails, Idle
<1>4. Control'
  BY <1>0 DEF IInv, Control, NoteEnded, Moved, Fails, Idle, Restated, InFlight, Staging,
          Entering, Firsts, Rests
<1>5. Reserved'
  BY <1>0 DEF IInv, Reserved, NoteEnded, Types, Histories, NoteOnce, Moved, Fails, Idle,
          Restated, Control, Staging, Entering, Firsts, Rests
<1>6. Unstranded'
  BY <1>0 DEF IInv, Unstranded, NoteEnded, Moved, Fails, Idle, Control, Restated, Entering,
          Firsts, Rests
<1>7. Timed'
  BY <1>0, BoundsAssumption DEF IInv, Timed, Types, Times, Restated, InFlight, Done, Control
<1>8. Alone'
  BY <1>0 DEF IInv, Alone, NoteEnded, Shows, Typed, Unrun, Moved, Fails, Idle, Restated,
          InFlight, Staging, Entering, Firsts, Rests, Control
<1>9. Telling'
  BY <1>0 DEF IInv, Telling, NoteEnded, Noticed, Moved, Fails, Idle, Restated, Control,
          Firsts, Rests
<1> QED  BY <1>1, <1>2, <1>3, <1>4, <1>5, <1>6, <1>7, <1>8, <1>9 DEF IInv

LEMMA TurnEndsKeeps ==
    ASSUME IInv, TurnEnds
    PROVE  IInv'
<1>0. /\ Types'
      /\ screen'.composer = screen.composer /\ screen'.queue = screen.queue /\ screen'.refusals = screen.refusals
      /\ UNCHANGED <<comp, input, note, notices, told, witness, confirmed, records,
                  submitted, hooks, holder, history, unused, collar, acts, time, crashes,
                  faults>>
  <2>1. /\ screen \in Screens
        /\ UNCHANGED <<comp, input, note, notices, told, witness, confirmed, records, submitted,
           hooks, holder, history, unused, collar, acts, time, crashes, faults>>
    BY DEF IInv, Types, TurnEnds, files, proofs, bounds, Quiet
  <2>2. /\ screen' \in Screens /\ screen'.composer = screen.composer
        /\ screen'.queue = screen.queue /\ screen'.refusals = screen.refusals
    BY <2>1 DEF TurnEnds, Work, Screens
  <2> QED  BY <2>1, <2>2 DEF IInv, Types
<1>1. Types'
  BY <1>0
<1>2. Named'
  BY <1>0, IdsAssumption DEF IInv, Named, NoteEnded, Shows, Types, Restated
<1>3. Texted'
  BY <1>0 DEF IInv, Texted, NoteEnded, Shows, Moved, Fails, Idle
<1>4. Control'
  BY <1>0 DEF IInv, Control, NoteEnded, Moved, Fails, Idle, Restated, InFlight, Staging,
          Entering, Firsts, Rests
<1>5. Reserved'
  BY <1>0 DEF IInv, Reserved, NoteEnded, Types, Histories, NoteOnce, Moved, Fails, Idle,
          Restated, Control, Staging, Entering, Firsts, Rests
<1>6. Unstranded'
  BY <1>0 DEF IInv, Unstranded, NoteEnded, Moved, Fails, Idle, Control, Restated, Entering,
          Firsts, Rests
<1>7. Timed'
  BY <1>0, BoundsAssumption DEF IInv, Timed, Types, Times, Restated, InFlight, Done, Control
<1>8. Alone'
  BY <1>0 DEF IInv, Alone, NoteEnded, Shows, Typed, Unrun, Moved, Fails, Idle, Restated,
          InFlight, Staging, Entering, Firsts, Rests, Control
<1>9. Telling'
  BY <1>0 DEF IInv, Telling, NoteEnded, Noticed, Moved, Fails, Idle, Restated, Control,
          Firsts, Rests
<1> QED  BY <1>1, <1>2, <1>3, <1>4, <1>5, <1>6, <1>7, <1>8, <1>9 DEF IInv

LEMMA OperatorActsKeeps ==
    ASSUME IInv, OperatorActs
    PROVE  IInv'
<1>0. /\ Types'
      /\ acts' # 0
      /\ \/ screen'.composer = Empty \/ screen'.composer = Other \/ screen'.composer = screen.composer
         \/ \E i \in Ids : /\ screen.composer = Note(i) \/ screen.composer = Altered(i)
                           /\ screen'.composer = Altered(i)
      /\ screen'.queue \subseteq screen.queue \cup {screen.composer}
      /\ \A h \in hooks' : \/ h \in hooks
                           \/ /\ screen.composer = Note(h.id) \/ screen.composer = Altered(h.id)
                              /\ h.at = 0 /\ h.id \in Ids /\ h.kind \in {"note", "altered"}
      /\ \A i \in history'.ran : i \in history.ran \/ screen.composer = Command(i)
      /\ history'.pasted = history.pasted /\ history'.again = history.again
      /\ history'.admitted = history.admitted /\ history'.twice = history.twice
      /\ history'.ended = history.ended /\ history'.lied = history.lied
      /\ history'.misled = history.misled /\ history'.seen = history.seen
      /\ history'.since = history.since
      /\ UNCHANGED <<comp, input, note, notices, told, witness, confirmed, records,
                  submitted, holder, unused, collar, time, crashes, faults>>
  <2>1. /\ Types' /\ acts' # 0 /\ UNCHANGED <<files, proofs, holder>>
        /\ UNCHANGED <<unused, collar, time, crashes, faults>>
        /\ \/ screen'.composer \in {Empty, Other, screen.composer}
           \/ \E i \in Ids : /\ screen.composer \in {Note(i), Altered(i)}
                             /\ screen'.composer = Altered(i)
        /\ screen'.queue \subseteq screen.queue \cup {screen.composer}
        /\ history \in Histories
    BY OperatorDoes DEF IInv, Types
  <2>2. /\ history'.pasted = history.pasted /\ history'.again = history.again
        /\ history'.admitted = history.admitted /\ history'.twice = history.twice
        /\ history'.ended = history.ended /\ history'.lied = history.lied
        /\ history'.misled = history.misled /\ history'.seen = history.seen
        /\ history'.since = history.since
        /\ \A i \in history'.ran : i \in history.ran \/ screen.composer = Command(i)
    <3>1. \/ history' = history
          \/ \E i \in Ids : /\ screen.composer = Command(i)
                            /\ history' = [history EXCEPT !.ran = @ \cup {i}]
      BY OperatorDoes DEF IInv
    <3> QED  BY <2>1, <3>1 DEF Histories
  <2>3. \A h \in hooks' : \/ h \in hooks
                          \/ /\ screen.composer = Note(h.id) \/ screen.composer = Altered(h.id)
                             /\ h.at = 0 /\ h.id \in Ids /\ h.kind \in {"note", "altered"}
    <3>1. \/ hooks' = hooks
          \/ \E i \in Ids : /\ screen.composer \in {Note(i), Altered(i)}
                            /\ hooks' = hooks \cup {Submitted(screen.composer)}
      BY OperatorDoes DEF IInv
    <3>2. ASSUME NEW i \in Ids, NEW t \in {Note(i), Altered(i)}
          PROVE  LET h == Submitted(t) IN h.id = i /\ h.at = 0 /\ h.kind \in {"note", "altered"}
      BY TextKinds DEF Submitted
    <3>3. CASE hooks' = hooks
      BY <3>3
    <3>4. ASSUME NEW i \in Ids, screen.composer \in {Note(i), Altered(i)},
                 hooks' = hooks \cup {Submitted(screen.composer)}
          PROVE  \A h \in hooks' : \/ h \in hooks
                                   \/ /\ screen.composer = Note(h.id) \/ screen.composer = Altered(h.id)
                                      /\ h.at = 0 /\ h.id \in Ids /\ h.kind \in {"note", "altered"}
      BY <3>2, <3>4
    <3> QED  BY <3>1, <3>3, <3>4
  <2> QED  BY <2>1, <2>2, <2>3 DEF files, proofs
<1>1. Types'
  BY <1>0
<1>2. Named'
  <2>1. /\ UNCHANGED <<comp, note, unused>> /\ history'.pasted = history.pasted
        /\ \/ screen'.composer = Empty \/ screen'.composer = Other \/ screen'.composer = screen.composer
           \/ \E i \in Ids : /\ screen.composer = Note(i) \/ screen.composer = Altered(i)
                             /\ screen'.composer = Altered(i)
        /\ screen'.queue \subseteq screen.queue \cup {screen.composer}
        /\ \A i \in history'.ran : i \in history.ran \/ screen.composer = Command(i)
    BY <1>0
  <2> QED  BY <2>1, TextKinds DEF IInv, Named, Types
<1>3. Texted'
  <2>1. /\ history'.pasted = history.pasted /\ UNCHANGED holder
        /\ \/ screen'.composer = Empty \/ screen'.composer = Other \/ screen'.composer = screen.composer
           \/ \E i \in Ids : /\ screen.composer = Note(i) \/ screen.composer = Altered(i)
                             /\ screen'.composer = Altered(i)
        /\ screen'.queue \subseteq screen.queue \cup {screen.composer}
        /\ \A h \in hooks' : \/ h \in hooks
                           \/ /\ screen.composer = Note(h.id) \/ screen.composer = Altered(h.id)
                              /\ h.at = 0 /\ h.id \in Ids /\ h.kind \in {"note", "altered"}
    BY <1>0
  <2> QED  BY <2>1, TextKinds DEF IInv, Texted
<1>4. Control'
  BY <1>0 DEF IInv, Control, NoteEnded, Moved, Fails, Idle, Restated, InFlight, Staging,
          Entering, Firsts, Rests
<1>5. Reserved'
  BY <1>0 DEF IInv, Reserved, NoteEnded, Types, Histories, NoteOnce, Moved, Fails, Idle,
          Restated, Control, Staging, Entering, Firsts, Rests
<1>6. Unstranded'
  BY <1>0 DEF IInv, Unstranded, NoteEnded, Moved, Fails, Idle, Control, Restated, Entering,
          Firsts, Rests
<1>7. Timed'
  BY <1>0, BoundsAssumption DEF IInv, Timed, Types, Times, Restated, InFlight, Done, Control
<1>8. Alone'
  BY <1>0 DEF IInv, Alone, NoteEnded, Shows, Typed, Unrun, Moved, Fails, Idle, Restated,
          InFlight, Staging, Entering, Firsts, Rests, Control
<1>9. Telling'
  BY <1>0 DEF IInv, Telling, NoteEnded, Noticed, Moved, Fails, Idle, Restated, Control,
          Firsts, Rests
<1> QED  BY <1>1, <1>2, <1>3, <1>4, <1>5, <1>6, <1>7, <1>8, <1>9 DEF IInv

LEMMA WriteWitnessKeeps ==
    ASSUME IInv, WriteWitness
    PROVE  IInv'
<1>0. /\ Types'
      /\ witness' \in Times /\ (\E h \in hooks : witness' = h.at)
      /\ \A h \in hooks' : h \in hooks \/ (h.kind = "record" /\ \E g \in hooks : h.at = g.at)
      /\ UNCHANGED <<comp, input, note, notices, told, confirmed, records, submitted,
                  screen, holder, history, unused, collar, acts, time, crashes, faults>>
  <2>1. PICK h \in hooks : /\ witness' = h.at /\ h.kind = "finished"
                          /\ hooks' = (hooks \ {h}) \cup {[h EXCEPT !.kind = "record"]}
                          /\ UNCHANGED <<comp, input, note, notices, told, confirmed, records,
                               submitted, screen, holder, history, unused, collar, acts, time,
                               crashes, faults>>
    BY DEF WriteWitness, files, proofs, bounds, Quiet
  <2> DEFINE r == [h EXCEPT !.kind = "record"]
  <2>2. hooks \subseteq HookRecords /\ h \in HookRecords /\ h.at \in Times
    BY DEF IInv, Types, HookRecords
  <2>3. r \in HookRecords /\ r.kind = "record" /\ r.at = h.at
    BY <2>2 DEF HookRecords
  <2> HIDE DEF r
  <2>4. /\ hooks' \subseteq HookRecords
        /\ \A g \in hooks' : g \in hooks \/ (g.kind = "record" /\ g.at = h.at)
    BY <2>1, <2>2, <2>3 DEF r
  <2>5. \A g \in hooks' : g.kind \in {"note", "altered", "witness"} => g.id \in Ids
    BY <2>4 DEF IInv, Types
  <2> QED  BY <2>1, <2>2, <2>4, <2>5 DEF IInv, Types
<1>1. Types'
  BY <1>0
<1>2. Named'
  BY <1>0, IdsAssumption DEF IInv, Named, NoteEnded, Shows, Types, Restated
<1>3. Texted'
  BY <1>0 DEF IInv, Texted, NoteEnded, Shows, Moved, Fails, Idle
<1>4. Control'
  BY <1>0 DEF IInv, Control, NoteEnded, Moved, Fails, Idle, Restated, InFlight, Staging,
          Entering, Firsts, Rests
<1>5. Reserved'
  BY <1>0 DEF IInv, Reserved, NoteEnded, Types, Histories, NoteOnce, Moved, Fails, Idle,
          Restated, Control, Staging, Entering, Firsts, Rests
<1>6. Unstranded'
  BY <1>0 DEF IInv, Unstranded, NoteEnded, Moved, Fails, Idle, Control, Restated, Entering,
          Firsts, Rests
<1>7. Timed'
  BY <1>0, BoundsAssumption DEF IInv, Timed, Types, Times, Restated, InFlight, Done, Control
<1>8. Alone'
  BY <1>0 DEF IInv, Alone, NoteEnded, Shows, Typed, Unrun, Moved, Fails, Idle, Restated,
          InFlight, Staging, Entering, Firsts, Rests, Control
<1>9. Telling'
  BY <1>0 DEF IInv, Telling, NoteEnded, Noticed, Moved, Fails, Idle, Restated, Control,
          Firsts, Rests
<1> QED  BY <1>1, <1>2, <1>3, <1>4, <1>5, <1>6, <1>7, <1>8, <1>9 DEF IInv

LEMMA WriteRecordKeeps ==
    ASSUME IInv, WriteRecord
    PROVE  IInv'
<1>0. /\ Types'
      /\ records' \in Times /\ hooks' \subseteq hooks /\ (records' = records \/ \E h \in hooks : records' = h.at)
      /\ UNCHANGED <<comp, input, note, notices, told, witness, confirmed, submitted,
                  screen, holder, history, unused, collar, acts, time, crashes, faults>>
  <2>1. PICK h \in hooks : /\ records' = IF h.at > records THEN h.at ELSE records
                          /\ hooks' = hooks \ {h}
                          /\ UNCHANGED <<comp, input, note, notices, told, witness, confirmed,
                               submitted, screen, holder, history, unused, collar, acts, time,
                               crashes, faults>>
    BY DEF WriteRecord, files, proofs, bounds, Quiet
  <2>2. hooks \subseteq HookRecords /\ h.at \in Times /\ records \in Times
    BY DEF IInv, Types, HookRecords
  <2>3. records' = records \/ records' = h.at
    BY <2>1
  <2> QED  BY <2>1, <2>2, <2>3 DEF IInv, Types
<1>1. Types'
  BY <1>0
<1>2. Named'
  BY <1>0, IdsAssumption DEF IInv, Named, NoteEnded, Shows, Types, Restated
<1>3. Texted'
  BY <1>0 DEF IInv, Texted, NoteEnded, Shows, Moved, Fails, Idle
<1>4. Control'
  BY <1>0 DEF IInv, Control, NoteEnded, Moved, Fails, Idle, Restated, InFlight, Staging,
          Entering, Firsts, Rests
<1>5. Reserved'
  BY <1>0 DEF IInv, Reserved, NoteEnded, Types, Histories, NoteOnce, Moved, Fails, Idle,
          Restated, Control, Staging, Entering, Firsts, Rests
<1>6. Unstranded'
  BY <1>0 DEF IInv, Unstranded, NoteEnded, Moved, Fails, Idle, Control, Restated, Entering,
          Firsts, Rests
<1>7. Timed'
  BY <1>0, BoundsAssumption DEF IInv, Timed, Types, Times, Restated, InFlight, Done, Control
<1>8. Alone'
  BY <1>0 DEF IInv, Alone, NoteEnded, Shows, Typed, Unrun, Moved, Fails, Idle, Restated,
          InFlight, Staging, Entering, Firsts, Rests, Control
<1>9. Telling'
  BY <1>0 DEF IInv, Telling, NoteEnded, Noticed, Moved, Fails, Idle, Restated, Control,
          Firsts, Rests
<1> QED  BY <1>1, <1>2, <1>3, <1>4, <1>5, <1>6, <1>7, <1>8, <1>9 DEF IInv

LEMMA WriteSubmittedKeeps ==
    ASSUME IInv, WriteSubmitted
    PROVE  IInv'
<1>0. /\ Types'
      /\ hooks' \subseteq hooks
      /\ UNCHANGED <<comp, input, note, notices, told, witness, confirmed, records,
                  screen, holder, history, unused, collar, acts, time, crashes, faults>>
  <2>1. PICK h \in hooks : /\ h.kind = "witness" /\ submitted' = h.id
                          /\ hooks' = hooks \ {h}
                          /\ UNCHANGED <<comp, input, note, notices, told, witness, confirmed,
                               records, screen, holder, history, unused, collar, acts, time,
                               crashes, faults>>
    BY DEF WriteSubmitted, files, proofs, bounds, Quiet
  <2>2. submitted' \in Ids
    BY <2>1 DEF IInv, Types
  <2> QED  BY <2>1, <2>2 DEF IInv, Types
<1>1. Types'
  BY <1>0
<1>2. Named'
  BY <1>0, IdsAssumption DEF IInv, Named, NoteEnded, Shows, Types, Restated
<1>3. Texted'
  BY <1>0 DEF IInv, Texted, NoteEnded, Shows, Moved, Fails, Idle
<1>4. Control'
  BY <1>0 DEF IInv, Control, NoteEnded, Moved, Fails, Idle, Restated, InFlight, Staging,
          Entering, Firsts, Rests
<1>5. Reserved'
  BY <1>0 DEF IInv, Reserved, NoteEnded, Types, Histories, NoteOnce, Moved, Fails, Idle,
          Restated, Control, Staging, Entering, Firsts, Rests
<1>6. Unstranded'
  BY <1>0 DEF IInv, Unstranded, NoteEnded, Moved, Fails, Idle, Control, Restated, Entering,
          Firsts, Rests
<1>7. Timed'
  BY <1>0, BoundsAssumption DEF IInv, Timed, Types, Times, Restated, InFlight, Done, Control
<1>8. Alone'
  BY <1>0 DEF IInv, Alone, NoteEnded, Shows, Typed, Unrun, Moved, Fails, Idle, Restated,
          InFlight, Staging, Entering, Firsts, Rests, Control
<1>9. Telling'
  BY <1>0 DEF IInv, Telling, NoteEnded, Noticed, Moved, Fails, Idle, Restated, Control,
          Firsts, Rests
<1> QED  BY <1>1, <1>2, <1>3, <1>4, <1>5, <1>6, <1>7, <1>8, <1>9 DEF IInv

LEMMA HookLostKeeps ==
    ASSUME IInv, HookLost
    PROVE  IInv'
<1>0. /\ Types'
      /\ hooks' \subseteq hooks
      /\ UNCHANGED <<comp, input, note, notices, told, witness, confirmed, records,
                  submitted, screen, holder, history, unused, collar, acts, time, crashes>>
  <2>1. /\ hooks' \subseteq hooks
        /\ UNCHANGED <<comp, input, note, notices, told, witness, confirmed, records, submitted,
           screen, holder, history, unused, collar, acts, time, crashes>>
    BY DEF HookLost, files, proofs, bounds, Quiet
  <2>2. faults' \in Nat
    BY FaultCounts DEF IInv, HookLost
  <2> QED  BY <2>1, <2>2 DEF IInv, Types
<1>1. Types'
  BY <1>0
<1>2. Named'
  BY <1>0, IdsAssumption DEF IInv, Named, NoteEnded, Shows, Types, Restated
<1>3. Texted'
  BY <1>0 DEF IInv, Texted, NoteEnded, Shows, Moved, Fails, Idle
<1>4. Control'
  BY <1>0 DEF IInv, Control, NoteEnded, Moved, Fails, Idle, Restated, InFlight, Staging,
          Entering, Firsts, Rests
<1>5. Reserved'
  BY <1>0 DEF IInv, Reserved, NoteEnded, Types, Histories, NoteOnce, Moved, Fails, Idle,
          Restated, Control, Staging, Entering, Firsts, Rests
<1>6. Unstranded'
  BY <1>0 DEF IInv, Unstranded, NoteEnded, Moved, Fails, Idle, Control, Restated, Entering,
          Firsts, Rests
<1>7. Timed'
  BY <1>0, BoundsAssumption DEF IInv, Timed, Types, Times, Restated, InFlight, Done, Control
<1>8. Alone'
  BY <1>0 DEF IInv, Alone, NoteEnded, Shows, Typed, Unrun, Moved, Fails, Idle, Restated,
          InFlight, Staging, Entering, Firsts, Rests, Control
<1>9. Telling'
  BY <1>0 DEF IInv, Telling, NoteEnded, Noticed, Moved, Fails, Idle, Restated, Control,
          Firsts, Rests
<1> QED  BY <1>1, <1>2, <1>3, <1>4, <1>5, <1>6, <1>7, <1>8, <1>9 DEF IInv

-----------------------------------------------------------------------------
(* The inductive invariant.                                                  *)

LEMMA LocksKeep ==
    ASSUME IInv, Compact \/ Tick \/ Interrupt \/ SubmitHook
    PROVE  IInv'
<1>1. CASE Compact
  BY <1>1, TakeLockKeeps DEF Compact, Firsts
<1>2. CASE Tick
  BY <1>2, TakeLockKeeps DEF Tick, Firsts
<1>3. CASE Interrupt
  BY <1>3, TakeLockKeeps DEF Interrupt, Firsts
<1>4. CASE SubmitHook
  <2>1. PICK h \in hooks : /\ h.kind \in {"note", "altered"}
                           /\ TakeLock(h.kind, h.id, "admit")
    BY <1>4 DEF SubmitHook
  <2>2. h.id \in Ids /\ h.id \in history.pasted
    BY <2>1 DEF IInv, Types, Texted
  <2> QED  BY <2>1, <2>2, TakeLockKeeps DEF Firsts
<1> QED  BY <1>1, <1>2, <1>3, <1>4

LEMMA Initial ==
    Init => IInv
<1> SUFFICES ASSUME Init
             PROVE  IInv
  OBVIOUS
<1>1. 0 \in Times
  BY BoundsAssumption DEF Times
<1>2. /\ comp \in Comps /\ comp.id = None /\ comp.status = "none" /\ comp.start = 0 /\ comp.done = 0
      /\ ~comp.cont /\ ~comp.admitted
  BY <1>1 DEF Init, NoComp, Comps, Statuses
<1>3. /\ screen \in Screens /\ screen.composer = Empty /\ screen.queue = {}
  BY TextKinds DEF Init, Screens
<1>4. /\ history \in Histories /\ history.ran = {} /\ history.pasted = {} /\ history.again = {}
      /\ history.admitted = {} /\ history.twice = {} /\ history.ended = 0 /\ history.lied = {}
      /\ history.misled = {} /\ history.since = 0
  BY <1>1 DEF Init, Histories
<1>5. /\ holder \in Holders /\ holder.pc = "free" /\ holder.task = "none" /\ holder = Idle
      /\ holder.next = "unlock"
  BY DEF Init, Idle, Holders, Steps, Phases, Firsts, Rests
<1>6. /\ input = "none" /\ note = [i \in Ids |-> "none"] /\ notices = {} /\ told = {}
      /\ witness = 0 /\ confirmed = 0 /\ records = 0 /\ submitted = None /\ hooks = {}
      /\ unused = Ids /\ acts = 0 /\ time = 0 /\ crashes = 0 /\ faults = 0
  BY DEF Init
<1>7. Types
  BY <1>1, <1>2, <1>3, <1>4, <1>5, <1>6 DEF Types, Places
<1>8. Named
  BY <1>2, <1>3, <1>4, <1>6, TextKinds, IdsAssumption DEF Named
<1>9. Texted
  BY <1>3, <1>5, <1>6, TextKinds DEF Texted
<1>10. Control
  BY <1>2, <1>5, <1>6 DEF Control, Staging, Entering, Firsts, Rests
<1>11. Reserved
  BY <1>2, <1>4, <1>6 DEF Reserved, NoteOnce
<1>12. Unstranded
  BY <1>6 DEF Unstranded
<1>13. Timed
  BY <1>2, <1>4, <1>6 DEF Timed, InFlight, Done
<1>14. Alone
  BY <1>2, <1>4, <1>5, <1>6 DEF Alone, Typed, InFlight, Staging, Entering
<1>15. Telling
  BY <1>2, <1>5 DEF Telling
<1> QED  BY <1>7, <1>8, <1>9, <1>10, <1>11, <1>12, <1>13, <1>14, <1>15 DEF IInv

LEMMA Idling ==
    ASSUME IInv, UNCHANGED vars
    PROVE  IInv'
<1>1. /\ UNCHANGED <<comp, input, note, notices, told, witness, confirmed, records, submitted, screen, hooks>>
      /\ UNCHANGED <<holder, history, unused, collar, acts, crashes, faults, time>>
  BY DEF vars, files, proofs, bounds
<1>2. Types' /\ Named' /\ Texted' /\ Control'
  BY <1>1 DEF IInv, Types, Named, Texted, Control, InFlight
<1>3. Reserved' /\ Unstranded' /\ Timed'
  BY <1>1 DEF IInv, Reserved, NoteOnce, Unstranded, Timed, InFlight, Done
<1>4. Alone' /\ Telling'
  BY <1>1, ZenonT(40) DEF IInv, Alone, Typed, Unrun, Telling, Noticed, InFlight
<1> QED  BY <1>2, <1>3, <1>4 DEF IInv

LEMMA Inductive ==
    IInv /\ [Next]_vars => IInv'
<1> SUFFICES ASSUME IInv, [Next]_vars
             PROVE  IInv'
  OBVIOUS
<1>1. CASE Compact \/ Tick \/ Interrupt \/ SubmitHook
  BY <1>1, LocksKeep
<1>2. CASE Compacting
  BY <1>2, RequestKeeps, StartKeeps, PasteCommandKeeps, ReadbackKeeps, AbortKeeps, DeferKeeps,
     EnterCommandKeeps, SaveSubmittedKeeps, PublishNoteKeeps, ReserveNoteKeeps, AwaitKeeps,
     StartNoteKeeps, PasteNoteKeeps, EnterNoteKeeps, FinishNoteKeeps, ObserveKeeps DEF Compacting
<1>3. CASE Interrupting
  BY <1>3, InterruptQueuedKeeps, InterruptFailedKeeps, InterruptRefusedKeeps, InterruptRunningKeeps,
     EscapeKeeps, EscapedKeeps DEF Interrupting
<1>4. CASE Failing
  BY <1>4, MarkFailedKeeps, CancelNoteKeeps, PublishNoticeKeeps, NotifyRequesterKeeps DEF Failing
<1>5. CASE ReadRecords \/ Drain \/ Block \/ Admit \/ Release \/ Crash
  BY <1>5, ReadRecordsKeeps, DrainKeeps, BlockKeeps, AdmitKeeps, ReleaseKeeps, CrashKeeps
<1>6. CASE Native
  BY <1>6, EndCompactionKeeps, RunQueuedKeeps, TurnStartsKeeps, TurnEndsKeeps, OperatorActsKeeps,
     WriteWitnessKeeps, WriteRecordKeeps, WriteSubmittedKeeps, HookLostKeeps DEF Native
<1>7. CASE UNCHANGED vars
  BY <1>7, Idling
<1> QED  BY <1>1, <1>2, <1>3, <1>4, <1>5, <1>6, <1>7 DEF Next, Holding

LEMMA Always ==
    Spec => []IInv
BY Initial, Inductive, PTL DEF Spec

-----------------------------------------------------------------------------
(* The note.                                                                 *)

\* The note that resumes the work is pasted at most once and its prompt is
\* admitted at most once, whichever of the start, a drain, a dead owner's
\* recovery and the hook got to it (compaction.go:202, recover.go:528), and
\* without a crash none is left in the queue to hold it for ever
\* (delivery.go:709).
THEOREM NotesRunOnce ==
    Spec => []NotesRun
<1>1. IInv => NotesRun
  BY DEF IInv, Reserved, Unstranded, Entering, NotesRun, NoStrandedNote
<1> QED  BY <1>1, Always, PTL

-----------------------------------------------------------------------------
(* What is told.                                                             *)

\* The notice "your context was not compacted" is never about a compaction that
\* ran, nor the notice of a withheld note about one that was admitted, while
\* nobody else is at the keyboard; and without a crash a failure is told to its
\* agent and to the agent that asked for it (compaction.go:383).
THEOREM NoticesTellTheTruth ==
    Spec => []NoticesAreTrue
<1>1. IInv => NotRunIsTrue /\ WithheldIsTrue
  BY DEF IInv, Alone, Typed, NotRunIsTrue, WithheldIsTrue
<1>2. IInv => FailureToldUncrashed
  BY DEF IInv, Telling, Noticed, FailureToldUncrashed, FailureTold
<1>3. IInv => NoticesAreTrue
  BY <1>1, <1>2 DEF NoticesAreTrue
<1> QED  BY <1>3, Always, PTL

-----------------------------------------------------------------------------
(* The end.                                                                  *)

LEMMA TypesAre ==
    Types => TypeOK
<1> SUFFICES ASSUME Types
             PROVE  TypeOK
  OBVIOUS
<1>1. \A h \in hooks : Hook(h)
  BY DEF Types, HookRecords, Hook, Times
<1>2. screen.work \in {"idle", "busy", "compacting"} /\ screen.composer \in Texts /\ screen.queue \subseteq Texts
  BY TextKinds DEF Types, Screens
<1>3. holder.phase \in Phases
  BY DEF Types, Holders
<1>4. comp \in Comps /\ witness \in Times /\ confirmed \in Times /\ records \in Times /\ time \in Times
  BY DEF Types
<1>5. /\ comp.id \in Ids \cup {None}
      /\ comp.status \in {"none", "queued", "submitted", "unverified", "completed", "failed"}
      /\ comp.start \in Times /\ comp.done \in Times /\ comp.cont \in BOOLEAN /\ comp.admitted \in BOOLEAN
      /\ comp.recovered \in BOOLEAN /\ comp.staged \in BOOLEAN
  BY <1>4 DEF Comps, Statuses
<1>6. {comp.start, comp.done, witness, confirmed, records, time} \subseteq 0 .. MaxTime
  BY <1>4, <1>5 DEF Times
<1>7. /\ input \in {"none", "compaction", "recovery", "note"} /\ note \in [Ids -> Places]
      /\ notices \subseteq Ids \X Phases /\ told \subseteq Ids /\ submitted \in Ids \cup {None}
  BY DEF Types
<1> QED  BY <1>1, <1>2, <1>3, <1>5, <1>6, <1>7 DEF TypeOK, Places

\* A compaction is recorded completed only for a native end after its own start,
\* never for the end of an earlier one (recover.go:502); and an end that the
\* agent's record counts as confirmed is the recorded compaction's when it came
\* after its start (context_bands.go:41, compaction.go:133).
THEOREM CompletionsAreOwn ==
    Spec => []CompletionIsOwn
<1>1. IInv => CompletedIsOwn
  <2> SUFFICES ASSUME IInv, comp.status = "completed"
               PROVE  history.ended > history.since
    BY DEF CompletedIsOwn
  <2>1. /\ comp.start = history.since /\ comp.done > comp.start /\ comp.done <= time
        /\ history.ended = time
    BY DEF IInv, Timed, Done
  <2>2. comp.done \in Nat /\ comp.start \in Nat /\ time \in Nat
    BY BoundsAssumption DEF IInv, Types, Comps, Times
  <2> QED  BY <2>1, <2>2
<1>2. IInv => CompletionNotLost
  BY DEF IInv, Timed, Done, CompletionNotLost
<1>3. IInv => CompletionIsOwn
  BY <1>1, <1>2, TypesAre DEF IInv, CompletionIsOwn
<1> QED  BY <1>3, Always, PTL
=============================================================================
