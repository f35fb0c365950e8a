----------------------------- MODULE Compaction -----------------------------
(***************************************************************************)
(* One agent's compactions: the command that requests, interrupts or       *)
(* restarts one, the ticks that start and observe it, the note that        *)
(* resumes the work, and the hooks that admit the note and confirm the     *)
(* end.  cmd/gang/compaction.go, messages.go, recover.go, core/step.go.    *)
(***************************************************************************)
EXTENDS Naturals, FiniteSets

CONSTANTS
    Ids,            \* compactions
    None,
    Collars,        \* the shipped collars
    MaxTime,        \* bound: starts and ends of compactions
    MaxMishaps      \* bound: processes that die with the lock, captures and
                    \* keys that fail, and acts of the operator, in all

ASSUME IdsAssumption == None \notin Ids
ASSUME BoundsAssumption == {MaxTime, MaxMishaps} \subseteq Nat
ASSUME CollarsAssumption == Collars \subseteq {"claude", "codex"}

VARIABLES
    comp,       \* Agent.Compaction
    input,      \* Agent.Input, by its kind
    note,       \* where each resume envelope is
    notices,    \* failure notices published to the agent
    told,       \* failures whose other requester has a notice
    witness,    \* the compaction witness file: when it says one ended
    confirmed,  \* Native.ConfirmedCompactedAt
    records,    \* newest compaction end among the status hooks
    submitted,  \* the note the submit witness holds
    screen,     \* the native program: work, composer, queue, refusals
    hooks,      \* hook processes
    holder,     \* the process with the agent lock
    history,    \* what happened, for the properties only
    unused,     \* identifiers no compaction has yet
    collar,     \* the agent's collar
    acts, crashes, faults,  \* mishaps so far
    time        \* of the last start or end

files == <<comp, input, note, notices, told>>
proofs == <<witness, confirmed, records, submitted>>
bounds == <<unused, collar, acts, time, crashes, faults>>
vars == <<files, proofs, screen, hooks, holder, history, bounds>>

NoComp == [id |-> None, status |-> "none", start |-> 0, done |-> 0,
           cont |-> FALSE, admitted |-> FALSE, recovered |-> FALSE,
           before |-> 0, staged |-> FALSE]
Phases == {"not run", "may have run", "ran"}
Idle == [pc |-> "free", task |-> "none", id |-> None, phase |-> "ran",
         next |-> "unlock"]
Command(i) == <<"command", i>>
Note(i) == <<"note", i>>
Altered(i) == <<"altered", i>>
Empty == <<"empty", None>>
Other == <<"other", None>>
Texts == {Empty, Other}
            \cup ({"command", "note", "altered"} \X Ids)

Init ==
    /\ comp = NoComp /\ input = "none"
    /\ note = [i \in Ids |-> "none"]
    /\ notices = {} /\ told = {}
    /\ witness = 0 /\ confirmed = 0 /\ records = 0 /\ submitted = None
    /\ screen = [work |-> "idle", composer |-> Empty, queue |-> {}, refusals |-> 0]
    /\ hooks = {} /\ holder = Idle
    /\ history = [ran |-> {}, pasted |-> {}, again |-> {}, admitted |-> {},
                  twice |-> {}, ended |-> 0, lied |-> {}, misled |-> {}, seen |-> {}, since |-> 0]
    /\ unused = Ids /\ collar \in Collars /\ acts = 0 /\ time = 0 /\ crashes = 0 /\ faults = 0

----------------------------------------------------------------------------
(* core.Step *)

InFlight(c) == c.status \in {"submitted", "unverified"}
(* harness/collars: codex withdraws a staged command, shows its queue and *)
(* a refusal; claude does none of these.                                  *)
DeferClear == collar = "codex"
QueueWitness == collar = "codex"
ShowsRefusal == collar = "codex"
Pending(c) ==
    \/ c.status \in {"queued", "submitted"}
    \/ c.status = "completed" /\ ~c.cont
Submit(c) == [c EXCEPT !.status = "submitted"]
Complete(c) == [c EXCEPT !.status = "completed"]
Unverify(c, recovery) ==
    [c EXCEPT !.status = "unverified", !.recovered = @ \/ recovery]
(* Completed after it started: CompletedAt.After(StartedAt). *)
Done(c) == c.done > c.start

(* A recorded end belongs to the compaction that started before it. *)
Accepted(c, at) ==
    IF InFlight(c) /\ at > c.start THEN [c EXCEPT !.done = at] ELSE c

(* continueCompaction, up to the refusal that is a failure. *)
Continued(c) == IF InFlight(c) /\ Done(c) THEN Complete(c) ELSE c
\* Defect: a note already entered counts as one still waiting.
CompletedAgain(c, n) ==
    c.status = "completed" /\ Done(c) /\ c.cont /\ ~c.admitted

CompletedResume(c, n) ==
    /\ c.status = "completed" /\ Done(c) /\ c.cont /\ ~c.admitted
    /\ n[c.id] = "new"
\* Defect: a note that has left the queue was not entered.
UnenteredGone(c, n) == c.status = "completed" /\ ~CompletedResume(c, n)
Unentered(c, n) ==
    /\ c.status = "completed"
    /\ ~CompletedResume(c, n)
    /\ ~c.cont \/ n[c.id] = "new"

(* An owner that died with input under way leaves its outcome unknown. *)
Recover(c, i) ==
    CASE i = "compaction" -> Unverify(c, FALSE)
      [] i = "recovery"   -> Unverify(c, TRUE)
      [] OTHER            -> c
RecoverNote(i) ==
    IF i = "note" /\ note[comp.id] = "new"
    THEN [note EXCEPT ![comp.id] = "unverified"] ELSE note
(* The retained receipt of a note is proven by its own submit hook. *)
Proven(n) ==
    IF submitted # None /\ n[submitted] \in {"accepted", "unverified"}
    THEN [n EXCEPT ![submitted] = "delivered"] ELSE n

Fresh == witness > confirmed
Witnessed(c) == IF Fresh THEN Accepted(c, witness) ELSE c

----------------------------------------------------------------------------
(* The agent lock *)

Go(pc) == holder' = [holder EXCEPT !.pc = pc]
Unlock == holder' = Idle
Fail(phase, next) ==
    holder' = [holder EXCEPT !.pc = "fail", !.phase = phase, !.next = next]

(* Every command and tick reads first what hooks and dead owners left. *)
(* The deadline may have passed whenever a compaction is submitted.    *)
TakeLock(task, id, first) ==
    /\ holder.pc = "free"
    /\ \E late \in BOOLEAN :
        LET c == Continued(Witnessed(Recover(comp, input)))
            d == IF late /\ c.status = "submitted" THEN Unverify(c, FALSE) ELSE c
            n == Proven(RecoverNote(input))
        IN /\ comp' = d
           /\ note' = n
           /\ holder' = [Idle EXCEPT
                !.task = task, !.id = id, !.next = first,
                !.pc = IF Unentered(c, n) THEN "fail" ELSE first]
    /\ input' = "none"
    /\ confirmed' = IF Fresh THEN witness ELSE confirmed
    /\ UNCHANGED <<notices, told, witness, records, submitted, screen, hooks,
                   history, bounds>>

Compact == TakeLock("compact", None, "request")
Tick == TakeLock("tick", None, "records")
Interrupt == comp # NoComp /\ TakeLock("interrupt", None, "interrupt")

(* A process dies with the lock; a later one finds its files. *)
Crash ==
    /\ holder.pc # "free"
    /\ acts + crashes + faults < MaxMishaps /\ crashes' = crashes + 1
    /\ holder' = Idle
    /\ UNCHANGED <<files, proofs, screen, hooks, history, unused, collar, acts, time, faults>>

Release ==
    /\ holder.pc = "unlock"
    /\ Unlock
    /\ UNCHANGED <<files, proofs, screen, hooks, history, bounds>>

(* A capture or a key fails: the operation goes on at pc. *)
Fault == acts + crashes + faults < MaxMishaps /\ faults' = faults + 1
NoFault == UNCHANGED faults

----------------------------------------------------------------------------
(* failCompaction: three writes after which nobody comes back. *)

MarkFailed ==
    /\ holder.pc = "fail"
    /\ comp' = [comp EXCEPT !.status = "failed"]
    /\ input' = "none"
    /\ history' = [history EXCEPT
         !.lied = IF holder.phase = "not run" /\ comp.id \in history.ran
                  THEN @ \cup {comp.id} ELSE @,
         !.misled = IF comp.id \in history.admitted
                    THEN @ \cup {comp.id} ELSE @]
    /\ Go("cancel")
    /\ UNCHANGED <<note, notices, told, proofs, screen, hooks, bounds>>

(* A note that was delivered cannot be cancelled: the operation ends there. *)

CancelNote ==
    /\ holder.pc = "cancel"
    /\ note' = IF note[comp.id] \in {"new", "accepted", "unverified"}
               THEN [note EXCEPT ![comp.id] = "cancelled"] ELSE note
    /\ IF note[comp.id] = "delivered" THEN Unlock ELSE Go("notice")
    /\ UNCHANGED <<comp, input, notices, told, proofs, screen, hooks, history, bounds>>

(* The agent's notice, then its requester's; the command that asked for the *)
(* compaction reports the failure it sees itself.                           *)
Own == holder.task = "compact" /\ holder.next # "request"

PublishNotice ==
    /\ holder.pc = "notice"
    /\ notices' = notices \cup {<<comp.id, holder.phase>>}
    /\ Go("requester")
    /\ UNCHANGED <<comp, input, note, told, proofs, screen, hooks, history, bounds>>
NotifyRequester ==
    /\ holder.pc = "requester"
    /\ told' = IF Own THEN told ELSE told \cup {comp.id}
    /\ history' = IF Own THEN [history EXCEPT !.seen = @ \cup {comp.id}] ELSE history
    /\ Go(holder.next)
    /\ UNCHANGED <<comp, input, note, notices, proofs, screen, hooks, bounds>>

----------------------------------------------------------------------------
(* The native program, its hooks and the operator *)

Work(w) == screen' = [screen EXCEPT !.work = w]

(* Pasted text joins what the composer holds. *)
Pasted(text) ==
    [screen EXCEPT !.composer =
        CASE @ = Empty                -> text
          [] @ # Empty /\ text[1] = "note" -> Altered(text[2])
          [] OTHER                    -> Other]

Submitted(t) == [kind |-> t[1], id |-> t[2], at |-> 0]

(* Enter takes the composer.  A command may start a compaction, be refused, *)
(* be held behind a turn or do nothing; a note or other text is queued      *)
(* behind work.                                                             *)
Enter ==
    LET t == screen.composer
        gone == [screen EXCEPT !.composer = Empty]
        behind == [gone EXCEPT !.queue = @ \cup {t}]
    IN CASE t = Empty -> UNCHANGED <<screen, hooks, history>>
         [] t = Other ->
                /\ screen' = [gone EXCEPT !.work = IF @ = "idle" THEN "busy" ELSE @]
                /\ UNCHANGED <<hooks, history>>
         [] t[1] = "command" ->
                /\ \/ /\ screen.work = "idle"
                      /\ screen' = [gone EXCEPT !.work = "compacting"]
                      /\ history' = [history EXCEPT !.ran = @ \cup {t[2]}]
                   \/ /\ screen.work = "busy" /\ ShowsRefusal
                      /\ screen' = [gone EXCEPT !.refusals = @ + 1]
                      /\ UNCHANGED history
                   \/ screen.work = "busy" /\ screen' = behind /\ UNCHANGED history
                   \/ screen' = gone /\ UNCHANGED history
                /\ UNCHANGED hooks
         [] OTHER ->
                /\ IF screen.work = "idle"
                   THEN screen' = gone /\ hooks' = hooks \cup {Submitted(t)}
                   ELSE screen' = behind /\ UNCHANGED hooks
                /\ UNCHANGED history

(* What the screen shows running. *)
Working == screen.work # "idle"

(* A native compaction ends, and its hook starts. *)
EndCompaction ==
    /\ screen.work = "compacting" /\ time < MaxTime
    /\ time' = time + 1
    /\ Work("idle")
    /\ history' = [history EXCEPT !.ended = time + 1]
    /\ hooks' = hooks \cup {[kind |-> "finished", id |-> None, at |-> time + 1]}
    /\ UNCHANGED <<files, proofs, holder, unused, collar, acts, crashes, faults>>

(* What waits in the native queue runs when the work before it ended. *)
RunQueued ==
    /\ screen.work = "idle"
    /\ \E t \in screen.queue :
        LET rest == [screen EXCEPT !.queue = @ \ {t}] IN
        \/ /\ t[1] = "command"
           /\ screen' = [rest EXCEPT !.work = "compacting"]
           /\ history' = [history EXCEPT !.ran = @ \cup {t[2]}]
           /\ UNCHANGED hooks
        \/ /\ t[1] # "command"
           /\ screen' = rest
           /\ hooks' = hooks \cup {Submitted(t)}
           /\ UNCHANGED history
    /\ UNCHANGED <<files, proofs, holder, bounds>>

TurnStarts ==
    /\ screen.work = "idle" /\ Work("busy")
    /\ UNCHANGED <<files, proofs, hooks, holder, history, bounds>>
TurnEnds ==
    /\ screen.work = "busy" /\ Work("idle")
    /\ UNCHANGED <<files, proofs, hooks, holder, history, bounds>>

OperatorActs ==
    /\ acts + crashes + faults < MaxMishaps /\ acts' = acts + 1
    /\ \/ screen.composer # Empty /\ Enter
       \/ /\ screen' = [screen EXCEPT !.composer =
                          IF @[1] \in {"note", "altered"} THEN Altered(@[2]) ELSE Other]
          /\ UNCHANGED <<hooks, history>>
       \/ /\ screen' = [screen EXCEPT !.composer = Empty]
          /\ UNCHANGED <<hooks, history>>
       \/ /\ screen.work = "idle" /\ Work("compacting")
          /\ UNCHANGED <<hooks, history>>
    /\ UNCHANGED <<files, proofs, holder, unused, collar, time, crashes, faults>>

(* The end hook writes its witness, then its status record; no lock. *)
WriteWitness ==
    \E h \in hooks :
        /\ h.kind = "finished"
        /\ witness' = h.at
        /\ hooks' = (hooks \ {h}) \cup {[h EXCEPT !.kind = "record"]}
        /\ UNCHANGED <<files, confirmed, records, submitted, screen, holder,
                       history, bounds>>
WriteRecord ==
    \E h \in hooks :
        /\ h.kind = "record"
        /\ records' = IF h.at > records THEN h.at ELSE records
        /\ hooks' = hooks \ {h}
        /\ UNCHANGED <<files, witness, confirmed, submitted, screen, holder,
                       history, bounds>>

(* The submit hook of a note waits for the lock. *)
SubmitHook ==
    \E h \in hooks :
        /\ h.kind \in {"note", "altered"}
        /\ TakeLock(h.kind, h.id, "admit")

Blocks(i) ==
    \/ holder.task = "altered"
    \/ comp.id # i
    \/ comp.admitted
    \/ ~(comp.status = "completed" /\ Done(comp)) /\ ~(InFlight(comp) /\ comp.cont)
HookDone == hooks \ {Submitted(<<holder.task, holder.id>>)}

(* A blocked note of the current compaction fails it. *)
Block ==
    /\ holder.pc = "admit" /\ Blocks(holder.id)
    /\ hooks' = HookDone
    /\ IF comp.id = holder.id /\ ~comp.admitted /\ comp.status # "failed"
       THEN Fail(IF comp.status = "completed" THEN "ran" ELSE "may have run", "unlock")
       ELSE Unlock
    /\ UNCHANGED <<files, proofs, screen, history, bounds>>

Admitted(c) ==
    [c EXCEPT !.admitted = TRUE,
              !.status = IF @ = "submitted" /\ ~Done(c) THEN "unverified" ELSE @]
(* The hook's answer lets the prompt run; its witness follows without lock. *)
Admit ==
    /\ holder.pc = "admit" /\ ~Blocks(holder.id)
    /\ comp' = Admitted(comp)
    /\ Work("busy")
    /\ history' = [history EXCEPT !.admitted = @ \cup {holder.id},
                     !.twice = IF holder.id \in history.admitted
                               THEN @ \cup {holder.id} ELSE @]
    /\ hooks' = HookDone \cup {[kind |-> "witness", id |-> holder.id, at |-> 0]}
    /\ Unlock
    /\ UNCHANGED <<input, note, notices, told, proofs, bounds>>
WriteSubmitted ==
    \E h \in hooks :
        /\ h.kind = "witness"
        /\ submitted' = h.id
        /\ hooks' = hooks \ {h}
        /\ UNCHANGED <<files, witness, confirmed, records, screen, holder,
                       history, bounds>>
(* The harness ends a submit hook that does not answer. *)
HookLost ==
    \E h \in hooks :
        /\ h.kind \in {"note", "altered"} /\ holder.pc # "admit"
        /\ Fault
        /\ hooks' = hooks \ {h}
        /\ UNCHANGED <<files, proofs, screen, holder, history, unused, collar, acts, time, crashes>>

----------------------------------------------------------------------------
(* gang compact *)

RestOf(c) ==
    IF holder.task = "tick" \/ c.status = "completed" THEN "drain" ELSE "unlock"
Rest == RestOf(comp)
Quiet == <<note, notices, told, proofs, hooks, history>>

(* A note still on its way would be made stale by another compaction. *)
Refused ==
    \/ CompletedResume(comp, note)
    \/ /\ comp.status = "unverified" /\ comp.cont
       /\ ~comp.admitted /\ ~comp.recovered
       /\ screen.work = "compacting"
    \/ Pending(comp)
(* Until ten seconds after its end, an unadmitted note also refuses it. *)
Continuing == comp.status = "completed" /\ comp.cont /\ ~comp.admitted

Request ==
    /\ holder.pc = "request"
    /\ \/ /\ Refused \/ Continuing
          /\ Unlock
          /\ UNCHANGED <<comp, unused>>
       \/ /\ ~Refused
          /\ \E i \in unused :
                /\ comp' = [NoComp EXCEPT !.id = i, !.status = "queued", !.start = time]
                /\ unused' = unused \ {i}
          /\ Go("start")
    /\ UNCHANGED <<Quiet, input, screen, collar, acts, time, crashes, faults>>

(* An idle screen and an empty composer let a queued compaction start. *)
StartFrom(before, since) ==
    /\ holder.pc = "start"
    /\ IF comp.status = "queued" /\ screen.work = "idle" /\ screen.composer = Empty
       THEN /\ comp' = [comp EXCEPT !.before = before, !.start = since]
            /\ input' = "compaction"
            /\ history' = [history EXCEPT !.since = time]
            /\ Go("pasteCommand")
       ELSE Go(Rest) /\ UNCHANGED <<comp, input, history>>
    /\ UNCHANGED <<note, notices, told, proofs, hooks, screen, bounds>>

\* Defect: the compaction starts when it is asked for.
StartEarly == StartFrom(screen.refusals, comp.start)

Start == StartFrom(screen.refusals, time)

PasteCommand ==
    /\ holder.pc = "pasteCommand"
    /\ \/ screen' = Pasted(Command(comp.id)) /\ Go("readback") /\ NoFault
       \/ screen' \in {screen, Pasted(Command(comp.id))} /\ Go("abort") /\ Fault
    /\ UNCHANGED <<Quiet, comp, input, unused, collar, acts, time, crashes>>

(* The command is entered only if the composer reads back as the command *)
(* and the screen is still idle.                                         *)
Readback ==
    /\ holder.pc = "readback"
    /\ LET t == screen.composer IN
       \/ t = Empty /\ Go("abort") /\ NoFault /\ UNCHANGED screen
       \/ /\ t \notin {Empty, Command(comp.id)} /\ NoFault
          /\ Fail("not run", Rest)
          /\ screen' \in {screen, [screen EXCEPT !.composer = Empty]}
       \/ /\ t = Command(comp.id) /\ NoFault /\ UNCHANGED screen
          /\ Go(IF screen.work = "busy" THEN "defer" ELSE "enterCommand")
       \/ Fault /\ Go("abort") /\ UNCHANGED screen
    /\ UNCHANGED <<Quiet, comp, input, unused, collar, acts, time, crashes>>

(* An input abandoned before its Enter: gone while something runs, it may *)
(* have been entered by someone else.                                     *)
Abort ==
    /\ holder.pc = "abort"
    /\ \/ /\ NoFault
          /\ IF /\ screen.composer # Command(comp.id)
                /\ Working
             THEN Fail("may have run", Rest) /\ UNCHANGED screen
             ELSE /\ Fail("not run", Rest)
                  /\ screen' \in {screen, [screen EXCEPT !.composer = Empty]}
       \/ Fault /\ Fail("not run", Rest) /\ UNCHANGED screen
    /\ UNCHANGED <<Quiet, comp, input, unused, collar, acts, time, crashes>>

(* Work began after the idle check: an exact staged command is withdrawn *)
(* and the compaction stays queued.                                      *)
Defer ==
    /\ holder.pc = "defer"
    /\ LET exact == screen.composer = Command(comp.id)
           cleared == [screen EXCEPT !.composer = Empty]
           fail(c, s) == /\ comp' = c /\ screen' = s /\ UNCHANGED input
                         /\ Fail("not run", Rest)
       IN \/ ~DeferClear /\ fail(comp, cleared) /\ NoFault
          \/ DeferClear /\ ~exact /\ fail([comp EXCEPT !.staged = TRUE], screen) /\ NoFault
          \/ /\ DeferClear /\ exact /\ NoFault
             /\ screen' = cleared /\ input' = "none" /\ Go(Rest)
             /\ UNCHANGED comp
          \/ Fault /\ \E unread \in BOOLEAN :
                 fail([comp EXCEPT !.staged = unread], screen)
    /\ UNCHANGED <<Quiet, unused, collar, acts, time, crashes>>

(* After a key error the command may have been entered. *)
EnterCommand ==
    /\ holder.pc = "enterCommand"
    /\ \/ Enter /\ Go("submitted") /\ NoFault /\ UNCHANGED <<comp, input>>
       \/ /\ Enter \/ UNCHANGED <<screen, hooks, history>>
          /\ comp' = Unverify(comp, FALSE) /\ input' = "none"
          /\ Unlock /\ Fault
    /\ UNCHANGED <<note, notices, told, proofs, unused, collar, acts, time, crashes>>

SaveSubmitted ==
    /\ holder.pc = "submitted"
    /\ comp' = Submit(comp) /\ input' = "none" /\ Go("publish")
    /\ UNCHANGED <<Quiet, screen, bounds>>

----------------------------------------------------------------------------
(* The note, entered while the compaction runs or by a later drain *)

(* publishOnce, then Continuation: two writes. *)
PublishNote ==
    /\ holder.pc = "publish"
    /\ note' = [note EXCEPT ![comp.id] = IF @ = "none" THEN "new" ELSE @]
    /\ Go("reserve")
    /\ UNCHANGED <<comp, input, notices, told, proofs, screen, hooks, history, bounds>>
ReserveNote ==
    /\ holder.pc = "reserve"
    /\ comp' = [comp EXCEPT !.cont = TRUE]
    /\ Go("await")
    /\ UNCHANGED <<Quiet, input, screen, bounds>>

(* The command has left the composer and, where the collar shows one, a *)
(* compaction runs; two seconds end the wait.                           *)
Await ==
    /\ holder.pc = "await"
    /\ \/ /\ screen.refusals > comp.before
          /\ Fail("not run", Rest) /\ NoFault
       \/ /\ screen.refusals <= comp.before /\ screen.composer = Empty
          /\ screen.work = "compacting" /\ Go("pasteNote") /\ NoFault
       \/ /\ screen.refusals <= comp.before /\ screen.composer = Empty
          /\ screen.work # "compacting"
          /\ Fail("may have run", Rest) /\ NoFault
       \/ /\ screen.refusals <= comp.before /\ screen.composer # Empty
          /\ Fail("may have run", Rest) /\ NoFault
       \/ Fail("may have run", Rest) /\ Fault
    /\ UNCHANGED <<Quiet, comp, input, screen, unused, collar, acts, time, crashes>>

(* The note's input ends; a start that could not enter it has failed. *)
EndNote(outcome, failed) ==
    /\ note' = Proven([note EXCEPT ![comp.id] = outcome])
    /\ input' = "none"
    /\ IF comp.status # "submitted" THEN Unlock
       ELSE IF failed THEN Fail("may have run", Rest) ELSE Go("settle")

StartNote ==
    /\ holder.pc = "pasteNote"
    /\ input' = "note" /\ Go("noteText")
    /\ UNCHANGED <<Quiet, comp, screen, bounds>>
PasteNote ==
    /\ holder.pc = "noteText"
    /\ history' = [history EXCEPT !.pasted = @ \cup {comp.id},
                                  !.again = @ \cup ({comp.id} \cap history.pasted)]
    /\ \/ /\ screen' = Pasted(Note(comp.id)) /\ Go("enterNote") /\ NoFault
          /\ UNCHANGED <<note, input>>
       \/ /\ screen' \in {screen, Pasted(Note(comp.id))} /\ Fault
          /\ EndNote("unverified", TRUE)
    /\ UNCHANGED <<comp, notices, told, proofs, hooks, unused, collar, acts, time, crashes>>
EnterNote ==
    /\ holder.pc = "enterNote"
    /\ \/ Enter /\ Go("finishNote") /\ NoFault /\ UNCHANGED <<note, input>>
       \/ /\ Enter \/ UNCHANGED <<screen, hooks, history>>
          /\ Fault
          /\ EndNote("unverified", TRUE)
    /\ UNCHANGED <<comp, notices, told, proofs, unused, collar, acts, time, crashes>>
FinishNote ==
    /\ holder.pc = "finishNote"
    /\ \/ /\ NoFault
          /\ EndNote(IF /\ QueueWitness /\ comp.status = "submitted"
                        /\ Note(comp.id) \in screen.queue
                     THEN "accepted" ELSE "unverified", FALSE)
       \/ QueueWitness /\ Fault /\ EndNote("unverified", TRUE)
    /\ UNCHANGED <<comp, notices, told, proofs, screen, hooks, history, unused, collar,
                   acts, time, crashes>>

(* A refusal seen after the note was entered still fails the compaction. *)
Observe ==
    /\ holder.pc \in {"settle", "observe"}
    /\ LET c == Continued(comp)
           next(d) == IF holder.pc = "settle" THEN RestOf(d) ELSE "start"
       IN \/ /\ NoFault /\ comp' = c
             /\ CASE InFlight(c) /\ screen.refusals > c.before -> Fail("not run", next(comp))
                  [] Unentered(c, note)                       -> Fail("ran", next(comp))
                  [] OTHER                                    -> Go(next(c))
          \/ Fault /\ Unlock /\ UNCHANGED comp
    /\ UNCHANGED <<Quiet, input, screen, unused, collar, acts, time, crashes>>

----------------------------------------------------------------------------
(* A tick: hook records, the screen, a waiting start, then the queue *)

(* Only a compaction that has not ended makes the tick read the screen. *)
ReadRecords ==
    /\ holder.pc = "records"
    /\ comp' = Accepted(comp, records)
    /\ confirmed' = IF records > confirmed THEN records ELSE confirmed
    /\ Go(IF comp.status \in {"queued", "submitted", "unverified"}
          THEN "observe" ELSE "drain")
    /\ UNCHANGED <<note, notices, told, input, witness, records, submitted, screen,
                   hooks, history, bounds>>

(* The note of a completed compaction goes ahead of every other message. *)
Drain ==
    /\ holder.pc = "drain"
    /\ LET c == Continued(comp) IN
        /\ comp' = c
        /\ IF Unentered(c, note) THEN Fail("ran", "drain")
           ELSE IF /\ CompletedResume(c, note)
                   /\ screen.composer = Empty
                   /\ screen.work # "compacting"
                THEN Go("pasteNote")
                ELSE Unlock
    /\ UNCHANGED <<Quiet, input, screen, bounds>>

----------------------------------------------------------------------------
(* gang compact --interrupt *)

Recoverable ==
    /\ InFlight(comp) /\ comp.cont /\ ~comp.admitted /\ ~comp.recovered
    /\ screen.composer = Empty
    /\ Working

InterruptQueued ==
    /\ holder.pc = "interrupt" /\ comp.status = "queued"
    /\ comp' = NoComp /\ Unlock
    /\ UNCHANGED <<Quiet, input, screen, bounds>>
InterruptFailed ==
    /\ holder.pc = "interrupt" /\ comp.status = "failed"
    /\ comp.staged /\ DeferClear
    /\ screen.composer = Command(comp.id) /\ screen.work # "busy"
    /\ screen' = [screen EXCEPT !.composer = Empty]
    /\ Go("drain") \/ Unlock
    /\ UNCHANGED <<Quiet, comp, input, bounds>>
InterruptRefused ==
    /\ holder.pc = "interrupt"
    /\ comp.status # "queued" /\ ~Recoverable
    /\ Unlock
    /\ UNCHANGED <<files, proofs, screen, hooks, history, bounds>>
InterruptRunning ==
    /\ holder.pc = "interrupt" /\ Recoverable
    /\ input' = "recovery" /\ Go("escape")
    /\ UNCHANGED <<Quiet, comp, screen, bounds>>
(* An interrupted program may hand its queued note back to the composer. *)
Escape ==
    /\ holder.pc = "escape"
    /\ \/ UNCHANGED screen
       \/ /\ screen.work # "idle"
          /\ \/ screen' = [screen EXCEPT !.work = "idle"]
             \/ \E t \in screen.queue :
                    screen' = [screen EXCEPT !.work = "idle", !.queue = @ \ {t},
                                             !.composer = t]
    /\ Go("escaped")
    /\ UNCHANGED <<Quiet, comp, input, bounds>>
Escaped ==
    /\ holder.pc = "escaped"
    /\ comp' = Unverify(comp, TRUE) /\ input' = "none" /\ Unlock
    /\ UNCHANGED <<Quiet, screen, bounds>>

----------------------------------------------------------------------------
Compacting ==
    \/ Request \/ Start \/ PasteCommand \/ Readback \/ Abort \/ Defer
    \/ EnterCommand \/ SaveSubmitted \/ PublishNote \/ ReserveNote \/ Await
    \/ StartNote \/ PasteNote \/ EnterNote \/ FinishNote \/ Observe
Interrupting ==
    \/ InterruptQueued \/ InterruptFailed \/ InterruptRefused
    \/ InterruptRunning \/ Escape \/ Escaped
Failing == MarkFailed \/ CancelNote \/ PublishNotice \/ NotifyRequester
Holding ==
    \/ Compacting \/ Interrupting \/ Failing \/ ReadRecords \/ Drain
    \/ Block \/ Admit \/ Release
Native ==
    \/ EndCompaction \/ RunQueued \/ TurnStarts \/ TurnEnds
    \/ OperatorActs \/ WriteWitness \/ WriteRecord \/ WriteSubmitted \/ HookLost
Next == Compact \/ Tick \/ Interrupt \/ SubmitHook \/ Crash \/ Holding \/ Native
Spec == Init /\ [][Next]_vars

----------------------------------------------------------------------------
Hook(h) ==
    /\ h.kind \in {"note", "altered", "witness"} => h.id \in Ids
    /\ h.kind \in {"note", "altered", "witness", "finished", "record"}
    /\ h.at \in 0 .. MaxTime

(* Each variable keeps its type: the compaction record, its envelopes, the *)
(* hooks' files and the native screen (core/model.go Compaction).          *)
TypeOK ==
    /\ comp.id \in Ids \cup {None}
    /\ comp.status \in {"none", "queued", "submitted", "unverified", "completed",
                        "failed"}
    /\ {comp.start, comp.done, witness, confirmed, records, time} \subseteq 0 .. MaxTime
    /\ {comp.cont, comp.admitted, comp.recovered, comp.staged} \subseteq BOOLEAN
    /\ input \in {"none", "compaction", "recovery", "note"}
    /\ note \in [Ids -> {"none", "new", "accepted", "unverified", "delivered",
                         "cancelled"}]
    /\ notices \subseteq Ids \X Phases /\ told \subseteq Ids
    /\ submitted \in Ids \cup {None}
    /\ screen.work \in {"idle", "busy", "compacting"}
    /\ screen.composer \in Texts /\ screen.queue \subseteq Texts
    /\ \A h \in hooks : Hook(h)
    /\ holder.phase \in Phases

(* The note of a compaction is pasted at most once and its prompt admitted *)
(* at most once, whichever of the start, a drain, a dead owner's recovery  *)
(* and the hook got to it (compaction.go:202, recover.go:528).             *)
NoteOnce == history.again = {} /\ history.twice = {}

(* The notice "your context was not compacted" is never about a compaction *)
(* that ran (compaction.go:404); with nobody else at the keyboard.         *)
NotRunIsTrue == acts = 0 => history.lied = {}

(* A compaction is recorded completed only for a native end after its own *)
(* start, never for the end of an earlier one (recover.go:502).           *)
CompletedIsOwn ==
    comp.status = "completed" => history.ended > history.since

(* The end a hook recorded is not lost: once the agent's record counts it  *)
(* as confirmed, a compaction in flight since before has it as its own     *)
(* (context_bands.go:41, compaction.go:133).                               *)
CompletionNotLost ==
    InFlight(comp) /\ confirmed > comp.start => comp.done > comp.start

(* Without a dead process, a note left in the queue while nobody holds the *)
(* lock is that of the current compaction, still on its way: any other     *)
(* would hold the queue for ever (delivery.go:709).                        *)
NoStrandedNote ==
    holder.pc = "free" /\ crashes = 0 =>
        \A i \in Ids : note[i] = "new" =>
            comp.id = i /\ comp.status \in {"submitted", "unverified", "completed"}

(* Every failed compaction tells its agent, and the agent that asked for it *)
(* unless its own command reported it (compaction.go:387, 414).             *)
FailureTold ==
    holder.pc = "free" /\ comp.status = "failed" =>
        /\ \E p \in Phases : <<comp.id, p>> \in notices
        /\ comp.id \in told \cup history.seen
(* It does unless the process died on the way, or the note had arrived. *)
FailureToldUncrashed ==
    crashes = 0 /\ comp.status = "failed" /\ note[comp.id] # "delivered"
        => FailureTold

(* A notice that a note was withheld is not about one that was admitted. *)
WithheldIsTrue == acts = 0 => history.misled = {}

(* The note runs once, and none is left to hold the queue for ever         *)
(* (compaction.go:202, delivery.go:709).                                   *)
NotesRun == NoteOnce /\ NoStrandedNote

(* What agent and requester are told of a failed compaction or a withheld  *)
(* note is true, and they are told (compaction.go:383).                    *)
NoticesAreTrue == NotRunIsTrue /\ WithheldIsTrue /\ FailureToldUncrashed

(* The recorded compaction ends with its own native end, and only with it  *)
(* (recover.go:502, compaction.go:133).                                    *)
CompletionIsOwn == TypeOK /\ CompletedIsOwn /\ CompletionNotLost
=============================================================================
