------------------------------ MODULE Mailbox ------------------------------
(* The mailboxes of outside registrations: store/outside.go, and the       *)
(* commands and MCP tools of cmd/gang/outside.go and outside_mcp.go.       *)
(*                                                                         *)
(* Registering, rotating and removing take several writes under the team   *)
(* lock; `gang send` queues mail under it; a request of the remote client  *)
(* resolves its principal, takes the lock and checks the principal again.  *)
(* A keyed send saves an intent, an attempt, the envelope and the receipt. *)
EXTENDS Naturals, FiniteSets

CONSTANTS
    Regs,       \* outside registrations, one per `outside register`
    Names,      \* the team's names
    Keys,       \* idempotency keys of the client's sends, one recipient and body each
    Mails,      \* messages sent to outside registrations
    Reqs,       \* concurrent requests of the HTTP server
    None,
    Native,     \* stands for a native agent as the owner of a name
    MaxAdmin,   \* bound: register, rotate and remove commands
    MaxCalls,   \* bound: requests of the client
    MaxFaults   \* bound: deaths of the server or of a command, and failed writes

ASSUME MailboxAssumption ==
    /\ None \notin Regs \cup Names \cup Reqs /\ "admin" \notin Reqs \cup {None}
    /\ Native \notin Regs \cup {None}
    /\ {MaxAdmin, MaxCalls, MaxFaults} \subseteq Nat

VARIABLES
    names,      \* the claims, shared with native agents
    file,       \* outside/<id>.json: name, generation and pending mail
    intents,    \* outside-data/<id>: how far each keyed send got
    creds,      \* credential files, one per principal that was issued one
    team,       \* holder of the team lock
    admin,      \* the operator's command
    req,        \* the server's requests
    mail,       \* each message: composed, queued, acknowledged
    inbox,      \* the envelope of each keyed send at its native recipient
    active,     \* the native recipient is active
    taken,      \* holder of the recipient's lock
    used,       \* commands, calls and faults so far
    pub,        \* ghost: publications of each keyed send
    told        \* ghost: the receipt the client last got for each keyed send

boxVars == <<names, file, intents, creds, team, admin, req, mail, inbox,
             active, taken, used, pub, told>>
clientVars == <<intents, inbox, active, taken, pub, told>>

\* A principal is a registration and the generation of its credential.
Gens == 1..(MaxAdmin + 1)
Principals == [reg : Regs, gen : Gens]
Sends == Regs \X Keys

NoFile == [here |-> FALSE, name |-> None, gen |-> 1, pending |-> {}]
Idle == [pc |-> "none", kind |-> "none", reg |-> None, name |-> None]
NoCall == [pc |-> "none", kind |-> "none", p |-> None, key |-> None,
           ids |-> {}, rest |-> {}, out |-> "none"]

MailboxInit ==
    /\ names = [n \in Names |-> None]
    /\ file = [r \in Regs |-> NoFile]
    /\ intents = [s \in Sends |-> "none"]
    /\ creds = {} /\ team = None
    /\ admin = Idle /\ req = [q \in Reqs |-> NoCall]
    /\ mail = [m \in Mails |-> [at |-> "none", to |-> None]]
    /\ inbox = [s \in Sends |-> "none"]
    /\ active = TRUE /\ taken = None
    /\ used = [admin |-> 0, calls |-> 0, faults |-> 0]
    /\ pub = [s \in Sends |-> 0]
    /\ told = [s \in Sends |-> "none"]

\* outsideState: a registration exists while its name leads back to it.
Known(r) == file[r].here /\ names[file[r].name] = r
Current(p) == Known(p.reg) /\ file[p.reg].gen = p.gen
Of(r) == [reg |-> r, gen |-> file[r].gen]

-----------------------------------------------------------------------------
(* gang outside register, rotate and remove.                               *)

Command(kind, r, n) ==
    /\ admin.pc = "none" /\ team = None /\ used.admin < MaxAdmin
    /\ CASE kind = "register" -> names[n] = None /\ file[r] = NoFile
                                 /\ \A g \in Gens : [reg |-> r, gen |-> g] \notin creds
         [] kind \in {"rotate", "remove"} -> Known(r) /\ names[n] = r
    /\ admin' = [pc |-> IF kind = "remove" THEN "unname" ELSE "credential",
                 kind |-> kind, reg |-> r, name |-> n]
    /\ team' = "admin"
    /\ used' = [used EXCEPT !.admin = @ + 1]
    /\ UNCHANGED <<names, file, creds, req, mail, clientVars>>

\* issueOutsideCredential creates the private file first.
Issued == IF admin.kind = "register" THEN 1 ELSE file[admin.reg].gen + 1
IssueCredential ==
    /\ admin.pc = "credential"
    /\ creds' = creds \cup {[reg |-> admin.reg, gen |-> Issued]}
    /\ admin' = [admin EXCEPT !.pc = "save"]
    /\ UNCHANGED <<names, file, team, req, mail, used, clientVars>>

\* The state names the new generation; a rotation keeps the pending mail.
SaveRegistration ==
    /\ admin.pc = "save"
    /\ LET r == admin.reg IN
       IF admin.kind = "register"
       THEN /\ file' = [file EXCEPT ![r] = [here |-> TRUE, name |-> admin.name,
                                             gen |-> 1, pending |-> {}]]
            /\ admin' = [admin EXCEPT !.pc = "claim"]
            /\ UNCHANGED team
       ELSE /\ file' = [file EXCEPT ![r].gen = Issued]
            /\ admin' = Idle /\ team' = None
    /\ UNCHANGED <<names, creds, req, mail, used, clientVars>>

\* Defect: a rotation writes the state of a new registration.
SaveRegistrationEmpty ==
    /\ admin.pc = "save"
    /\ file' = [file EXCEPT ![admin.reg] = [here |-> TRUE, name |-> admin.name,
                                             gen |-> Issued, pending |-> {}]]
    /\ IF admin.kind = "register"
       THEN admin' = [admin EXCEPT !.pc = "claim"] /\ UNCHANGED team
       ELSE admin' = Idle /\ team' = None
    /\ UNCHANGED <<names, creds, req, mail, used, clientVars>>

\* Defect: the credential of a state that was written is removed.
SaveFailsLate ==
    /\ admin.pc = "save" /\ used.faults < MaxFaults
    /\ file' = [file EXCEPT ![admin.reg].gen = Issued]
    /\ creds' = creds \ {[reg |-> admin.reg, gen |-> Issued]}
    /\ used' = [used EXCEPT !.faults = @ + 1]
    /\ admin' = Idle /\ team' = None
    /\ UNCHANGED <<names, req, mail, clientVars>>

\* A failed write removes the credential it was for.
SaveFails ==
    /\ admin.pc = "save" /\ used.faults < MaxFaults
    /\ creds' = creds \ {[reg |-> admin.reg, gen |-> Issued]}
    /\ used' = [used EXCEPT !.faults = @ + 1]
    /\ admin' = Idle /\ team' = None
    /\ UNCHANGED <<names, file, req, mail, clientVars>>

\* A rename claims names without the team lock, so the claim may fail: the
\* state and the credential go again.
ClaimOutside ==
    /\ admin.pc = "claim"
    /\ IF names[admin.name] = None
       THEN /\ names' = [names EXCEPT ![admin.name] = admin.reg]
            /\ UNCHANGED <<file, creds>>
       ELSE /\ file' = [file EXCEPT ![admin.reg] = NoFile]
            /\ creds' = creds \ {[reg |-> admin.reg, gen |-> 1]}
            /\ UNCHANGED names
    /\ admin' = Idle /\ team' = None
    /\ UNCHANGED <<req, mail, used, clientVars>>

\* RemoveOutside revokes before it deletes.
RemoveOutsideName ==
    /\ admin.pc = "unname"
    /\ names' = [names EXCEPT ![admin.name] = None]
    /\ admin' = [admin EXCEPT !.pc = "data"]
    /\ UNCHANGED <<file, creds, team, req, mail, used, clientVars>>
RemoveData ==
    /\ admin.pc = "data"
    /\ intents' = [s \in Sends |-> IF s[1] = admin.reg THEN "none" ELSE intents[s]]
    /\ admin' = [admin EXCEPT !.pc = "file"]
    /\ UNCHANGED <<names, file, creds, team, req, mail, used, inbox, active, taken, pub, told>>
RemoveFile ==
    /\ admin.pc = "file"
    /\ file' = [file EXCEPT ![admin.reg] = NoFile]
    /\ admin' = Idle /\ team' = None
    /\ UNCHANGED <<names, creds, req, mail, used, clientVars>>

\* A native agent is renamed to a free name, or leaves one.
NativeClaims(n) ==
    /\ names[n] \in {None, Native}
    /\ names' = [names EXCEPT ![n] = IF names[n] = None THEN Native ELSE None]
    /\ UNCHANGED <<file, creds, team, admin, req, mail, used, clientVars>>

-----------------------------------------------------------------------------
(* gang send NAME, for an outside name.                                    *)

Compose(m, r) ==
    /\ mail[m].at = "none" /\ Known(r)
    /\ mail' = [mail EXCEPT ![m] = [at |-> "composed", to |-> r]]
    /\ UNCHANGED <<names, file, creds, team, admin, req, used, clientVars>>

\* QueueOutside: the name must still lead to the registration it was written
\* for; one write replaces the mailbox.
QueueOutside(m) ==
    /\ mail[m].at = "composed" /\ team = None
    /\ IF Known(mail[m].to)
       THEN /\ file' = [file EXCEPT ![mail[m].to].pending = @ \cup {m}]
            /\ mail' = [mail EXCEPT ![m].at = "queued"]
       ELSE mail' = [mail EXCEPT ![m].at = "refused"] /\ UNCHANGED file
    /\ UNCHANGED <<names, creds, team, admin, req, used, clientVars>>

-----------------------------------------------------------------------------
(* Requests of the client.                                                 *)

\* The handler authenticates, and the operation then resolves its principal.
Begin(q, p, kind, key, ids) ==
    /\ req[q].pc = "none" /\ used.calls < MaxCalls /\ Current(p)
    /\ req' = [req EXCEPT ![q] = [NoCall EXCEPT !.pc = "lock", !.kind = kind,
                                  !.p = p, !.key = key, !.ids = ids]]
    /\ used' = [used EXCEPT !.calls = @ + 1]
    /\ UNCHANGED <<names, file, creds, team, admin, mail, clientVars>>

\* The request returns: what it held goes.
Return(q) ==
    /\ req' = [req EXCEPT ![q] = NoCall]
    /\ team' = IF team = q THEN None ELSE team

\* Defect: the principal is not checked again under the lock.
WithOutsideUnchecked(q) ==
    /\ req[q].pc = "lock" /\ team = None /\ file[req[q].p.reg].here
    /\ team' = q
    /\ req' = [req EXCEPT ![q].pc = req[q].kind]
    /\ UNCHANGED <<names, file, creds, admin, mail, used, clientVars>>

\* WithOutside: a principal of another generation is refused.
WithOutside(q) ==
    /\ req[q].pc = "lock" /\ team = None
    /\ IF Current(req[q].p)
       THEN team' = q /\ req' = [req EXCEPT ![q].pc = req[q].kind]
       ELSE Return(q)
    /\ UNCHANGED <<names, file, creds, admin, mail, used, clientVars>>

\* Ack reads the mailbox once and writes what is left.
AckRead(q) ==
    /\ req[q].pc = "ack"
    /\ LET pending == file[req[q].p.reg].pending IN
       req' = [req EXCEPT ![q] = [@ EXCEPT !.pc = "acked", !.ids = req[q].ids \cap pending,
                                            !.rest = pending \ req[q].ids]]
    /\ UNCHANGED <<names, file, creds, team, admin, mail, used, clientVars>>
AckWrite(q) ==
    /\ req[q].pc = "acked"
    /\ file' = [file EXCEPT ![req[q].p.reg].pending = req[q].rest]
    /\ mail' = [m \in Mails |-> IF m \in req[q].ids THEN [mail[m] EXCEPT !.at = "acked"] ELSE mail[m]]
    /\ Return(q)
    /\ UNCHANGED <<names, creds, admin, used, clientVars>>

-----------------------------------------------------------------------------
(* send_message: a keyed send to a native recipient (outsideSend).         *)

Sending(q) == <<req[q].p.reg, req[q].key>>
SendStep(q, pc) == req[q].pc = pc

\* A settled key answers from its receipt.
SendSettled(q) ==
    /\ SendStep(q, "send") /\ intents[Sending(q)] \in {"queued", "unknown"}
    /\ req' = [req EXCEPT ![q] = [@ EXCEPT !.pc = "reply", !.out = intents[Sending(q)]]]
    /\ UNCHANGED <<names, file, creds, team, admin, mail, used, clientVars>>

\* A new key saves its envelope, for a recipient that takes input.
SaveIntent(q) ==
    /\ SendStep(q, "send") /\ intents[Sending(q)] = "none"
    /\ IF active
       THEN /\ intents' = [intents EXCEPT ![Sending(q)] = "saved"]
            /\ req' = [req EXCEPT ![q].pc = "try"]
            /\ UNCHANGED team
       ELSE Return(q) /\ UNCHANGED intents
    /\ UNCHANGED <<names, file, creds, admin, mail, used, inbox, active, taken, pub, told>>
SendAgain(q) ==
    /\ SendStep(q, "send") /\ intents[Sending(q)] \in {"saved", "attempted"}
    /\ req' = [req EXCEPT ![q].pc = "try"]
    /\ UNCHANGED <<names, file, creds, team, admin, mail, used, clientVars>>

\* The recipient's lock is not waited for, and its owner may be at work.
TryRecipient(q) ==
    /\ SendStep(q, "try")
    /\ \E busy \in BOOLEAN :
         IF busy \/ ~active
         THEN Return(q) /\ UNCHANGED taken
         ELSE /\ taken = None /\ taken' = q
              /\ req' = [req EXCEPT ![q].pc = "look"] /\ UNCHANGED team
    /\ UNCHANGED <<names, file, creds, admin, mail, used, intents, inbox, active, pub, told>>

\* envelopePublished looks in the recipient's directories; a delivered
\* envelope may have left them.
Published(s) == inbox[s] \in {"new", "filed"}

Look(q) ==
    /\ SendStep(q, "look")
    /\ LET s == Sending(q) IN
       req' = [req EXCEPT ![q] =
           [@ EXCEPT !.pc = IF Published(s) \/ intents[s] = "attempted" THEN "settle" ELSE "attempt",
                     !.out = IF ~Published(s) /\ intents[s] = "attempted" THEN "unknown" ELSE "queued"]]
    /\ UNCHANGED <<names, file, creds, team, admin, mail, used, clientVars>>

\* Defect: the attempt is not saved.
AttemptUnsaved(q) ==
    /\ SendStep(q, "attempt")
    /\ req' = [req EXCEPT ![q].pc = "publish"]
    /\ UNCHANGED <<names, file, creds, team, admin, mail, used, clientVars>>
Attempt(q) ==
    /\ SendStep(q, "attempt")
    /\ intents' = [intents EXCEPT ![Sending(q)] = "attempted"]
    /\ req' = [req EXCEPT ![q].pc = "publish"]
    /\ UNCHANGED <<names, file, creds, team, admin, mail, used, inbox, active, taken, pub, told>>

PublishSend(q) ==
    /\ SendStep(q, "publish")
    /\ inbox' = [inbox EXCEPT ![Sending(q)] = "new"]
    /\ pub' = [pub EXCEPT ![Sending(q)] = @ + 1]
    /\ req' = [req EXCEPT ![q].pc = "settle"]
    /\ UNCHANGED <<names, file, creds, team, admin, mail, used, intents, active, taken, told>>

\* The receipt replaces the envelope, then the callback's locks go.
SettleSend(q) ==
    /\ SendStep(q, "settle")
    /\ intents' = [intents EXCEPT ![Sending(q)] = req[q].out]
    /\ req' = [req EXCEPT ![q].pc = "reply"]
    /\ taken' = None
    /\ UNCHANGED <<names, file, creds, team, admin, mail, used, inbox, active, pub, told>>

\* A write fails: the client gets an error and may retry.
SendFails(q) ==
    /\ req[q].pc \in {"attempt", "publish", "settle"} /\ used.faults < MaxFaults
    /\ used' = [used EXCEPT !.faults = @ + 1]
    /\ Return(q) /\ taken' = None
    /\ UNCHANGED <<names, file, creds, admin, mail, intents, inbox, active, pub, told>>
Reply(q) ==
    /\ SendStep(q, "reply")
    /\ told' = [told EXCEPT ![Sending(q)] = req[q].out]
    /\ Return(q)
    /\ UNCHANGED <<names, file, creds, admin, mail, used, intents, inbox, active, taken, pub>>

-----------------------------------------------------------------------------
(* The recipient and the deaths of processes.                              *)

\* The recipient delivers an envelope, a later receipt deletes it, or the
\* recipient is dropped.
RecipientDelivers(s) ==
    /\ taken = None /\ inbox[s] \in {"new", "filed"}
    /\ inbox' = [inbox EXCEPT ![s] = IF @ = "new" THEN "filed" ELSE "gone"]
    /\ UNCHANGED <<names, file, creds, team, admin, req, mail, used, intents, active, taken, pub, told>>
RecipientDropped ==
    /\ active /\ taken = None /\ used.faults < MaxFaults
    /\ active' = FALSE
    /\ used' = [used EXCEPT !.faults = @ + 1]
    /\ UNCHANGED <<names, file, creds, team, admin, req, mail, intents, inbox, taken, pub, told>>

AdminDies ==
    /\ admin.pc # "none" /\ used.faults < MaxFaults
    /\ admin' = Idle /\ team' = None
    /\ used' = [used EXCEPT !.faults = @ + 1]
    /\ UNCHANGED <<names, file, creds, req, mail, clientVars>>

\* The server dies with every request it runs.
RequestsDie ==
    /\ req' = [q \in Reqs |-> NoCall]
    /\ team' = IF team \in Reqs THEN None ELSE team
    /\ taken' = None

-----------------------------------------------------------------------------
AdminStep == IssueCredential \/ SaveRegistration \/ ClaimOutside
             \/ RemoveOutsideName \/ RemoveData \/ RemoveFile
ReqStep(q) == \/ WithOutside(q) \/ AckRead(q) \/ AckWrite(q)
              \/ SendSettled(q) \/ SaveIntent(q) \/ SendAgain(q) \/ TryRecipient(q)
              \/ Look(q) \/ Attempt(q) \/ PublishSend(q) \/ SettleSend(q) \/ Reply(q)

MailboxNext ==
    \/ \E kind \in {"register", "rotate", "remove"}, r \in Regs, n \in Names : Command(kind, r, n)
    \/ AdminStep \/ SaveFails \/ AdminDies
    \/ \E n \in Names : NativeClaims(n)
    \/ \E m \in Mails : QueueOutside(m) \/ \E r \in Regs : Compose(m, r)
    \/ \E q \in Reqs : ReqStep(q) \/ SendFails(q)
    \/ \E s \in Sends : RecipientDelivers(s)
    \/ RecipientDropped

-----------------------------------------------------------------------------
(* Properties.                                                             *)

\* Every variable keeps its type; the team lock has one of its holders.
MailboxTypeOK ==
    /\ names \in [Names -> Regs \cup {None, Native}]
    /\ file \in [Regs -> [here : BOOLEAN, name : Names \cup {None}, gen : Gens, pending : SUBSET Mails]]
    /\ intents \in [Sends -> {"none", "saved", "attempted", "queued", "unknown"}]
    /\ creds \subseteq Principals
    /\ team \in Reqs \cup {None, "admin"}
    /\ (team = "admin" <=> admin.pc # "none") /\ (team \in Reqs => req[team].pc \notin {"none", "lock"})
    /\ inbox \in [Sends -> {"none", "new", "filed", "gone"}]
    /\ taken \in Reqs \cup {None}

\* A keyed send reaches its recipient once, however often the client retries
\* and wherever the server died (cmd/gang/outside.go:240).
PublishedOnce == \A s \in Sends : pub[s] <= 1

\* A client told "queued" has its envelope at the recipient; after a death
\* that nothing can prove it is told "unknown" (cmd/gang/outside.go:236).
QueuedIsPublished == \A s \in Sends : told[s] = "queued" => pub[s] = 1

\* A retry of a key returns the receipt its first answer gave
\* (docs/outside-agents.md:85).
SameReceipt == [][\A s \in Sends : told[s] # "none" => told'[s] = told[s]]_boxVars

\* Mail stays in its mailbox until the client acknowledges it or the
\* registration goes: rotations, acknowledgments and other mail keep it.
NoLostMail ==
    \A m \in Mails : mail[m].at = "queued" /\ Known(mail[m].to) => m \in file[mail[m].to].pending

\* A name never leads to a mailbox that is gone, whatever command died
\* (store/outside.go:303).
NameLeadsToMailbox ==
    \A n \in Names, r \in Regs : names[n] = r => file[r].here /\ file[r].name = n

\* A registration can always be used: some credential file holds the secret
\* of its current generation (store/outside.go:290).
CredentialHeld == \A r \in Regs : Known(r) => Of(r) \in creds

\* While a name leads to a mailbox, the mailbox has the receipt of each send its
\* client was told of: it is deleted after the name only (store/outside.go:305).
ReceiptHeld == \A s \in Sends : Known(s[1]) /\ told[s] # "none" => intents[s] = told[s]

\* A revoked principal takes nothing from the mailbox, begins no send and sends
\* nothing: each write of a request is made for the current generation.
RevokedActsNot ==
    [][\A q \in Reqs : req[q].pc \notin {"none", "lock"} /\ req'[q] # req[q]
                       /\ (file' # file \/ pub' # pub \/ intents' # intents)
                       => Current(req[q].p)]_boxVars

=============================================================================
