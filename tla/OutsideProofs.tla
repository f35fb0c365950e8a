----------------------------- MODULE OutsideProofs ----------------------------
(* Proofs about the outside MCP server: a keyed send is published once and   *)
(* answered the same, mail and credentials are kept, what is revoked acts no *)
(* more, and no grant is used twice.                                         *)
EXTENDS Outside, FiniteSetTheorems, TLAPS

-----------------------------------------------------------------------------
(* Types.                                                                    *)

Commands == [pc : {"none", "credential", "save", "claim", "unname", "data", "file"},
             kind : {"none", "register", "rotate", "remove"},
             reg : Regs \cup {None}, name : Names \cup {None}]
Calls == [pc : {"none", "lock", "ack", "acked", "send", "try", "look", "attempt", "publish", "settle", "reply"},
          kind : {"none", "ack", "send"}, p : Principals \cup {None}, key : Keys \cup {None},
          ids : SUBSET Mails, rest : SUBSET Mails, out : {"none", "queued", "unknown"}]
Files == [here : BOOLEAN, name : Names \cup {None}, gen : Nat, pending : SUBSET Mails]
Letters == [at : {"none", "composed", "queued", "refused", "acked"}, to : Regs \cup {None}]

BoxTypes ==
    /\ names \in [Names -> Regs \cup {None, Native}]
    /\ file \in [Regs -> Files]
    /\ intents \in [Sends -> {"none", "saved", "attempted", "queued", "unknown"}]
    /\ creds \subseteq Principals
    /\ team \in Reqs \cup {None, "admin"} /\ taken \in Reqs \cup {None}
    /\ admin \in Commands
    /\ req \in [Reqs -> Calls]
    /\ mail \in [Mails -> Letters] /\ \A m \in Mails : mail[m].at \in {"composed", "queued"} => mail[m].to \in Regs
    /\ inbox \in [Sends -> {"none", "new", "filed", "gone"}]
    /\ active \in BOOLEAN
    /\ used \in [admin : Nat, calls : Nat, faults : Nat]
    /\ pub \in [Sends -> Nat]
    /\ told \in [Sends -> {"none", "queued", "unknown"}]

-----------------------------------------------------------------------------
(* The mailboxes.                                                            *)

\* The steps of a keyed send, and those under the recipient's lock.
Keyed == {"send", "try", "look", "attempt", "publish", "settle", "reply"}
Locked == {"look", "attempt", "publish", "settle"}

\* The team lock and the recipient's lock have the holders that the
\* processes' steps say.
Locks ==
    /\ team = "admin" <=> admin.pc # "none"
    /\ \A q \in Reqs : team = q <=> req[q].pc \notin {"none", "lock"}
    /\ \A q \in Reqs : taken = q <=> req[q].pc \in Locked
    /\ \A q \in Reqs : /\ req[q].pc # "none" => req[q].p \in Principals
                       /\ req[q].pc = "lock" => req[q].kind \in {"ack", "send"}
                       /\ req[q].pc \in Keyed => req[q].kind = "send"
                       /\ req[q].kind = "send" => req[q].key \in Keys

\* The generation of a registration that was given a credential before.
Numbered ==
    /\ used.admin <= MaxAdmin
    /\ \A r \in Regs : file[r].gen \in 1..(used.admin + 1) /\ (file[r].here => file[r].name \in Names)
    /\ admin.pc \in {"credential", "save"} /\ admin.kind = "rotate" => file[admin.reg].gen <= used.admin

\* What each step of the operator's command has done.
Named(r) == \E n \in Names : names[n] = r
Registering(r) == admin.reg = r /\ admin.pc \in {"credential", "save", "claim"} /\ admin.kind = "register"
Admin ==
    /\ admin.pc # "none" => admin.reg \in Regs /\ admin.name \in Names
    /\ admin.pc \in {"credential", "save"} => admin.kind \in {"register", "rotate"}
    /\ admin.pc \in {"credential", "save"} /\ admin.kind = "register" => file[admin.reg] = NoFile
    /\ admin.pc \in {"credential", "save"} /\ admin.kind = "rotate" => Known(admin.reg)
    /\ admin.pc = "save" => [reg |-> admin.reg, gen |-> Issued] \in creds
    /\ admin.pc = "claim" =>
           /\ admin.kind = "register"
           /\ file[admin.reg].here /\ file[admin.reg].name = admin.name /\ file[admin.reg].gen = 1
           /\ [reg |-> admin.reg, gen |-> 1] \in creds
    /\ admin.pc = "claim" \/ admin.pc \in {"data", "file"} => ~Named(admin.reg)
    /\ admin.pc = "unname" => names[admin.name] = admin.reg

\* A registration that was used has a credential, and is not registered again.
Issuable(r) == (\A g \in Gens : [reg |-> r, gen |-> g] \notin creds) \/ Registering(r)
Fresh ==
    \A r \in Regs : Issuable(r) =>
        /\ \A m \in Mails : mail[m].to # r
        /\ \A k \in Keys : pub[<<r, k>>] = 0 /\ told[<<r, k>>] = "none" /\ intents[<<r, k>>] = "none"

\* Where a keyed send is, and what its request knows.
Settled(s) == intents[s] \in {"queued", "unknown"}
SendsHold ==
    /\ \A s \in Sends : pub[s] <= 1 /\ (told[s] = "queued" => pub[s] = 1)
    /\ \A s \in Sends : inbox[s] # "none" <=> pub[s] = 1
    /\ \A s \in Sends : Known(s[1]) =>
           /\ intents[s] \in {"none", "saved"} => pub[s] = 0
           /\ intents[s] = "queued" => pub[s] = 1
           /\ told[s] # "none" => intents[s] = told[s]
Sent(q) ==
    LET s == Sending(q) IN
    /\ req[q].pc \in {"try", "look"} => intents[s] \in {"saved", "attempted"}
    /\ req[q].pc = "attempt" => intents[s] = "saved" /\ req[q].out = "queued"
    /\ req[q].pc = "publish" => intents[s] = "attempted" /\ pub[s] = 0 /\ req[q].out = "queued"
    /\ req[q].pc = "settle" => /\ intents[s] \in {"saved", "attempted"} /\ req[q].out \in {"queued", "unknown"}
                               /\ req[q].out = "queued" => pub[s] = 1
    /\ req[q].pc = "reply" => Settled(s) /\ req[q].out = intents[s]
RequestHolds(q) ==
    /\ req[q].pc \notin {"none", "lock"} => Current(req[q].p)
    /\ req[q].pc = "acked" => file[req[q].p.reg].pending = req[q].rest \cup req[q].ids
    /\ Sent(q)
RequestsHold == \A q \in Reqs : RequestHolds(q)

BoxInv == BoxTypes /\ Locks /\ Numbered /\ Admin /\ NameLeadsToMailbox /\ CredentialHeld
          /\ Fresh /\ SendsHold /\ RequestsHold /\ NoLostMail

-----------------------------------------------------------------------------
(* The grants.                                                               *)

\* What is so of the grants in memory and of those in the file, which may be
\* a commit ahead: tokens are not drawn twice, a family has one code or one
\* refresh token to use, and nothing is left of a dead one.
Live(g) == g.kind = "code" \/ (g.kind = "refresh" /\ ~g.used)
Issuance(S, d, gone) ==
    /\ S \subseteq Grant
    /\ \A g \in S : g.tok <= d
    /\ \A g \in S : g.kind # "consent" => g.family \in 1..d /\ g.p \in Principals
    /\ \A g, h \in S : g.tok = h.tok => g = h
    /\ \A g, h \in S : Live(g) /\ Live(h) /\ g.family = h.family => g = h
    /\ \A g, h \in S : g.kind = "code" /\ h.kind \in {"access", "refresh"} => g.family # h.family
    /\ \A g \in S : g.kind # "consent" => g.family \notin gone
GrantInv ==
    /\ drawn \in 0..MaxTokens /\ client \subseteq 1..drawn /\ dead \subseteq 1..drawn
    /\ Issuance(mem, drawn, dead) /\ Issuance(disk, drawn, dead)

-----------------------------------------------------------------------------
(* The subscriptions.                                                        *)

SubInv ==
    /\ subs \in [Principals -> Sub] /\ saved = subs
    /\ mutex \in {None, "rpc"} /\ (mutex = "rpc" <=> rpc.pc # "none")
    /\ rpc \in [pc : {"none", "verify", "save"}, p : Principals \cup {None}, before : SUBSET Mails, fresh : BOOLEAN]
    /\ rpc.pc # "none" => rpc.p \in Principals
    /\ flush \in [pc : {"off", "arm", "active", "next", "deliver", "post", "settle", "remove", "wait"},
                  todo : SUBSET Principals, p : Principals \cup {None}, ids : SUBSET Mails,
                  left : SUBSET Mails, try : 0..MaxAttempts, mail : Mails \cup {None}]
    /\ flush.left \subseteq flush.ids
    /\ flush.pc \in {"deliver", "post", "settle", "remove"} => flush.p \in Principals
    /\ flush.pc \in {"post", "settle", "remove"} => flush.mail \in Mails


-----------------------------------------------------------------------------
(* What a step does to the mailboxes.                                        *)

\* The server dies, or something else happens.
Stops == /\ RequestsDie /\ used' \in [admin : {used.admin}, calls : Nat, faults : Nat]
         /\ UNCHANGED <<names, file, intents, creds, admin, mail, inbox, active, pub, told>>
Elsewhere == /\ used' \in [admin : {used.admin}, calls : Nat, faults : Nat]
             /\ UNCHANGED <<names, file, intents, creds, team, admin, req, mail, inbox, active, taken, pub, told>>
Asks(q, p, kind, key, ids) ==
    /\ kind = "send" => key \in Keys
    /\ Begin(q, p, kind, key, ids)
BoxStep == MailboxNext \/ Stops \/ Elsewhere
           \/ \E q \in Reqs, p \in Principals, kind \in {"ack", "send"}, key \in Keys \cup {None}, ids \in SUBSET Mails :
                  Asks(q, p, kind, key, ids)

IInv == BoxInv /\ GrantInv /\ SubInv

-----------------------------------------------------------------------------
(* Lemmas about the requests.                                                *)

(* The keyed send of a request is one of a registration's and a key's.       *)
LEMMA SendingIsSend ==
    ASSUME BoxTypes, Locks, NEW q \in Reqs, req[q].pc # "none"
    PROVE  /\ req[q] \in Calls /\ req[q].p \in Principals /\ req[q].p.reg \in Regs
           /\ req[q].pc \in Keyed => Sending(q) \in Sends
<1>1. req[q] \in Calls /\ req[q].p \in Principals
    BY DEF BoxTypes, Locks
<1>2. req[q].p.reg \in Regs
    BY <1>1 DEF Principals
<1>3. req[q].pc \in Keyed => req[q].key \in Keys
    BY DEF Locks
<1>. QED
    BY <1>1, <1>2, <1>3 DEF Sending, Sends

(* Counting one more is counting.                                            *)
LEMMA UsedMore ==
    ASSUME NEW u \in [admin : Nat, calls : Nat, faults : Nat]
    PROVE  /\ [u EXCEPT !.admin = u.admin + 1] \in [admin : Nat, calls : Nat, faults : Nat]
           /\ [u EXCEPT !.calls = u.calls + 1] \in [admin : Nat, calls : Nat, faults : Nat]
           /\ [u EXCEPT !.faults = u.faults + 1] \in [admin : Nat, calls : Nat, faults : Nat]
<1>1. u.admin + 1 \in Nat /\ u.calls + 1 \in Nat /\ u.faults + 1 \in Nat
    OBVIOUS
<1>. QED
    BY <1>1

(* The credential that a command issues is of a generation not issued yet.   *)
LEMMA IssuedIsNew ==
    ASSUME BoxTypes, Numbered, Admin, admin.pc \in {"credential", "save"}
    PROVE  /\ Issued \in Gens /\ admin.reg \in Regs /\ [reg |-> admin.reg, gen |-> Issued] \in Principals
           /\ admin.kind = "register" => Issued = 1
           /\ admin.kind = "rotate" => Issued = file[admin.reg].gen + 1
<1>1. admin.reg \in Regs /\ admin.kind \in {"register", "rotate"}
    BY DEF Admin
<1>2. MaxAdmin \in Nat /\ used.admin \in Nat
    BY MailboxAssumption DEF BoxTypes
<1>3. CASE admin.kind = "register"
    BY <1>1, <1>2, <1>3 DEF Issued, Gens, Principals
<1>4. CASE admin.kind = "rotate"
  <2>1. file[admin.reg].gen \in 1..used.admin /\ used.admin <= MaxAdmin
    BY <1>1, <1>4 DEF Numbered
  <2>2. Issued = file[admin.reg].gen + 1 /\ Issued \in Gens
    BY <1>2, <1>4, <2>1 DEF Issued, Gens
  <2>. QED
    BY <1>1, <1>4, <2>2 DEF Principals
<1>. QED
    BY <1>1, <1>3, <1>4

-----------------------------------------------------------------------------
(* Lemmas about the writes of a registration's file.                         *)

SameRegistration(r) == /\ file'[r].here = file[r].here /\ file'[r].name = file[r].name
                       /\ file'[r].gen = file[r].gen
SameName(r) == file'[r].here = file[r].here /\ file'[r].name = file[r].name

(* Mail that is queued is added to its mailbox, and nothing else is written. *)
LEMMA MailIsAdded ==
    ASSUME BoxTypes, NEW m \in Mails, QueueOutside(m)
    PROVE  /\ \A r \in Regs : SameRegistration(r) /\ file[r].pending \subseteq file'[r].pending
           /\ \A o \in Mails : mail'[o].to = mail[o].to /\ (o # m => mail'[o] = mail[o])
           /\ mail'[m].at = "queued" => Known(mail[m].to) /\ m \in file'[mail[m].to].pending
<1>1. mail[m].to \in Regs
    BY DEF QueueOutside, BoxTypes
<1>2. CASE Known(mail[m].to)
  <2>1. /\ file' = [file EXCEPT ![mail[m].to].pending = @ \cup {m}]
        /\ mail' = [mail EXCEPT ![m].at = "queued"]
    BY <1>2 DEF QueueOutside
  <2>. QED
    BY <1>1, <1>2, <2>1 DEF BoxTypes, Files, Letters, SameRegistration
<1>3. CASE ~Known(mail[m].to)
  <2>1. file' = file /\ mail' = [mail EXCEPT ![m].at = "refused"]
    BY <1>3 DEF QueueOutside
  <2>. QED
    BY <2>1 DEF BoxTypes, Letters, SameRegistration
<1>. QED
    BY <1>2, <1>3

(* An acknowledgment writes the mail it left of its own mailbox.              *)
LEMMA MailIsTaken ==
    ASSUME BoxTypes, Locks, NEW q \in Reqs, AckWrite(q)
    PROVE  /\ req[q].p.reg \in Regs
           /\ \A r \in Regs : SameRegistration(r) /\ (r # req[q].p.reg => file'[r] = file[r])
           /\ file'[req[q].p.reg].pending = req[q].rest
           /\ \A m \in Mails : mail'[m].to = mail[m].to
                               /\ mail'[m].at = IF m \in req[q].ids THEN "acked" ELSE mail[m].at
<1>1. req[q].p.reg \in Regs
    BY SendingIsSend DEF AckWrite
<1>2. file' = [file EXCEPT ![req[q].p.reg].pending = req[q].rest]
    BY DEF AckWrite
<1>3. mail' = [m \in Mails |-> IF m \in req[q].ids THEN [mail[m] EXCEPT !.at = "acked"] ELSE mail[m]]
    BY DEF AckWrite
<1>4. \A m \in Mails : mail'[m].to = mail[m].to
                       /\ mail'[m].at = IF m \in req[q].ids THEN "acked" ELSE mail[m].at
    BY <1>3 DEF BoxTypes, Letters
<1>. QED
    BY <1>1, <1>2, <1>4 DEF BoxTypes, Files, SameRegistration

(* The state of a new registration, or the next generation of an old one.    *)
LEMMA StateIsSaved ==
    ASSUME BoxTypes, Numbered, Admin, SaveRegistration
    PROVE  /\ admin.reg \in Regs /\ admin.name \in Names
           /\ \A r \in Regs \ {admin.reg} : file'[r] = file[r]
           /\ \/ /\ admin.kind = "register" /\ admin' = [admin EXCEPT !.pc = "claim"] /\ team' = team
                 /\ file'[admin.reg] = [here |-> TRUE, name |-> admin.name, gen |-> 1, pending |-> {}]
              \/ /\ admin.kind = "rotate" /\ admin' = Idle /\ team' = None
                 /\ file'[admin.reg] = [file[admin.reg] EXCEPT !.gen = file[admin.reg].gen + 1]
<1>1. admin.reg \in Regs /\ admin.name \in Names /\ admin.kind \in {"register", "rotate"}
    BY DEF SaveRegistration, Admin
<1>2. CASE admin.kind = "register"
    BY <1>1, <1>2 DEF SaveRegistration, BoxTypes
<1>3. CASE admin.kind = "rotate"
  <2>1. /\ file' = [file EXCEPT ![admin.reg].gen = file[admin.reg].gen + 1]
        /\ admin' = Idle /\ team' = None
    BY <1>3 DEF SaveRegistration, Issued
  <2>. QED
    BY <1>1, <1>3, <2>1 DEF BoxTypes
<1>. QED
    BY <1>1, <1>2, <1>3

(* A free name leads to the new registration; otherwise nothing of it stays.  *)
LEMMA NameIsClaimed ==
    ASSUME BoxTypes, Admin, ClaimOutside
    PROVE  /\ admin.reg \in Regs /\ admin.name \in Names /\ admin.pc = "claim" /\ admin' = Idle
           /\ \/ /\ names[admin.name] = None /\ file' = file /\ creds' = creds
                 /\ names'[admin.name] = admin.reg
                 /\ \A n \in Names \ {admin.name} : names'[n] = names[n]
              \/ /\ names' = names /\ file'[admin.reg] = NoFile
                 /\ \A r \in Regs \ {admin.reg} : file'[r] = file[r]
                 /\ creds' = creds \ {[reg |-> admin.reg, gen |-> 1]}
<1>1. admin.reg \in Regs /\ admin.name \in Names /\ admin.pc = "claim" /\ admin' = Idle
    BY DEF ClaimOutside, Admin
<1>2. CASE names[admin.name] = None
    BY <1>1, <1>2 DEF ClaimOutside, BoxTypes
<1>3. CASE names[admin.name] # None
    BY <1>1, <1>3 DEF ClaimOutside, BoxTypes
<1>. QED
    BY <1>1, <1>2, <1>3

(* A registration that a name leads to has its credential, and is not being  *)
(* registered.                                                               *)
LEMMA KnownIsIssued ==
    ASSUME BoxTypes, Numbered, Admin, CredentialHeld, NEW r \in Regs, Known(r)
    PROVE  ~Issuable(r) /\ Of(r) \in creds /\ file[r].gen \in Gens
<1>1. file[r].gen \in Gens
    BY MailboxAssumption DEF Numbered, BoxTypes, Gens
<1>2. Of(r) \in creds
    BY DEF CredentialHeld
<1>3. ~Registering(r)
    BY DEF Registering, Known, Admin, Numbered, Named, NoFile
<1>. QED
    BY <1>1, <1>2, <1>3 DEF Issuable, Of

(* A keyed send is of a registration and a key.                              *)
LEMMA SendIs ==
    ASSUME NEW s \in Sends
    PROVE  s[1] \in Regs /\ s[2] \in Keys /\ s = <<s[1], s[2]>>
    BY DEF Sends


(* While a request holds the team lock, no other request and no command does *)
(* anything but wait for it.                                                 *)
LEMMA OneActs ==
    ASSUME BoxTypes, Locks, NEW q \in Reqs, req[q].pc \notin {"none", "lock"}
    PROVE  /\ admin.pc = "none" /\ team = q
           /\ \A o \in Reqs \ {q} : req[o].pc \in {"none", "lock"}
<1>1. team = q
    BY DEF Locks
<1>2. "admin" \notin Reqs
    BY MailboxAssumption
<1>. QED
    BY <1>1, <1>2 DEF Locks

(* A keyed send's request is at the place its step names.                    *)
LEMMA SendIsTyped ==
    ASSUME BoxTypes, Locks, NEW q \in Reqs, req[q].pc \in Keyed
    PROVE  /\ req[q] \in Calls /\ Sending(q) \in Sends /\ req[q].p \in Principals
           /\ Sending(q)[1] = req[q].p.reg /\ req[q].p.reg \in Regs
           /\ intents[Sending(q)] \in {"none", "saved", "attempted", "queued", "unknown"}
<1>1. req[q].pc # "none"
    BY DEF Keyed
<1>2. req[q] \in Calls /\ Sending(q) \in Sends /\ req[q].p \in Principals /\ req[q].p.reg \in Regs
    BY <1>1, SendingIsSend
<1>. QED
    BY <1>2 DEF Sending, BoxTypes

(* Every step keeps the types of the mailboxes' variables.                   *)
LEMMA BoxTypesKept ==
    ASSUME BoxTypes /\ Admin /\ Locks /\ Numbered /\ RequestsHold, BoxStep
    PROVE  BoxTypes'
<1>. USE MailboxAssumption
<1>1. ASSUME NEW kind \in {"register", "rotate", "remove"}, NEW r \in Regs, NEW n \in Names, Command(kind, r, n) PROVE BoxTypes'
    BY <1>1 DEF Command, clientVars, NoFile, Known, BoxTypes, Commands, Calls, Files, Letters
<1>2. CASE IssueCredential
  <2>1. [reg |-> admin.reg, gen |-> Issued] \in Principals
    BY <1>2, IssuedIsNew DEF IssueCredential
  <2>2. [admin EXCEPT !.pc = "save"] \in Commands
    BY DEF BoxTypes, Commands
  <2>. QED
    BY <1>2, <2>1, <2>2 DEF IssueCredential, BoxTypes, clientVars
<1>3. CASE SaveRegistration
  <2>1. admin.reg \in Regs /\ admin.name \in Names
    BY <1>3 DEF SaveRegistration, Admin
  <2>2. [admin EXCEPT !.pc = "claim"] \in Commands /\ Idle \in Commands
    BY DEF BoxTypes, Commands, Idle
  <2>3. Issued \in Nat
    BY <1>3, IssuedIsNew DEF SaveRegistration, Gens
  <2>4. [here |-> TRUE, name |-> admin.name, gen |-> 1, pending |-> {}] \in Files
    BY <2>1 DEF Files
  <2>5. [file[admin.reg] EXCEPT !.gen = Issued] \in Files
    BY <2>1, <2>3 DEF Files, BoxTypes
  <2>6. /\ file' \in {[file EXCEPT ![admin.reg] = [here |-> TRUE, name |-> admin.name, gen |-> 1, pending |-> {}]],
                      [file EXCEPT ![admin.reg] = [file[admin.reg] EXCEPT !.gen = Issued]]}
        /\ admin' \in {[admin EXCEPT !.pc = "claim"], Idle} /\ team' \in {team, None}
    BY <1>3 DEF SaveRegistration
  <2>7. file' \in [Regs -> Files]
    BY <2>1, <2>4, <2>5, <2>6 DEF BoxTypes
  <2>. QED
    BY <1>3, <2>2, <2>6, <2>7 DEF SaveRegistration, BoxTypes, clientVars
<1>4. CASE ClaimOutside
  <2>1. admin.reg \in Regs /\ admin.name \in Names
    BY <1>4 DEF ClaimOutside, Admin
  <2>2. NoFile \in Files /\ Idle \in Commands
    BY DEF Files, NoFile, Commands, Idle
  <2>3. file' \in {file, [file EXCEPT ![admin.reg] = NoFile]} /\ names' \in {names, [names EXCEPT ![admin.name] = admin.reg]}
        /\ creds' \subseteq creds
    BY <1>4 DEF ClaimOutside
  <2>. QED
    BY <1>4, <2>1, <2>2, <2>3 DEF ClaimOutside, BoxTypes, clientVars
<1>5. CASE RemoveOutsideName
    BY <1>5 DEF RemoveOutsideName, clientVars, BoxTypes, Commands, Calls, Files, Letters
<1>6. CASE RemoveData
    BY <1>6 DEF RemoveData, BoxTypes, Commands, Calls, Files, Letters
<1>7. CASE RemoveFile
    BY <1>7 DEF RemoveFile, clientVars, Idle, NoFile, BoxTypes, Commands, Calls, Files, Letters
<1>8. CASE SaveFails
    BY <1>8 DEF SaveFails, clientVars, Issued, Idle, BoxTypes, Commands, Calls, Files, Letters
<1>9. CASE AdminDies
    BY <1>9 DEF AdminDies, clientVars, Idle, BoxTypes, Commands, Calls, Files, Letters
<1>10. ASSUME NEW n \in Names, NativeClaims(n) PROVE BoxTypes'
    BY <1>10 DEF NativeClaims, clientVars, BoxTypes, Commands, Calls, Files, Letters
<1>11. ASSUME NEW m \in Mails, QueueOutside(m) PROVE BoxTypes'
  <2>1. PICK at \in {"queued", "refused"} : mail' = [mail EXCEPT ![m] = [mail[m] EXCEPT !.at = at]]
    BY <1>11 DEF QueueOutside
  <2>2. /\ mail' \in [Mails -> Letters]
        /\ \A o \in Mails : mail'[o].at \in {"composed", "queued"} => mail'[o].to \in Regs
    BY <1>11, <2>1 DEF QueueOutside, BoxTypes, Letters
  <2>3. file' \in [Regs -> Files]
    <3>1. CASE Known(mail[m].to)
      <4>1. file' = [file EXCEPT ![mail[m].to].pending = @ \cup {m}]
        BY <1>11, <3>1 DEF QueueOutside
      <4>. QED
        BY <1>11, <4>1 DEF QueueOutside, BoxTypes, Files
    <3>. QED
      BY <1>11, <3>1 DEF QueueOutside, BoxTypes
  <2>. QED
    BY <1>11, <2>2, <2>3 DEF QueueOutside, BoxTypes, clientVars
<1>12. ASSUME NEW m \in Mails, NEW r \in Regs, Compose(m, r) PROVE BoxTypes'
    BY <1>12 DEF Compose, clientVars, Known, BoxTypes, Commands, Calls, Files, Letters
<1>13. ASSUME NEW q \in Reqs, NEW p \in Principals, NEW kind \in {"ack", "send"},
             NEW key \in Keys \cup {None}, NEW ids \in SUBSET Mails, Asks(q, p, kind, key, ids)
      PROVE  BoxTypes'
  <2>. DEFINE call == [NoCall EXCEPT !.pc = "lock", !.kind = kind, !.p = p, !.key = key, !.ids = ids]
  <2>1. call \in Calls
    BY DEF Calls, NoCall
  <2>2. req' = [req EXCEPT ![q] = call] /\ used' = [used EXCEPT !.calls = used.calls + 1]
    BY <1>13 DEF Asks, Begin
  <2>. HIDE DEF call
  <2>3. req' \in [Reqs -> Calls]
    BY <2>1, <2>2 DEF BoxTypes
  <2>4. used' \in [admin : Nat, calls : Nat, faults : Nat]
    BY <2>2, UsedMore DEF BoxTypes
  <2>. QED
    BY <1>13, <2>3, <2>4 DEF Asks, Begin, BoxTypes, clientVars
<1>14. ASSUME NEW q \in Reqs, WithOutside(q) PROVE BoxTypes'
  <2>1. req[q] \in Calls /\ req[q].kind \in {"ack", "send"}
    BY <1>14 DEF BoxTypes, Locks, WithOutside
  <2>2. [req[q] EXCEPT !.pc = req[q].kind] \in Calls /\ NoCall \in Calls
    BY <2>1 DEF Calls, NoCall
  <2>3. /\ req' = [req EXCEPT ![q] = NoCall] \/ req' = [req EXCEPT ![q] = [req[q] EXCEPT !.pc = req[q].kind]]
        /\ team' \in {team, None, q}
    BY <1>14 DEF WithOutside, Return
  <2>. QED
    BY <1>14, <2>2, <2>3 DEF WithOutside, BoxTypes, clientVars
<1>15. ASSUME NEW q \in Reqs, AckRead(q) PROVE BoxTypes'
  <2>1. /\ req[q] \in Calls
        /\ req[q].ids \cap file[req[q].p.reg].pending \in SUBSET Mails
        /\ file[req[q].p.reg].pending \ req[q].ids \in SUBSET Mails
    BY <1>15, SendingIsSend DEF AckRead, BoxTypes, Files, Calls
  <2>2. PICK ids \in SUBSET Mails, rest \in SUBSET Mails :
            req' = [req EXCEPT ![q] = [req[q] EXCEPT !.pc = "acked", !.ids = ids, !.rest = rest]]
    BY <1>15, <2>1, Zenon DEF AckRead
  <2>3. [req[q] EXCEPT !.pc = "acked", !.ids = ids, !.rest = rest] \in Calls
    BY <2>1 DEF Calls
  <2>. QED
    BY <1>15, <2>2, <2>3 DEF AckRead, BoxTypes, clientVars
<1>16. ASSUME NEW q \in Reqs, AckWrite(q) PROVE BoxTypes'
  <2>1. req[q] \in Calls /\ req[q].p.reg \in Regs /\ NoCall \in Calls
    BY <1>16, SendingIsSend DEF AckWrite, Calls, NoCall
  <2>2. req' \in [Reqs -> Calls] /\ team' \in {team, None}
    BY <1>16, <2>1 DEF AckWrite, Return, BoxTypes
  <2>3. req[q].rest \in SUBSET Mails
    BY <2>1 DEF Calls
  <2>4. file' \in [Regs -> Files]
    <3>1. file' = [file EXCEPT ![req[q].p.reg] = [file[req[q].p.reg] EXCEPT !.pending = req[q].rest]]
      BY <1>16 DEF AckWrite
    <3>2. file \in [Regs -> Files] /\ file[req[q].p.reg] \in Files
      BY <2>1 DEF BoxTypes
    <3>3. [file[req[q].p.reg] EXCEPT !.pending = req[q].rest] \in Files
      BY <2>3, <3>2 DEF Files
    <3>. QED
      BY <2>1, <3>1, <3>2, <3>3
  <2>5. mail' = [m \in Mails |-> IF m \in req[q].ids THEN [mail[m] EXCEPT !.at = "acked"] ELSE mail[m]]
    BY <1>16 DEF AckWrite
  <2>6. mail' \in [Mails -> Letters]
    BY <2>5 DEF BoxTypes, Letters
  <2>7. \A m \in Mails : mail'[m].at \in {"composed", "queued"} => mail'[m].to \in Regs
    BY <2>5 DEF BoxTypes, Letters
  <2>. QED
    BY <1>16, <2>2, <2>4, <2>6, <2>7 DEF AckWrite, BoxTypes, clientVars
<1>17. ASSUME NEW q \in Reqs, SendSettled(q) PROVE BoxTypes'
  <2>1. req[q] \in Calls /\ intents[Sending(q)] \in {"queued", "unknown"}
    BY <1>17, SendingIsSend DEF SendSettled, SendStep, Keyed
  <2>2. [req[q] EXCEPT !.pc = "reply", !.out = intents[Sending(q)]] \in Calls
    BY <2>1 DEF Calls
  <2>3. req' = [req EXCEPT ![q] = [req[q] EXCEPT !.pc = "reply", !.out = intents[Sending(q)]]]
    BY <1>17 DEF SendSettled
  <2>. QED
    BY <1>17, <2>2, <2>3 DEF SendSettled, BoxTypes, clientVars
<1>18. ASSUME NEW q \in Reqs, SaveIntent(q) PROVE BoxTypes'
  <2>1. req[q] \in Calls /\ Sending(q) \in Sends
    BY <1>18, SendingIsSend DEF SaveIntent, SendStep, Keyed
  <2>2. [req[q] EXCEPT !.pc = "try"] \in Calls /\ NoCall \in Calls
    BY <2>1 DEF Calls, NoCall
  <2>3. \/ intents' = intents /\ req' = [req EXCEPT ![q] = NoCall]
        \/ /\ intents' = [intents EXCEPT ![Sending(q)] = "saved"]
           /\ req' = [req EXCEPT ![q] = [req[q] EXCEPT !.pc = "try"]]
    BY <1>18 DEF SaveIntent, Return
  <2>4. team' \in {team, None}
    BY <1>18 DEF SaveIntent, Return
  <2>. QED
    BY <1>18, <2>1, <2>2, <2>3, <2>4 DEF SaveIntent, BoxTypes
<1>19. ASSUME NEW q \in Reqs, SendAgain(q) PROVE BoxTypes'
  <2>1. req[q] \in Calls /\ Sending(q) \in Sends
    BY <1>19, SendingIsSend DEF SendAgain, SendStep, Keyed
  <2>2. [req[q] EXCEPT !.pc = "try"] \in Calls
    BY <2>1 DEF Calls, BoxTypes
  <2>3. req' = [req EXCEPT ![q] = [req[q] EXCEPT !.pc = "try"]]
    BY <1>19 DEF SendAgain
  <2>. QED
    BY <1>19, <2>1, <2>2, <2>3 DEF SendAgain, BoxTypes, clientVars
<1>20. ASSUME NEW q \in Reqs, TryRecipient(q) PROVE BoxTypes'
  <2>1. req[q] \in Calls
    BY <1>20 DEF BoxTypes
  <2>2. [req[q] EXCEPT !.pc = "look"] \in Calls /\ NoCall \in Calls
    BY <2>1 DEF Calls, NoCall
  <2>3. /\ req' = [req EXCEPT ![q] = NoCall] \/ req' = [req EXCEPT ![q] = [req[q] EXCEPT !.pc = "look"]]
        /\ taken' \in {taken, q} /\ team' \in {team, None}
    BY <1>20 DEF TryRecipient, Return
  <2>. QED
    BY <1>20, <2>2, <2>3 DEF TryRecipient, BoxTypes
<1>21. ASSUME NEW q \in Reqs, Look(q) PROVE BoxTypes'
  <2>1. req[q] \in Calls
    BY <1>21 DEF BoxTypes
  <2>2. PICK pc \in {"settle", "attempt"}, out \in {"unknown", "queued"} :
            req' = [req EXCEPT ![q] = [req[q] EXCEPT !.pc = pc, !.out = out]]
    BY <1>21 DEF Look
  <2>3. [req[q] EXCEPT !.pc = pc, !.out = out] \in Calls
    BY <2>1 DEF Calls
  <2>. QED
    BY <1>21, <2>2, <2>3 DEF Look, BoxTypes, clientVars
<1>22. ASSUME NEW q \in Reqs, Attempt(q) PROVE BoxTypes'
  <2>1. req[q] \in Calls /\ Sending(q) \in Sends
    BY <1>22, SendingIsSend DEF Attempt, SendStep, Keyed
  <2>2. [req[q] EXCEPT !.pc = "publish"] \in Calls
    BY <2>1 DEF Calls, BoxTypes
  <2>3. req' = [req EXCEPT ![q] = [req[q] EXCEPT !.pc = "publish"]]
    BY <1>22 DEF Attempt
  <2>. QED
    BY <1>22, <2>1, <2>2, <2>3 DEF Attempt, BoxTypes, clientVars
<1>23. ASSUME NEW q \in Reqs, PublishSend(q) PROVE BoxTypes'
  <2>1. req[q] \in Calls /\ Sending(q) \in Sends
    BY <1>23, SendingIsSend DEF PublishSend, SendStep, Keyed
  <2>2. [req[q] EXCEPT !.pc = "settle"] \in Calls
    BY <2>1 DEF Calls, BoxTypes
  <2>3. req' = [req EXCEPT ![q] = [req[q] EXCEPT !.pc = "settle"]]
    BY <1>23 DEF PublishSend
  <2>. QED
    BY <1>23, <2>1, <2>2, <2>3 DEF PublishSend, BoxTypes, clientVars
<1>24. ASSUME NEW q \in Reqs, SettleSend(q) PROVE BoxTypes'
  <2>1. req[q] \in Calls /\ Sending(q) \in Sends
    BY <1>24, SendingIsSend DEF SettleSend, SendStep, Keyed
  <2>2. [req[q] EXCEPT !.pc = "reply"] \in Calls /\ req[q].out \in {"queued", "unknown"}
    BY <1>24, <2>1 DEF Calls, SettleSend, SendStep, RequestsHold, RequestHolds, Sent
  <2>3. req' = [req EXCEPT ![q] = [req[q] EXCEPT !.pc = "reply"]]
    BY <1>24 DEF SettleSend
  <2>. QED
    BY <1>24, <2>1, <2>2, <2>3 DEF SettleSend, BoxTypes, clientVars
<1>25. ASSUME NEW q \in Reqs, Reply(q) PROVE BoxTypes'
  <2>1. req[q] \in Calls /\ Sending(q) \in Sends
    BY <1>25, SendingIsSend DEF Reply, SendStep, Keyed
  <2>2. NoCall \in Calls /\ req[q].out \in {"none", "queued", "unknown"}
    BY <2>1 DEF Calls, NoCall
  <2>. QED
    BY <1>25, <2>1, <2>2 DEF Reply, Return, BoxTypes
<1>26. ASSUME NEW q \in Reqs, SendFails(q) PROVE BoxTypes'
    BY <1>26 DEF SendFails, Return, NoCall, BoxTypes, Commands, Calls, Files, Letters
<1>27. ASSUME NEW s \in Sends, RecipientDelivers(s) PROVE BoxTypes'
    BY <1>27 DEF RecipientDelivers, BoxTypes, Commands, Calls, Files, Letters
<1>28. CASE RecipientDropped
  <2>1. used' \in [admin : Nat, calls : Nat, faults : Nat]
    BY <1>28, UsedMore DEF RecipientDropped, BoxTypes
  <2>. QED
    BY <1>28, <2>1 DEF RecipientDropped, BoxTypes
<1>29. CASE Stops
    BY <1>29 DEF Stops, RequestsDie, NoCall, BoxTypes, Commands, Calls, Files, Letters
<1>30. CASE Elsewhere
    BY <1>30 DEF Elsewhere, BoxTypes, Commands, Calls, Files, Letters
<1>. QED
    BY <1>1, <1>2, <1>3, <1>4, <1>5, <1>6, <1>7, <1>8, <1>9, <1>10, <1>11, <1>12, <1>13, <1>14,
       <1>15, <1>16, <1>17, <1>18, <1>19, <1>20, <1>21, <1>22, <1>23, <1>24, <1>25, <1>26,
       <1>27, <1>28, <1>29, <1>30 DEF BoxStep, MailboxNext, AdminStep, ReqStep

(* Every step leaves the locks with the processes whose steps hold them: a   *)
(* request that returns, fails or dies leaves none behind.                   *)
LEMMA LocksKept ==
    ASSUME BoxTypes /\ Locks, BoxStep
    PROVE  Locks'
<1>. USE MailboxAssumption
<1>1. ASSUME NEW kind \in {"register", "rotate", "remove"}, NEW r \in Regs, NEW n \in Names, Command(kind, r, n) PROVE Locks'
    BY <1>1 DEF Command, clientVars, NoFile, Known, Locks, BoxTypes, Commands, Calls, Keyed,
       Locked, Idle, NoCall
<1>2. CASE IssueCredential
    BY <1>2 DEF IssueCredential, clientVars, Issued, Locks, BoxTypes, Commands, Calls, Keyed,
       Locked, Idle, NoCall
<1>3. CASE SaveRegistration
    BY <1>3 DEF SaveRegistration, clientVars, Issued, Idle, Locks, BoxTypes, Commands, Calls,
       Keyed, Locked, NoCall
<1>4. CASE ClaimOutside
    BY <1>4 DEF ClaimOutside, clientVars, Idle, NoFile, Locks, BoxTypes, Commands, Calls,
       Keyed, Locked, NoCall
<1>5. CASE RemoveOutsideName
    BY <1>5 DEF RemoveOutsideName, clientVars, Locks, BoxTypes, Commands, Calls, Keyed, Locked,
       Idle, NoCall
<1>6. CASE RemoveData
    BY <1>6 DEF RemoveData, Locks, BoxTypes, Commands, Calls, Keyed, Locked, Idle, NoCall
<1>7. CASE RemoveFile
    BY <1>7 DEF RemoveFile, clientVars, Idle, NoFile, Locks, BoxTypes, Commands, Calls, Keyed,
       Locked, NoCall
<1>8. CASE SaveFails
    BY <1>8 DEF SaveFails, clientVars, Issued, Idle, Locks, BoxTypes, Commands, Calls, Keyed,
       Locked, NoCall
<1>9. CASE AdminDies
    BY <1>9 DEF AdminDies, clientVars, Idle, Locks, BoxTypes, Commands, Calls, Keyed, Locked,
       NoCall
<1>10. ASSUME NEW n \in Names, NativeClaims(n) PROVE Locks'
    BY <1>10 DEF NativeClaims, clientVars, Locks, BoxTypes, Commands, Calls, Keyed, Locked,
       Idle, NoCall
<1>11. ASSUME NEW m \in Mails, QueueOutside(m) PROVE Locks'
    BY <1>11 DEF QueueOutside, clientVars, Known, Locks, BoxTypes, Commands, Calls, Keyed,
       Locked, Idle, NoCall
<1>12. ASSUME NEW m \in Mails, NEW r \in Regs, Compose(m, r) PROVE Locks'
    BY <1>12 DEF Compose, clientVars, Known, Locks, BoxTypes, Commands, Calls, Keyed, Locked,
       Idle, NoCall
<1>13. ASSUME NEW q \in Reqs, NEW p \in Principals, NEW kind \in {"ack", "send"},
             NEW key \in Keys \cup {None}, NEW ids \in SUBSET Mails, Asks(q, p, kind, key, ids) PROVE Locks'
    BY <1>13 DEF Asks, Begin, clientVars, NoCall, Current, Known, Locks, BoxTypes, Commands,
       Calls, Keyed, Locked, Idle
<1>14. ASSUME NEW q \in Reqs, WithOutside(q) PROVE Locks'
    BY <1>14, SMTT(30) DEF WithOutside, clientVars, Return, Current, Known, NoCall, Locks, BoxTypes,
       Commands, Calls, Keyed, Locked, Idle
<1>15. ASSUME NEW q \in Reqs, AckRead(q) PROVE Locks'
    BY <1>15 DEF AckRead, clientVars, Locks, BoxTypes, Commands, Calls, Keyed, Locked, Idle,
       NoCall
<1>16. ASSUME NEW q \in Reqs, AckWrite(q) PROVE Locks'
    BY <1>16 DEF AckWrite, clientVars, Return, NoCall, Locks, BoxTypes, Commands, Calls, Keyed,
       Locked, Idle
<1>17. ASSUME NEW q \in Reqs, SendSettled(q) PROVE Locks'
    BY <1>17 DEF SendSettled, clientVars, SendStep, Sending, Locks, BoxTypes, Commands, Calls,
       Keyed, Locked, Idle, NoCall
<1>18. ASSUME NEW q \in Reqs, SaveIntent(q) PROVE Locks'
  <2>1. /\ UNCHANGED <<admin, taken>> /\ req[q].pc = "send"
        /\ \/ req' = [req EXCEPT ![q] = [req[q] EXCEPT !.pc = "try"]] /\ team' = team
           \/ req' = [req EXCEPT ![q] = NoCall] /\ team' = IF team = q THEN None ELSE team
    BY <1>18 DEF SaveIntent, Return, SendStep
  <2>2. team = q /\ req \in [Reqs -> Calls] /\ taken # q
    BY <2>1 DEF Locks, BoxTypes, Locked
  <2>3. CASE req' = [req EXCEPT ![q] = [req[q] EXCEPT !.pc = "try"]] /\ team' = team
    BY <2>1, <2>2, <2>3 DEF Locks, Keyed, Locked, Calls
  <2>4. CASE req' = [req EXCEPT ![q] = NoCall] /\ team' = IF team = q THEN None ELSE team
    BY <2>1, <2>2, <2>4 DEF Locks, Keyed, Locked, Calls, NoCall
  <2>. QED
    BY <2>1, <2>3, <2>4
<1>19. ASSUME NEW q \in Reqs, SendAgain(q) PROVE Locks'
    BY <1>19 DEF SendAgain, clientVars, SendStep, Sending, Locks, BoxTypes, Commands, Calls,
       Keyed, Locked, Idle, NoCall
<1>20. ASSUME NEW q \in Reqs, TryRecipient(q) PROVE Locks'
    BY <1>20 DEF TryRecipient, Return, SendStep, NoCall, Locks, BoxTypes, Commands, Calls,
       Keyed, Locked, Idle
<1>21. ASSUME NEW q \in Reqs, Look(q) PROVE Locks'
    BY <1>21 DEF Look, clientVars, SendStep, Sending, Published, Locks, BoxTypes, Commands,
       Calls, Keyed, Locked, Idle, NoCall
<1>22. ASSUME NEW q \in Reqs, Attempt(q) PROVE Locks'
    BY <1>22 DEF Attempt, SendStep, Sending, Locks, BoxTypes, Commands, Calls, Keyed, Locked,
       Idle, NoCall
<1>23. ASSUME NEW q \in Reqs, PublishSend(q) PROVE Locks'
    BY <1>23 DEF PublishSend, SendStep, Sending, Locks, BoxTypes, Commands, Calls, Keyed,
       Locked, Idle, NoCall
<1>24. ASSUME NEW q \in Reqs, SettleSend(q) PROVE Locks'
    BY <1>24 DEF SettleSend, SendStep, Sending, Locks, BoxTypes, Commands, Calls, Keyed,
       Locked, Idle, NoCall
<1>25. ASSUME NEW q \in Reqs, Reply(q) PROVE Locks'
    BY <1>25 DEF Reply, Return, SendStep, Sending, NoCall, Locks, BoxTypes, Commands, Calls,
       Keyed, Locked, Idle
<1>26. ASSUME NEW q \in Reqs, SendFails(q) PROVE Locks'
    BY <1>26 DEF SendFails, Return, NoCall, Locks, BoxTypes, Commands, Calls, Keyed, Locked,
       Idle
<1>27. ASSUME NEW s \in Sends, RecipientDelivers(s) PROVE Locks'
    BY <1>27 DEF RecipientDelivers, Locks, BoxTypes, Commands, Calls, Keyed, Locked, Idle,
       NoCall
<1>28. CASE RecipientDropped
    BY <1>28 DEF RecipientDropped, Locks, BoxTypes, Commands, Calls, Keyed, Locked, Idle, NoCall
<1>29. CASE Stops
    BY <1>29 DEF Stops, RequestsDie, NoCall, Locks, BoxTypes, Commands, Calls, Keyed, Locked,
       Idle
<1>30. CASE Elsewhere
    BY <1>30 DEF Elsewhere, Locks, BoxTypes, Commands, Calls, Keyed, Locked, Idle, NoCall
<1>. QED
    BY <1>1, <1>2, <1>3, <1>4, <1>5, <1>6, <1>7, <1>8, <1>9, <1>10, <1>11, <1>12, <1>13, <1>14,
       <1>15, <1>16, <1>17, <1>18, <1>19, <1>20, <1>21, <1>22, <1>23, <1>24, <1>25, <1>26,
       <1>27, <1>28, <1>29, <1>30 DEF BoxStep, MailboxNext, AdminStep, ReqStep

(* Every step keeps the generations within the commands that raised them.    *)
LEMMA NumberedKept ==
    ASSUME BoxTypes /\ Numbered /\ Admin /\ Locks, BoxStep
    PROVE  Numbered'
<1>. USE MailboxAssumption
<1>1. ASSUME NEW kind \in {"register", "rotate", "remove"}, NEW r \in Regs, NEW n \in Names, Command(kind, r, n) PROVE Numbered'
    BY <1>1 DEF Command, clientVars, NoFile, Known, Numbered, BoxTypes, Commands, Files, Idle
<1>2. CASE IssueCredential
    BY <1>2 DEF IssueCredential, clientVars, Issued, Numbered, BoxTypes, Commands, Files,
       NoFile, Idle
<1>3. CASE SaveRegistration
  <2>1. used' = used /\ used.admin \in Nat
    BY <1>3 DEF SaveRegistration, BoxTypes
  <2>2. \A r \in Regs : file'[r].gen \in 1..(used.admin + 1)
    <3>1. TAKE r \in Regs
    <3>2. CASE r # admin.reg
      BY <1>3, <3>2, StateIsSaved DEF Numbered
    <3>3. CASE r = admin.reg /\ admin.kind = "register"
      BY <1>3, <2>1, <3>3, StateIsSaved
    <3>4. CASE r = admin.reg /\ admin.kind = "rotate"
      <4>1. file'[r].gen = file[r].gen + 1
        BY <1>3, <3>4, StateIsSaved DEF BoxTypes, Files
      <4>2. file[r].gen \in 1..used.admin
        BY <1>3, <3>4 DEF Numbered, SaveRegistration
      <4>. QED
        BY <2>1, <4>1, <4>2
    <3>. QED
      BY <1>3, <3>2, <3>3, <3>4, StateIsSaved
  <2>4. \A r \in Regs : file'[r].here => file'[r].name \in Names
    <3>1. TAKE r \in Regs
    <3>2. CASE r # admin.reg
      BY <1>3, <3>2, StateIsSaved DEF Numbered
    <3>3. CASE r = admin.reg /\ admin.kind = "register"
      BY <1>3, <3>3, StateIsSaved
    <3>4. CASE r = admin.reg /\ admin.kind = "rotate"
      BY <1>3, <3>4, StateIsSaved DEF Numbered, BoxTypes, Files
    <3>. QED
      BY <1>3, <3>2, <3>3, <3>4, StateIsSaved
  <2>3. admin'.pc \in {"claim", "none"}
    BY <1>3, StateIsSaved DEF Idle, BoxTypes, Commands
  <2>. QED
    BY <2>1, <2>2, <2>3, <2>4 DEF Numbered
<1>4. CASE ClaimOutside
    BY <1>4 DEF ClaimOutside, clientVars, Idle, NoFile, Numbered, BoxTypes, Commands, Files
<1>5. CASE RemoveOutsideName
    BY <1>5 DEF RemoveOutsideName, clientVars, Numbered, BoxTypes, Commands, Files, NoFile, Idle
<1>6. CASE RemoveData
    BY <1>6 DEF RemoveData, Numbered, BoxTypes, Commands, Files, NoFile, Idle
<1>7. CASE RemoveFile
    BY <1>7 DEF RemoveFile, clientVars, Idle, NoFile, Numbered, BoxTypes, Commands, Files
<1>8. CASE SaveFails
    BY <1>8 DEF SaveFails, clientVars, Issued, Idle, Numbered, BoxTypes, Commands, Files, NoFile
<1>9. CASE AdminDies
    BY <1>9 DEF AdminDies, clientVars, Idle, Numbered, BoxTypes, Commands, Files, NoFile
<1>10. ASSUME NEW n \in Names, NativeClaims(n) PROVE Numbered'
    BY <1>10 DEF NativeClaims, clientVars, Numbered, BoxTypes, Commands, Files, NoFile, Idle
<1>11. ASSUME NEW m \in Mails, QueueOutside(m) PROVE Numbered'
  <2>1. used' = used /\ admin' = admin
    BY <1>11 DEF QueueOutside
  <2>2. admin.pc \in {"credential", "save"} => admin.reg \in Regs
    BY DEF Admin
  <2>. QED
    BY <1>11, <2>1, <2>2, MailIsAdded DEF Numbered, SameRegistration
<1>12. ASSUME NEW m \in Mails, NEW r \in Regs, Compose(m, r) PROVE Numbered'
    BY <1>12 DEF Compose, clientVars, Known, Numbered, BoxTypes, Commands, Files, NoFile, Idle
<1>13. ASSUME NEW q \in Reqs, NEW p \in Principals, NEW kind \in {"ack", "send"},
             NEW key \in Keys \cup {None}, NEW ids \in SUBSET Mails, Asks(q, p, kind, key, ids) PROVE Numbered'
    BY <1>13 DEF Asks, Begin, clientVars, NoCall, Current, Known, Numbered, BoxTypes, Commands,
       Files, NoFile, Idle
<1>14. ASSUME NEW q \in Reqs, WithOutside(q) PROVE Numbered'
    BY <1>14 DEF WithOutside, clientVars, Return, Current, Known, NoCall, Numbered, BoxTypes,
       Commands, Files, NoFile, Idle
<1>15. ASSUME NEW q \in Reqs, AckRead(q) PROVE Numbered'
    BY <1>15 DEF AckRead, clientVars, Numbered, BoxTypes, Commands, Files, NoFile, Idle
<1>16. ASSUME NEW q \in Reqs, AckWrite(q) PROVE Numbered'
    BY <1>16 DEF AckWrite, clientVars, Return, NoCall, Numbered, BoxTypes, Commands, Files,
       NoFile, Idle
<1>17. ASSUME NEW q \in Reqs, SendSettled(q) PROVE Numbered'
    BY <1>17 DEF SendSettled, clientVars, SendStep, Sending, Numbered, BoxTypes, Commands,
       Files, NoFile, Idle
<1>18. ASSUME NEW q \in Reqs, SaveIntent(q) PROVE Numbered'
    BY <1>18 DEF SaveIntent, Return, SendStep, Sending, NoCall, Numbered, BoxTypes, Commands,
       Files, NoFile, Idle
<1>19. ASSUME NEW q \in Reqs, SendAgain(q) PROVE Numbered'
    BY <1>19 DEF SendAgain, clientVars, SendStep, Sending, Numbered, BoxTypes, Commands, Files,
       NoFile, Idle
<1>20. ASSUME NEW q \in Reqs, TryRecipient(q) PROVE Numbered'
    BY <1>20 DEF TryRecipient, Return, SendStep, NoCall, Numbered, BoxTypes, Commands, Files,
       NoFile, Idle
<1>21. ASSUME NEW q \in Reqs, Look(q) PROVE Numbered'
    BY <1>21 DEF Look, clientVars, SendStep, Sending, Published, Numbered, BoxTypes, Commands,
       Files, NoFile, Idle
<1>22. ASSUME NEW q \in Reqs, Attempt(q) PROVE Numbered'
    BY <1>22 DEF Attempt, SendStep, Sending, Numbered, BoxTypes, Commands, Files, NoFile, Idle
<1>23. ASSUME NEW q \in Reqs, PublishSend(q) PROVE Numbered'
    BY <1>23 DEF PublishSend, SendStep, Sending, Numbered, BoxTypes, Commands, Files, NoFile,
       Idle
<1>24. ASSUME NEW q \in Reqs, SettleSend(q) PROVE Numbered'
    BY <1>24 DEF SettleSend, SendStep, Sending, Numbered, BoxTypes, Commands, Files, NoFile,
       Idle
<1>25. ASSUME NEW q \in Reqs, Reply(q) PROVE Numbered'
    BY <1>25 DEF Reply, Return, SendStep, Sending, NoCall, Numbered, BoxTypes, Commands, Files,
       NoFile, Idle
<1>26. ASSUME NEW q \in Reqs, SendFails(q) PROVE Numbered'
    BY <1>26 DEF SendFails, Return, NoCall, Numbered, BoxTypes, Commands, Files, NoFile, Idle
<1>27. ASSUME NEW s \in Sends, RecipientDelivers(s) PROVE Numbered'
    BY <1>27 DEF RecipientDelivers, Numbered, BoxTypes, Commands, Files, NoFile, Idle
<1>28. CASE RecipientDropped
    BY <1>28 DEF RecipientDropped, Numbered, BoxTypes, Commands, Files, NoFile, Idle
<1>29. CASE Stops
    BY <1>29 DEF Stops, RequestsDie, NoCall, Numbered, BoxTypes, Commands, Files, NoFile, Idle
<1>30. CASE Elsewhere
    BY <1>30 DEF Elsewhere, Numbered, BoxTypes, Commands, Files, NoFile, Idle
<1>. QED
    BY <1>1, <1>2, <1>3, <1>4, <1>5, <1>6, <1>7, <1>8, <1>9, <1>10, <1>11, <1>12, <1>13, <1>14,
       <1>15, <1>16, <1>17, <1>18, <1>19, <1>20, <1>21, <1>22, <1>23, <1>24, <1>25, <1>26,
       <1>27, <1>28, <1>29, <1>30 DEF BoxStep, MailboxNext, AdminStep, ReqStep

(* Every step of a command finds what its earlier steps wrote, though other  *)
(* processes run between them.                                               *)
LEMMA AdminKept ==
    ASSUME BoxTypes /\ Numbered /\ Admin /\ Locks /\ NameLeadsToMailbox, BoxStep
    PROVE  Admin'
<1>. USE MailboxAssumption
<1>1. ASSUME NEW kind \in {"register", "rotate", "remove"}, NEW r \in Regs, NEW n \in Names, Command(kind, r, n) PROVE Admin'
    BY <1>1 DEF Command, clientVars, NoFile, Known, Admin, BoxTypes, Commands, Files, Idle,
       Named, Issued
<1>2. CASE IssueCredential
    BY <1>2 DEF IssueCredential, clientVars, Issued, Admin, BoxTypes, Commands, Files, NoFile,
       Idle, Named, Known
<1>3. CASE SaveRegistration
  <2>1. CASE admin.kind = "register"
    <3>1. /\ admin' = [admin EXCEPT !.pc = "claim"]
          /\ file'[admin.reg] = [here |-> TRUE, name |-> admin.name, gen |-> 1, pending |-> {}]
      BY <1>3, <2>1, StateIsSaved
    <3>2. file[admin.reg] = NoFile /\ [reg |-> admin.reg, gen |-> 1] \in creds
      BY <1>3, <2>1, IssuedIsNew DEF Admin, SaveRegistration
    <3>3. names' = names /\ creds' = creds
      BY <1>3 DEF SaveRegistration
    <3>4. ~Named(admin.reg)
      BY <1>3, <3>2, StateIsSaved DEF NameLeadsToMailbox, NoFile, Named
    <3>5. admin'.pc = "claim" /\ admin'.kind = "register" /\ admin'.reg = admin.reg /\ admin'.name = admin.name
      BY <2>1, <3>1 DEF BoxTypes, Commands
    <3>. QED
      BY <1>3, <3>1, <3>2, <3>3, <3>4, <3>5, StateIsSaved DEF Admin, Named
  <2>2. CASE admin.kind = "rotate"
    <3>1. admin' = Idle
      BY <1>3, <2>2, StateIsSaved
    <3>. QED
      BY <3>1 DEF Admin, Idle
  <2>. QED
    BY <1>3, <2>1, <2>2, StateIsSaved
<1>4. CASE ClaimOutside
    BY <1>4 DEF ClaimOutside, clientVars, Idle, NoFile, Admin, BoxTypes, Commands, Files,
       Named, Known, Issued
<1>5. CASE RemoveOutsideName
  <2>1. admin.reg \in Regs /\ admin.name \in Names /\ names[admin.name] = admin.reg
    BY <1>5 DEF RemoveOutsideName, Admin
  <2>2. admin'.pc = "data" /\ admin'.reg = admin.reg /\ admin'.name = admin.name
    BY <1>5 DEF RemoveOutsideName, BoxTypes, Commands
  <2>3. \A n \in Names : names[n] = admin.reg => n = admin.name
    BY <2>1 DEF NameLeadsToMailbox
  <2>4. \A n \in Names : names'[n] # admin.reg
    BY <1>5, <2>1, <2>3 DEF RemoveOutsideName, BoxTypes
  <2>. QED
    BY <2>1, <2>2, <2>4 DEF Admin, Named
<1>6. CASE RemoveData
    BY <1>6 DEF RemoveData, Admin, BoxTypes, Commands, Files, NoFile, Idle, Named, Known, Issued
<1>7. CASE RemoveFile
    BY <1>7 DEF RemoveFile, clientVars, Idle, NoFile, Admin, BoxTypes, Commands, Files, Named,
       Known, Issued
<1>8. CASE SaveFails
    BY <1>8 DEF SaveFails, clientVars, Issued, Idle, Admin, BoxTypes, Commands, Files, NoFile,
       Named, Known
<1>9. CASE AdminDies
    BY <1>9 DEF AdminDies, clientVars, Idle, Admin, BoxTypes, Commands, Files, NoFile, Named,
       Known, Issued
<1>10. ASSUME NEW n \in Names, NativeClaims(n) PROVE Admin'
    BY <1>10 DEF NativeClaims, clientVars, Admin, BoxTypes, Commands, Files, NoFile, Idle,
       Named, Known, Issued
<1>11. ASSUME NEW m \in Mails, QueueOutside(m) PROVE Admin'
    BY <1>11, SMTT(30) DEF QueueOutside, clientVars, Known, Admin, BoxTypes, Commands, Files, NoFile,
       Idle, Named, Issued
<1>12. ASSUME NEW m \in Mails, NEW r \in Regs, Compose(m, r) PROVE Admin'
    BY <1>12 DEF Compose, clientVars, Known, Admin, BoxTypes, Commands, Files, NoFile, Idle,
       Named, Issued
<1>13. ASSUME NEW q \in Reqs, NEW p \in Principals, NEW kind \in {"ack", "send"},
             NEW key \in Keys \cup {None}, NEW ids \in SUBSET Mails, Asks(q, p, kind, key, ids) PROVE Admin'
    BY <1>13 DEF Asks, Begin, clientVars, NoCall, Current, Known, Admin, BoxTypes, Commands,
       Files, NoFile, Idle, Named, Issued
<1>14. ASSUME NEW q \in Reqs, WithOutside(q) PROVE Admin'
    BY <1>14 DEF WithOutside, clientVars, Return, Current, Known, NoCall, Admin, BoxTypes,
       Commands, Files, NoFile, Idle, Named, Issued
<1>15. ASSUME NEW q \in Reqs, AckRead(q) PROVE Admin'
    BY <1>15 DEF AckRead, clientVars, Admin, BoxTypes, Commands, Files, NoFile, Idle, Named,
       Known, Issued
<1>16. ASSUME NEW q \in Reqs, AckWrite(q) PROVE Admin'
  <2>1. admin.pc = "none"
    BY <1>16 DEF AckWrite, Locks
  <2>2. admin' = admin
    BY <1>16 DEF AckWrite
  <2>. QED
    BY <2>1, <2>2 DEF Admin
<1>17. ASSUME NEW q \in Reqs, SendSettled(q) PROVE Admin'
    BY <1>17 DEF SendSettled, clientVars, SendStep, Sending, Admin, BoxTypes, Commands, Files,
       NoFile, Idle, Named, Known, Issued
<1>18. ASSUME NEW q \in Reqs, SaveIntent(q) PROVE Admin'
    BY <1>18 DEF SaveIntent, Return, SendStep, Sending, NoCall, Admin, BoxTypes, Commands,
       Files, NoFile, Idle, Named, Known, Issued
<1>19. ASSUME NEW q \in Reqs, SendAgain(q) PROVE Admin'
    BY <1>19 DEF SendAgain, clientVars, SendStep, Sending, Admin, BoxTypes, Commands, Files,
       NoFile, Idle, Named, Known, Issued
<1>20. ASSUME NEW q \in Reqs, TryRecipient(q) PROVE Admin'
    BY <1>20 DEF TryRecipient, Return, SendStep, NoCall, Admin, BoxTypes, Commands, Files,
       NoFile, Idle, Named, Known, Issued
<1>21. ASSUME NEW q \in Reqs, Look(q) PROVE Admin'
    BY <1>21 DEF Look, clientVars, SendStep, Sending, Published, Admin, BoxTypes, Commands,
       Files, NoFile, Idle, Named, Known, Issued
<1>22. ASSUME NEW q \in Reqs, Attempt(q) PROVE Admin'
    BY <1>22 DEF Attempt, SendStep, Sending, Admin, BoxTypes, Commands, Files, NoFile, Idle,
       Named, Known, Issued
<1>23. ASSUME NEW q \in Reqs, PublishSend(q) PROVE Admin'
    BY <1>23 DEF PublishSend, SendStep, Sending, Admin, BoxTypes, Commands, Files, NoFile,
       Idle, Named, Known, Issued
<1>24. ASSUME NEW q \in Reqs, SettleSend(q) PROVE Admin'
    BY <1>24 DEF SettleSend, SendStep, Sending, Admin, BoxTypes, Commands, Files, NoFile, Idle,
       Named, Known, Issued
<1>25. ASSUME NEW q \in Reqs, Reply(q) PROVE Admin'
    BY <1>25 DEF Reply, Return, SendStep, Sending, NoCall, Admin, BoxTypes, Commands, Files,
       NoFile, Idle, Named, Known, Issued
<1>26. ASSUME NEW q \in Reqs, SendFails(q) PROVE Admin'
    BY <1>26 DEF SendFails, Return, NoCall, Admin, BoxTypes, Commands, Files, NoFile, Idle,
       Named, Known, Issued
<1>27. ASSUME NEW s \in Sends, RecipientDelivers(s) PROVE Admin'
    BY <1>27 DEF RecipientDelivers, Admin, BoxTypes, Commands, Files, NoFile, Idle, Named,
       Known, Issued
<1>28. CASE RecipientDropped
    BY <1>28 DEF RecipientDropped, Admin, BoxTypes, Commands, Files, NoFile, Idle, Named,
       Known, Issued
<1>29. CASE Stops
    BY <1>29 DEF Stops, RequestsDie, NoCall, Admin, BoxTypes, Commands, Files, NoFile, Idle,
       Named, Known, Issued
<1>30. CASE Elsewhere
    BY <1>30 DEF Elsewhere, Admin, BoxTypes, Commands, Files, NoFile, Idle, Named, Known, Issued
<1>. QED
    BY <1>1, <1>2, <1>3, <1>4, <1>5, <1>6, <1>7, <1>8, <1>9, <1>10, <1>11, <1>12, <1>13, <1>14,
       <1>15, <1>16, <1>17, <1>18, <1>19, <1>20, <1>21, <1>22, <1>23, <1>24, <1>25, <1>26,
       <1>27, <1>28, <1>29, <1>30 DEF BoxStep, MailboxNext, AdminStep, ReqStep

(* Every step leaves names that lead to mailboxes: a mailbox goes after its  *)
(* name, and a name comes after its mailbox (store/outside.go:303).          *)
LEMMA NameLeadsToMailboxKept ==
    ASSUME BoxTypes /\ Numbered /\ Admin /\ NameLeadsToMailbox, BoxStep
    PROVE  NameLeadsToMailbox'
<1>. USE MailboxAssumption
<1>1. ASSUME NEW kind \in {"register", "rotate", "remove"}, NEW r \in Regs, NEW n \in Names, Command(kind, r, n) PROVE NameLeadsToMailbox'
    BY <1>1 DEF Command, clientVars, NoFile, Known, NameLeadsToMailbox, BoxTypes, Commands,
       Files
<1>2. CASE IssueCredential
    BY <1>2 DEF IssueCredential, clientVars, Issued, NameLeadsToMailbox, BoxTypes, Commands,
       Files, NoFile
<1>3. CASE SaveRegistration
  <2>1. names' = names
    BY <1>3 DEF SaveRegistration
  <2>2. CASE admin.kind = "register"
    <3>1. file[admin.reg].here = FALSE
      BY <1>3, <2>2 DEF SaveRegistration, Admin, NoFile
    <3>. QED
      BY <1>3, <2>1, <3>1, StateIsSaved DEF NameLeadsToMailbox
  <2>3. CASE admin.kind = "rotate"
    <3>1. SameName(admin.reg)
      BY <1>3, <2>3, StateIsSaved DEF SameName, BoxTypes, Files
    <3>. QED
      BY <1>3, <2>1, <3>1, StateIsSaved DEF NameLeadsToMailbox, SameName
  <2>. QED
    BY <1>3, <2>2, <2>3, StateIsSaved
<1>4. CASE ClaimOutside
  <2>1. ~Named(admin.reg) /\ file[admin.reg].here /\ file[admin.reg].name = admin.name
    BY <1>4 DEF ClaimOutside, Admin
  <2>. QED
    BY <1>4, <2>1, NameIsClaimed DEF NameLeadsToMailbox, Named
<1>5. CASE RemoveOutsideName
    BY <1>5 DEF RemoveOutsideName, clientVars, NameLeadsToMailbox, BoxTypes, Commands, Files,
       NoFile
<1>6. CASE RemoveData
    BY <1>6 DEF RemoveData, NameLeadsToMailbox, BoxTypes, Commands, Files, NoFile
<1>7. CASE RemoveFile
  <2>1. admin.reg \in Regs /\ ~Named(admin.reg)
    BY <1>7 DEF RemoveFile, Admin
  <2>2. names' = names /\ \A r \in Regs \ {admin.reg} : file'[r] = file[r]
    BY <1>7, <2>1 DEF RemoveFile, BoxTypes
  <2>. QED
    BY <2>1, <2>2 DEF NameLeadsToMailbox, Named
<1>8. CASE SaveFails
    BY <1>8 DEF SaveFails, clientVars, Issued, Idle, NameLeadsToMailbox, BoxTypes, Commands,
       Files, NoFile
<1>9. CASE AdminDies
    BY <1>9 DEF AdminDies, clientVars, Idle, NameLeadsToMailbox, BoxTypes, Commands, Files,
       NoFile
<1>10. ASSUME NEW n \in Names, NativeClaims(n) PROVE NameLeadsToMailbox'
    BY <1>10 DEF NativeClaims, clientVars, NameLeadsToMailbox, BoxTypes, Commands, Files, NoFile
<1>11. ASSUME NEW m \in Mails, QueueOutside(m) PROVE NameLeadsToMailbox'
    BY <1>11 DEF QueueOutside, clientVars, Known, NameLeadsToMailbox, BoxTypes, Commands,
       Files, NoFile
<1>12. ASSUME NEW m \in Mails, NEW r \in Regs, Compose(m, r) PROVE NameLeadsToMailbox'
    BY <1>12 DEF Compose, clientVars, Known, NameLeadsToMailbox, BoxTypes, Commands, Files,
       NoFile
<1>13. ASSUME NEW q \in Reqs, NEW p \in Principals, NEW kind \in {"ack", "send"},
             NEW key \in Keys \cup {None}, NEW ids \in SUBSET Mails, Asks(q, p, kind, key, ids) PROVE NameLeadsToMailbox'
    BY <1>13 DEF Asks, Begin, clientVars, NoCall, Current, Known, NameLeadsToMailbox, BoxTypes,
       Commands, Files, NoFile
<1>14. ASSUME NEW q \in Reqs, WithOutside(q) PROVE NameLeadsToMailbox'
    BY <1>14 DEF WithOutside, clientVars, Return, Current, Known, NoCall, NameLeadsToMailbox,
       BoxTypes, Commands, Files, NoFile
<1>15. ASSUME NEW q \in Reqs, AckRead(q) PROVE NameLeadsToMailbox'
    BY <1>15 DEF AckRead, clientVars, NameLeadsToMailbox, BoxTypes, Commands, Files, NoFile
<1>16. ASSUME NEW q \in Reqs, AckWrite(q) PROVE NameLeadsToMailbox'
    BY <1>16 DEF AckWrite, clientVars, Return, NoCall, NameLeadsToMailbox, BoxTypes, Commands,
       Files, NoFile
<1>17. ASSUME NEW q \in Reqs, SendSettled(q) PROVE NameLeadsToMailbox'
    BY <1>17 DEF SendSettled, clientVars, SendStep, Sending, NameLeadsToMailbox, BoxTypes,
       Commands, Files, NoFile
<1>18. ASSUME NEW q \in Reqs, SaveIntent(q) PROVE NameLeadsToMailbox'
    BY <1>18 DEF SaveIntent, Return, SendStep, Sending, NoCall, NameLeadsToMailbox, BoxTypes,
       Commands, Files, NoFile
<1>19. ASSUME NEW q \in Reqs, SendAgain(q) PROVE NameLeadsToMailbox'
    BY <1>19 DEF SendAgain, clientVars, SendStep, Sending, NameLeadsToMailbox, BoxTypes,
       Commands, Files, NoFile
<1>20. ASSUME NEW q \in Reqs, TryRecipient(q) PROVE NameLeadsToMailbox'
    BY <1>20 DEF TryRecipient, Return, SendStep, NoCall, NameLeadsToMailbox, BoxTypes,
       Commands, Files, NoFile
<1>21. ASSUME NEW q \in Reqs, Look(q) PROVE NameLeadsToMailbox'
    BY <1>21 DEF Look, clientVars, SendStep, Sending, Published, NameLeadsToMailbox, BoxTypes,
       Commands, Files, NoFile
<1>22. ASSUME NEW q \in Reqs, Attempt(q) PROVE NameLeadsToMailbox'
    BY <1>22 DEF Attempt, SendStep, Sending, NameLeadsToMailbox, BoxTypes, Commands, Files,
       NoFile
<1>23. ASSUME NEW q \in Reqs, PublishSend(q) PROVE NameLeadsToMailbox'
    BY <1>23 DEF PublishSend, SendStep, Sending, NameLeadsToMailbox, BoxTypes, Commands, Files,
       NoFile
<1>24. ASSUME NEW q \in Reqs, SettleSend(q) PROVE NameLeadsToMailbox'
    BY <1>24 DEF SettleSend, SendStep, Sending, NameLeadsToMailbox, BoxTypes, Commands, Files,
       NoFile
<1>25. ASSUME NEW q \in Reqs, Reply(q) PROVE NameLeadsToMailbox'
    BY <1>25 DEF Reply, Return, SendStep, Sending, NoCall, NameLeadsToMailbox, BoxTypes,
       Commands, Files, NoFile
<1>26. ASSUME NEW q \in Reqs, SendFails(q) PROVE NameLeadsToMailbox'
    BY <1>26 DEF SendFails, Return, NoCall, NameLeadsToMailbox, BoxTypes, Commands, Files,
       NoFile
<1>27. ASSUME NEW s \in Sends, RecipientDelivers(s) PROVE NameLeadsToMailbox'
    BY <1>27 DEF RecipientDelivers, NameLeadsToMailbox, BoxTypes, Commands, Files, NoFile
<1>28. CASE RecipientDropped
    BY <1>28 DEF RecipientDropped, NameLeadsToMailbox, BoxTypes, Commands, Files, NoFile
<1>29. CASE Stops
    BY <1>29 DEF Stops, RequestsDie, NoCall, NameLeadsToMailbox, BoxTypes, Commands, Files,
       NoFile
<1>30. CASE Elsewhere
    BY <1>30 DEF Elsewhere, NameLeadsToMailbox, BoxTypes, Commands, Files, NoFile
<1>. QED
    BY <1>1, <1>2, <1>3, <1>4, <1>5, <1>6, <1>7, <1>8, <1>9, <1>10, <1>11, <1>12, <1>13, <1>14,
       <1>15, <1>16, <1>17, <1>18, <1>19, <1>20, <1>21, <1>22, <1>23, <1>24, <1>25, <1>26,
       <1>27, <1>28, <1>29, <1>30 DEF BoxStep, MailboxNext, AdminStep, ReqStep

(* Every step keeps the credential of the generation that the state names:   *)
(* it is issued before and a failed write removes no other                   *)
(* (store/outside.go:290).                                                   *)
LEMMA CredentialHeldKept ==
    ASSUME BoxTypes /\ Locks /\ Numbered /\ Admin /\ NameLeadsToMailbox /\ CredentialHeld, BoxStep
    PROVE  CredentialHeld'
<1>. USE MailboxAssumption
<1>1. ASSUME NEW kind \in {"register", "rotate", "remove"}, NEW r \in Regs, NEW n \in Names, Command(kind, r, n) PROVE CredentialHeld'
    BY <1>1 DEF Command, clientVars, NoFile, Known, CredentialHeld, BoxTypes, Commands, Files,
       Of
<1>2. CASE IssueCredential
    BY <1>2 DEF IssueCredential, clientVars, Issued, CredentialHeld, BoxTypes, Commands, Files,
       Known, Of
<1>3. CASE SaveRegistration
  <2>1. names' = names /\ creds' = creds
    BY <1>3 DEF SaveRegistration
  <2>2. CASE admin.kind = "register"
    <3>1. ~Named(admin.reg)
      BY <1>3, <2>2 DEF SaveRegistration, Admin, NoFile, NameLeadsToMailbox, Named
    <3>2. file'[admin.reg].name = admin.name /\ admin.name \in Names
      BY <1>3, <2>2, StateIsSaved
    <3>3. ASSUME NEW r \in Regs, Known(r)' PROVE Of(r)' \in creds
      <4>1. r # admin.reg
        BY <2>1, <3>1, <3>2, <3>3 DEF Known, Named
      <4>. QED
        BY <1>3, <2>1, <3>3, <4>1, StateIsSaved DEF CredentialHeld, Known, Of
    <3>. QED
      BY <2>1, <3>3 DEF CredentialHeld
  <2>3. CASE admin.kind = "rotate"
    <3>1. [reg |-> admin.reg, gen |-> file[admin.reg].gen + 1] \in creds
      BY <1>3, <2>3, IssuedIsNew DEF SaveRegistration, Admin
    <3>2. file'[admin.reg].gen = file[admin.reg].gen + 1
      BY <1>3, <2>3, StateIsSaved DEF BoxTypes, Files
    <3>3. \A r \in Regs : Known(r)' => Of(r)' \in creds
      <4>1. TAKE r \in Regs
      <4>2. CASE r = admin.reg
        BY <3>1, <3>2, <4>2 DEF Of
      <4>3. CASE r # admin.reg
        BY <1>3, <2>1, <4>3, StateIsSaved DEF CredentialHeld, Known, Of
      <4>. QED
        BY <4>2, <4>3
    <3>. QED
      BY <2>1, <3>3 DEF CredentialHeld
  <2>. QED
    BY <1>3, <2>2, <2>3, StateIsSaved
<1>4. CASE ClaimOutside
  <2>1. /\ file[admin.reg].name = admin.name /\ file[admin.reg].gen = 1
        /\ [reg |-> admin.reg, gen |-> 1] \in creds /\ ~Named(admin.reg)
    BY <1>4 DEF ClaimOutside, Admin
  <2>2. SUFFICES ASSUME NEW r \in Regs, Known(r)' PROVE Of(r)' \in creds'
    BY DEF CredentialHeld
  <2>3. CASE file' = file /\ creds' = creds
    <3>1. CASE r = admin.reg
      BY <2>1, <2>3, <3>1 DEF Of
    <3>2. CASE r # admin.reg
      BY <1>4, <2>2, <2>3, <3>2, NameIsClaimed DEF CredentialHeld, Known, Of, Numbered
    <3>. QED
      BY <3>1, <3>2
  <2>4. CASE names' = names /\ file'[admin.reg] = NoFile
    <3>1. r # admin.reg
      BY <2>2, <2>4 DEF Known, NoFile
    <3>2. file'[r] = file[r] /\ creds \ {[reg |-> admin.reg, gen |-> 1]} \subseteq creds'
      BY <1>4, <3>1, NameIsClaimed
    <3>3. Of(r) \in creds /\ Of(r)' = Of(r)
      BY <2>2, <2>4, <3>2 DEF CredentialHeld, Known, Of
    <3>. QED
      BY <3>1, <3>2, <3>3 DEF Of
  <2>. QED
    BY <1>4, <2>3, <2>4, NameIsClaimed
<1>5. CASE RemoveOutsideName
    BY <1>5 DEF RemoveOutsideName, clientVars, CredentialHeld, BoxTypes, Commands, Files,
       Known, Of
<1>6. CASE RemoveData
    BY <1>6 DEF RemoveData, CredentialHeld, BoxTypes, Commands, Files, Known, Of
<1>7. CASE RemoveFile
    BY <1>7 DEF RemoveFile, clientVars, Idle, NoFile, CredentialHeld, BoxTypes, Commands,
       Files, Known, Of
<1>8. CASE SaveFails
  <2>1. names' = names /\ file' = file /\ creds' = creds \ {[reg |-> admin.reg, gen |-> Issued]}
    BY <1>8 DEF SaveFails
  <2>2. SUFFICES ASSUME NEW r \in Regs, Known(r) PROVE Of(r) \in creds'
    BY <2>1 DEF CredentialHeld, Known, Of
  <2>3. Of(r) \in creds
    BY <2>2 DEF CredentialHeld
  <2>4. Of(r) # [reg |-> admin.reg, gen |-> Issued]
    <3>1. CASE r # admin.reg
      BY <3>1 DEF Of
    <3>2. CASE r = admin.reg /\ admin.kind = "register"
      BY <1>8, <2>2, <3>2 DEF SaveFails, Admin, Known, NoFile
    <3>3. CASE r = admin.reg /\ admin.kind = "rotate"
      <4>1. Issued = file[r].gen + 1 /\ file[r].gen \in Nat
        BY <1>8, <3>3, IssuedIsNew DEF SaveFails, BoxTypes, Files
      <4>. QED
        BY <4>1 DEF Of
    <3>. QED
      BY <1>8, <3>1, <3>2, <3>3 DEF SaveFails, Admin
  <2>. QED
    BY <2>1, <2>3, <2>4
<1>9. CASE AdminDies
    BY <1>9 DEF AdminDies, clientVars, Idle, CredentialHeld, BoxTypes, Commands, Files, Known,
       Of
<1>10. ASSUME NEW n \in Names, NativeClaims(n) PROVE CredentialHeld'
    BY <1>10 DEF NativeClaims, clientVars, CredentialHeld, BoxTypes, Commands, Files, Known, Of
<1>11. ASSUME NEW m \in Mails, QueueOutside(m) PROVE CredentialHeld'
    BY <1>11 DEF QueueOutside, clientVars, Known, CredentialHeld, BoxTypes, Commands, Files, Of
<1>12. ASSUME NEW m \in Mails, NEW r \in Regs, Compose(m, r) PROVE CredentialHeld'
    BY <1>12 DEF Compose, clientVars, Known, CredentialHeld, BoxTypes, Commands, Files, Of
<1>13. ASSUME NEW q \in Reqs, NEW p \in Principals, NEW kind \in {"ack", "send"},
             NEW key \in Keys \cup {None}, NEW ids \in SUBSET Mails, Asks(q, p, kind, key, ids) PROVE CredentialHeld'
    BY <1>13 DEF Asks, Begin, clientVars, NoCall, Current, Known, CredentialHeld, BoxTypes,
       Commands, Files, Of
<1>14. ASSUME NEW q \in Reqs, WithOutside(q) PROVE CredentialHeld'
    BY <1>14 DEF WithOutside, clientVars, Return, Current, Known, NoCall, CredentialHeld,
       BoxTypes, Commands, Files, Of
<1>15. ASSUME NEW q \in Reqs, AckRead(q) PROVE CredentialHeld'
    BY <1>15 DEF AckRead, clientVars, CredentialHeld, BoxTypes, Commands, Files, Known, Of
<1>16. ASSUME NEW q \in Reqs, AckWrite(q) PROVE CredentialHeld'
    BY <1>16 DEF AckWrite, clientVars, Return, NoCall, CredentialHeld, BoxTypes, Commands,
       Files, Known, Of
<1>17. ASSUME NEW q \in Reqs, SendSettled(q) PROVE CredentialHeld'
    BY <1>17 DEF SendSettled, clientVars, SendStep, Sending, CredentialHeld, BoxTypes,
       Commands, Files, Known, Of
<1>18. ASSUME NEW q \in Reqs, SaveIntent(q) PROVE CredentialHeld'
    BY <1>18 DEF SaveIntent, Return, SendStep, Sending, NoCall, CredentialHeld, BoxTypes,
       Commands, Files, Known, Of
<1>19. ASSUME NEW q \in Reqs, SendAgain(q) PROVE CredentialHeld'
    BY <1>19 DEF SendAgain, clientVars, SendStep, Sending, CredentialHeld, BoxTypes, Commands,
       Files, Known, Of
<1>20. ASSUME NEW q \in Reqs, TryRecipient(q) PROVE CredentialHeld'
    BY <1>20 DEF TryRecipient, Return, SendStep, NoCall, CredentialHeld, BoxTypes, Commands,
       Files, Known, Of
<1>21. ASSUME NEW q \in Reqs, Look(q) PROVE CredentialHeld'
    BY <1>21 DEF Look, clientVars, SendStep, Sending, Published, CredentialHeld, BoxTypes,
       Commands, Files, Known, Of
<1>22. ASSUME NEW q \in Reqs, Attempt(q) PROVE CredentialHeld'
    BY <1>22 DEF Attempt, SendStep, Sending, CredentialHeld, BoxTypes, Commands, Files, Known,
       Of
<1>23. ASSUME NEW q \in Reqs, PublishSend(q) PROVE CredentialHeld'
    BY <1>23 DEF PublishSend, SendStep, Sending, CredentialHeld, BoxTypes, Commands, Files,
       Known, Of
<1>24. ASSUME NEW q \in Reqs, SettleSend(q) PROVE CredentialHeld'
    BY <1>24 DEF SettleSend, SendStep, Sending, CredentialHeld, BoxTypes, Commands, Files,
       Known, Of
<1>25. ASSUME NEW q \in Reqs, Reply(q) PROVE CredentialHeld'
    BY <1>25 DEF Reply, Return, SendStep, Sending, NoCall, CredentialHeld, BoxTypes, Commands,
       Files, Known, Of
<1>26. ASSUME NEW q \in Reqs, SendFails(q) PROVE CredentialHeld'
    BY <1>26 DEF SendFails, Return, NoCall, CredentialHeld, BoxTypes, Commands, Files, Known, Of
<1>27. ASSUME NEW s \in Sends, RecipientDelivers(s) PROVE CredentialHeld'
    BY <1>27 DEF RecipientDelivers, CredentialHeld, BoxTypes, Commands, Files, Known, Of
<1>28. CASE RecipientDropped
    BY <1>28 DEF RecipientDropped, CredentialHeld, BoxTypes, Commands, Files, Known, Of
<1>29. CASE Stops
    BY <1>29 DEF Stops, RequestsDie, NoCall, CredentialHeld, BoxTypes, Commands, Files, Known,
       Of
<1>30. CASE Elsewhere
    BY <1>30 DEF Elsewhere, CredentialHeld, BoxTypes, Commands, Files, Known, Of
<1>. QED
    BY <1>1, <1>2, <1>3, <1>4, <1>5, <1>6, <1>7, <1>8, <1>9, <1>10, <1>11, <1>12, <1>13, <1>14,
       <1>15, <1>16, <1>17, <1>18, <1>19, <1>20, <1>21, <1>22, <1>23, <1>24, <1>25, <1>26,
       <1>27, <1>28, <1>29, <1>30 DEF BoxStep, MailboxNext, AdminStep, ReqStep

(* Every step leaves a registration that may be registered without mail,     *)
(* sends or receipts.                                                        *)
LEMMA FreshKept ==
    ASSUME BoxTypes /\ Locks /\ Numbered /\ Admin /\ NameLeadsToMailbox /\ CredentialHeld /\ Fresh /\ SendsHold /\ RequestsHold, BoxStep
    PROVE  Fresh'
<1>. USE MailboxAssumption
<1>1. ASSUME NEW kind \in {"register", "rotate", "remove"}, NEW r \in Regs, NEW n \in Names, Command(kind, r, n) PROVE Fresh'
  <2>1. mail' = mail /\ pub' = pub /\ told' = told /\ intents' = intents /\ creds' = creds
    BY <1>1 DEF Command, clientVars
  <2>2. kind = "register" => \A g \in Gens : [reg |-> r, gen |-> g] \notin creds
    BY <1>1 DEF Command
  <2>3. admin'.reg = r /\ admin'.kind = kind
    BY <1>1 DEF Command
  <2>4. \A o \in Regs : Issuable(o)' => Issuable(o)
    BY <2>1, <2>2, <2>3 DEF Issuable, Registering
  <2>. QED
    BY <2>1, <2>4 DEF Fresh
<1>2. CASE IssueCredential
    BY <1>2 DEF IssueCredential, clientVars, Issued, Fresh, Issuable, Registering, BoxTypes,
       Commands, Letters, Calls, Sends
<1>3. CASE SaveRegistration
    BY <1>3 DEF SaveRegistration, clientVars, Issued, Idle, Fresh, Issuable, Registering,
       BoxTypes, Commands, Letters, Calls, Sends
<1>4. CASE ClaimOutside
  <2>1. mail' = mail /\ pub' = pub /\ told' = told /\ intents' = intents
    BY <1>4 DEF ClaimOutside, clientVars
  <2>2. Registering(admin.reg) /\ admin' = Idle
    BY <1>4 DEF ClaimOutside, Registering, Admin
  <2>3. \A c \in creds : c.reg # admin.reg => c \in creds'
    BY <1>4, NameIsClaimed
  <2>4. \A o \in Regs : Issuable(o)' => Issuable(o)
    BY <2>2, <2>3 DEF Issuable, Registering, Idle
  <2>. QED
    BY <2>1, <2>4 DEF Fresh
<1>5. CASE RemoveOutsideName
    BY <1>5 DEF RemoveOutsideName, clientVars, Fresh, Issuable, Registering, BoxTypes,
       Commands, Letters, Calls, Sends
<1>6. CASE RemoveData
  <2>1. mail' = mail /\ pub' = pub /\ told' = told /\ creds' = creds
    BY <1>6 DEF RemoveData
  <2>2. \A r \in Regs : Issuable(r)' => Issuable(r)
    BY <1>6 DEF RemoveData, Issuable, Registering, BoxTypes, Commands
  <2>3. \A s \in Sends : intents'[s] \in {intents[s], "none"}
    BY <1>6 DEF RemoveData
  <2>. QED
    BY <2>1, <2>2, <2>3 DEF Fresh, Sends
<1>7. CASE RemoveFile
    BY <1>7 DEF RemoveFile, clientVars, Idle, NoFile, Fresh, Issuable, Registering, BoxTypes,
       Commands, Letters, Calls, Sends
<1>8. CASE SaveFails
  <2>1. mail' = mail /\ pub' = pub /\ told' = told /\ intents' = intents /\ admin' = Idle
        /\ creds' = creds \ {[reg |-> admin.reg, gen |-> Issued]}
    BY <1>8 DEF SaveFails, clientVars
  <2>2. ASSUME NEW o \in Regs, Issuable(o)' PROVE Issuable(o)
    <3>1. \A g \in Gens : [reg |-> o, gen |-> g] \notin creds'
      BY <2>1, <2>2 DEF Issuable, Registering, Idle
    <3>2. CASE o # admin.reg
      BY <2>1, <3>1, <3>2 DEF Issuable
    <3>3. CASE o = admin.reg /\ admin.kind = "register"
      BY <1>8, <3>3 DEF SaveFails, Issuable, Registering
    <3>4. CASE o = admin.reg /\ admin.kind = "rotate"
      <4>1. Of(o) \in creds /\ file[o].gen \in Gens
        BY <1>8, <3>4, KnownIsIssued DEF SaveFails, Admin
      <4>2. Issued = file[o].gen + 1 /\ file[o].gen \in Nat
        BY <1>8, <3>4, IssuedIsNew DEF SaveFails, BoxTypes, Files
      <4>. QED
        BY <2>1, <3>1, <4>1, <4>2 DEF Of
    <3>. QED
      BY <1>8, <3>2, <3>3, <3>4 DEF SaveFails, Admin
  <2>. QED
    BY <2>1, <2>2 DEF Fresh
<1>9. CASE AdminDies
    BY <1>9 DEF AdminDies, clientVars, Idle, Fresh, Issuable, Registering, BoxTypes, Commands,
       Letters, Calls, Sends
<1>10. ASSUME NEW n \in Names, NativeClaims(n) PROVE Fresh'
    BY <1>10 DEF NativeClaims, clientVars, Fresh, Issuable, Registering, BoxTypes, Commands,
       Letters, Calls, Sends
<1>11. ASSUME NEW m \in Mails, QueueOutside(m) PROVE Fresh'
  <2>1. pub' = pub /\ told' = told /\ intents' = intents /\ creds' = creds /\ admin' = admin
    BY <1>11 DEF QueueOutside, clientVars
  <2>2. \A r \in Regs : Issuable(r)' => Issuable(r)
    BY <2>1 DEF Issuable, Registering
  <2>. QED
    BY <1>11, <2>1, <2>2, MailIsAdded DEF Fresh
<1>12. ASSUME NEW m \in Mails, NEW r \in Regs, Compose(m, r) PROVE Fresh'
  <2>1. pub' = pub /\ told' = told /\ intents' = intents /\ creds' = creds /\ admin' = admin
    BY <1>12 DEF Compose, clientVars
  <2>2. \A o \in Regs : Issuable(o)' => Issuable(o)
    BY <2>1 DEF Issuable, Registering
  <2>3. ~Issuable(r)
    BY <1>12, KnownIsIssued DEF Compose
  <2>4. \A o \in Mails : mail'[o].to \in {mail[o].to, r}
    BY <1>12 DEF Compose, BoxTypes
  <2>. QED
    BY <2>1, <2>2, <2>3, <2>4 DEF Fresh
<1>13. ASSUME NEW q \in Reqs, NEW p \in Principals, NEW kind \in {"ack", "send"},
             NEW key \in Keys \cup {None}, NEW ids \in SUBSET Mails, Asks(q, p, kind, key, ids) PROVE Fresh'
    BY <1>13 DEF Asks, Begin, clientVars, NoCall, Current, Known, Fresh, Issuable, Registering,
       BoxTypes, Commands, Letters, Calls, Sends
<1>14. ASSUME NEW q \in Reqs, WithOutside(q) PROVE Fresh'
    BY <1>14, SMTT(30) DEF WithOutside, clientVars, Return, Current, Known, NoCall, Fresh, Issuable,
       Registering, BoxTypes, Commands, Letters, Calls, Sends
<1>15. ASSUME NEW q \in Reqs, AckRead(q) PROVE Fresh'
    BY <1>15 DEF AckRead, clientVars, Fresh, Issuable, Registering, BoxTypes, Commands,
       Letters, Calls, Sends
<1>16. ASSUME NEW q \in Reqs, AckWrite(q) PROVE Fresh'
  <2>1. pub' = pub /\ told' = told /\ intents' = intents /\ creds' = creds /\ admin' = admin
    BY <1>16 DEF AckWrite, clientVars
  <2>2. \A r \in Regs : Issuable(r)' => Issuable(r)
    BY <2>1 DEF Issuable, Registering
  <2>. QED
    BY <1>16, <2>1, <2>2, MailIsTaken DEF Fresh
<1>17. ASSUME NEW q \in Reqs, SendSettled(q) PROVE Fresh'
    BY <1>17 DEF SendSettled, clientVars, SendStep, Sending, Fresh, Issuable, Registering,
       BoxTypes, Commands, Letters, Calls, Sends
<1>18. ASSUME NEW q \in Reqs, SaveIntent(q) PROVE Fresh'
  <2>1. pub' = pub /\ told' = told /\ mail' = mail /\ creds' = creds /\ admin' = admin
    BY <1>18 DEF SaveIntent
  <2>2. \A r \in Regs : Issuable(r)' => Issuable(r)
    BY <2>1 DEF Issuable, Registering
  <2>3. req[q].p.reg \in Regs /\ Known(req[q].p.reg) /\ Sending(q) \in Sends
    BY <1>18, SendingIsSend DEF SaveIntent, SendStep, Keyed, RequestsHold, RequestHolds, Current
  <2>4. ~Issuable(req[q].p.reg)
    BY <2>3, KnownIsIssued
  <2>5. \A s \in Sends : s # Sending(q) => intents'[s] = intents[s]
    BY <1>18, <2>3 DEF SaveIntent, BoxTypes
  <2>6. \A r \in Regs, k \in Keys : r # req[q].p.reg => <<r, k>> \in Sends /\ <<r, k>> # Sending(q)
    BY DEF Sends, Sending
  <2>. QED
    BY <2>1, <2>2, <2>4, <2>5, <2>6 DEF Fresh
<1>19. ASSUME NEW q \in Reqs, SendAgain(q) PROVE Fresh'
    BY <1>19 DEF SendAgain, clientVars, SendStep, Sending, Fresh, Issuable, Registering,
       BoxTypes, Commands, Letters, Calls, Sends
<1>20. ASSUME NEW q \in Reqs, TryRecipient(q) PROVE Fresh'
    BY <1>20 DEF TryRecipient, Return, SendStep, NoCall, Fresh, Issuable, Registering,
       BoxTypes, Commands, Letters, Calls, Sends
<1>21. ASSUME NEW q \in Reqs, Look(q) PROVE Fresh'
    BY <1>21 DEF Look, clientVars, SendStep, Sending, Published, Fresh, Issuable, Registering,
       BoxTypes, Commands, Letters, Calls, Sends
<1>22. ASSUME NEW q \in Reqs, Attempt(q) PROVE Fresh'
  <2>1. pub' = pub /\ told' = told /\ mail' = mail /\ creds' = creds /\ admin' = admin
    BY <1>22 DEF Attempt
  <2>2. \A r \in Regs : Issuable(r)' => Issuable(r)
    BY <2>1 DEF Issuable, Registering
  <2>3. req[q].p.reg \in Regs /\ Known(req[q].p.reg) /\ Sending(q) \in Sends
    BY <1>22, SendingIsSend DEF Attempt, SendStep, Keyed, RequestsHold, RequestHolds, Current
  <2>4. ~Issuable(req[q].p.reg)
    BY <2>3, KnownIsIssued
  <2>5. \A s \in Sends : s # Sending(q) => intents'[s] = intents[s]
    BY <1>22, <2>3 DEF Attempt, BoxTypes
  <2>6. \A r \in Regs, k \in Keys : r # req[q].p.reg => <<r, k>> \in Sends /\ <<r, k>> # Sending(q)
    BY DEF Sends, Sending
  <2>. QED
    BY <2>1, <2>2, <2>4, <2>5, <2>6 DEF Fresh
<1>23. ASSUME NEW q \in Reqs, PublishSend(q) PROVE Fresh'
  <2>1. told' = told /\ intents' = intents /\ mail' = mail /\ creds' = creds /\ admin' = admin
    BY <1>23 DEF PublishSend
  <2>2. \A r \in Regs : Issuable(r)' => Issuable(r)
    BY <2>1 DEF Issuable, Registering
  <2>3. req[q].p.reg \in Regs /\ Known(req[q].p.reg) /\ Sending(q) \in Sends
    BY <1>23, SendingIsSend DEF PublishSend, SendStep, Keyed, RequestsHold, RequestHolds, Current
  <2>4. ~Issuable(req[q].p.reg)
    BY <2>3, KnownIsIssued
  <2>5. \A s \in Sends : s # Sending(q) => pub'[s] = pub[s]
    BY <1>23, <2>3 DEF PublishSend, BoxTypes
  <2>6. \A r \in Regs, k \in Keys : r # req[q].p.reg => <<r, k>> \in Sends /\ <<r, k>> # Sending(q)
    BY DEF Sends, Sending
  <2>. QED
    BY <2>1, <2>2, <2>4, <2>5, <2>6 DEF Fresh
<1>24. ASSUME NEW q \in Reqs, SettleSend(q) PROVE Fresh'
  <2>1. pub' = pub /\ told' = told /\ mail' = mail /\ creds' = creds /\ admin' = admin
    BY <1>24 DEF SettleSend
  <2>2. \A r \in Regs : Issuable(r)' => Issuable(r)
    BY <2>1 DEF Issuable, Registering
  <2>3. req[q].p.reg \in Regs /\ Known(req[q].p.reg) /\ Sending(q) \in Sends
    BY <1>24, SendingIsSend DEF SettleSend, SendStep, Keyed, RequestsHold, RequestHolds, Current
  <2>4. ~Issuable(req[q].p.reg)
    BY <2>3, KnownIsIssued
  <2>5. \A s \in Sends : s # Sending(q) => intents'[s] = intents[s]
    BY <1>24, <2>3 DEF SettleSend, BoxTypes
  <2>6. \A r \in Regs, k \in Keys : r # req[q].p.reg => <<r, k>> \in Sends /\ <<r, k>> # Sending(q)
    BY DEF Sends, Sending
  <2>. QED
    BY <2>1, <2>2, <2>4, <2>5, <2>6 DEF Fresh
<1>25. ASSUME NEW q \in Reqs, Reply(q) PROVE Fresh'
  <2>1. pub' = pub /\ intents' = intents /\ mail' = mail /\ creds' = creds /\ admin' = admin
    BY <1>25 DEF Reply
  <2>2. \A r \in Regs : Issuable(r)' => Issuable(r)
    BY <2>1 DEF Issuable, Registering
  <2>3. req[q].p.reg \in Regs /\ Known(req[q].p.reg) /\ Sending(q) \in Sends
    BY <1>25, SendingIsSend DEF Reply, SendStep, Keyed, RequestsHold, RequestHolds, Current
  <2>4. ~Issuable(req[q].p.reg)
    BY <2>3, KnownIsIssued
  <2>5. \A s \in Sends : s # Sending(q) => told'[s] = told[s]
    BY <1>25, <2>3 DEF Reply, BoxTypes
  <2>6. \A r \in Regs, k \in Keys : r # req[q].p.reg => <<r, k>> \in Sends /\ <<r, k>> # Sending(q)
    BY DEF Sends, Sending
  <2>. QED
    BY <2>1, <2>2, <2>4, <2>5, <2>6 DEF Fresh
<1>26. ASSUME NEW q \in Reqs, SendFails(q) PROVE Fresh'
    BY <1>26 DEF SendFails, Return, NoCall, Fresh, Issuable, Registering, BoxTypes, Commands,
       Letters, Calls, Sends
<1>27. ASSUME NEW s \in Sends, RecipientDelivers(s) PROVE Fresh'
    BY <1>27 DEF RecipientDelivers, Fresh, Issuable, Registering, BoxTypes, Commands, Letters,
       Calls, Sends
<1>28. CASE RecipientDropped
    BY <1>28 DEF RecipientDropped, Fresh, Issuable, Registering, BoxTypes, Commands, Letters,
       Calls, Sends
<1>29. CASE Stops
    BY <1>29 DEF Stops, RequestsDie, NoCall, Fresh, Issuable, Registering, BoxTypes, Commands,
       Letters, Calls, Sends
<1>30. CASE Elsewhere
    BY <1>30 DEF Elsewhere, Fresh, Issuable, Registering, BoxTypes, Commands, Letters, Calls,
       Sends
<1>. QED
    BY <1>1, <1>2, <1>3, <1>4, <1>5, <1>6, <1>7, <1>8, <1>9, <1>10, <1>11, <1>12, <1>13, <1>14,
       <1>15, <1>16, <1>17, <1>18, <1>19, <1>20, <1>21, <1>22, <1>23, <1>24, <1>25, <1>26,
       <1>27, <1>28, <1>29, <1>30 DEF BoxStep, MailboxNext, AdminStep, ReqStep

(* A registration becomes known only when its name is claimed.               *)
LEMMA KnownSince ==
    ASSUME BoxTypes /\ Locks /\ Numbered /\ Admin /\ NameLeadsToMailbox, BoxStep
    PROVE  \A o \in Regs : Known(o)' => Known(o) \/ (ClaimOutside /\ o = admin.reg)
<1>. USE MailboxAssumption
<1>1. ASSUME NEW kind \in {"register", "rotate", "remove"}, NEW r \in Regs, NEW n \in Names, Command(kind, r, n) PROVE \A o \in Regs : Known(o)' => Known(o) \/ (ClaimOutside /\ o = admin.reg)
    BY <1>1 DEF Command, clientVars, NoFile, Known, BoxTypes, Files, Commands
<1>2. CASE IssueCredential
    BY <1>2 DEF IssueCredential, clientVars, Issued, Known, BoxTypes, Files, Commands
<1>3. CASE SaveRegistration
  <2>1. names' = names
    BY <1>3 DEF SaveRegistration
  <2>2. CASE admin.kind = "register"
    <3>1. ~Named(admin.reg) /\ file'[admin.reg].name \in Names
      BY <1>3, <2>2, StateIsSaved DEF SaveRegistration, Admin, NoFile, NameLeadsToMailbox, Named
    <3>. QED
      BY <1>3, <2>1, <3>1, StateIsSaved DEF Known, Named
  <2>3. CASE admin.kind = "rotate"
    <3>1. SameName(admin.reg)
      BY <1>3, <2>3, StateIsSaved DEF SameName, BoxTypes, Files
    <3>. QED
      BY <1>3, <2>1, <3>1, StateIsSaved DEF Known, SameName
  <2>. QED
    BY <1>3, <2>2, <2>3, StateIsSaved
<1>4. CASE ClaimOutside
  <2>1. SUFFICES ASSUME NEW o \in Regs, Known(o)', o # admin.reg PROVE Known(o)
    BY <1>4
  <2>. QED
    BY <1>4, <2>1, NameIsClaimed DEF Known, Numbered
<1>5. CASE RemoveOutsideName
    BY <1>5 DEF RemoveOutsideName, clientVars, Known, BoxTypes, Files, Commands
<1>6. CASE RemoveData
    BY <1>6 DEF RemoveData, Known, BoxTypes, Files, Commands
<1>7. CASE RemoveFile
    BY <1>7 DEF RemoveFile, clientVars, Idle, NoFile, Known, BoxTypes, Files, Commands
<1>8. CASE SaveFails
    BY <1>8 DEF SaveFails, clientVars, Issued, Idle, Known, BoxTypes, Files, Commands
<1>9. CASE AdminDies
    BY <1>9 DEF AdminDies, clientVars, Idle, Known, BoxTypes, Files, Commands
<1>10. ASSUME NEW n \in Names, NativeClaims(n) PROVE \A o \in Regs : Known(o)' => Known(o) \/ (ClaimOutside /\ o = admin.reg)
    BY <1>10 DEF NativeClaims, clientVars, Known, BoxTypes, Files, Commands
<1>11. ASSUME NEW m \in Mails, QueueOutside(m) PROVE \A o \in Regs : Known(o)' => Known(o) \/ (ClaimOutside /\ o = admin.reg)
    BY <1>11 DEF QueueOutside, clientVars, Known, BoxTypes, Files, Commands
<1>12. ASSUME NEW m \in Mails, NEW r \in Regs, Compose(m, r) PROVE \A o \in Regs : Known(o)' => Known(o) \/ (ClaimOutside /\ o = admin.reg)
    BY <1>12 DEF Compose, clientVars, Known, BoxTypes, Files, Commands
<1>13. ASSUME NEW q \in Reqs, NEW p \in Principals, NEW kind \in {"ack", "send"},
             NEW key \in Keys \cup {None}, NEW ids \in SUBSET Mails, Asks(q, p, kind, key, ids) PROVE \A o \in Regs : Known(o)' => Known(o) \/ (ClaimOutside /\ o = admin.reg)
    BY <1>13 DEF Asks, Begin, clientVars, NoCall, Current, Known, BoxTypes, Files, Commands
<1>14. ASSUME NEW q \in Reqs, WithOutside(q) PROVE \A o \in Regs : Known(o)' => Known(o) \/ (ClaimOutside /\ o = admin.reg)
    BY <1>14 DEF WithOutside, clientVars, Return, Current, Known, NoCall, BoxTypes, Files,
       Commands
<1>15. ASSUME NEW q \in Reqs, AckRead(q) PROVE \A o \in Regs : Known(o)' => Known(o) \/ (ClaimOutside /\ o = admin.reg)
    BY <1>15 DEF AckRead, clientVars, Known, BoxTypes, Files, Commands
<1>16. ASSUME NEW q \in Reqs, AckWrite(q) PROVE \A o \in Regs : Known(o)' => Known(o) \/ (ClaimOutside /\ o = admin.reg)
    BY <1>16 DEF AckWrite, clientVars, Return, NoCall, Known, BoxTypes, Files, Commands
<1>17. ASSUME NEW q \in Reqs, SendSettled(q) PROVE \A o \in Regs : Known(o)' => Known(o) \/ (ClaimOutside /\ o = admin.reg)
    BY <1>17 DEF SendSettled, clientVars, SendStep, Sending, Known, BoxTypes, Files, Commands
<1>18. ASSUME NEW q \in Reqs, SaveIntent(q) PROVE \A o \in Regs : Known(o)' => Known(o) \/ (ClaimOutside /\ o = admin.reg)
    BY <1>18 DEF SaveIntent, Return, SendStep, Sending, NoCall, Known, BoxTypes, Files, Commands
<1>19. ASSUME NEW q \in Reqs, SendAgain(q) PROVE \A o \in Regs : Known(o)' => Known(o) \/ (ClaimOutside /\ o = admin.reg)
    BY <1>19 DEF SendAgain, clientVars, SendStep, Sending, Known, BoxTypes, Files, Commands
<1>20. ASSUME NEW q \in Reqs, TryRecipient(q) PROVE \A o \in Regs : Known(o)' => Known(o) \/ (ClaimOutside /\ o = admin.reg)
    BY <1>20 DEF TryRecipient, Return, SendStep, NoCall, Known, BoxTypes, Files, Commands
<1>21. ASSUME NEW q \in Reqs, Look(q) PROVE \A o \in Regs : Known(o)' => Known(o) \/ (ClaimOutside /\ o = admin.reg)
    BY <1>21 DEF Look, clientVars, SendStep, Sending, Published, Known, BoxTypes, Files,
       Commands
<1>22. ASSUME NEW q \in Reqs, Attempt(q) PROVE \A o \in Regs : Known(o)' => Known(o) \/ (ClaimOutside /\ o = admin.reg)
    BY <1>22 DEF Attempt, SendStep, Sending, Known, BoxTypes, Files, Commands
<1>23. ASSUME NEW q \in Reqs, PublishSend(q) PROVE \A o \in Regs : Known(o)' => Known(o) \/ (ClaimOutside /\ o = admin.reg)
    BY <1>23 DEF PublishSend, SendStep, Sending, Known, BoxTypes, Files, Commands
<1>24. ASSUME NEW q \in Reqs, SettleSend(q) PROVE \A o \in Regs : Known(o)' => Known(o) \/ (ClaimOutside /\ o = admin.reg)
    BY <1>24 DEF SettleSend, SendStep, Sending, Known, BoxTypes, Files, Commands
<1>25. ASSUME NEW q \in Reqs, Reply(q) PROVE \A o \in Regs : Known(o)' => Known(o) \/ (ClaimOutside /\ o = admin.reg)
    BY <1>25 DEF Reply, Return, SendStep, Sending, NoCall, Known, BoxTypes, Files, Commands
<1>26. ASSUME NEW q \in Reqs, SendFails(q) PROVE \A o \in Regs : Known(o)' => Known(o) \/ (ClaimOutside /\ o = admin.reg)
    BY <1>26 DEF SendFails, Return, NoCall, Known, BoxTypes, Files, Commands
<1>27. ASSUME NEW s \in Sends, RecipientDelivers(s) PROVE \A o \in Regs : Known(o)' => Known(o) \/ (ClaimOutside /\ o = admin.reg)
    BY <1>27 DEF RecipientDelivers, Known, BoxTypes, Files, Commands
<1>28. CASE RecipientDropped
    BY <1>28 DEF RecipientDropped, Known, BoxTypes, Files, Commands
<1>29. CASE Stops
    BY <1>29 DEF Stops, RequestsDie, NoCall, Known, BoxTypes, Files, Commands
<1>30. CASE Elsewhere
    BY <1>30 DEF Elsewhere, Known, BoxTypes, Files, Commands
<1>. QED
    BY <1>1, <1>2, <1>3, <1>4, <1>5, <1>6, <1>7, <1>8, <1>9, <1>10, <1>11, <1>12, <1>13, <1>14,
       <1>15, <1>16, <1>17, <1>18, <1>19, <1>20, <1>21, <1>22, <1>23, <1>24, <1>25, <1>26,
       <1>27, <1>28, <1>29, <1>30 DEF BoxStep, MailboxNext, AdminStep, ReqStep

(* Every step keeps what the intent of a send says of its envelope and of    *)
(* the answers given for it.                                                 *)
LEMMA SendsHoldKept ==
    ASSUME BoxTypes /\ Locks /\ Numbered /\ Admin /\ NameLeadsToMailbox /\ Fresh /\ SendsHold /\ RequestsHold, BoxStep
    PROVE  SendsHold'
<1>. USE MailboxAssumption
<1>1. ASSUME NEW kind \in {"register", "rotate", "remove"}, NEW r \in Regs, NEW n \in Names, Command(kind, r, n) PROVE SendsHold'
    BY <1>1 DEF Command, clientVars, NoFile, Known, SendsHold, BoxTypes, Files, Sends
<1>2. CASE IssueCredential
    BY <1>2 DEF IssueCredential, clientVars, Issued, SendsHold, Known, BoxTypes, Files, Sends
<1>3. CASE SaveRegistration
  <2>1. pub' = pub /\ told' = told /\ intents' = intents /\ inbox' = inbox
    BY <1>3 DEF SaveRegistration, clientVars
  <2>2. \A s \in Sends : Known(s[1])' => Known(s[1])
    BY <1>3, SendIs, KnownSince DEF BoxStep, MailboxNext, AdminStep, ClaimOutside, SaveRegistration
  <2>. QED
    BY <2>1, <2>2 DEF SendsHold
<1>4. CASE ClaimOutside
  <2>1. pub' = pub /\ told' = told /\ intents' = intents /\ inbox' = inbox
    BY <1>4 DEF ClaimOutside, clientVars
  <2>2. Issuable(admin.reg) /\ admin.reg \in Regs
    BY <1>4 DEF ClaimOutside, Issuable, Registering, Admin
  <2>3. \A s \in Sends : s[1] = admin.reg => pub[s] = 0 /\ told[s] = "none" /\ intents[s] = "none"
    BY <2>2, SendIs DEF Fresh
  <2>4. \A s \in Sends : Known(s[1])' => Known(s[1]) \/ s[1] = admin.reg
    BY <1>4, SendIs, KnownSince DEF BoxStep, MailboxNext, AdminStep
  <2>. QED
    BY <2>1, <2>3, <2>4 DEF SendsHold
<1>5. CASE RemoveOutsideName
    BY <1>5 DEF RemoveOutsideName, clientVars, SendsHold, Known, BoxTypes, Files, Sends
<1>6. CASE RemoveData
  <2>1. pub' = pub /\ told' = told /\ inbox' = inbox /\ file' = file /\ names' = names
    BY <1>6 DEF RemoveData
  <2>2. admin.reg \in Regs /\ ~Known(admin.reg)
    BY <1>6 DEF RemoveData, Admin, Known, Named, Numbered
  <2>3. \A s \in Sends : s[1] # admin.reg => intents'[s] = intents[s]
    BY <1>6 DEF RemoveData
  <2>4. \A s \in Sends : Known(s[1])' => Known(s[1]) /\ intents'[s] = intents[s]
    BY <2>1, <2>2, <2>3 DEF Known
  <2>. QED
    BY <2>1, <2>4 DEF SendsHold
<1>7. CASE RemoveFile
    BY <1>7 DEF RemoveFile, clientVars, Idle, NoFile, SendsHold, Known, BoxTypes, Files, Sends
<1>8. CASE SaveFails
    BY <1>8 DEF SaveFails, clientVars, Issued, Idle, SendsHold, Known, BoxTypes, Files, Sends
<1>9. CASE AdminDies
    BY <1>9 DEF AdminDies, clientVars, Idle, SendsHold, Known, BoxTypes, Files, Sends
<1>10. ASSUME NEW n \in Names, NativeClaims(n) PROVE SendsHold'
    BY <1>10 DEF NativeClaims, clientVars, SendsHold, Known, BoxTypes, Files, Sends
<1>11. ASSUME NEW m \in Mails, QueueOutside(m) PROVE SendsHold'
    BY <1>11 DEF QueueOutside, clientVars, Known, SendsHold, BoxTypes, Files, Sends
<1>12. ASSUME NEW m \in Mails, NEW r \in Regs, Compose(m, r) PROVE SendsHold'
    BY <1>12 DEF Compose, clientVars, Known, SendsHold, BoxTypes, Files, Sends
<1>13. ASSUME NEW q \in Reqs, NEW p \in Principals, NEW kind \in {"ack", "send"},
             NEW key \in Keys \cup {None}, NEW ids \in SUBSET Mails, Asks(q, p, kind, key, ids) PROVE SendsHold'
    BY <1>13 DEF Asks, Begin, clientVars, NoCall, Current, Known, SendsHold, BoxTypes, Files,
       Sends
<1>14. ASSUME NEW q \in Reqs, WithOutside(q) PROVE SendsHold'
    BY <1>14 DEF WithOutside, clientVars, Return, Current, Known, NoCall, SendsHold, BoxTypes,
       Files, Sends
<1>15. ASSUME NEW q \in Reqs, AckRead(q) PROVE SendsHold'
    BY <1>15 DEF AckRead, clientVars, SendsHold, Known, BoxTypes, Files, Sends
<1>16. ASSUME NEW q \in Reqs, AckWrite(q) PROVE SendsHold'
    BY <1>16 DEF AckWrite, clientVars, Return, NoCall, SendsHold, Known, BoxTypes, Files, Sends
<1>17. ASSUME NEW q \in Reqs, SendSettled(q) PROVE SendsHold'
    BY <1>17 DEF SendSettled, clientVars, SendStep, Sending, SendsHold, Known, BoxTypes, Files,
       Sends
<1>18. ASSUME NEW q \in Reqs, SaveIntent(q) PROVE SendsHold'
  <2>1. pub' = pub /\ told' = told /\ inbox' = inbox /\ file' = file /\ names' = names
    BY <1>18 DEF SaveIntent
  <2>2. Sending(q) \in Sends /\ intents[Sending(q)] = "none"
    BY <1>18, SendingIsSend DEF SaveIntent, SendStep, Keyed
  <2>3. /\ \A s \in Sends \ {Sending(q)} : intents'[s] = intents[s]
        /\ intents'[Sending(q)] \in {"none", "saved"}
    BY <1>18, <2>2 DEF SaveIntent, BoxTypes
  <2>4. \A s \in Sends : Known(s[1])' <=> Known(s[1])
    BY <2>1 DEF Known
  <2>. QED
    BY <2>1, <2>2, <2>3, <2>4 DEF SendsHold, BoxTypes
<1>19. ASSUME NEW q \in Reqs, SendAgain(q) PROVE SendsHold'
    BY <1>19 DEF SendAgain, clientVars, SendStep, Sending, SendsHold, Known, BoxTypes, Files,
       Sends
<1>20. ASSUME NEW q \in Reqs, TryRecipient(q) PROVE SendsHold'
    BY <1>20 DEF TryRecipient, Return, SendStep, NoCall, SendsHold, Known, BoxTypes, Files,
       Sends
<1>21. ASSUME NEW q \in Reqs, Look(q) PROVE SendsHold'
    BY <1>21 DEF Look, clientVars, SendStep, Sending, Published, SendsHold, Known, BoxTypes,
       Files, Sends
<1>22. ASSUME NEW q \in Reqs, Attempt(q) PROVE SendsHold'
  <2>1. pub' = pub /\ told' = told /\ inbox' = inbox /\ file' = file /\ names' = names
    BY <1>22 DEF Attempt
  <2>2. Sending(q) \in Sends /\ Sending(q)[1] = req[q].p.reg /\ Known(req[q].p.reg)
    BY <1>22, SendingIsSend DEF Attempt, SendStep, Keyed, RequestsHold, RequestHolds, Current, Sending
  <2>3. \A s \in Sends \ {Sending(q)} : intents'[s] = intents[s]
    BY <1>22, <2>2 DEF Attempt, BoxTypes
  <2>4. intents'[Sending(q)] = "attempted"
    BY <1>22, <2>2 DEF Attempt, BoxTypes
  <2>5. intents[Sending(q)] = "saved"
    BY <1>22, <2>2 DEF Attempt, SendStep, RequestsHold, RequestHolds, Sent
  <2>6. \A s \in Sends : Known(s[1])' <=> Known(s[1])
    BY <2>1 DEF Known
  <2>7. SUFFICES ASSUME NEW s \in Sends
                 PROVE  /\ pub'[s] <= 1 /\ (told'[s] = "queued" => pub'[s] = 1)
                        /\ inbox'[s] # "none" <=> pub'[s] = 1
                        /\ Known(s[1]) =>
                              /\ intents'[s] \in {"none", "saved"} => pub'[s] = 0
                              /\ intents'[s] = "queued" => pub'[s] = 1
                              /\ told'[s] # "none" => intents'[s] = told'[s]
    BY <2>6 DEF SendsHold
  <2>8. CASE s = Sending(q)
    BY <2>1, <2>2, <2>4, <2>5, <2>8 DEF SendsHold, BoxTypes
  <2>9. CASE s # Sending(q)
    BY <2>1, <2>3, <2>9 DEF SendsHold
  <2>. QED
    BY <2>8, <2>9
<1>23. ASSUME NEW q \in Reqs, PublishSend(q) PROVE SendsHold'
  <2>1. told' = told /\ intents' = intents /\ file' = file /\ names' = names
    BY <1>23 DEF PublishSend
  <2>2. Sending(q) \in Sends /\ Sending(q)[1] = req[q].p.reg /\ Known(req[q].p.reg)
    BY <1>23, SendingIsSend DEF PublishSend, SendStep, Keyed, RequestsHold, RequestHolds, Current, Sending
  <2>3. \A s \in Sends \ {Sending(q)} : pub'[s] = pub[s] /\ inbox'[s] = inbox[s]
    BY <1>23, <2>2 DEF PublishSend, BoxTypes
  <2>5. intents[Sending(q)] = "attempted" /\ pub[Sending(q)] = 0
    BY <1>23, <2>2 DEF PublishSend, SendStep, RequestsHold, RequestHolds, Sent
  <2>4. pub'[Sending(q)] = 1 /\ inbox'[Sending(q)] = "new"
    BY <1>23, <2>2, <2>5 DEF PublishSend, BoxTypes
  <2>6. \A s \in Sends : Known(s[1])' <=> Known(s[1])
    BY <2>1 DEF Known
  <2>7. SUFFICES ASSUME NEW s \in Sends
                 PROVE  /\ pub'[s] <= 1 /\ (told'[s] = "queued" => pub'[s] = 1)
                        /\ inbox'[s] # "none" <=> pub'[s] = 1
                        /\ Known(s[1]) =>
                              /\ intents'[s] \in {"none", "saved"} => pub'[s] = 0
                              /\ intents'[s] = "queued" => pub'[s] = 1
                              /\ told'[s] # "none" => intents'[s] = told'[s]
    BY <2>6 DEF SendsHold
  <2>8. CASE s = Sending(q)
    BY <2>1, <2>2, <2>4, <2>5, <2>8 DEF SendsHold, BoxTypes
  <2>9. CASE s # Sending(q)
    BY <2>1, <2>3, <2>9 DEF SendsHold
  <2>. QED
    BY <2>8, <2>9
<1>24. ASSUME NEW q \in Reqs, SettleSend(q) PROVE SendsHold'
  <2>1. pub' = pub /\ told' = told /\ inbox' = inbox /\ file' = file /\ names' = names
    BY <1>24 DEF SettleSend
  <2>2. Sending(q) \in Sends /\ Sending(q)[1] = req[q].p.reg /\ Known(req[q].p.reg)
    BY <1>24, SendingIsSend DEF SettleSend, SendStep, Keyed, RequestsHold, RequestHolds, Current, Sending
  <2>3. \A s \in Sends \ {Sending(q)} : intents'[s] = intents[s]
    BY <1>24, <2>2 DEF SettleSend, BoxTypes
  <2>4. intents'[Sending(q)] = req[q].out
    BY <1>24, <2>2 DEF SettleSend, BoxTypes
  <2>5. /\ intents[Sending(q)] \in {"saved", "attempted"}
        /\ req[q].out \in {"queued", "unknown"}
        /\ req[q].out = "queued" => pub[Sending(q)] = 1
    BY <1>24, <2>2 DEF SettleSend, SendStep, RequestsHold, RequestHolds, Sent
  <2>6. \A s \in Sends : Known(s[1])' <=> Known(s[1])
    BY <2>1 DEF Known
  <2>7. SUFFICES ASSUME NEW s \in Sends
                 PROVE  /\ pub'[s] <= 1 /\ (told'[s] = "queued" => pub'[s] = 1)
                        /\ inbox'[s] # "none" <=> pub'[s] = 1
                        /\ Known(s[1]) =>
                              /\ intents'[s] \in {"none", "saved"} => pub'[s] = 0
                              /\ intents'[s] = "queued" => pub'[s] = 1
                              /\ told'[s] # "none" => intents'[s] = told'[s]
    BY <2>6 DEF SendsHold
  <2>8. CASE s = Sending(q)
    BY <2>1, <2>2, <2>4, <2>5, <2>8 DEF SendsHold, BoxTypes
  <2>9. CASE s # Sending(q)
    BY <2>1, <2>3, <2>9 DEF SendsHold
  <2>. QED
    BY <2>8, <2>9
<1>25. ASSUME NEW q \in Reqs, Reply(q) PROVE SendsHold'
  <2>1. pub' = pub /\ intents' = intents /\ inbox' = inbox /\ file' = file /\ names' = names
    BY <1>25 DEF Reply
  <2>2. Sending(q) \in Sends /\ Sending(q)[1] = req[q].p.reg /\ Known(req[q].p.reg)
    BY <1>25, SendingIsSend DEF Reply, SendStep, Keyed, RequestsHold, RequestHolds, Current, Sending
  <2>3. \A s \in Sends \ {Sending(q)} : told'[s] = told[s]
    BY <1>25, <2>2 DEF Reply, BoxTypes
  <2>4. told'[Sending(q)] = req[q].out
    BY <1>25, <2>2 DEF Reply, BoxTypes
  <2>5. intents[Sending(q)] \in {"queued", "unknown"} /\ req[q].out = intents[Sending(q)]
    BY <1>25, <2>2 DEF Reply, SendStep, RequestsHold, RequestHolds, Sent, Settled
  <2>6. \A s \in Sends : Known(s[1])' <=> Known(s[1])
    BY <2>1 DEF Known
  <2>7. SUFFICES ASSUME NEW s \in Sends
                 PROVE  /\ pub'[s] <= 1 /\ (told'[s] = "queued" => pub'[s] = 1)
                        /\ inbox'[s] # "none" <=> pub'[s] = 1
                        /\ Known(s[1]) =>
                              /\ intents'[s] \in {"none", "saved"} => pub'[s] = 0
                              /\ intents'[s] = "queued" => pub'[s] = 1
                              /\ told'[s] # "none" => intents'[s] = told'[s]
    BY <2>6 DEF SendsHold
  <2>8. CASE s = Sending(q)
    BY <2>1, <2>2, <2>4, <2>5, <2>8 DEF SendsHold, BoxTypes
  <2>9. CASE s # Sending(q)
    BY <2>1, <2>3, <2>9 DEF SendsHold
  <2>. QED
    BY <2>8, <2>9
<1>26. ASSUME NEW q \in Reqs, SendFails(q) PROVE SendsHold'
    BY <1>26 DEF SendFails, Return, NoCall, SendsHold, Known, BoxTypes, Files, Sends
<1>27. ASSUME NEW s \in Sends, RecipientDelivers(s) PROVE SendsHold'
    BY <1>27 DEF RecipientDelivers, SendsHold, Known, BoxTypes, Files, Sends
<1>28. CASE RecipientDropped
    BY <1>28 DEF RecipientDropped, SendsHold, Known, BoxTypes, Files, Sends
<1>29. CASE Stops
    BY <1>29 DEF Stops, RequestsDie, NoCall, SendsHold, Known, BoxTypes, Files, Sends
<1>30. CASE Elsewhere
    BY <1>30 DEF Elsewhere, SendsHold, Known, BoxTypes, Files, Sends
<1>. QED
    BY <1>1, <1>2, <1>3, <1>4, <1>5, <1>6, <1>7, <1>8, <1>9, <1>10, <1>11, <1>12, <1>13, <1>14,
       <1>15, <1>16, <1>17, <1>18, <1>19, <1>20, <1>21, <1>22, <1>23, <1>24, <1>25, <1>26,
       <1>27, <1>28, <1>29, <1>30 DEF BoxStep, MailboxNext, AdminStep, ReqStep

(* A request that stays as it is, begins or is over is still sound while the *)
(* registrations and the sends stay as they are.                             *)
LEMMA RequestStays ==
    ASSUME UNCHANGED <<file, names, intents, pub>>, NEW q \in Reqs, RequestHolds(q),
           req'[q] = req[q] \/ req'[q].pc \in {"none", "lock"}
    PROVE  RequestHolds(q)'
<1>1. CASE req'[q] = req[q]
  <2>1. Sending(q)' = Sending(q) /\ (Current(req[q].p)' <=> Current(req[q].p))
    BY <1>1 DEF Sending, Current, Known
  <2>2. Sent(q)' <=> Sent(q)
    BY <1>1, <2>1 DEF Sent, Settled
  <2>. QED
    BY <1>1, <2>1, <2>2 DEF RequestHolds
<1>2. CASE req'[q].pc \in {"none", "lock"}
    BY <1>2 DEF RequestHolds, Sent
<1>. QED
    BY <1>1, <1>2

(* Every step keeps what a request relies on: under the lock, its principal  *)
(* and the mail it read stay, and its send is where its step says.           *)
LEMMA RequestsHoldKept ==
    ASSUME BoxTypes /\ Locks /\ Numbered /\ Admin /\ SendsHold /\ RequestsHold, BoxStep
    PROVE  RequestsHold'
<1>. USE MailboxAssumption
<1>1. ASSUME NEW kind \in {"register", "rotate", "remove"}, NEW r \in Regs, NEW n \in Names, Command(kind, r, n) PROVE RequestsHold'
    BY <1>1 DEF Command, clientVars, NoFile, Known, RequestsHold, RequestHolds, Sent, Sending,
       Settled, Current, BoxTypes, Calls, Files, Sends
<1>2. CASE IssueCredential
    BY <1>2 DEF IssueCredential, clientVars, Issued, RequestsHold, RequestHolds, Sent, Sending,
       Settled, Current, Known, BoxTypes, Calls, Files, Sends
<1>3. CASE SaveRegistration
  <2>1. \A o \in Reqs : req[o].pc \in {"none", "lock"}
    BY <1>3, MailboxAssumption DEF Locks, BoxTypes, SaveRegistration
  <2>2. req' = req
    BY <1>3 DEF SaveRegistration
  <2>. QED
    BY <2>1, <2>2 DEF RequestsHold, RequestHolds, Sent
<1>4. CASE ClaimOutside
  <2>1. \A o \in Reqs : req[o].pc \in {"none", "lock"}
    BY <1>4, MailboxAssumption DEF Locks, BoxTypes, ClaimOutside
  <2>2. req' = req
    BY <1>4 DEF ClaimOutside
  <2>. QED
    BY <2>1, <2>2 DEF RequestsHold, RequestHolds, Sent
<1>5. CASE RemoveOutsideName
  <2>1. \A o \in Reqs : req[o].pc \in {"none", "lock"}
    BY <1>5, MailboxAssumption DEF Locks, BoxTypes, RemoveOutsideName
  <2>2. req' = req
    BY <1>5 DEF RemoveOutsideName
  <2>. QED
    BY <2>1, <2>2 DEF RequestsHold, RequestHolds, Sent
<1>6. CASE RemoveData
  <2>1. \A o \in Reqs : req[o].pc \in {"none", "lock"}
    BY <1>6, MailboxAssumption DEF Locks, BoxTypes, RemoveData
  <2>2. req' = req
    BY <1>6 DEF RemoveData
  <2>. QED
    BY <2>1, <2>2 DEF RequestsHold, RequestHolds, Sent
<1>7. CASE RemoveFile
  <2>1. \A o \in Reqs : req[o].pc \in {"none", "lock"}
    BY <1>7, MailboxAssumption DEF Locks, BoxTypes, RemoveFile
  <2>2. req' = req
    BY <1>7 DEF RemoveFile
  <2>. QED
    BY <2>1, <2>2 DEF RequestsHold, RequestHolds, Sent
<1>8. CASE SaveFails
    BY <1>8 DEF SaveFails, clientVars, Issued, Idle, RequestsHold, RequestHolds, Sent, Sending,
       Settled, Current, Known, BoxTypes, Calls, Files, Sends
<1>9. CASE AdminDies
  <2>1. UNCHANGED <<file, names, intents, pub>> /\ \A o \in Reqs : req'[o] = req[o]
    BY <1>9 DEF AdminDies, clientVars
  <2>. QED
    BY <2>1, RequestStays DEF RequestsHold
<1>10. ASSUME NEW n \in Names, NativeClaims(n) PROVE RequestsHold'
  <2>1. req' = req /\ file' = file /\ intents' = intents /\ pub' = pub
    BY <1>10 DEF NativeClaims, clientVars
  <2>2. \A r \in Regs : Known(r) => Known(r)'
    BY <1>10, <2>1 DEF NativeClaims, Known, Numbered, BoxTypes
  <2>3. \A q \in Reqs : req[q].pc # "none" => req[q].p.reg \in Regs
    BY SendingIsSend
  <2>4. \A q \in Reqs : req[q].pc \notin {"none", "lock"} /\ Current(req[q].p) => Current(req[q].p)'
    BY <2>1, <2>2, <2>3 DEF Current
  <2>5. \A q \in Reqs : Sent(q)' <=> Sent(q)
    BY <2>1 DEF Sent, Sending, Settled
  <2>. QED
    BY <2>1, <2>4, <2>5 DEF RequestsHold, RequestHolds
<1>11. ASSUME NEW m \in Mails, QueueOutside(m) PROVE RequestsHold'
  <2>1. \A o \in Reqs : req[o].pc \in {"none", "lock"}
    BY <1>11, MailboxAssumption DEF Locks, BoxTypes, QueueOutside
  <2>2. req' = req
    BY <1>11 DEF QueueOutside
  <2>. QED
    BY <2>1, <2>2 DEF RequestsHold, RequestHolds, Sent
<1>12. ASSUME NEW m \in Mails, NEW r \in Regs, Compose(m, r) PROVE RequestsHold'
    BY <1>12 DEF Compose, clientVars, Known, RequestsHold, RequestHolds, Sent, Sending,
       Settled, Current, BoxTypes, Calls, Files, Sends
<1>13. ASSUME NEW q \in Reqs, NEW p \in Principals, NEW kind \in {"ack", "send"},
             NEW key \in Keys \cup {None}, NEW ids \in SUBSET Mails, Asks(q, p, kind, key, ids) PROVE RequestsHold'
  <2>1. /\ UNCHANGED <<file, names, intents, pub>> /\ req[q].pc = "none"
        /\ req' = [req EXCEPT ![q] = [NoCall EXCEPT !.pc = "lock", !.kind = kind, !.p = p, !.key = key, !.ids = ids]]
    BY <1>13 DEF Asks, Begin, clientVars
  <2>2. \A o \in Reqs \ {q} : req'[o] = req[o]
    BY <2>1 DEF BoxTypes
  <2>3. req'[q].pc = "lock"
    BY <2>1 DEF NoCall, BoxTypes
  <2>. QED
    BY <2>1, <2>2, <2>3, RequestStays DEF RequestsHold
<1>14. ASSUME NEW q \in Reqs, WithOutside(q) PROVE RequestsHold'
  <2>1. /\ file' = file /\ names' = names /\ req[q] \in Calls /\ req[q].kind \in {"ack", "send"}
        /\ \A o \in Reqs : req[o].pc \in {"none", "lock"}
    BY <1>14, MailboxAssumption DEF WithOutside, Locks, BoxTypes
  <2>2. \A o \in Reqs \ {q} : req'[o] = req[o]
    BY <1>14 DEF WithOutside, Return, BoxTypes
  <2>3. CASE ~Current(req[q].p)
    <3>1. req'[q] = NoCall
      BY <1>14, <2>3 DEF WithOutside, Return, BoxTypes
    <3>. QED
      BY <2>1, <2>2, <3>1 DEF RequestsHold, RequestHolds, Sent, NoCall
  <2>4. CASE Current(req[q].p)
    <3>1. req'[q].p = req[q].p /\ req'[q].pc \in {"ack", "send"}
      BY <1>14, <2>1, <2>4 DEF WithOutside, BoxTypes, Calls
    <3>2. Current(req[q].p)'
      BY <2>1, <2>4, <3>1 DEF Current, Known
    <3>. QED
      BY <2>1, <2>2, <3>1, <3>2 DEF RequestsHold, RequestHolds, Sent
  <2>. QED
    BY <2>3, <2>4
<1>15. ASSUME NEW q \in Reqs, AckRead(q) PROVE RequestsHold'
  <2>1. req[q].pc \notin {"none", "lock"} /\ req[q] \in Calls /\ RequestHolds(q)
    BY <1>15 DEF AckRead, RequestsHold, BoxTypes
  <2>2. \A o \in Reqs \ {q} : req'[o].pc \in {"none", "lock"}
    BY <1>15, <2>1, OneActs DEF AckRead, Return, BoxTypes
  <2>3. /\ req'[q].pc = "acked" /\ req'[q].p = req[q].p
        /\ req'[q].ids = req[q].ids \cap file[req[q].p.reg].pending
        /\ req'[q].rest = file[req[q].p.reg].pending \ req[q].ids
    <3>. DEFINE pending == file[req[q].p.reg].pending
         ids == req[q].ids \cap pending
         rest == pending \ req[q].ids
    <3>1. req' = [req EXCEPT ![q] = [req[q] EXCEPT !.pc = "acked", !.ids = ids, !.rest = rest]]
      BY <1>15 DEF AckRead
    <3>. HIDE DEF ids, rest
    <3>2. /\ req'[q].pc = "acked" /\ req'[q].p = req[q].p
          /\ req'[q].ids = ids /\ req'[q].rest = rest
      BY <2>1, <3>1 DEF Calls, BoxTypes
    <3>. QED
      BY <3>2 DEF ids, rest
  <2>4. file[req[q].p.reg].pending = req'[q].rest \cup req'[q].ids
    BY <2>3
  <2>5. Current(req[q].p)
    BY <2>1 DEF RequestHolds
  <2>6. Current(req[q].p)' /\ file' = file
    BY <1>15, <2>3, <2>5 DEF AckRead, Current, Known
  <2>9. RequestHolds(q)'
    BY <2>3, <2>4, <2>5, <2>6 DEF RequestHolds, Sent, AckRead, Current, Known
  <2>. QED
    BY <2>2, <2>9 DEF RequestsHold, RequestHolds, Sent
<1>16. ASSUME NEW q \in Reqs, AckWrite(q) PROVE RequestsHold'
  <2>1. req[q].pc \notin {"none", "lock"} /\ req[q] \in Calls /\ RequestHolds(q)
    BY <1>16 DEF AckWrite, RequestsHold, BoxTypes
  <2>2. \A o \in Reqs \ {q} : req'[o].pc \in {"none", "lock"}
    BY <1>16, <2>1, OneActs DEF AckWrite, Return, BoxTypes
  <2>9. req'[q] = NoCall /\ NoCall.pc = "none"
    BY <1>16 DEF AckWrite, Return, NoCall, BoxTypes
  <2>. QED
    BY <2>2, <2>9 DEF RequestsHold, RequestHolds, Sent
<1>17. ASSUME NEW q \in Reqs, SendSettled(q) PROVE RequestsHold'
  <2>1. req[q].pc \notin {"none", "lock"} /\ req[q] \in Calls /\ req[q].pc \in Keyed /\ RequestHolds(q)
    BY <1>17 DEF SendSettled, SendStep, Keyed, RequestsHold, BoxTypes
  <2>2. /\ UNCHANGED <<file, names, intents, pub>> /\ intents[Sending(q)] \in {"queued", "unknown"}
        /\ req' = [req EXCEPT ![q] = [req[q] EXCEPT !.pc = "reply", !.out = intents[Sending(q)]]]
    BY <1>17 DEF SendSettled, clientVars
  <2>3. \A o \in Reqs \ {q} : req'[o].pc \in {"none", "lock"}
    BY <2>1, <2>2, OneActs DEF BoxTypes
  <2>4. /\ req'[q].pc = "reply" /\ req'[q].p = req[q].p /\ req'[q].key = req[q].key
        /\ req'[q].out = intents[Sending(q)]
    BY <2>1, <2>2 DEF Calls, BoxTypes
  <2>5. Current(req[q].p)' /\ Sending(q)' = Sending(q)
    BY <2>1, <2>2, <2>4 DEF RequestHolds, Current, Known, Sending
  <2>6. RequestHolds(q)'
    BY <2>2, <2>4, <2>5 DEF RequestHolds, Sent, Settled
  <2>. QED
    BY <2>3, <2>6 DEF RequestsHold, RequestHolds, Sent
<1>18. ASSUME NEW q \in Reqs, SaveIntent(q) PROVE RequestsHold'
  <2>1. req[q].pc \notin {"none", "lock"} /\ req[q] \in Calls /\ req[q].pc \in Keyed /\ RequestHolds(q)
    BY <1>18 DEF SaveIntent, SendStep, Keyed, RequestsHold, BoxTypes
  <2>2. \A o \in Reqs \ {q} : req'[o].pc \in {"none", "lock"}
    BY <1>18, <2>1, OneActs DEF SaveIntent, Return, BoxTypes
  <2>3. Sending(q) \in Sends /\ Sending(q)[1] = req[q].p.reg /\ Current(req[q].p) /\ Known(req[q].p.reg)
    BY <2>1, SendIsTyped DEF RequestHolds, Current
  <2>4. CASE req' = [req EXCEPT ![q] = NoCall]
    BY <2>2, <2>4 DEF NoCall, RequestsHold, RequestHolds, Sent, BoxTypes
  <2>5. CASE req' = [req EXCEPT ![q] = [req[q] EXCEPT !.pc = "try"]] /\ intents' = [intents EXCEPT ![Sending(q)] = "saved"]
    <3>1. /\ req'[q].pc = "try" /\ req'[q].p = req[q].p /\ req'[q].key = req[q].key
          /\ file' = file /\ names' = names
      BY <1>18, <2>1, <2>5 DEF SaveIntent, Calls, BoxTypes
    <3>2. Current(req[q].p)' /\ Sending(q)' = Sending(q)
      BY <2>3, <3>1 DEF Current, Known, Sending
    <3>3. intents'[Sending(q)] \in {"saved", "attempted"}
      BY <1>18, <2>1, <2>3, <2>5 DEF BoxTypes
    <3>4. RequestHolds(q)'
      BY <3>1, <3>2, <3>3 DEF RequestHolds, Sent
    <3>. QED
      BY <2>2, <3>4 DEF RequestsHold, RequestHolds, Sent
  <2>. QED
    BY <1>18, <2>4, <2>5 DEF SaveIntent, Return
<1>19. ASSUME NEW q \in Reqs, SendAgain(q) PROVE RequestsHold'
  <2>1. req[q].pc \notin {"none", "lock"} /\ req[q] \in Calls /\ req[q].pc \in Keyed /\ RequestHolds(q)
    BY <1>19 DEF SendAgain, SendStep, Keyed, RequestsHold, BoxTypes
  <2>2. /\ UNCHANGED <<file, names, intents>> /\ intents[Sending(q)] \in {"saved", "attempted"}
        /\ req' = [req EXCEPT ![q] = [req[q] EXCEPT !.pc = "try"]]
    BY <1>19 DEF SendAgain, clientVars
  <2>3. \A o \in Reqs \ {q} : req'[o].pc \in {"none", "lock"}
    BY <2>1, <2>2, OneActs DEF BoxTypes
  <2>4. req'[q].pc = "try" /\ req'[q].p = req[q].p /\ req'[q].key = req[q].key
    BY <2>1, <2>2 DEF Calls, BoxTypes
  <2>5. Current(req[q].p)' /\ Sending(q)' = Sending(q)
    BY <2>1, <2>2, <2>4 DEF RequestHolds, Current, Known, Sending
  <2>6. RequestHolds(q)'
    BY <2>2, <2>4, <2>5 DEF RequestHolds, Sent
  <2>. QED
    BY <2>3, <2>6 DEF RequestsHold, RequestHolds, Sent
<1>20. ASSUME NEW q \in Reqs, TryRecipient(q) PROVE RequestsHold'
  <2>1. req[q].pc \notin {"none", "lock"} /\ req[q] \in Calls /\ req[q].pc \in Keyed /\ RequestHolds(q)
    BY <1>20 DEF TryRecipient, SendStep, Keyed, RequestsHold, BoxTypes
  <2>2. \A o \in Reqs \ {q} : req'[o].pc \in {"none", "lock"}
    BY <1>20, <2>1, OneActs DEF TryRecipient, Return, BoxTypes
  <2>3. Sending(q) \in Sends /\ Sending(q)[1] = req[q].p.reg /\ Current(req[q].p) /\ Known(req[q].p.reg)
    BY <2>1, SendIsTyped DEF RequestHolds, Current
  <2>4. CASE req' = [req EXCEPT ![q] = NoCall]
    BY <2>2, <2>4 DEF NoCall, RequestsHold, RequestHolds, Sent, BoxTypes
  <2>5. CASE req' = [req EXCEPT ![q] = [req[q] EXCEPT !.pc = "look"]]
    <3>1. /\ req'[q].pc = "look" /\ req'[q].p = req[q].p /\ req'[q].key = req[q].key
          /\ file' = file /\ names' = names
      BY <1>20, <2>1, <2>5 DEF TryRecipient, Calls, BoxTypes
    <3>2. Current(req[q].p)' /\ Sending(q)' = Sending(q)
      BY <2>3, <3>1 DEF Current, Known, Sending
    <3>3. intents'[Sending(q)] \in {"saved", "attempted"}
      BY <1>20, <2>1, <2>3, <2>5 DEF TryRecipient, SendStep, RequestHolds, Sent
    <3>4. RequestHolds(q)'
      BY <3>1, <3>2, <3>3 DEF RequestHolds, Sent
    <3>. QED
      BY <2>2, <3>4 DEF RequestsHold, RequestHolds, Sent
  <2>. QED
    BY <1>20, <2>4, <2>5 DEF TryRecipient, Return
<1>21. ASSUME NEW q \in Reqs, Look(q) PROVE RequestsHold'
  <2>1. req[q].pc \notin {"none", "lock"} /\ req[q] \in Calls /\ req[q].pc \in Keyed /\ RequestHolds(q)
    BY <1>21 DEF Look, SendStep, Keyed, RequestsHold, BoxTypes
  <2>2. \A o \in Reqs \ {q} : req'[o].pc \in {"none", "lock"}
    BY <1>21, <2>1, OneActs DEF Look, Return, BoxTypes
  <2>3. Sending(q) \in Sends /\ Sending(q)[1] = req[q].p.reg /\ Current(req[q].p) /\ Known(req[q].p.reg)
    BY <2>1, SendIsTyped DEF RequestHolds, Current
  <2>4. /\ req'[q].p = req[q].p /\ req'[q].key = req[q].key
        /\ req'[q].pc = IF Published(Sending(q)) \/ intents[Sending(q)] = "attempted" THEN "settle" ELSE "attempt"
        /\ req'[q].out = IF ~Published(Sending(q)) /\ intents[Sending(q)] = "attempted" THEN "unknown" ELSE "queued"
        /\ file' = file /\ names' = names /\ intents' = intents /\ pub' = pub
    BY <1>21, <2>1 DEF Look, clientVars, Calls, BoxTypes
  <2>5. Current(req[q].p)' /\ Sending(q)' = Sending(q)
    BY <2>3, <2>4 DEF Current, Known, Sending
  <2>6. intents[Sending(q)] \in {"saved", "attempted"}
    BY <1>21, <2>1 DEF Look, SendStep, RequestHolds, Sent
  <2>7. Published(Sending(q)) => pub[Sending(q)] = 1
    BY <2>3 DEF Published, SendsHold
  <2>9. RequestHolds(q)'
    BY <2>4, <2>5, <2>6, <2>7 DEF RequestHolds, Sent, Settled
  <2>. QED
    BY <2>2, <2>9 DEF RequestsHold, RequestHolds, Sent
<1>22. ASSUME NEW q \in Reqs, Attempt(q) PROVE RequestsHold'
  <2>1. req[q].pc \notin {"none", "lock"} /\ req[q] \in Calls /\ req[q].pc \in Keyed /\ RequestHolds(q)
    BY <1>22 DEF Attempt, SendStep, Keyed, RequestsHold, BoxTypes
  <2>2. \A o \in Reqs \ {q} : req'[o].pc \in {"none", "lock"}
    BY <1>22, <2>1, OneActs DEF Attempt, Return, BoxTypes
  <2>3. Sending(q) \in Sends /\ Sending(q)[1] = req[q].p.reg /\ Current(req[q].p) /\ Known(req[q].p.reg)
    BY <2>1, SendIsTyped DEF RequestHolds, Current
  <2>4. /\ req'[q].pc = "publish" /\ req'[q].p = req[q].p /\ req'[q].key = req[q].key /\ req'[q].out = req[q].out
        /\ file' = file /\ names' = names
    BY <1>22, <2>1 DEF Attempt, Calls, BoxTypes
  <2>5. Current(req[q].p)' /\ Sending(q)' = Sending(q)
    BY <2>3, <2>4 DEF Current, Known, Sending
  <2>6. intents[Sending(q)] = "saved" /\ req[q].out = "queued"
    BY <1>22, <2>1 DEF Attempt, SendStep, RequestHolds, Sent
  <2>7. intents'[Sending(q)] = "attempted" /\ pub' = pub /\ pub[Sending(q)] = 0
    BY <1>22, <2>3, <2>6 DEF Attempt, SendsHold, BoxTypes
  <2>9. RequestHolds(q)'
    BY <2>4, <2>5, <2>6, <2>7 DEF RequestHolds, Sent, Settled
  <2>. QED
    BY <2>2, <2>9 DEF RequestsHold, RequestHolds, Sent
<1>23. ASSUME NEW q \in Reqs, PublishSend(q) PROVE RequestsHold'
  <2>1. req[q].pc \notin {"none", "lock"} /\ req[q] \in Calls /\ req[q].pc \in Keyed /\ RequestHolds(q)
    BY <1>23 DEF PublishSend, SendStep, Keyed, RequestsHold, BoxTypes
  <2>2. \A o \in Reqs \ {q} : req'[o].pc \in {"none", "lock"}
    BY <1>23, <2>1, OneActs DEF PublishSend, Return, BoxTypes
  <2>3. Sending(q) \in Sends /\ Sending(q)[1] = req[q].p.reg /\ Current(req[q].p) /\ Known(req[q].p.reg)
    BY <2>1, SendIsTyped DEF RequestHolds, Current
  <2>4. /\ req'[q].pc = "settle" /\ req'[q].p = req[q].p /\ req'[q].key = req[q].key /\ req'[q].out = req[q].out
        /\ file' = file /\ names' = names
    BY <1>23, <2>1 DEF PublishSend, Calls, BoxTypes
  <2>5. Current(req[q].p)' /\ Sending(q)' = Sending(q)
    BY <2>3, <2>4 DEF Current, Known, Sending
  <2>6. intents[Sending(q)] = "attempted" /\ pub[Sending(q)] = 0 /\ req[q].out = "queued"
    BY <1>23, <2>1 DEF PublishSend, SendStep, RequestHolds, Sent
  <2>7. intents' = intents /\ pub'[Sending(q)] = 1
    BY <1>23, <2>3, <2>6 DEF PublishSend, BoxTypes
  <2>9. RequestHolds(q)'
    BY <2>4, <2>5, <2>6, <2>7 DEF RequestHolds, Sent, Settled
  <2>. QED
    BY <2>2, <2>9 DEF RequestsHold, RequestHolds, Sent
<1>24. ASSUME NEW q \in Reqs, SettleSend(q) PROVE RequestsHold'
  <2>1. req[q].pc \notin {"none", "lock"} /\ req[q] \in Calls /\ req[q].pc \in Keyed /\ RequestHolds(q)
    BY <1>24 DEF SettleSend, SendStep, Keyed, RequestsHold, BoxTypes
  <2>2. \A o \in Reqs \ {q} : req'[o].pc \in {"none", "lock"}
    BY <1>24, <2>1, OneActs DEF SettleSend, Return, BoxTypes
  <2>3. Sending(q) \in Sends /\ Sending(q)[1] = req[q].p.reg /\ Current(req[q].p) /\ Known(req[q].p.reg)
    BY <2>1, SendIsTyped DEF RequestHolds, Current
  <2>4. /\ req'[q].pc = "reply" /\ req'[q].p = req[q].p /\ req'[q].key = req[q].key /\ req'[q].out = req[q].out
        /\ file' = file /\ names' = names
    BY <1>24, <2>1 DEF SettleSend, Calls, BoxTypes
  <2>5. Current(req[q].p)' /\ Sending(q)' = Sending(q)
    BY <2>3, <2>4 DEF Current, Known, Sending
  <2>6. req[q].out \in {"queued", "unknown"}
    BY <1>24, <2>1 DEF SettleSend, SendStep, RequestHolds, Sent
  <2>7. intents'[Sending(q)] = req[q].out
    BY <1>24, <2>3 DEF SettleSend, BoxTypes
  <2>9. RequestHolds(q)'
    BY <2>4, <2>5, <2>6, <2>7 DEF RequestHolds, Sent, Settled
  <2>. QED
    BY <2>2, <2>9 DEF RequestsHold, RequestHolds, Sent
<1>25. ASSUME NEW q \in Reqs, Reply(q) PROVE RequestsHold'
  <2>1. UNCHANGED <<file, names, intents, pub>> /\ \A o \in Reqs : req'[o] = req[o] \/ req'[o].pc = "none"
    BY <1>25 DEF Reply, Return, NoCall, BoxTypes
  <2>. QED
    BY <2>1, RequestStays DEF RequestsHold
<1>26. ASSUME NEW q \in Reqs, SendFails(q) PROVE RequestsHold'
  <2>1. UNCHANGED <<file, names, intents, pub>> /\ \A o \in Reqs : req'[o] = req[o] \/ req'[o].pc = "none"
    BY <1>26 DEF SendFails, Return, NoCall, BoxTypes
  <2>. QED
    BY <2>1, RequestStays DEF RequestsHold
<1>27. ASSUME NEW s \in Sends, RecipientDelivers(s) PROVE RequestsHold'
  <2>1. UNCHANGED <<file, names, intents, pub>> /\ \A o \in Reqs : req'[o] = req[o]
    BY <1>27 DEF RecipientDelivers
  <2>. QED
    BY <2>1, RequestStays DEF RequestsHold
<1>28. CASE RecipientDropped
  <2>1. UNCHANGED <<file, names, intents, pub>> /\ \A o \in Reqs : req'[o] = req[o]
    BY <1>28 DEF RecipientDropped
  <2>. QED
    BY <2>1, RequestStays DEF RequestsHold
<1>29. CASE Stops
    BY <1>29 DEF Stops, RequestsDie, NoCall, RequestsHold, RequestHolds, Sent, Sending,
       Settled, Current, Known, BoxTypes, Calls, Files, Sends
<1>30. CASE Elsewhere
    BY <1>30 DEF Elsewhere, RequestsHold, RequestHolds, Sent, Sending, Settled, Current, Known,
       BoxTypes, Calls, Files, Sends
<1>. QED
    BY <1>1, <1>2, <1>3, <1>4, <1>5, <1>6, <1>7, <1>8, <1>9, <1>10, <1>11, <1>12, <1>13, <1>14,
       <1>15, <1>16, <1>17, <1>18, <1>19, <1>20, <1>21, <1>22, <1>23, <1>24, <1>25, <1>26,
       <1>27, <1>28, <1>29, <1>30 DEF BoxStep, MailboxNext, AdminStep, ReqStep

(* Every step keeps queued mail in the mailbox until it is acknowledged.      *)
LEMMA NoLostMailKept ==
    ASSUME BoxTypes /\ Locks /\ Numbered /\ Admin /\ NameLeadsToMailbox /\ Fresh /\ RequestsHold /\ NoLostMail, BoxStep
    PROVE  NoLostMail'
<1>. USE MailboxAssumption
<1>1. ASSUME NEW kind \in {"register", "rotate", "remove"}, NEW r \in Regs, NEW n \in Names, Command(kind, r, n) PROVE NoLostMail'
    BY <1>1 DEF Command, clientVars, NoFile, Known, NoLostMail, BoxTypes, Files, Letters
<1>2. CASE IssueCredential
    BY <1>2 DEF IssueCredential, clientVars, Issued, NoLostMail, Known, BoxTypes, Files, Letters
<1>3. CASE SaveRegistration
  <2>1. mail' = mail /\ names' = names
    BY <1>3 DEF SaveRegistration
  <2>2. ASSUME NEW m \in Mails, mail[m].at = "queued", Known(mail[m].to)'
        PROVE  m \in file'[mail[m].to].pending
    <3>1. mail[m].to \in Regs
      BY <2>2 DEF BoxTypes
    <3>2. Known(mail[m].to)
      BY <1>3, <2>1, <2>2, <3>1, KnownSince DEF BoxStep, MailboxNext, AdminStep, SaveRegistration, ClaimOutside
    <3>3. m \in file[mail[m].to].pending
      BY <2>2, <3>2 DEF NoLostMail
    <3>4. CASE mail[m].to # admin.reg
      BY <1>3, <3>1, <3>3, <3>4, StateIsSaved
    <3>5. CASE mail[m].to = admin.reg /\ admin.kind = "register"
      BY <1>3, <3>2, <3>5 DEF SaveRegistration, Admin, Known, NoFile
    <3>6. CASE mail[m].to = admin.reg /\ admin.kind = "rotate"
      BY <1>3, <3>1, <3>3, <3>6, StateIsSaved DEF BoxTypes, Files
    <3>. QED
      BY <1>3, <3>4, <3>5, <3>6 DEF SaveRegistration, Admin
  <2>. QED
    BY <2>1, <2>2 DEF NoLostMail
<1>4. CASE ClaimOutside
  <2>1. mail' = mail
    BY <1>4 DEF ClaimOutside
  <2>2. ASSUME NEW m \in Mails, mail[m].at = "queued", Known(mail[m].to)'
        PROVE  m \in file'[mail[m].to].pending
    <3>1. mail[m].to \in Regs
      BY <2>2 DEF BoxTypes
    <3>2. mail[m].to # admin.reg
      BY <1>4, <3>1 DEF ClaimOutside, Issuable, Registering, Admin, Fresh
    <3>3. Known(mail[m].to)
      BY <1>4, <2>1, <2>2, <3>1, <3>2, KnownSince DEF BoxStep, MailboxNext, AdminStep
    <3>4. m \in file[mail[m].to].pending
      BY <2>2, <3>3 DEF NoLostMail
    <3>. QED
      BY <1>4, <3>1, <3>2, <3>4, NameIsClaimed
  <2>. QED
    BY <2>1, <2>2 DEF NoLostMail
<1>5. CASE RemoveOutsideName
    BY <1>5 DEF RemoveOutsideName, clientVars, NoLostMail, Known, BoxTypes, Files, Letters
<1>6. CASE RemoveData
    BY <1>6 DEF RemoveData, NoLostMail, Known, BoxTypes, Files, Letters
<1>7. CASE RemoveFile
    BY <1>7 DEF RemoveFile, clientVars, Idle, NoFile, NoLostMail, Known, BoxTypes, Files,
       Letters
<1>8. CASE SaveFails
    BY <1>8 DEF SaveFails, clientVars, Issued, Idle, NoLostMail, Known, BoxTypes, Files, Letters
<1>9. CASE AdminDies
    BY <1>9 DEF AdminDies, clientVars, Idle, NoLostMail, Known, BoxTypes, Files, Letters
<1>10. ASSUME NEW n \in Names, NativeClaims(n) PROVE NoLostMail'
    BY <1>10 DEF NativeClaims, clientVars, NoLostMail, Known, BoxTypes, Files, Letters
<1>11. ASSUME NEW m \in Mails, QueueOutside(m) PROVE NoLostMail'
  <2>1. names' = names
    BY <1>11 DEF QueueOutside
  <2>2. ASSUME NEW o \in Mails, mail'[o].at = "queued", Known(mail[o].to)'
        PROVE  o \in file'[mail'[o].to].pending
    <3>1. CASE o = m
      BY <1>11, <2>2, <3>1, MailIsAdded
    <3>2. CASE o # m
      <4>1. mail'[o] = mail[o] /\ mail[o].to \in Regs
        BY <1>11, <2>2, <3>2, MailIsAdded DEF BoxTypes
      <4>2. Known(mail[o].to)
        BY <1>11, <2>1, <2>2, <4>1, MailIsAdded DEF Known, SameRegistration
      <4>. QED
        BY <1>11, <2>2, <4>1, <4>2, MailIsAdded DEF NoLostMail
    <3>. QED
      BY <3>1, <3>2
  <2>. QED
    BY <2>2 DEF NoLostMail
<1>12. ASSUME NEW m \in Mails, NEW r \in Regs, Compose(m, r) PROVE NoLostMail'
    BY <1>12 DEF Compose, clientVars, Known, NoLostMail, BoxTypes, Files, Letters
<1>13. ASSUME NEW q \in Reqs, NEW p \in Principals, NEW kind \in {"ack", "send"},
             NEW key \in Keys \cup {None}, NEW ids \in SUBSET Mails, Asks(q, p, kind, key, ids) PROVE NoLostMail'
    BY <1>13 DEF Asks, Begin, clientVars, NoCall, Current, Known, NoLostMail, BoxTypes, Files,
       Letters
<1>14. ASSUME NEW q \in Reqs, WithOutside(q) PROVE NoLostMail'
    BY <1>14 DEF WithOutside, clientVars, Return, Current, Known, NoCall, NoLostMail, BoxTypes,
       Files, Letters
<1>15. ASSUME NEW q \in Reqs, AckRead(q) PROVE NoLostMail'
    BY <1>15 DEF AckRead, clientVars, NoLostMail, Known, BoxTypes, Files, Letters
<1>16. ASSUME NEW q \in Reqs, AckWrite(q) PROVE NoLostMail'
  <2>1. names' = names
    BY <1>16 DEF AckWrite
  <2>2. ASSUME NEW o \in Mails, mail'[o].at = "queued", Known(mail[o].to)'
        PROVE  o \in file'[mail'[o].to].pending
    <3>1. mail'[o].to = mail[o].to /\ mail[o].at = "queued" /\ o \notin req[q].ids
      BY <1>16, <2>2, MailIsTaken
    <3>2. mail[o].to \in Regs
      BY <3>1 DEF BoxTypes
    <3>3. Known(mail[o].to)
      BY <1>16, <2>1, <2>2, <3>1, <3>2, MailIsTaken DEF Known, SameRegistration
    <3>4. o \in file[mail[o].to].pending
      BY <3>1, <3>3 DEF NoLostMail
    <3>5. file[req[q].p.reg].pending = req[q].rest \cup req[q].ids
      BY <1>16 DEF RequestsHold, RequestHolds, AckWrite
    <3>6. CASE mail[o].to = req[q].p.reg
      BY <1>16, <3>1, <3>4, <3>5, <3>6, MailIsTaken
    <3>7. CASE mail[o].to # req[q].p.reg
      BY <1>16, <3>1, <3>2, <3>4, <3>7, MailIsTaken
    <3>. QED
      BY <3>6, <3>7
  <2>. QED
    BY <2>2 DEF NoLostMail
<1>17. ASSUME NEW q \in Reqs, SendSettled(q) PROVE NoLostMail'
    BY <1>17 DEF SendSettled, clientVars, SendStep, Sending, NoLostMail, Known, BoxTypes,
       Files, Letters
<1>18. ASSUME NEW q \in Reqs, SaveIntent(q) PROVE NoLostMail'
    BY <1>18 DEF SaveIntent, Return, SendStep, Sending, NoCall, NoLostMail, Known, BoxTypes,
       Files, Letters
<1>19. ASSUME NEW q \in Reqs, SendAgain(q) PROVE NoLostMail'
    BY <1>19 DEF SendAgain, clientVars, SendStep, Sending, NoLostMail, Known, BoxTypes, Files,
       Letters
<1>20. ASSUME NEW q \in Reqs, TryRecipient(q) PROVE NoLostMail'
    BY <1>20 DEF TryRecipient, Return, SendStep, NoCall, NoLostMail, Known, BoxTypes, Files,
       Letters
<1>21. ASSUME NEW q \in Reqs, Look(q) PROVE NoLostMail'
    BY <1>21 DEF Look, clientVars, SendStep, Sending, Published, NoLostMail, Known, BoxTypes,
       Files, Letters
<1>22. ASSUME NEW q \in Reqs, Attempt(q) PROVE NoLostMail'
    BY <1>22 DEF Attempt, SendStep, Sending, NoLostMail, Known, BoxTypes, Files, Letters
<1>23. ASSUME NEW q \in Reqs, PublishSend(q) PROVE NoLostMail'
    BY <1>23 DEF PublishSend, SendStep, Sending, NoLostMail, Known, BoxTypes, Files, Letters
<1>24. ASSUME NEW q \in Reqs, SettleSend(q) PROVE NoLostMail'
    BY <1>24 DEF SettleSend, SendStep, Sending, NoLostMail, Known, BoxTypes, Files, Letters
<1>25. ASSUME NEW q \in Reqs, Reply(q) PROVE NoLostMail'
    BY <1>25 DEF Reply, Return, SendStep, Sending, NoCall, NoLostMail, Known, BoxTypes, Files,
       Letters
<1>26. ASSUME NEW q \in Reqs, SendFails(q) PROVE NoLostMail'
    BY <1>26 DEF SendFails, Return, NoCall, NoLostMail, Known, BoxTypes, Files, Letters
<1>27. ASSUME NEW s \in Sends, RecipientDelivers(s) PROVE NoLostMail'
    BY <1>27 DEF RecipientDelivers, NoLostMail, Known, BoxTypes, Files, Letters
<1>28. CASE RecipientDropped
    BY <1>28 DEF RecipientDropped, NoLostMail, Known, BoxTypes, Files, Letters
<1>29. CASE Stops
    BY <1>29 DEF Stops, RequestsDie, NoCall, NoLostMail, Known, BoxTypes, Files, Letters
<1>30. CASE Elsewhere
    BY <1>30 DEF Elsewhere, NoLostMail, Known, BoxTypes, Files, Letters
<1>. QED
    BY <1>1, <1>2, <1>3, <1>4, <1>5, <1>6, <1>7, <1>8, <1>9, <1>10, <1>11, <1>12, <1>13, <1>14,
       <1>15, <1>16, <1>17, <1>18, <1>19, <1>20, <1>21, <1>22, <1>23, <1>24, <1>25, <1>26,
       <1>27, <1>28, <1>29, <1>30 DEF BoxStep, MailboxNext, AdminStep, ReqStep

-----------------------------------------------------------------------------
(* The grants.                                                               *)

(* Grants that are so stay so when more tokens are drawn and grants go.      *)
LEMMA FewerGrants ==
    ASSUME NEW S, NEW T \in SUBSET S, NEW d \in Nat, NEW e \in Nat, d <= e, NEW gone, Issuance(S, d, gone)
    PROVE  Issuance(T, e, gone)
<1>1. \A g \in T : g \in S /\ g \in Grant
    BY DEF Issuance
<1>2. \A g \in T : g.tok \in Nat /\ g.tok <= e
    BY <1>1, GrantsAssumption DEF Issuance, Grant, Tokens
<1>3. \A g \in T : g.kind # "consent" => g.family \in 1..e /\ g.p \in Principals /\ g.family \notin gone
    BY <1>1 DEF Issuance
<1>. QED
    BY <1>1, <1>2, <1>3 DEF Issuance

(* A new consent has no family.                                              *)
LEMMA ConsentIsNew ==
    ASSUME NEW S, NEW d \in Nat, d < MaxTokens, NEW gone, Issuance(S, d, gone)
    PROVE  Issuance(S \cup {[tok |-> d + 1, kind |-> "consent", p |-> None, family |-> None, used |-> FALSE]},
                    d + 1, gone)
<1>. DEFINE c == [tok |-> d + 1, kind |-> "consent", p |-> None, family |-> None, used |-> FALSE]
            T == S \cup {c}
<1>1. c \in Grant /\ c.tok = d + 1 /\ c.kind = "consent" /\ ~Live(c)
    BY GrantsAssumption DEF Grant, Tokens, Live
<1>2. Issuance(S, d + 1, gone)
    BY FewerGrants
<1>3. \A g \in S : g.tok \in Nat /\ g.tok <= d
    BY GrantsAssumption DEF Issuance, Grant, Tokens
<1>. HIDE DEF c
<1>4. \A g, h \in T : g.tok = h.tok => g = h
    BY <1>1, <1>2, <1>3 DEF Issuance
<1>5. Issuance(T, d + 1, gone)
    BY <1>1, <1>2, <1>4 DEF Issuance
<1>. QED
    BY <1>5 DEF c

(* A new code has a family of its own.                                       *)
LEMMA CodeIsNew ==
    ASSUME NEW S, NEW d \in Nat, d < MaxTokens, NEW gone \in SUBSET (1..d), Issuance(S, d, gone),
           NEW p \in Principals
    PROVE  Issuance(S \cup {[tok |-> d + 1, kind |-> "code", p |-> p, family |-> d + 1, used |-> FALSE]},
                    d + 1, gone)
<1>. DEFINE c == [tok |-> d + 1, kind |-> "code", p |-> p, family |-> d + 1, used |-> FALSE]
<1>1. c \in Grant /\ c.tok = d + 1 /\ c.kind = "code" /\ c.family = d + 1 /\ c.p \in Principals
    BY GrantsAssumption DEF Grant, Tokens
<1>2. Issuance(S, d + 1, gone)
    BY FewerGrants
<1>3. \A g \in S : g.tok \in Nat /\ g.tok <= d
    BY GrantsAssumption DEF Issuance, Grant, Tokens
<1>4. \A g \in S : g.kind # "consent" => g.family \in Nat /\ g.family <= d
    BY DEF Issuance
<1>5. d + 1 \notin gone
    OBVIOUS
<1>6. \A g \in S : Live(g) => g.kind # "consent"
    BY DEF Live
<1>. HIDE DEF c
<1>7. S \cup {c} \subseteq Grant /\ \A g \in S \cup {c} : g.tok <= d + 1
    BY <1>1, <1>2 DEF Issuance
<1>8. \A g \in S \cup {c} : g.kind # "consent" => g.family \in 1..(d + 1) /\ g.p \in Principals /\ g.family \notin gone
    BY <1>1, <1>2, <1>5 DEF Issuance
<1>9. \A g, h \in S \cup {c} : g.tok = h.tok => g = h
    BY <1>1, <1>2, <1>3 DEF Issuance
<1>10. \A g, h \in S \cup {c} : Live(g) /\ Live(h) /\ g.family = h.family => g = h
    BY <1>1, <1>2, <1>4, <1>6 DEF Issuance
<1>11. \A g, h \in S \cup {c} : g.kind = "code" /\ h.kind \in {"access", "refresh"} => g.family # h.family
    BY <1>1, <1>2, <1>4 DEF Issuance
<1>12. Issuance(S \cup {c}, d + 1, gone)
    BY <1>7, <1>8, <1>9, <1>10, <1>11 DEF Issuance
<1>. QED
    BY <1>12 DEF c

(* What is left of a grant that was exchanged is nothing to use.             *)
LEMMA TokensAreNew ==
    ASSUME NEW S, NEW d \in Nat, d + 1 < MaxTokens, NEW gone, Issuance(S, d, gone),
           NEW g \in S, Live(g), NEW rest, rest \in {S \ {g}, (S \ {g}) \cup {[g EXCEPT !.used = TRUE]}},
           rest = S \ {g} \/ g.kind = "refresh"
    PROVE  Issuance(rest \cup {[tok |-> d + 1, kind |-> "access", p |-> g.p, family |-> g.family, used |-> FALSE],
                               [tok |-> d + 2, kind |-> "refresh", p |-> g.p, family |-> g.family, used |-> FALSE]},
                    d + 2, gone)
<1>. DEFINE a == [tok |-> d + 1, kind |-> "access", p |-> g.p, family |-> g.family, used |-> FALSE]
            r == [tok |-> d + 2, kind |-> "refresh", p |-> g.p, family |-> g.family, used |-> FALSE]
            u == [g EXCEPT !.used = TRUE]
<1>1. g \in Grant /\ g.kind \in {"code", "refresh"} /\ g.family \in 1..d /\ g.p \in Principals /\ g.family \notin gone
    BY DEF Issuance, Live
<1>2. /\ a \in Grant /\ a.tok = d + 1 /\ a.kind = "access" /\ a.family = g.family /\ a.p = g.p /\ ~Live(a)
      /\ r \in Grant /\ r.tok = d + 2 /\ r.kind = "refresh" /\ r.family = g.family /\ r.p = g.p
    BY <1>1, GrantsAssumption DEF Grant, Tokens, Live
<1>3. u \in Grant /\ u.tok = g.tok /\ u.kind = g.kind /\ u.family = g.family /\ u.p = g.p /\ (g.kind = "refresh" => ~Live(u))
    BY <1>1 DEF Grant, Live
<1>4. \A h \in S : h.tok \in Nat /\ h.tok <= d /\ h \in Grant
    BY GrantsAssumption DEF Issuance, Grant, Tokens
<1>. HIDE DEF a, r, u
<1>5. \A h \in rest : \/ h \in S /\ h # g
                      \/ h = u /\ g.kind = "refresh"
    BY DEF u
<1>6. \A h \in rest : h \in Grant /\ h.tok \in Nat /\ h.tok <= d
    BY <1>3, <1>4, <1>5
<1>7. \A h \in rest : h.kind # "consent" => h.family \in 1..d /\ h.p \in Principals /\ h.family \notin gone
    BY <1>1, <1>3, <1>5 DEF Issuance
<1>8. \A h, i \in rest : h.tok = i.tok => h = i
    BY <1>3, <1>5 DEF Issuance
<1>9. \A h \in rest : Live(h) => h.family # g.family /\ h \in S
    BY <1>3, <1>5 DEF Issuance
<1>10. \A h \in rest : h.kind = "code" => h.family # g.family /\ h \in S
    BY <1>3, <1>5, <1>9 DEF Live
<1>11. \A h \in rest : h.kind = "access" \/ h.kind = "refresh" => h \in S \/ h = u
    BY <1>5
<1>. DEFINE T == rest \cup {a, r}
<1>12. T \subseteq Grant /\ \A h \in T : h.tok <= d + 2
    BY <1>2, <1>6
<1>13. \A h \in T : h.kind # "consent" => h.family \in 1..(d + 2) /\ h.p \in Principals /\ h.family \notin gone
    BY <1>1, <1>2, <1>7
<1>14. \A h, i \in T : h.tok = i.tok => h = i
    BY <1>2, <1>6, <1>8
<1>15. \A h, i \in T : Live(h) /\ Live(i) /\ h.family = i.family => h = i
    BY <1>2, <1>9 DEF Issuance
<1>16. \A h, i \in T : h.kind = "code" /\ i.kind \in {"access", "refresh"} => h.family # i.family
    BY <1>2, <1>3, <1>10, <1>11 DEF Issuance
<1>17. Issuance(T, d + 2, gone)
    BY <1>12, <1>13, <1>14, <1>15, <1>16 DEF Issuance
<1>. QED
    BY <1>17 DEF a, r

(* A commit replaces memory and the file, or keeps memory.                   *)
LEMMA Committed ==
    ASSUME GrantInv, NEW new, NEW given \in SUBSET Nat, Commit(new, given), drawn' \in Nat, drawn <= drawn',
           drawn' <= MaxTokens, given \subseteq 1..drawn', dead' = dead, Issuance(new, drawn', dead)
    PROVE  GrantInv'
<1>1. Issuance(mem, drawn', dead) /\ Issuance(disk, drawn', dead) /\ drawn \in Nat
    BY FewerGrants, GrantsAssumption DEF GrantInv
<1>2. mem' \in {mem, new} /\ disk' \in {disk, new} /\ client' \in {client, client \cup given}
    BY DEF Commit
<1>3. 1..drawn \subseteq 1..drawn' /\ drawn' \in 0..MaxTokens
    BY <1>1, GrantsAssumption
<1>. QED
    BY <1>1, <1>2, <1>3 DEF GrantInv

(* Every step keeps what is so of the grants.                                 *)
LEMMA GrantsKept ==
    ASSUME BoxTypes, GrantInv, [Next]_vars
    PROVE  GrantInv'
<1>. USE GrantsAssumption
<1>. drawn \in Nat /\ drawn <= MaxTokens /\ dead \subseteq 1..drawn /\ Issuance(mem, drawn, dead)
    BY DEF GrantInv
<1>1. CASE UNCHANGED grantVars
    BY <1>1 DEF grantVars, GrantInv
<1>2. CASE Dies
    BY <1>2 DEF Dies, GrantsDie, GrantInv
<1>3. CASE Consent
    BY <1>3, Committed, ConsentIsNew DEF Consent
<1>4. ASSUME NEW g \in mem, NEW p \in Principals, Authorize(g, p) PROVE GrantInv'
  <2>. DEFINE c == [tok |-> drawn + 1, kind |-> "code", p |-> p, family |-> drawn + 1, used |-> FALSE]
  <2>1. Issuance(mem \ {g}, drawn, dead)
      BY FewerGrants
  <2>2. Issuance((mem \ {g}) \cup {c}, drawn + 1, dead)
      BY <1>4, <2>1, CodeIsNew DEF Authorize
  <2>3. drawn' = drawn + 1 /\ drawn < MaxTokens /\ Commit((mem \ {g}) \cup {c}, {drawn + 1}) /\ dead' = dead
      BY <1>4 DEF Authorize
  <2>. QED
      BY <2>2, <2>3, Committed
<1>5. ASSUME NEW g \in mem, Live(g), NEW rest, Issue(g, rest),
             rest \in {mem \ {g}, (mem \ {g}) \cup {[g EXCEPT !.used = TRUE]}}, rest = mem \ {g} \/ g.kind = "refresh"
      PROVE  GrantInv'
  <2>. DEFINE new == rest \cup {[tok |-> drawn + 1, kind |-> "access", p |-> g.p, family |-> g.family, used |-> FALSE],
                                [tok |-> drawn + 2, kind |-> "refresh", p |-> g.p, family |-> g.family, used |-> FALSE]}
  <2>1. drawn' = drawn + 2 /\ drawn + 1 < MaxTokens /\ dead' = dead /\ Commit(new, {drawn + 1, drawn + 2})
      BY <1>5 DEF Issue
  <2>2. Issuance(new, drawn + 2, dead)
      BY <1>5, <2>1, TokensAreNew
  <2>. HIDE DEF new
  <2>. QED
      BY <2>1, <2>2, Committed
<1>6. ASSUME NEW g \in mem, ExchangeCode(g) PROVE GrantInv'
    BY <1>5, <1>6 DEF ExchangeCode, Live
<1>7. ASSUME NEW g \in mem, Refresh(g) PROVE GrantInv'
    BY <1>5, <1>7 DEF Refresh, Live
<1>8. ASSUME NEW g \in mem, Reuse(g) PROVE GrantInv'
  <2>. DEFINE new == {h \in mem : h.kind \notin {"access", "refresh"} \/ h.family # g.family}
  <2>1. Issuance(new, drawn, dead) /\ drawn' = drawn /\ Commit(new, {}) /\ g.kind = "refresh"
      BY <1>8, FewerGrants DEF Reuse
  <2>2. g.family \in 1..drawn /\ dead' \in {dead, dead \cup {g.family}} /\ (mem' = mem => dead' = dead)
      BY <1>8, <2>1 DEF Reuse, Issuance
  <2>3. \A h \in new : h.kind # "consent" => h.family # g.family
      BY <2>1 DEF Issuance, Grant
  <2>4. Issuance(new, drawn, dead \cup {g.family})
      BY <2>1, <2>3 DEF Issuance
  <2>. HIDE DEF new
  <2>5. CASE mem' = mem
      BY <2>1, <2>2, <2>5, Committed DEF GrantInv, Commit
  <2>6. CASE mem' # mem
    <3>1. mem' = new /\ disk' = new /\ client' = client
        BY <2>1, <2>6 DEF Commit
    <3>. QED
        BY <2>1, <2>2, <2>4, <3>1 DEF GrantInv
  <2>. QED
      BY <2>5, <2>6
<1>9. ASSUME NEW g \in mem, Expire(g) PROVE GrantInv'
  <2>1. Issuance(mem \ {g}, drawn, dead) /\ Issuance({h \in disk : h.tok # g.tok}, drawn, dead)
      BY FewerGrants DEF GrantInv
  <2>. QED
      BY <1>9, <2>1 DEF Expire, GrantInv
<1>10. CASE OAuth
    BY <1>3, <1>4, <1>6, <1>7, <1>8, <1>9, <1>10 DEF OAuth, GrantsNext
<1>. QED
    BY <1>1, <1>2, <1>10 DEF Next, Operator, Mailboxes, Requests, Events, vars

-----------------------------------------------------------------------------
(* The subscriptions.                                                        *)

(* A subscription that is saved is saved in memory and in the file.          *)
LEMMA SavedIs ==
    ASSUME SubInv, NEW new \in [Principals -> Sub], Save(new)
    PROVE  subs' \in [Principals -> Sub] /\ saved' = subs'
    BY DEF Save, SubInv

(* What a subscription can become is one.                                    *)
LEMMA SubIs ==
    ASSUME NEW s \in Sub
    PROVE  /\ NoSub \in Sub
           /\ \A b \in SUBSET Mails : [NoSub EXCEPT !.here = TRUE, !.before = b] \in Sub
           /\ [s EXCEPT !.over = FALSE] \in Sub /\ [s EXCEPT !.over = TRUE] \in Sub
           /\ \A r \in SUBSET Mails : [s EXCEPT !.receipts = r] \in Sub
    BY DEF Sub, NoSub

(* A step of the subscriptions alone keeps them and their file the same.      *)
LEMMA SubsOnly ==
    ASSUME SubInv, subs' \in [Principals -> Sub], saved' = subs', UNCHANGED <<mutex, rpc, flush>>
    PROVE  SubInv'
    BY DEF SubInv

(* Every step keeps what is so of the subscriptions.                          *)
LEMMA SubsKept ==
    ASSUME BoxTypes, SubInv, [Next]_vars
    PROVE  SubInv'
<1>. USE SubscriptionsAssumption DEF SubInv
<1>. DEFINE Flush == [pc : {"off", "arm", "active", "next", "deliver", "post", "settle", "remove", "wait"},
                      todo : SUBSET Principals, p : Principals \cup {None}, ids : SUBSET Mails,
                      left : SUBSET Mails, try : 0..MaxAttempts, mail : Mails \cup {None}]
<1>0. Resting \in Flush /\ Resting.left = {} /\ Resting.ids = {} /\ Resting.pc = "off"
    BY DEF Resting
<1>1. CASE UNCHANGED <<subs, saved, mutex, rpc, flush>>
    BY <1>1
<1>2. CASE Start
    BY <1>0, <1>2 DEF Start
<1>3. CASE ServerDies
    BY <1>0, <1>3 DEF ServerDies, NoRpc
<1>4. ASSUME NEW p \in Principals, Subscribe(p) PROVE SubInv'
    BY <1>4 DEF Subscribe
<1>5. ASSUME NEW p \in Principals, Unsubscribe(p) PROVE SubInv'
  <2>1. UNCHANGED <<mutex, rpc, flush>>
    BY <1>5 DEF Unsubscribe
  <2>2. \/ subs' = [subs EXCEPT ![p] = NoSub] /\ saved' = subs'
        \/ UNCHANGED <<subs, saved>>
    BY <1>5 DEF Unsubscribe
  <2>3. subs \in [Principals -> Sub] /\ saved = subs /\ NoSub \in Sub
    BY SubIs
  <2>. HIDE DEF SubInv
  <2>4. subs' \in [Principals -> Sub] /\ saved' = subs'
    BY <2>2, <2>3
  <2>. QED
    BY <2>1, <2>4, SubsOnly
<1>6. ASSUME NEW p \in Principals, SubscriptionExpires(p) PROVE SubInv'
  <2>1. UNCHANGED <<mutex, rpc, flush>> /\ subs' = [subs EXCEPT ![p] = [subs[p] EXCEPT !.over = TRUE]]
        /\ saved' = [saved EXCEPT ![p] = [saved[p] EXCEPT !.over = TRUE]]
    BY <1>6 DEF SubscriptionExpires
  <2>2. /\ subs \in [Principals -> Sub] /\ saved = subs
        /\ [subs[p] EXCEPT !.over = TRUE] \in Sub
    BY SubIs
  <2>. HIDE DEF SubInv
  <2>3. subs' \in [Principals -> Sub] /\ saved' = subs'
    BY <2>1, <2>2
  <2>. QED
    BY <2>1, <2>3, SubsOnly
<1>7. CASE VerifyCallback
  <2>1. UNCHANGED <<subs, saved, flush>> /\ rpc.pc = "verify"
    BY <1>7 DEF VerifyCallback
  <2>2. CASE rpc' = [rpc EXCEPT !.pc = "save"] /\ mutex' = mutex
    BY <2>1, <2>2
  <2>3. CASE rpc' = NoRpc /\ mutex' = None
    BY <2>1, <2>3 DEF NoRpc
  <2>. QED
    BY <1>7, <2>2, <2>3 DEF VerifyCallback
<1>8. CASE SaveSubscription
  <2>1. rpc.p \in Principals /\ subs[rpc.p] \in Sub
    BY <1>8 DEF SaveSubscription
  <2>2. /\ [NoSub EXCEPT !.here = TRUE, !.before = rpc.before] \in Sub
        /\ [subs[rpc.p] EXCEPT !.over = FALSE] \in Sub
    BY <2>1, SubIs
  <2>3. subs' \in [Principals -> Sub] /\ saved' = subs'
    <3>1. CASE Current(rpc.p)
      <4>1. PICK s \in Sub : Save([subs EXCEPT ![rpc.p] = s])
        BY <1>8, <2>2, <3>1 DEF SaveSubscription
      <4>2. [subs EXCEPT ![rpc.p] = s] \in [Principals -> Sub]
        BY <4>1
      <4>. QED
        BY <4>1, <4>2, SavedIs
    <3>. QED
      BY <1>8, <3>1 DEF SaveSubscription
  <2>. QED
    BY <1>8, <2>3 DEF SaveSubscription, NoRpc
<1>9. CASE ArmWatch
    BY <1>9 DEF ArmWatch
<1>10. CASE ActivePrincipals
  <2>1. subs' \in [Principals -> Sub] /\ saved' = subs'
    BY <1>10, SubIs DEF ActivePrincipals
  <2>2. PICK todo \in SUBSET Principals : flush' = [flush EXCEPT !.pc = "next", !.todo = todo]
    BY <1>10 DEF ActivePrincipals
  <2>. QED
    BY <1>10, <2>1, <2>2 DEF ActivePrincipals
<1>11. CASE ReadPending
  <2>1. UNCHANGED <<subs, saved, mutex, rpc>>
    BY <1>11 DEF ReadPending, notFlush
  <2>2. PICK p \in flush.todo :
            flush' = IF Current(p)
                     THEN [flush EXCEPT !.pc = "deliver", !.todo = flush.todo \ {p}, !.p = p, !.try = 0,
                                        !.ids = file[p.reg].pending, !.left = file[p.reg].pending]
                     ELSE [flush EXCEPT !.todo = flush.todo \ {p}]
    BY <1>11 DEF ReadPending
  <2>3. p \in Principals /\ file[p.reg].pending \in SUBSET Mails /\ flush.todo \ {p} \in SUBSET Principals
    BY <2>2 DEF BoxTypes, Files, Principals
  <2>4. CASE Current(p)
    <3>. DEFINE ids == file[p.reg].pending
                todo == flush.todo \ {p}
    <3>1. ids \in SUBSET Mails /\ todo \in SUBSET Principals /\ 0 \in 0..MaxAttempts
      BY <2>3
    <3>2. flush' = [flush EXCEPT !.pc = "deliver", !.todo = todo, !.p = p, !.try = 0, !.ids = ids, !.left = ids]
      BY <2>2, <2>4
    <3>. HIDE DEF ids, todo
    <3>. QED
      BY <2>1, <2>3, <3>1, <3>2
  <2>5. CASE ~Current(p)
    <3>1. flush' = [flush EXCEPT !.todo = flush.todo \ {p}] /\ flush.pc = "next"
      BY <1>11, <2>2, <2>5 DEF ReadPending
    <3>. QED
      BY <2>1, <2>3, <3>1
  <2>. QED
    BY <2>4, <2>5
<1>12. ASSUME NEW m \in Mails, flush' = Skip(m) PROVE flush' \in Flush /\ flush'.left \subseteq flush'.ids
                                                      /\ flush'.pc = "deliver" /\ flush'.p = flush.p
  <2>1. /\ flush.left \ {m} \in SUBSET Mails /\ flush.left \ {m} \subseteq flush.ids
        /\ 0 \in 0..MaxAttempts
    OBVIOUS
  <2>2. flush' = [flush EXCEPT !.left = flush.left \ {m}, !.try = 0, !.pc = "deliver"]
    BY <1>12 DEF Skip
  <2>. QED
    BY <2>1, <2>2
<1>13. ASSUME NEW m \in Mails, DeliverSkips(m) PROVE SubInv'
    BY <1>12, <1>13 DEF DeliverSkips, notFlush
<1>14. ASSUME NEW m \in Mails, DeliverFails(m) PROVE SubInv'
    BY <1>12, <1>14 DEF DeliverFails
<1>15. ASSUME NEW m \in Mails, Deliver(m) PROVE SubInv'
    BY <1>15 DEF Deliver, notFlush
<1>16. ASSUME NEW answer \in {"accepted", "unread", "later", "refused", "gone"}, Post(answer) PROVE SubInv'
  <2>1. UNCHANGED <<subs, saved, mutex, rpc>> /\ flush.pc = "post"
    BY <1>16 DEF Post
  <2>2. \/ /\ flush.try + 1 < MaxAttempts
           /\ flush' = [flush EXCEPT !.pc = "deliver", !.try = flush.try + 1]
        \/ \E pc \in {"settle", "remove"} : flush' = [flush EXCEPT !.pc = pc]
    BY <1>16 DEF Post
  <2>3. CASE flush.try + 1 < MaxAttempts /\ flush' = [flush EXCEPT !.pc = "deliver", !.try = flush.try + 1]
    <3>1. flush.try + 1 \in 0..MaxAttempts
      BY <2>3
    <3>. HIDE DEF Flush
    <3>2. flush' \in Flush
      BY <2>3, <3>1 DEF Flush
    <3>3. flush'.left = flush.left /\ flush'.ids = flush.ids /\ flush'.p = flush.p /\ flush'.pc = "deliver"
      BY <2>3
    <3>. QED
      BY <2>1, <3>2, <3>3 DEF Flush
  <2>4. ASSUME NEW pc \in {"settle", "remove"}, flush' = [flush EXCEPT !.pc = pc] PROVE SubInv'
    BY <2>1, <2>4
  <2>. QED
    BY <2>2, <2>3, <2>4
<1>17. CASE SettlePost
  <2>1. flush.p \in Principals /\ subs[flush.p] \in Sub /\ flush.mail \in Mails
    BY <1>17 DEF SettlePost
  <2>2. PICK new \in [Principals -> Sub] : Save(new)
    <3>1. [subs[flush.p] EXCEPT !.receipts = subs[flush.p].receipts \cup {flush.mail}] \in Sub
      BY <2>1, SubIs DEF Sub
    <3>2. /\ [subs EXCEPT ![flush.p] = NoSub] \in [Principals -> Sub]
          /\ [subs EXCEPT ![flush.p].receipts = @ \cup {flush.mail}] \in [Principals -> Sub]
      BY <2>1, <3>1, SubIs
    <3>. QED
      BY <1>17, <3>2 DEF SettlePost
  <2>3. subs' \in [Principals -> Sub] /\ saved' = subs'
    BY <2>2, SavedIs
  <2>. QED
    BY <1>12, <1>17, <2>1, <2>3 DEF SettlePost
<1>18. CASE Prune
  <2>1. flush.p \in Principals /\ subs[flush.p] \in Sub
    BY <1>18 DEF Prune
  <2>2. [subs[flush.p] EXCEPT !.receipts = subs[flush.p].receipts \cap flush.ids] \in Sub
    BY <2>1, SubIs DEF Sub
  <2>3. subs' \in [Principals -> Sub] /\ saved' = subs'
    BY <1>18, <2>1, <2>2 DEF Prune
  <2>. QED
    BY <1>18, <2>3 DEF Prune
<1>19. CASE Flushed
    BY <1>0, <1>19 DEF Flushed, Resting, notFlush
<1>20. CASE WaitEnds
    BY <1>0, <1>20 DEF WaitEnds, Resting, notFlush
<1>. QED
    BY <1>1, <1>2, <1>3, <1>4, <1>5, <1>6, <1>7, <1>8, <1>9, <1>10, <1>11, <1>13, <1>14, <1>15, <1>16,
       <1>17, <1>18, <1>19, <1>20
    DEF Next, Operator, Mailboxes, Requests, OAuth, Events, Dies, SubscriptionsNext, FlushStep, vars, subVars, SubsRest

-----------------------------------------------------------------------------
(* The server as a whole.                                                    *)

Counts == [admin : {used.admin}, calls : Nat, faults : Nat]

(* A counted call or fault leaves the number of commands.                     *)
LEMMA CountsMore ==
    ASSUME BoxTypes
    PROVE  /\ used \in Counts /\ [used EXCEPT !.calls = @ + 1] \in Counts /\ [used EXCEPT !.faults = @ + 1] \in Counts
           /\ [[used EXCEPT !.calls = @ + 1] EXCEPT !.faults = @ + 1] \in Counts
<1>1. used.calls + 1 \in Nat /\ used.faults + 1 \in Nat
    BY DEF BoxTypes
<1>. QED
    BY <1>1 DEF BoxTypes, Counts

(* Grants and subscriptions do nothing to the mailboxes but count and die.    *)
LEMMA BoxStepping ==
    ASSUME BoxTypes, [Next]_vars
    PROVE  BoxStep
<1>. USE CountsMore
<1>1. ASSUME UNCHANGED <<names, file, intents, creds, team, admin, req, mail, inbox, active, taken, pub, told>>,
             used' \in Counts
      PROVE  BoxStep
    BY <1>1 DEF BoxStep, Elsewhere, Counts
<1>2. UNCHANGED vars => BoxStep
    BY <1>1 DEF vars, boxVars
<1>3. Operator => BoxStep
    BY DEF Operator, BoxStep, MailboxNext
<1>4. Mailboxes => BoxStep
    BY DEF Mailboxes, BoxStep, MailboxNext
<1>5. ASSUME NEW q \in Reqs, NEW p \in Principals, NEW m \in Mails, Call(q, p, "ack", None, {m}) PROVE BoxStep
  <2>1. Asks(q, p, "ack", None, {m})
    BY <1>5 DEF Asks, Call
  <2>. QED
    BY <2>1 DEF BoxStep
<1>6. ASSUME NEW q \in Reqs, NEW p \in Principals, NEW k \in Keys, Call(q, p, "send", k, {}) PROVE BoxStep
  <2>1. Asks(q, p, "send", k, {})
    BY <1>6 DEF Asks, Call
  <2>. QED
    BY <2>1 DEF BoxStep
<1>7. Requests => BoxStep
    BY <1>5, <1>6 DEF Requests, BoxStep, MailboxNext
<1>8. Dies => BoxStep
  <2>1. Dies => Stops
    BY DEF Dies, Stops, Counts
  <2>. QED
    BY <2>1 DEF BoxStep
<1>9. ASSUME OAuth PROVE used' \in Counts
    BY <1>9 DEF OAuth, GrantsNext, Consent, Authorize, ExchangeCode, Refresh, Issue, Reuse, Expire, Commit
<1>10. OAuth => BoxStep
    BY <1>1, <1>9 DEF OAuth, GrantsNext
<1>11. ServerDies => BoxStep
  <2>1. ServerDies => Stops
    BY DEF ServerDies, Stops, Counts
  <2>. QED
    BY <2>1 DEF BoxStep
<1>12. ASSUME NEW p \in Principals, Subscribe(p) PROVE BoxStep
    BY <1>1, <1>12 DEF Subscribe, clientVars
<1>13. ASSUME NEW p \in Principals, Unsubscribe(p) PROVE BoxStep
    BY <1>1, <1>13 DEF Unsubscribe, clientVars
<1>14. ASSUME UNCHANGED boxVars PROVE BoxStep
    BY <1>1, <1>14 DEF boxVars
<1>15. SaveSubscription => BoxStep
    BY <1>1 DEF SaveSubscription, Save, clientVars
<1>16. SettlePost => BoxStep
    BY <1>1 DEF SettlePost, Save, clientVars
<1>17. ASSUME NEW m \in Mails, DeliverFails(m) PROVE BoxStep
    BY <1>1, <1>17 DEF DeliverFails, clientVars
<1>18. ASSUME FlushStep, ~SettlePost PROVE UNCHANGED boxVars
    BY <1>18 DEF FlushStep, ArmWatch, ActivePrincipals, ReadPending, DeliverSkips, Deliver, Post, Prune, Flushed, WaitEnds
<1>19. ASSUME Start \/ VerifyCallback \/ \E p \in Principals : SubscriptionExpires(p) PROVE UNCHANGED boxVars
    BY <1>19 DEF Start, VerifyCallback, SubscriptionExpires
<1>20. Events => BoxStep
    BY <1>11, <1>12, <1>13, <1>14, <1>15, <1>16, <1>17, <1>18, <1>19 DEF Events, SubscriptionsNext
<1>. QED
    BY <1>2, <1>3, <1>4, <1>7, <1>8, <1>10, <1>20 DEF Next

(* The inductive invariant.                                                  *)
LEMMA Initial == Init => IInv
<1>. SUFFICES ASSUME Init PROVE IInv
    OBVIOUS
<1>. USE MailboxAssumption, GrantsAssumption, SubscriptionsAssumption DEF Init, MailboxInit, GrantsInit, SubscriptionsInit
<1>1. BoxTypes
  <2>1. NoFile \in Files /\ NoCall \in Calls /\ Idle \in Commands
    BY DEF NoFile, Files, NoCall, Calls, Idle, Commands
  <2>. QED
    BY <2>1 DEF BoxTypes, Letters
<1>2. Locks
    BY DEF Locks, Locked, Keyed, NoCall, Idle
<1>3. Numbered /\ Admin
    BY DEF Numbered, Admin, NoFile, Idle
<1>4. NameLeadsToMailbox /\ CredentialHeld /\ ~\E r \in Regs : Known(r)
    BY DEF NameLeadsToMailbox, CredentialHeld, Known, NoFile
<1>5. Fresh
    BY DEF Fresh, Sends
<1>6. SendsHold
    BY <1>4, SendIs DEF SendsHold
<1>7. RequestsHold
    BY DEF RequestsHold, RequestHolds, Sent, NoCall
<1>8. NoLostMail
    BY DEF NoLostMail
<1>9. GrantInv
    BY DEF GrantInv, Issuance
<1>10. SubInv
    BY DEF SubInv, Sub, NoSub, NoRpc, Resting
<1>. QED
    BY <1>1, <1>2, <1>3, <1>4, <1>5, <1>6, <1>7, <1>8, <1>9, <1>10 DEF IInv, BoxInv

(* Every behaviour keeps it.                                                 *)
THEOREM Invariant == Spec => []IInv
<1>1. IInv /\ [Next]_vars => IInv'
  <2>. SUFFICES ASSUME IInv, [Next]_vars PROVE IInv'
    OBVIOUS
  <2>1. BoxStep
    BY BoxStepping DEF IInv, BoxInv
  <2>2. BoxInv'
    BY <2>1, BoxTypesKept, LocksKept, NumberedKept, AdminKept, NameLeadsToMailboxKept, CredentialHeldKept,
       FreshKept, SendsHoldKept, RequestsHoldKept, NoLostMailKept DEF IInv, BoxInv
  <2>. QED
    BY <2>2, GrantsKept, SubsKept DEF IInv, BoxInv
<1>. QED
    BY <1>1, Initial, PTL DEF Spec

-----------------------------------------------------------------------------
(* What the runs check.                                                      *)

(* A keyed send is published once and a client told "queued" has it at its   *)
(* recipient, and mail stays in its mailbox until it is acknowledged         *)
(* (cmd/gang/outside.go:236, store/outside.go:420).                          *)
THEOREM MailIsHandedOnOnce == Spec => []MailOnce
<1>1. IInv => MailOnce
  <2>. SUFFICES ASSUME IInv PROVE MailOnce
    OBVIOUS
  <2>1. MailboxTypeOK
    <3>1. \A r \in Regs : file[r].gen \in Gens
      BY MailboxAssumption DEF IInv, BoxInv, BoxTypes, Numbered, Gens
    <3>2. file \in [Regs -> [here : BOOLEAN, name : Names \cup {None}, gen : Gens, pending : SUBSET Mails]]
      BY <3>1 DEF IInv, BoxInv, BoxTypes, Files
    <3>. QED
      BY <3>2 DEF IInv, BoxInv, BoxTypes, Locks, MailboxTypeOK
  <2>2. GrantsTypeOK
    BY DEF IInv, GrantInv, Issuance, GrantsTypeOK
  <2>3. SubscriptionsTypeOK
    BY DEF IInv, SubInv, SubscriptionsTypeOK
  <2>. QED
    BY <2>1, <2>2, <2>3 DEF IInv, BoxInv, SendsHold, MailOnce, TypeOK, PublishedOnce, QueuedIsPublished
<1>. QED
    BY <1>1, Invariant, PTL

(* Whoever is registered can be reached by name, holds the credential of its *)
(* generation and has the receipts its client was told of, whatever command  *)
(* died (store/outside.go:229).                                              *)
THEOREM RegisteredCanLogIn == Spec => []PrincipalsHold
<1>1. IInv => PrincipalsHold
    BY DEF IInv, BoxInv, SendsHold, PrincipalsHold, ReceiptHeld
<1>. QED
    BY <1>1, Invariant, PTL

(* An authorization has one refresh token to use, and a family revoked for a *)
(* token that came back stays revoked across failed commits and restarts     *)
(* (mcpauth/auth.go:396).                                                    *)
THEOREM GrantsAreUsedOnce == Spec => []GrantsHold
<1>1. IInv => GrantsHold
  <2>. SUFFICES ASSUME IInv PROVE GrantsHold
    OBVIOUS
  <2>1. ASSUME NEW f \in Tokens PROVE Cardinality(Usable(f)) <= 1
    <3>1. \A g, h \in Usable(f) : g = h
      BY DEF Usable, IInv, GrantInv, Issuance, Live
    <3>2. CASE Usable(f) = {}
      BY <3>2, FS_EmptySet
    <3>3. CASE Usable(f) # {}
      <4>1. PICK g : Usable(f) = {g}
        BY <3>1, <3>3
      <4>2. Cardinality({g}) = 1
        BY FS_Singleton
      <4>. QED
        BY <4>1, <4>2
    <3>. QED
      BY <3>2, <3>3
  <2>2. RevokedFamilyIsGone
    BY DEF RevokedFamilyIsGone, IInv, GrantInv, Issuance
  <2>. QED
    BY <2>1, <2>2 DEF GrantsHold, OneRefresh
<1>. QED
    BY <1>1, Invariant, PTL

(* A receipt the client was given stays the answer, and each write of a      *)
(* request is made for the current generation of its registration            *)
(* (cmd/gang/outside.go:236, store/outside.go:377).                          *)
THEOREM AnswersAreKept == Spec => AnswersStand
<1>1. IInv /\ [Next]_vars => [\A s \in Sends : told[s] # "none" => told'[s] = told[s]]_boxVars
  <2>. SUFFICES ASSUME IInv, [Next]_vars, NEW s \in Sends, told[s] # "none" PROVE told'[s] = told[s]
    OBVIOUS
  <2>1. BoxStep
    BY BoxStepping DEF IInv, BoxInv
  <2>2. ASSUME NEW q \in Reqs, Reply(q) PROVE told'[s] = told[s]
    <3>1. Sending(q) \in Sends /\ Sending(q)[1] = req[q].p.reg
      BY <2>2, SendIsTyped DEF Reply, SendStep, Keyed, IInv, BoxInv
    <3>2. Known(req[q].p.reg) /\ req[q].out = intents[Sending(q)]
      BY <2>2 DEF Reply, SendStep, IInv, BoxInv, RequestsHold, RequestHolds, Current, Sent
    <3>3. told[Sending(q)] # "none" => req[q].out = told[Sending(q)]
      BY <3>1, <3>2 DEF IInv, BoxInv, SendsHold
    <3>. QED
      BY <2>2, <3>1, <3>3 DEF Reply, IInv, BoxInv, BoxTypes
  <2>3. (\A q \in Reqs : ~Reply(q)) => told' = told
    BY <2>1 DEF BoxStep, MailboxNext, AdminStep, ReqStep, Asks, Begin, Stops, Elsewhere, clientVars, Command,
       IssueCredential, SaveRegistration, ClaimOutside, RemoveOutsideName, RemoveData, RemoveFile, SaveFails, AdminDies,
       NativeClaims, QueueOutside, Compose, WithOutside, AckRead, AckWrite, SendSettled, SaveIntent, SendAgain,
       TryRecipient, Look, Attempt, PublishSend, SettleSend, SendFails, RecipientDelivers, RecipientDropped
  <2>. QED
    BY <2>2, <2>3
<1>2. IInv => \A q \in Reqs : req[q].pc \notin {"none", "lock"} => Current(req[q].p)
    BY DEF IInv, BoxInv, RequestsHold, RequestHolds
<1>3. IInv /\ [Next]_vars =>
          [\A q \in Reqs : req[q].pc \notin {"none", "lock"} /\ req'[q] # req[q]
                           /\ (file' # file \/ pub' # pub \/ intents' # intents)
                           => Current(req[q].p)]_boxVars
    BY <1>2
<1>. QED
    BY <1>1, <1>3, Invariant, PTL DEF Spec, AnswersStand, SameReceipt, RevokedActsNot
===============================================================================
