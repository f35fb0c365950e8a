---------------------------- MODULE Subscriptions ----------------------------
(* Webhook subscriptions and their delivery: internal/mcpevents/events.go, *)
(* and the flush and the directory watch of cmd/gang/outside_mcp.go.       *)
(*                                                                         *)
(* One callback per principal. A subscribe request holds the manager's     *)
(* mutex while it verifies the callback; the flush takes it for each read  *)
(* and each write, and posts without it.                                   *)
EXTENDS Mailbox

CONSTANTS MaxAttempts   \* posts of one event before it is given up

ASSUME SubscriptionsAssumption == MaxAttempts \in Nat \ {0} /\ None # "rpc"

VARIABLES
    up,         \* the server runs
    subs,       \* the manager's subscriptions
    saved,      \* events.json
    mutex,      \* holder of the manager's mutex between steps
    rpc,        \* the subscribe request
    flush,      \* the mail watcher
    changed,    \* outside/ changed since the watch was armed
    accepted,   \* ghost: posts of each event the callback accepted, but for
                \* those that repeat one whose reply could not be read
    reported    \* ghost: events whose failure was printed

subVars == <<up, subs, saved, mutex, rpc, flush, changed, accepted, reported>>
notFlush == <<up, saved, mutex, rpc, changed, accepted, reported>>

Sub == [here : BOOLEAN, before : SUBSET Mails, receipts : SUBSET Mails, over : BOOLEAN]
NoSub == [here |-> FALSE, before |-> {}, receipts |-> {}, over |-> FALSE]
NoPost == [times |-> 0, read |-> TRUE]
NoRpc == [pc |-> "none", p |-> None, before |-> {}, fresh |-> FALSE]
Resting == [pc |-> "off", todo |-> {}, p |-> None, ids |-> {}, left |-> {}, try |-> 0,
            mail |-> None]

SubscriptionsInit ==
    /\ up = FALSE
    /\ subs = [p \in Principals |-> NoSub] /\ saved = subs
    /\ mutex = None /\ rpc = NoRpc /\ flush = Resting /\ changed = FALSE
    /\ accepted = [p \in Principals |-> [m \in Mails |-> NoPost]]
    /\ reported = {}

\* saveLocked: a failed write restores memory.
Save(new) ==
    \/ subs' = new /\ saved' = new /\ UNCHANGED used
    \/ /\ used.faults < MaxFaults /\ used' = [used EXCEPT !.faults = @ + 1]
       /\ UNCHANGED <<subs, saved>>

\* The server starts on what was saved, and its watch is armed.
Start ==
    /\ ~up /\ up' = TRUE
    /\ subs' = saved
    /\ flush' = [Resting EXCEPT !.pc = "arm"]
    /\ UNCHANGED <<saved, mutex, rpc, changed, accepted, reported, boxVars>>

-----------------------------------------------------------------------------
(* events/subscribe and events/unsubscribe.                                *)

\* The subscription's creation time is read before the callback is verified.
Subscribe(p) ==
    /\ up /\ rpc.pc = "none" /\ mutex = None /\ used.calls < MaxCalls /\ Current(p)
    /\ used' = [used EXCEPT !.calls = @ + 1]
    /\ mutex' = "rpc"
    /\ rpc' = [pc |-> "verify", p |-> p, before |-> {m \in Mails : mail[m].at # "none"},
               fresh |-> ~subs[p].here \/ subs[p].over]
    /\ UNCHANGED <<names, file, creds, team, admin, req, mail, clientVars,
                   up, subs, saved, flush, changed, accepted, reported>>

\* The callback echoes its challenge, now or within the last verification's
\* lifetime, or the request fails.
VerifyCallback ==
    /\ rpc.pc = "verify"
    /\ \/ rpc' = [rpc EXCEPT !.pc = "save"] /\ UNCHANGED mutex
       \/ rpc' = NoRpc /\ mutex' = None
    /\ UNCHANGED <<up, subs, saved, flush, changed, accepted, reported, boxVars>>

\* The registration is checked again; a renewal keeps creation and receipts.
SaveSubscription ==
    /\ rpc.pc = "save"
    /\ LET p == rpc.p
           s == IF rpc.fresh THEN [NoSub EXCEPT !.here = TRUE, !.before = rpc.before]
                ELSE [subs[p] EXCEPT !.over = FALSE]
       IN IF Current(p) THEN Save([subs EXCEPT ![p] = s]) ELSE UNCHANGED <<subs, saved, used>>
    /\ rpc' = NoRpc /\ mutex' = None
    /\ UNCHANGED <<names, file, creds, team, admin, req, mail, clientVars,
                   up, flush, changed, accepted, reported>>

Unsubscribe(p) ==
    /\ up /\ mutex = None /\ used.calls < MaxCalls /\ Current(p) /\ subs[p].here
    /\ LET spent == [used EXCEPT !.calls = @ + 1] IN
       \/ /\ subs' = [subs EXCEPT ![p] = NoSub] /\ saved' = subs' /\ used' = spent
       \/ /\ used.faults < MaxFaults /\ used' = [spent EXCEPT !.faults = @ + 1]
          /\ UNCHANGED <<subs, saved>>
    /\ UNCHANGED <<names, file, creds, team, admin, req, mail, clientVars,
                   up, mutex, rpc, flush, changed, accepted, reported>>

SubscriptionExpires(p) ==
    /\ up /\ subs[p].here /\ ~subs[p].over
    /\ subs' = [subs EXCEPT ![p].over = TRUE]
    /\ saved' = [saved EXCEPT ![p].over = TRUE]
    /\ UNCHANGED <<up, mutex, rpc, flush, changed, accepted, reported, boxVars>>

-----------------------------------------------------------------------------
(* The mail watcher.                                                       *)

ArmWatch ==
    /\ flush.pc = "arm"
    /\ changed' = FALSE
    /\ flush' = [flush EXCEPT !.pc = "active"]
    /\ UNCHANGED <<up, subs, saved, mutex, rpc, accepted, reported, boxVars>>

\* ActivePrincipals drops what expired or was revoked; if that cannot be
\* saved, or a registration cannot be read, the server ends.
ActivePrincipals ==
    /\ flush.pc = "active" /\ mutex = None
    /\ LET next == [p \in Principals |-> IF subs[p].over \/ ~Current(p) THEN NoSub ELSE subs[p]]
       IN /\ subs' = next /\ saved' = next
          /\ flush' = [flush EXCEPT !.pc = "next", !.todo = {p \in Principals : next[p].here}]
    /\ UNCHANGED <<up, mutex, rpc, changed, accepted, reported, boxVars>>

\* The pending mail is one snapshot, of the principal's generation.
ReadPending ==
    /\ flush.pc = "next" /\ flush.todo # {}
    /\ \E p \in flush.todo :
         flush' = IF Current(p)
                  THEN [flush EXCEPT !.pc = "deliver", !.todo = @ \ {p}, !.p = p, !.try = 0,
                                     !.ids = file[p.reg].pending, !.left = file[p.reg].pending]
                  ELSE [flush EXCEPT !.todo = @ \ {p}]
    /\ UNCHANGED <<notFlush, subs, boxVars>>

Wakes(p, m) == /\ subs[p].here /\ ~subs[p].over
               /\ m \notin subs[p].receipts \cup subs[p].before

Skip(m) == [flush EXCEPT !.left = @ \ {m}, !.try = 0, !.pc = "deliver"]

\* Deliver: subscription, receipt, time and registration are checked before
\* every post; a registration that cannot be read is reported.
DeliverSkips(m) ==
    /\ flush.pc = "deliver" /\ m \in flush.left /\ mutex = None
    /\ ~Wakes(flush.p, m) \/ ~Current(flush.p)
    /\ flush' = Skip(m)
    /\ UNCHANGED <<notFlush, subs, boxVars>>
DeliverFails(m) ==
    /\ flush.pc = "deliver" /\ m \in flush.left /\ mutex = None
    /\ Wakes(flush.p, m) /\ used.faults < MaxFaults
    /\ used' = [used EXCEPT !.faults = @ + 1]
    /\ reported' = reported \cup {<<flush.p, m>>}
    /\ flush' = Skip(m)
    /\ UNCHANGED <<up, subs, saved, mutex, rpc, changed, accepted, names, file, creds, team,
                   admin, req, mail, clientVars>>
Deliver(m) ==
    /\ flush.pc = "deliver" /\ m \in flush.left /\ mutex = None
    /\ Wakes(flush.p, m) /\ Current(flush.p)
    /\ flush' = [flush EXCEPT !.pc = "post", !.mail = m]
    /\ UNCHANGED <<notFlush, subs, boxVars>>

\* The callback accepts, asks for later, refuses, or is gone (410). It may
\* also accept with a reply that is lost, breaks off or is too long: that is
\* posted again like a "later".
Post(answer) ==
    /\ flush.pc = "post"
    /\ LET m == flush.mail
           past == accepted[flush.p][m]
           again == answer \in {"unread", "later"} /\ flush.try + 1 < MaxAttempts
       IN /\ accepted' = IF answer \notin {"accepted", "unread"} THEN accepted
                         ELSE [accepted EXCEPT ![flush.p][m] =
                                 [times |-> IF past.read /\ past.times < 3 THEN past.times + 1
                                            ELSE past.times,
                                  read |-> answer = "accepted"]]
          /\ reported' = IF answer = "accepted" \/ again THEN reported
                         ELSE reported \cup {<<flush.p, m>>}
          /\ flush' = IF again THEN [flush EXCEPT !.pc = "deliver", !.try = @ + 1]
                      ELSE [flush EXCEPT !.pc = IF answer = "gone" THEN "remove" ELSE "settle"]
    /\ UNCHANGED <<up, subs, saved, mutex, rpc, changed, boxVars>>

\* settle: a receipt, or the end of a subscription whose callback is gone,
\* for whatever subscription the principal has by now.
SettlePost ==
    /\ flush.pc \in {"settle", "remove"} /\ mutex = None
    /\ LET p == flush.p IN
       Save(IF ~subs[p].here THEN subs
            ELSE IF flush.pc = "remove" THEN [subs EXCEPT ![p] = NoSub]
            ELSE [subs EXCEPT ![p].receipts = @ \cup {flush.mail}])
    /\ flush' = Skip(flush.mail)
    /\ UNCHANGED <<up, mutex, rpc, changed, accepted, reported, names, file, creds, team,
                   admin, req, mail, clientVars>>

\* Prune: receipts of mail that was not pending go; a failed save ends the
\* server.
Prune ==
    /\ flush.pc = "deliver" /\ flush.left = {} /\ mutex = None
    /\ subs' = [subs EXCEPT ![flush.p].receipts = @ \cap flush.ids]
    /\ saved' = subs'
    /\ flush' = [flush EXCEPT !.pc = "next", !.p = None, !.ids = {}]
    /\ UNCHANGED <<up, mutex, rpc, changed, accepted, reported, boxVars>>

\* Defect: the watch is armed after the mail was read.
FlushedThenArmed ==
    /\ flush.pc = "next" /\ flush.todo = {}
    /\ flush' = [Resting EXCEPT !.pc = "wait"]
    /\ changed' = FALSE
    /\ UNCHANGED <<up, subs, saved, mutex, rpc, accepted, reported, boxVars>>
Flushed ==
    /\ flush.pc = "next" /\ flush.todo = {}
    /\ flush' = [Resting EXCEPT !.pc = "wait"]
    /\ UNCHANGED <<notFlush, subs, boxVars>>

WaitEnds ==
    /\ flush.pc = "wait" /\ changed
    /\ flush' = [Resting EXCEPT !.pc = "arm"]
    /\ UNCHANGED <<notFlush, subs, boxVars>>

\* The server dies: what is saved stays.
ServerDies ==
    /\ up /\ used.faults < MaxFaults /\ used' = [used EXCEPT !.faults = @ + 1]
    /\ up' = FALSE /\ flush' = Resting /\ rpc' = NoRpc /\ mutex' = None
    /\ subs' = saved
    /\ RequestsDie
    /\ UNCHANGED <<saved, changed, accepted, reported, names, file, creds, admin, mail,
                   intents, inbox, active, pub, told>>

FlushStep == \/ ArmWatch \/ ActivePrincipals \/ ReadPending
             \/ \E m \in Mails : DeliverSkips(m) \/ Deliver(m)
             \/ \E answer \in {"accepted", "unread", "later", "refused", "gone"} : Post(answer)
             \/ SettlePost \/ Prune \/ Flushed \/ WaitEnds

SubscriptionsNext ==
    \/ Start \/ ServerDies
    \/ \E p \in Principals : Subscribe(p) \/ Unsubscribe(p) \/ SubscriptionExpires(p)
    \/ VerifyCallback \/ SaveSubscription
    \/ FlushStep
    \/ \E m \in Mails : DeliverFails(m)

-----------------------------------------------------------------------------
\* Every variable keeps its type; the mutex is the subscribe request's or free.
SubscriptionsTypeOK ==
    /\ subs \in [Principals -> Sub]
    /\ mutex \in {None, "rpc"} /\ (mutex = "rpc" <=> rpc.pc # "none")
    /\ flush.todo \subseteq Principals /\ flush.left \subseteq flush.ids
    /\ flush.try \in 0..MaxAttempts

\* What the manager works with is what a restart would find: subscriptions
\* and receipts survive it (docs/outside-agents.md:97).
SurvivesRestart == subs = saved

\* Once a callback's acceptance was read, the callback is sent the event again
\* only when a death or a failed write lost its receipt. An acceptance that
\* could not be read is posted again and not counted (events.go:500, 521;
\* docs/outside-agents.md:102).
RepeatedOnlyByFault ==
    \A p \in Principals, m \in Mails : accepted[p][m].times <= 1 + used.faults

\* Mail that arrives for a subscribed registration wakes it or is reported,
\* while the server runs: no write of a mailbox falls between the watch and
\* the read (outside_mcp.go:156). So no mail is left waiting for ever.
Waiting(p, m) == /\ up /\ Current(p) /\ Wakes(p, m)
                 /\ m \in file[p.reg].pending
                 /\ accepted[p][m].times = 0 /\ <<p, m>> \notin reported
Woken == []<>(\A p \in Principals, m \in Mails : ~Waiting(p, m))

=============================================================================
