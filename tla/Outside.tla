------------------------------ MODULE Outside ------------------------------
(* The outside MCP server with its mailboxes, grants and subscriptions.    *)
(* The three share registrations, the server process and its deaths; a     *)
(* behaviour exercises one of them beside the operator's commands.         *)
EXTENDS Grants, Subscriptions

VARIABLE part   \* which part of the server the client uses

vars == <<boxVars, grantVars, subVars, part>>
Parts == {"mail", "grants", "events"}

Init == /\ MailboxInit /\ GrantsInit /\ SubscriptionsInit
        /\ part \in Parts

\* A write below outside/ ends the watcher's wait.
Noticed == changed' = (changed \/ file' # file)
\* Only the flush itself re-arms the watch.
SubsRest == UNCHANGED <<up, subs, saved, mutex, rpc, flush, accepted, reported>>

\* A request carries an access token of a current registration. (Bound: one
\* at a time beside the watcher, one beside the grants.)
Call(q, p, kind, key, ids) ==
    /\ up \/ part # "events"
    /\ part = "events" => \A o \in Reqs : req[o] = NoCall
    /\ part = "grants" => used.calls = 0 /\ \E t \in client : Accepts(t, p)
    /\ Begin(q, p, kind, key, ids)

Operator ==
    /\ part = "mail" \/ used.admin < 2 \/ admin.pc # "none"
    /\ \/ \E kind \in {"register", "rotate", "remove"}, r \in Regs, n \in Names : Command(kind, r, n)
       \/ AdminStep \/ SaveFails \/ AdminDies
       \/ part = "mail" /\ \E n \in Names : NativeClaims(n)
    /\ Noticed /\ SubsRest /\ UNCHANGED <<grantVars, part>>

Mailboxes ==
    /\ part # "grants"
    /\ \/ \E m \in Mails : QueueOutside(m) \/ \E r \in Regs : Compose(m, r)
    /\ Noticed /\ SubsRest /\ UNCHANGED <<grantVars, part>>

Requests ==
    /\ \/ \E q \in Reqs, p \in Principals, m \in Mails : Call(q, p, "ack", None, {m})
       \/ part = "mail" /\ \E q \in Reqs, p \in Principals, k \in Keys : Call(q, p, "send", k, {})
       \/ \E q \in Reqs : ReqStep(q) \/ SendFails(q)
       \/ \E s \in Sends : RecipientDelivers(s)
       \/ part = "mail" /\ RecipientDropped
    /\ Noticed /\ SubsRest /\ UNCHANGED <<grantVars, part>>

OAuth == /\ part = "grants" /\ GrantsNext
         /\ UNCHANGED <<subVars, part>>

Events == part = "events" /\ SubscriptionsNext /\ UNCHANGED <<grantVars, part>>

\* Without the watcher, a death takes requests and uncommitted grants.
Dies ==
    /\ part # "events" /\ used.faults < MaxFaults
    /\ used' = [used EXCEPT !.faults = @ + 1]
    /\ RequestsDie /\ GrantsDie
    /\ UNCHANGED <<names, file, intents, creds, admin, mail, inbox, active, pub, told, subVars, part>>

Next == Operator \/ Mailboxes \/ Requests \/ OAuth \/ Events \/ Dies

\* The mail watcher runs; the subscribe request and the holder of the mutex
\* come to an end.
Fairness == WF_vars(part = "events" /\ FlushStep /\ UNCHANGED <<grantVars, part>>)
            /\ WF_vars(Events /\ (VerifyCallback \/ SaveSubscription))

Spec == Init /\ [][Next]_vars
FairSpec == Spec /\ Fairness

TypeOK == MailboxTypeOK /\ GrantsTypeOK /\ SubscriptionsTypeOK

\* A keyed send is published once and mail is handed on, whatever was retried
\* and whoever died (outside.go:236, store/outside.go:420).
MailOnce == TypeOK /\ PublishedOnce /\ QueuedIsPublished /\ NoLostMail

\* Whoever is registered can be reached, can log in and finds the receipts of
\* its sends (store/outside.go:229).
PrincipalsHold == NameLeadsToMailbox /\ CredentialHeld /\ ReceiptHeld

\* No grant is used twice, and a revoked family stays revoked across restarts
\* (mcpauth/auth.go:396).
GrantsHold == OneRefresh /\ RevokedFamilyIsGone

\* What a client was told stays so, and the revoked do nothing more
\* (outside.go:236, store/outside.go:377).
AnswersStand == SameReceipt /\ RevokedActsNot

\* Events reach the subscriber: mail wakes it, restarts keep its subscription,
\* and an event is repeated only by a death, a failed write or a reply that
\* could not be read (outside_mcp.go:152, events.go:519, 521).
EventsArrive == []SurvivesRestart /\ []RepeatedOnlyByFault /\ Woken
=============================================================================
