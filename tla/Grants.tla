------------------------------- MODULE Grants -------------------------------
(* The OAuth grants of the outside MCP server: internal/mcpauth/auth.go.   *)
(*                                                                         *)
(* A consent becomes a code, a code or a refresh token becomes an access   *)
(* and a refresh token of the same family. Every change is committed to    *)
(* oauth.json before an answer leaves; a failed commit restores memory.    *)
EXTENDS Mailbox

CONSTANTS MaxTokens   \* bound: tokens drawn

ASSUME GrantsAssumption == MaxTokens \in Nat

VARIABLES
    mem, disk,  \* the grants in memory and in oauth.json
    drawn,      \* tokens drawn so far; each is random, so never drawn again
    client,     \* the tokens the client was given
    dead        \* ghost: families revoked because a used token came back

grantVars == <<mem, disk, drawn, client, dead>>

Tokens == 1..MaxTokens
Grant == [tok : Tokens, kind : {"consent", "code", "access", "refresh"},
          p : Principals \cup {None}, family : Tokens \cup {None}, used : BOOLEAN]

GrantsInit == /\ mem = {} /\ disk = {} /\ drawn = 0
              /\ client = {} /\ dead = {}

\* persist writes the file.  A write that fails leaves it as it was, or
\* replaced when only the directory's sync failed; memory is restored either
\* way and nothing is given out.
Commit(new, given) ==
    \/ /\ mem' = new /\ disk' = new /\ client' = client \cup given
       /\ UNCHANGED used
    \/ /\ used.faults < MaxFaults /\ used' = [used EXCEPT !.faults = @ + 1]
       /\ disk' \in {disk, new}
       /\ UNCHANGED <<mem, client>>

Consent == /\ drawn < MaxTokens
           /\ drawn' = drawn + 1
           /\ Commit(mem \cup {[tok |-> drawn + 1, kind |-> "consent", p |-> None,
                                family |-> None, used |-> FALSE]}, {drawn + 1})
           /\ UNCHANGED dead

\* The form's post: a credential of the current generation turns the consent
\* into a code, whose family is its own token.
Authorize(g, p) ==
    /\ g \in mem /\ g.kind = "consent" /\ g.tok \in client
    /\ p \in creds /\ Current(p) /\ drawn < MaxTokens
    /\ drawn' = drawn + 1
    /\ Commit((mem \ {g}) \cup {[tok |-> drawn + 1, kind |-> "code", p |-> p,
                                 family |-> drawn + 1, used |-> FALSE]}, {drawn + 1})
    /\ UNCHANGED dead

Issue(g, rest) ==
    LET new(kind, t) == [tok |-> t, kind |-> kind, p |-> g.p, family |-> g.family, used |-> FALSE]
    IN /\ Current(g.p) /\ drawn + 1 < MaxTokens
       /\ drawn' = drawn + 2
       /\ Commit(rest \cup {new("access", drawn + 1), new("refresh", drawn + 2)},
                 {drawn + 1, drawn + 2})
       /\ UNCHANGED dead

\* Defect: the code stays.
ExchangeCodeAgain(g) == /\ g \in mem /\ g.kind = "code" /\ g.tok \in client
                        /\ Issue(g, mem)
ExchangeCode(g) == /\ g \in mem /\ g.kind = "code" /\ g.tok \in client
                   /\ Issue(g, mem \ {g})

Refresh(g) ==
    /\ g \in mem /\ g.kind = "refresh" /\ g.tok \in client /\ ~g.used
    /\ Issue(g, (mem \ {g}) \cup {[g EXCEPT !.used = TRUE]})

\* Defect: only the access tokens of the family go.
ReuseSparesRefresh(g) ==
    /\ g \in mem /\ g.kind = "refresh" /\ g.tok \in client /\ g.used
    /\ Commit({h \in mem : h.kind # "access" \/ h.family # g.family}, {})
    /\ dead' = IF mem' # mem THEN dead \cup {g.family} ELSE dead
    /\ UNCHANGED drawn

\* A used refresh token came back: its whole family goes.
Reuse(g) ==
    /\ g \in mem /\ g.kind = "refresh" /\ g.tok \in client /\ g.used
    /\ Commit({h \in mem : h.kind \notin {"access", "refresh"} \/ h.family # g.family}, {})
    /\ dead' = IF mem' # mem THEN dead \cup {g.family} ELSE dead
    /\ UNCHANGED drawn

\* AuthenticateAccess, and the handler's check of the registration.
Accepts(t, p) == \E g \in mem : /\ g.tok = t /\ t \in client /\ g.kind = "access"
                                /\ g.p = p /\ Current(p)

\* A token's lifetime ends; a new token outlives an older one of its kind.
\* Every use asks whether a grant is still valid and every commit drops the
\* grants that are not, so an expired grant is one that is gone.
Expire(g) ==
    /\ \A h \in mem : h.kind = g.kind => g.tok <= h.tok
    /\ mem' = mem \ {g}
    /\ disk' = {h \in disk : h.tok # g.tok}
    /\ UNCHANGED <<drawn, client, dead, used>>

\* A restart reads oauth.json.
GrantsDie == mem' = disk /\ UNCHANGED <<disk, drawn, client, dead>>

GrantsNext ==
    /\ \/ Consent
       \/ \E g \in mem : \/ ExchangeCode(g) \/ Refresh(g) \/ Reuse(g)
                         \/ Expire(g) \/ \E p \in Principals : Authorize(g, p)
    /\ UNCHANGED <<names, file, intents, creds, team, admin, req, mail, inbox,
                   active, taken, pub, told>>

-----------------------------------------------------------------------------
\* Every variable keeps its type; memory has no two grants of one token.
GrantsTypeOK ==
    /\ mem \subseteq Grant /\ disk \subseteq Grant
    /\ \A g, h \in mem : g.tok = h.tok => g = h
    /\ drawn \in 0..MaxTokens /\ client \subseteq 1..drawn

\* One authorization has one refresh token to use, whatever was retried after
\* a failed commit or a restart (auth.go:431).
Usable(f) == {g \in mem : g.kind = "refresh" /\ g.family = f /\ ~g.used}
OneRefresh == \A f \in Tokens : Cardinality(Usable(f)) <= 1

\* A family that was revoked for a reused token never works again: no access
\* or refresh token of it is left, after any restart (auth.go:396).
RevokedFamilyIsGone ==
    \A g \in mem \cup disk : g.family \in dead => g.kind \notin {"access", "refresh"}

=============================================================================
