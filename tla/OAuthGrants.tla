---------------------------- MODULE OAuthGrants ----------------------------
(***************************************************************************)
(* Consent for connected applications: clients register themselves, a      *)
(* person approves one and a code is issued, the code is exchanged once    *)
(* for a grant with an access and a refresh token, and each refresh token  *)
(* is rotated once.  A code or refresh token presented again revokes the   *)
(* grant.                                                                  *)
(*                                                                         *)
(* Every write is one immediate transaction or one statement; the reads a  *)
(* request decides by come before it.  Reads of one request that no step   *)
(* of the model can tell apart are one step.  A request can end anywhere:  *)
(* its client hangs up, a statement fails or the process stops.            *)
(***************************************************************************)
EXTENDS Integers, Sequences, FiniteSets

CONSTANTS
    Persons,     \* people who may approve a client
    Clients,     \* the registrations clients make
    Codes,       \* authorization codes, fresh secrets each
    Addresses,   \* addresses the instance may be given
    Requests,    \* requests served at the same time
    None,        \* no address, no client
    CodeTTL,     \* oauthCodeTTL
    AccessTTL,   \* oauthAccessTTL
    RefreshTTL,  \* oauthRefreshTTL
    PruneAge,    \* oauthClientPruneAge
    MaxTime,     \* bound: the last instant
    MaxPairs     \* bound: token pairs ever minted

ASSUME NoneAssumption == None \notin Addresses \cup Clients
ASSUME LifetimesAssumption ==
    /\ CodeTTL \in Nat /\ AccessTTL \in Nat
    /\ RefreshTTL \in Nat /\ PruneAge \in Nat
    /\ AccessTTL <= RefreshTTL
ASSUME BoundsAssumption == MaxTime \in Nat /\ MaxPairs \in Nat

VARIABLES
    now,       \* the clock
    address,   \* the instance address, None while unset
    mcp,       \* the MCP switch
    active,    \* per person: users.active
    client,    \* per client: its oauth_clients row
    code,      \* per code: its oauth_codes row
    grants,    \* oauth_grants, in the order of their ids
    pairs,     \* oauth_tokens, by the mint that made both tokens of a pair
    request,   \* per request in service: where it is and what it read
    replays    \* auxiliary: secrets the store met again after they were spent

settings == <<address, mcp>>
tables == <<client, code, grants, pairs>>
vars == <<now, settings, active, tables, request, replays>>

Instants == 0..MaxTime

ClientRow == [state : {"absent", "stored", "pruned"}, created : Instants]
CodeRow == [state : {"absent", "stored", "spent", "deleted"},
            person : Persons \cup {None}, client : Clients \cup {None},
            resource : Addresses \cup {None}, expires : Nat, grant : Nat]
GrantRow == [person : Persons, client : Clients, resource : Addresses,
             code : Codes, revoked : {"no", "tkt", "person"}]
PairRow == [grant : Nat, minted : Instants, spent : BOOLEAN,
            stored : SUBSET {"access", "refresh"}]

\* What a request in service carries from its reads to its transaction.
RequestState ==
    [pc : {"idle", "enable"}]
    \cup [pc : {"approve"}, person : Persons, client : Clients, code : Codes,
          resource : Addresses, at : Instants]
    \cup [pc : {"consumed", "grant"}, code : Codes, at : Instants]
    \cup [pc : {"rotate"}, pair : Nat, at : Instants]

AbsentCode == [state |-> "absent", person |-> None, client |-> None,
               resource |-> None, expires |-> 0, grant |-> 0]

Idle == [pc |-> "idle"]
Goto(r, req) == request' = [request EXCEPT ![r] = req]
At(r, pc) == request[r].pc = pc

(***************************************************************************)
(* What the rows mean.  The code of a grant is kept with it here; the      *)
(* tables link them the other way only.                                    *)
(***************************************************************************)

\* Endpoints answers: the switch is on and the address is set.
Enabled == mcp /\ address # None

Live(g) == grants[g].revoked = "no"

AccessValid(p)  == "access" \in pairs[p].stored /\ now < pairs[p].minted + AccessTTL
RefreshValid(p) == /\ "refresh" \in pairs[p].stored
                   /\ ~pairs[p].spent
                   /\ now < pairs[p].minted + RefreshTTL

\* Authenticate would accept the access token of pair p now.
Accepts(p) ==
    /\ Enabled
    /\ AccessValid(p)
    /\ Live(pairs[p].grant)
    /\ grants[pairs[p].grant].resource = address
    /\ active[grants[pairs[p].grant].person]

\* ListLiveGrants shows grant g to its person.
Listed(g) == Live(g) /\ \E p \in DOMAIN pairs : pairs[p].grant = g /\ RefreshValid(p)

\* Fault: a grant revoked by its person is revoked again.
RevokeAllAgain(gs, by) ==
    [g \in DOMAIN grants |->
        IF g \in gs THEN [grants[g] EXCEPT !.revoked = by] ELSE grants[g]]

\* revokeGrantByTkt and the trigger on users: the grants of the set that are
\* still live are revoked, and who revoked the others stays as it was.
RevokeAll(gs, by) ==
    [g \in DOMAIN grants |->
        IF g \in gs /\ Live(g) THEN [grants[g] EXCEPT !.revoked = by] ELSE grants[g]]

\* Fault: a rotation stores the access token only.
MintedAccessOnly(g, at) ==
    [grant |-> g, minted |-> at, spent |-> FALSE, stored |-> {"access"}]

MintedPair(g, at) ==
    [grant |-> g, minted |-> at, spent |-> FALSE, stored |-> {"access", "refresh"}]

\* The tokens of grant g that expired before `at` are deleted.
Pruned(g, at) ==
    [p \in DOMAIN pairs |->
        IF pairs[p].grant # g THEN pairs[p]
        ELSE [pairs[p] EXCEPT !.stored =
                 @ \ ((IF pairs[p].minted + AccessTTL < at THEN {"access"} ELSE {})
                      \cup (IF pairs[p].minted + RefreshTTL < at THEN {"refresh"} ELSE {}))]]

(***************************************************************************)
(* The instance and its people.                                            *)
(***************************************************************************)
OAuthInit ==
    /\ now = 0
    /\ address \in Addresses \cup {None}
    /\ mcp = FALSE
    /\ active = [u \in Persons |-> TRUE]
    /\ client = [c \in Clients |-> [state |-> "absent", created |-> 0]]
    /\ code = [k \in Codes |-> AbsentCode]
    /\ grants = << >>
    /\ pairs = << >>
    /\ request = [r \in Requests |-> Idle]
    /\ replays = [refresh |-> {}, code |-> {}, early |-> {}]

Tick ==
    /\ now < MaxTime
    /\ now' = now + 1
    /\ UNCHANGED <<settings, active, tables, request, replays>>

\* SetInstanceAddress: cleared only while nothing that needs it is on.
SetInstanceAddress(a) ==
    /\ a = None => ~mcp
    /\ address' = a
    /\ UNCHANGED <<now, mcp, active, tables, request, replays>>

BeginEnable(r) ==
    /\ At(r, "idle")
    /\ address # None
    /\ Goto(r, [pc |-> "enable"])
    /\ UNCHANGED <<now, settings, active, tables, replays>>

\* Fault: the store trusts the address the service read.
EnableMCPUnchecked(r) ==
    /\ At(r, "enable")
    /\ mcp' = TRUE
    /\ Goto(r, Idle)
    /\ UNCHANGED <<now, address, active, tables, replays>>

\* The store looks at the address again inside its transaction.
EnableMCP(r) ==
    /\ At(r, "enable")
    /\ mcp' = (mcp \/ address # None)
    /\ Goto(r, Idle)
    /\ UNCHANGED <<now, address, active, tables, replays>>

DisableMCP ==
    /\ mcp' = FALSE
    /\ UNCHANGED <<now, address, active, tables, request, replays>>

\* A person is deactivated, and the trigger revokes their grants; or is
\* reactivated, which touches no grant.
SetActive(u) ==
    /\ active' = [active EXCEPT ![u] = ~@]
    /\ grants' = IF active[u] THEN RevokeAll({g \in DOMAIN grants : grants[g].person = u}, "tkt")
                 ELSE grants
    /\ UNCHANGED <<now, settings, client, code, pairs, request, replays>>

(***************************************************************************)
(* Registration and consent.                                               *)
(***************************************************************************)
\* Fault: clients are pruned by age alone.
AbandonedByAge(at) == {c \in Clients : /\ client[c].state = "stored"
                                       /\ client[c].created < at - PruneAge}

Abandoned(at) == {c \in Clients : /\ client[c].state = "stored"
                                  /\ client[c].created < at - PruneAge
                                  /\ \A g \in DOMAIN grants : grants[g].client # c}

\* CreateClient prunes in the transaction that inserts.
RegisterClient(c) ==
    /\ Enabled
    /\ client[c].state = "absent"
    /\ client' = [d \in Clients |->
                    IF d = c THEN [state |-> "stored", created |-> now]
                    ELSE IF d \in Abandoned(now) THEN [client[d] EXCEPT !.state = "pruned"]
                    ELSE client[d]]
    /\ code' = [k \in Codes |-> IF code[k].client \in Abandoned(now)
                                THEN [AbsentCode EXCEPT !.state = "deleted"] ELSE code[k]]
    /\ UNCHANGED <<now, settings, active, grants, pairs, request, replays>>

\* Approve up to its transaction: the session's person, the client and the
\* address are read.
BeginApprove(r, u, c, k) ==
    /\ At(r, "idle")
    /\ Enabled
    /\ active[u]
    /\ client[c].state = "stored"
    /\ code[k].state = "absent"
    /\ \A q \in Requests : At(q, "approve") => request[q].code # k
    /\ Goto(r, [pc |-> "approve", person |-> u, client |-> c, code |-> k,
                resource |-> address, at |-> now])
    /\ UNCHANGED <<now, settings, active, tables, replays>>

\* CreateCode drops the unused codes that ran out.
CreateCode(r) ==
    LET req == request[r]
    IN  /\ At(r, "approve")
        /\ client[req.client].state = "stored"
        /\ code' = [k \in Codes |->
              IF k = req.code
              THEN [state |-> "stored", person |-> req.person, client |-> req.client,
                    resource |-> req.resource, expires |-> req.at + CodeTTL, grant |-> 0]
              ELSE IF code[k].state = "stored" /\ code[k].expires < req.at
              THEN [AbsentCode EXCEPT !.state = "deleted"] ELSE code[k]]
        /\ Goto(r, Idle)
        /\ UNCHANGED <<now, settings, active, client, grants, pairs, replays>>

(***************************************************************************)
(* The token endpoint: a code is exchanged.                                *)
(***************************************************************************)
CanPresent(r, k) ==
    /\ At(r, "idle")
    /\ Enabled
    /\ code[k].state \in {"stored", "spent"}

\* ConsumeCode spends the code before anything about it is checked.
ConsumeCode(r, k) ==
    /\ CanPresent(r, k)
    /\ code[k].state = "stored"
    /\ code' = [code EXCEPT ![k].state = "spent"]
    /\ Goto(r, [pc |-> "consumed", code |-> k, at |-> now])
    /\ UNCHANGED <<now, settings, active, client, grants, pairs, replays>>

\* A code presented again revokes the grant it is linked to, if it is yet.
ReplayCode(r, k) ==
    /\ CanPresent(r, k)
    /\ code[k].state = "spent"
    /\ grants' = RevokeAll({code[k].grant} \cap DOMAIN grants, "tkt")
    /\ replays' = IF code[k].grant = 0 THEN [replays EXCEPT !.early = @ \cup {k}]
                  ELSE [replays EXCEPT !.code = @ \cup {k}]
    /\ UNCHANGED <<now, settings, active, client, code, pairs, request>>

\* The code is still good, was issued to this client and verifier, and its
\* person is active.  When it is not, the request ends: Abandon.
CheckCode(r) ==
    LET req == request[r]
    IN  /\ At(r, "consumed")
        /\ req.at < code[req.code].expires
        /\ active[code[req.code].person]
        /\ Goto(r, [req EXCEPT !.pc = "grant"])
        /\ UNCHANGED <<now, settings, active, tables, replays>>

\* Fault: the tokens are stored apart from the grant they belong to.
CreateGrantTokensFirst(r) ==
    LET req == request[r]
        g   == Len(grants) + 1
    IN  /\ At(r, "grant")
        /\ Len(pairs) < MaxPairs
        /\ pairs' = Append(pairs, MintedPair(g, req.at))
        /\ Goto(r, Idle)
        /\ UNCHANGED <<now, settings, active, client, code, grants, replays>>

\* CreateGrant: the grant, the link of its code and both tokens, or nothing
\* when the client and code were pruned.
CreateGrant(r) ==
    LET req == request[r]
        k   == code[req.code]
        g   == Len(grants) + 1
    IN  /\ At(r, "grant")
        /\ Len(pairs) < MaxPairs
        /\ k.state = "spent"
        /\ grants' = Append(grants, [person |-> k.person, client |-> k.client,
                                     resource |-> k.resource, code |-> req.code,
                                     revoked |-> "no"])
        /\ code' = [code EXCEPT ![req.code].grant = g]
        /\ pairs' = Append(pairs, MintedPair(g, req.at))
        /\ Goto(r, Idle)
        /\ UNCHANGED <<now, settings, active, client, replays>>

(***************************************************************************)
(* The token endpoint: a refresh token is rotated.                         *)
(***************************************************************************)

\* The token, its grant and its person are read.  An unspent token goes on
\* only while all of them are good; a spent one goes to the store as it is.
BeginRefresh(r, p) ==
    /\ At(r, "idle")
    /\ Enabled
    /\ "refresh" \in pairs[p].stored
    /\ ~pairs[p].spent =>
          /\ now < pairs[p].minted + RefreshTTL
          /\ Live(pairs[p].grant)
          /\ active[grants[pairs[p].grant].person]
    /\ Goto(r, [pc |-> "rotate", pair |-> p, at |-> now])
    /\ UNCHANGED <<now, settings, active, tables, replays>>

\* Fault: the token is not checked to be unspent when it is spent.
RotateUnguarded(r) ==
    LET req == request[r]
        g   == pairs[req.pair].grant
    IN  /\ At(r, "rotate")
        /\ Len(pairs) < MaxPairs
        /\ "refresh" \in pairs[req.pair].stored
        /\ pairs' = Append([Pruned(g, req.at) EXCEPT ![req.pair].spent = TRUE],
                           MintedPair(g, req.at))
        /\ Goto(r, Idle)
        /\ UNCHANGED <<now, settings, active, client, code, grants, replays>>

\* RotateRefreshToken spends the token and stores the pair that replaces it.
\* It does not look at the grant again.
Rotate(r) ==
    LET req == request[r]
        g   == pairs[req.pair].grant
    IN  /\ At(r, "rotate")
        /\ Len(pairs) < MaxPairs
        /\ "refresh" \in pairs[req.pair].stored
        /\ ~pairs[req.pair].spent
        /\ pairs' = Append([Pruned(g, req.at) EXCEPT ![req.pair].spent = TRUE],
                           MintedPair(g, req.at))
        /\ Goto(r, Idle)
        /\ UNCHANGED <<now, settings, active, client, code, grants, replays>>

\* Fault: a replayed refresh token is refused and nothing else.
ReplayRefreshOnlyRefused(r) ==
    LET p == request[r].pair
    IN  /\ At(r, "rotate")
        /\ "refresh" \in pairs[p].stored
        /\ pairs[p].spent
        /\ replays' = [replays EXCEPT !.refresh = @ \cup {p}]
        /\ Goto(r, Idle)
        /\ UNCHANGED <<now, settings, active, client, code, grants, pairs>>

\* The token was spent, before the read or since: its grant is revoked.
ReplayRefresh(r) ==
    LET p == request[r].pair
    IN  /\ At(r, "rotate")
        /\ "refresh" \in pairs[p].stored
        /\ pairs[p].spent
        /\ grants' = RevokeAll({pairs[p].grant}, "tkt")
        /\ replays' = [replays EXCEPT !.refresh = @ \cup {p}]
        /\ Goto(r, Idle)
        /\ UNCHANGED <<now, settings, active, client, code, pairs>>

\* RevokeGrant: a live grant, by the person it acts for.
RevokeGrant(g) ==
    /\ Live(g)
    /\ grants' = RevokeAll({g}, "person")
    /\ UNCHANGED <<now, settings, active, client, code, pairs, request, replays>>

\* A request ends where it is: refused, its transaction failing (a client or
\* a token it needs was pruned), or its process gone.
Abandon(r) ==
    /\ ~At(r, "idle")
    /\ Goto(r, Idle)
    /\ UNCHANGED <<now, settings, active, tables, replays>>

OAuthNext ==
    \/ Tick
    \/ DisableMCP
    \/ \E a \in Addresses \cup {None} : SetInstanceAddress(a)
    \/ \E u \in Persons : SetActive(u)
    \/ \E c \in Clients : RegisterClient(c)
    \/ \E g \in DOMAIN grants : RevokeGrant(g)
    \/ \E r \in Requests :
          \/ BeginEnable(r)
          \/ EnableMCP(r)
          \/ \E u \in Persons, c \in Clients, k \in Codes : BeginApprove(r, u, c, k)
          \/ CreateCode(r)
          \/ \E k \in Codes : ConsumeCode(r, k) \/ ReplayCode(r, k)
          \/ CheckCode(r)
          \/ CreateGrant(r)
          \/ \E p \in DOMAIN pairs : BeginRefresh(r, p)
          \/ Rotate(r)
          \/ ReplayRefresh(r)
          \/ Abandon(r)

OAuthSpec == OAuthInit /\ [][OAuthNext]_vars

(***************************************************************************)
(* Properties.                                                             *)
(***************************************************************************)

\* The types of the tables and of what requests carry between two steps, and
\* the foreign keys of the tables.
OAuthTypeOK ==
    /\ now \in Instants
    /\ address \in Addresses \cup {None}
    /\ mcp \in BOOLEAN
    /\ active \in [Persons -> BOOLEAN]
    /\ client \in [Clients -> ClientRow]
    /\ code \in [Codes -> CodeRow]
    /\ grants \in Seq(GrantRow)
    /\ pairs \in Seq(PairRow)
    /\ request \in [Requests -> RequestState]
    /\ replays \in [refresh : SUBSET Nat, code : SUBSET Codes, early : SUBSET Codes]
    /\ \A p \in DOMAIN pairs : pairs[p].grant \in DOMAIN grants
    /\ \A k \in Codes : code[k].grant \in DOMAIN grants \cup {0}
    /\ \A r \in Requests : At(r, "rotate") => request[r].pair \in DOMAIN pairs

\* A code is exchanged for at most one grant, however many requests present
\* it at once and wherever they fail.
OneGrantPerCode ==
    \A g, h \in DOMAIN grants : grants[g].code = grants[h].code => g = h

\* A grant has at most one refresh token that still works: concurrent
\* rotations of one token cannot fork its chain.
OneRefreshPerGrant ==
    \A p, q \in DOMAIN pairs :
        pairs[p].grant = pairs[q].grant /\ ~pairs[p].spent /\ ~pairs[q].spent => p = q

\* What is single use is used once: codes make one grant, and refresh tokens
\* are spent by one rotation (ConsumeAuthorizationCode, RotateTokens).
SingleUse == OneGrantPerCode /\ OneRefreshPerGrant

\* A refresh token met again, or a code met again once its grant existed,
\* has no live grant from then on: replay ends the consent for good.
ReplayEndsTheGrant ==
    /\ \A p \in replays.refresh : ~Live(pairs[p].grant)
    /\ \A g \in DOMAIN grants : grants[g].code \in replays.code => ~Live(g)

\* The MCP switch is never on without an address: enabling it and clearing
\* the address cannot pass each other.
EnabledHasAddress == mcp => address # None

\* What can act as a person is on the list that person can revoke from:
\* the access token of a grant never outlives its place on the list.
UsableIsListed == \A p \in DOMAIN pairs : Accepts(p) => Listed(pairs[p].grant)

\* Pruning registrations leaves no grant and no code without its client.
ClientsOfGrantsKept ==
    /\ \A g \in DOMAIN grants : client[grants[g].client].state = "stored"
    /\ \A k \in Codes : code[k].state \in {"stored", "spent"}
                           => client[code[k].client].state = "stored"

\* A revocation is final and its author stays: neither a reactivation, a
\* rotation under way nor a later replay rewrites it.
RevocationFinal ==
    [][\A g \in DOMAIN grants : ~Live(g) => grants'[g].revoked = grants[g].revoked]_vars

\* oauth_store.go promises that a reused code revokes its grant: a code
\* presented twice before its grant was created has no live grant either.
EarlyReplayEndsTheGrant ==
    \A g \in DOMAIN grants : grants[g].code \in replays.early => ~Live(g)
=============================================================================
