------------------------- MODULE OAuthGrantsProofs --------------------------
(***************************************************************************)
(* Theorems about OAuthGrants, for every number of people, clients, codes, *)
(* requests and every lifetime.                                            *)
(*                                                                         *)
(* The inductive invariant has four parts.  CodesInv ties a code to the    *)
(* requests that carry it and to its grant; ClientsInv keeps the client of *)
(* everything that names one; ChainInv says that the unspent refresh token *)
(* of a grant is the youngest of its chain and still stored; ReplayInv     *)
(* that what was replayed stays revoked.                                   *)
(***************************************************************************)
EXTENDS OAuthGrants, SequenceTheorems, TLAPS

\* Approvals carry codes of their own that are not stored yet; exchanges
\* carry codes of their own that are spent and have no grant; a code and its
\* grant point at each other.
CodesInv ==
    /\ \A r \in Requests : At(r, "approve") => code[request[r].code].state = "absent"
    /\ \A r, q \in Requests : At(r, "approve") /\ At(q, "approve")
          /\ request[r].code = request[q].code => r = q
    /\ \A k \in Codes : code[k].state \in {"stored", "spent"} =>
          /\ code[k].person \in Persons
          /\ code[k].client \in Clients
          /\ code[k].resource \in Addresses
    /\ \A k \in Codes : code[k].state \in {"absent", "deleted"} => code[k].client = None
    /\ \A k \in Codes : code[k].state # "spent" => code[k].grant = 0
    /\ \A k \in Codes : code[k].grant # 0 => grants[code[k].grant].code = k
    /\ \A g \in DOMAIN grants : code[grants[g].code].grant = g

ExchangesInv ==
    /\ \A r \in Requests : request[r].pc \in {"consumed", "grant"} =>
          /\ code[request[r].code].state \in {"spent", "deleted"}
          /\ code[request[r].code].grant = 0
    /\ \A r, q \in Requests :
          request[r].pc \in {"consumed", "grant"} /\ request[q].pc \in {"consumed", "grant"}
          /\ request[r].code = request[q].code => r = q

ClientsInv ==
    /\ ClientsOfGrantsKept
    /\ \A g \in DOMAIN grants : code[grants[g].code].client = grants[g].client

ChainInv ==
    /\ OneRefreshPerGrant
    /\ \A p \in DOMAIN pairs : ~pairs[p].spent => "refresh" \in pairs[p].stored
    /\ \A p \in DOMAIN pairs : \E q \in DOMAIN pairs :
          /\ pairs[q].grant = pairs[p].grant
          /\ ~pairs[q].spent
          /\ pairs[p].minted <= pairs[q].minted
    /\ \A p \in DOMAIN pairs : pairs[p].minted <= now
    /\ \A r \in Requests : At(r, "rotate") => pairs[request[r].pair].minted <= request[r].at

ReplayInv ==
    /\ ReplayEndsTheGrant
    /\ replays.refresh \subseteq DOMAIN pairs
    /\ \A k \in replays.code : code[k].grant # 0

TimesInv == \A r \in Requests :
    request[r].pc \in {"consumed", "grant", "rotate"} => request[r].at <= now

OAuthInv == /\ OAuthTypeOK /\ CodesInv /\ ExchangesInv /\ ClientsInv
            /\ ChainInv /\ ReplayInv /\ EnabledHasAddress /\ TimesInv

(***************************************************************************)
(* Lemmas about the operators.                                             *)
(***************************************************************************)

\* What the type invariant says of one row and one request.
LEMMA RowTypes ==
    ASSUME OAuthTypeOK
    PROVE  /\ \A g \in DOMAIN grants : /\ grants[g] \in GrantRow
                                     /\ grants[g].code \in Codes
                                     /\ grants[g].client \in Clients
           /\ \A p \in DOMAIN pairs : /\ pairs[p] \in PairRow
                                    /\ pairs[p].grant \in DOMAIN grants
                                    /\ pairs[p].minted \in Int
           /\ \A k \in Codes : code[k] \in CodeRow
           /\ \A r \in Requests :
                 /\ At(r, "approve") => /\ request[r].code \in Codes
                                        /\ request[r].person \in Persons
                                        /\ request[r].client \in Clients
                                        /\ request[r].resource \in Addresses
                                        /\ request[r].at \in Instants
                 /\ request[r].pc \in {"consumed", "grant"} =>
                       request[r].code \in Codes /\ request[r].at \in Instants
                 /\ At(r, "rotate") => /\ request[r].pair \in DOMAIN pairs
                                       /\ request[r].at \in Instants
<1>1. ASSUME NEW g \in DOMAIN grants
      PROVE  grants[g] \in GrantRow /\ grants[g].code \in Codes /\ grants[g].client \in Clients
    <2>1. grants[g] \in GrantRow
        BY DEF OAuthTypeOK
    <2>2. QED
        BY <2>1 DEF GrantRow
<1>2. ASSUME NEW p \in DOMAIN pairs
      PROVE  /\ pairs[p] \in PairRow
             /\ pairs[p].grant \in DOMAIN grants
             /\ pairs[p].minted \in Int
    <2>1. pairs[p] \in PairRow
        BY DEF OAuthTypeOK
    <2>2. QED
        BY <2>1 DEF PairRow, Instants, OAuthTypeOK
<1>3. \A k \in Codes : code[k] \in CodeRow
    BY DEF OAuthTypeOK
<1>4. ASSUME NEW r \in Requests
      PROVE  /\ At(r, "approve") => /\ request[r].code \in Codes
                                    /\ request[r].person \in Persons
                                    /\ request[r].client \in Clients
                                    /\ request[r].resource \in Addresses
                                    /\ request[r].at \in Instants
             /\ request[r].pc \in {"consumed", "grant"} =>
                   request[r].code \in Codes /\ request[r].at \in Instants
             /\ At(r, "rotate") => /\ request[r].pair \in DOMAIN pairs
                                   /\ request[r].at \in Instants
    <2>1. request[r] \in RequestState
        BY DEF OAuthTypeOK
    <2>2. QED
        BY <2>1 DEF RequestState, At, OAuthTypeOK
<1>5. QED
    BY <1>1, <1>2, <1>3, <1>4

\* Revoking grants keeps their number, their type and everything but who
\* revoked them, and revives none.
LEMMA RevokeAllKeeps ==
    ASSUME grants \in Seq(GrantRow), NEW gs, NEW by \in {"tkt", "person"}
    PROVE  /\ RevokeAll(gs, by) \in Seq(GrantRow)
           /\ DOMAIN RevokeAll(gs, by) = DOMAIN grants
           /\ \A g \in DOMAIN grants :
                /\ RevokeAll(gs, by)[g].code = grants[g].code
                /\ RevokeAll(gs, by)[g].client = grants[g].client
                /\ RevokeAll(gs, by)[g].person = grants[g].person
                /\ grants[g].revoked # "no" => RevokeAll(gs, by)[g].revoked = grants[g].revoked
                /\ g \in gs => RevokeAll(gs, by)[g].revoked # "no"
<1> DEFINE new == RevokeAll(gs, by)
<1>1. ASSUME NEW g \in DOMAIN grants
      PROVE  /\ new[g] \in GrantRow
             /\ new[g].code = grants[g].code
             /\ new[g].client = grants[g].client
             /\ new[g].person = grants[g].person
             /\ grants[g].revoked # "no" => new[g].revoked = grants[g].revoked
             /\ g \in gs => new[g].revoked # "no"
    <2>1. grants[g] \in GrantRow
        OBVIOUS
    <2>2. QED
        BY <2>1 DEF RevokeAll, Live, GrantRow
<1>2. new = [g \in DOMAIN grants |-> new[g]]
    BY DEF RevokeAll
<1>3. DOMAIN grants = 1..Len(grants) /\ Len(grants) \in Nat
    OBVIOUS
<1> HIDE DEF new
<1>4. new \in [DOMAIN grants -> GrantRow]
    BY <1>1, <1>2
<1>5. new \in Seq(GrantRow)
    BY <1>3, <1>4, SeqDef
<1>6. DOMAIN new = DOMAIN grants
    BY <1>4
<1>7. QED
    BY <1>1, <1>5, <1>6 DEF new

\* Pruning a grant's tokens keeps the pairs and everything about them but
\* which of their tokens are still stored.
LEMMA PrunedKeeps ==
    ASSUME pairs \in Seq(PairRow), NEW g, NEW at
    PROVE  /\ Pruned(g, at) \in Seq(PairRow)
           /\ Len(Pruned(g, at)) = Len(pairs)
           /\ DOMAIN Pruned(g, at) = DOMAIN pairs
           /\ \A p \in DOMAIN pairs :
                /\ Pruned(g, at)[p].grant = pairs[p].grant
                /\ Pruned(g, at)[p].minted = pairs[p].minted
                /\ Pruned(g, at)[p].spent = pairs[p].spent
                /\ pairs[p].grant # g => Pruned(g, at)[p] = pairs[p]
<1> DEFINE new == Pruned(g, at)
<1>1. ASSUME NEW p \in DOMAIN pairs
      PROVE  /\ new[p] \in PairRow
             /\ new[p].grant = pairs[p].grant
             /\ new[p].minted = pairs[p].minted
             /\ new[p].spent = pairs[p].spent
             /\ pairs[p].grant # g => new[p] = pairs[p]
    <2>1. pairs[p] \in PairRow
        OBVIOUS
    <2>2. QED
        BY <2>1 DEF Pruned, PairRow
<1>2. new = [p \in DOMAIN pairs |-> new[p]]
    BY DEF Pruned
<1>3. DOMAIN pairs = 1..Len(pairs) /\ Len(pairs) \in Nat
    OBVIOUS
<1> HIDE DEF new
<1>4. new \in [DOMAIN pairs -> PairRow]
    BY <1>1, <1>2
<1>5. new \in Seq(PairRow)
    BY <1>3, <1>4, SeqDef
<1>6. Len(new) = Len(pairs) /\ DOMAIN new = DOMAIN pairs
    BY <1>3, <1>4, <1>5
<1>7. QED
    BY <1>1, <1>5, <1>6 DEF new

(***************************************************************************)
(* The steps that keep the inductive invariant.                            *)
(***************************************************************************)

\* Steps that write no table, and leave every request where it is or carrying
\* nothing.
LEMMA QuietStep ==
    ASSUME OAuthInv,
           UNCHANGED <<tables, replays>>,
           request' \in [Requests -> RequestState],
           \A r \in Requests : request'[r] = request[r] \/ request'[r].pc \in {"idle", "enable"},
           now' \in Instants, now <= now',
           address' \in Addresses \cup {None}, mcp' \in BOOLEAN,
           mcp' => address' # None,
           active' \in [Persons -> BOOLEAN]
    PROVE  OAuthInv'
<1>1. OAuthTypeOK'
    BY DEF OAuthInv, OAuthTypeOK, tables, At
<1>2. CodesInv' /\ ExchangesInv'
    BY DEF OAuthInv, CodesInv, ExchangesInv, tables, At
<1>3. ClientsInv' /\ ReplayInv'
    BY DEF OAuthInv, ClientsInv, ClientsOfGrantsKept, ReplayInv, ReplayEndsTheGrant, Live, tables
<1>4. now \in Int /\ now' \in Int
    BY DEF OAuthInv, OAuthTypeOK, Instants
<1>5. ChainInv'
    <2>1. ASSUME NEW p \in DOMAIN pairs PROVE pairs[p].minted \in Int
        <3>1. pairs[p] \in PairRow
            BY DEF OAuthInv, OAuthTypeOK
        <3>2. QED
            BY <3>1 DEF PairRow, Instants
    <2>2. \A p \in DOMAIN pairs : pairs[p].minted <= now'
        BY <1>4, <2>1 DEF OAuthInv, ChainInv
    <2>3. \A r \in Requests : At(r, "rotate")' => pairs[request'[r].pair].minted <= request'[r].at
        BY DEF OAuthInv, ChainInv, At
    <2>4. QED
        BY <2>2, <2>3 DEF OAuthInv, ChainInv, OneRefreshPerGrant, tables, At
<1>6. TimesInv'
    <2>1. ASSUME NEW r \in Requests, request[r].pc \in {"consumed", "grant", "rotate"}
          PROVE  request[r].at \in Int
        <3>1. request[r] \in RequestState
            BY DEF OAuthInv, OAuthTypeOK
        <3>2. QED
            BY <2>1, <3>1 DEF RequestState, Instants
    <2>2. QED
        BY <1>4, <2>1 DEF OAuthInv, TimesInv
<1>7. QED
    BY <1>1, <1>2, <1>3, <1>5, <1>6 DEF OAuthInv, EnabledHasAddress

\* Steps that revoke grants, and otherwise only let people and requests be.
LEMMA RevokeStep ==
    ASSUME OAuthInv,
           NEW gs, NEW by \in {"tkt", "person"},
           grants' = RevokeAll(gs, by),
           UNCHANGED <<now, settings, client, code, pairs>>,
           active' \in [Persons -> BOOLEAN],
           request' \in [Requests -> RequestState],
           \A r \in Requests : request'[r] = request[r] \/ request'[r].pc \in {"idle", "enable"},
           replays' \in [refresh : SUBSET Nat, code : SUBSET Codes, early : SUBSET Codes],
           replays'.refresh \subseteq DOMAIN pairs,
           \A k \in replays'.code : code[k].grant # 0,
           \A p \in replays'.refresh : p \in replays.refresh \/ pairs[p].grant \in gs,
           \A k \in replays'.code : k \in replays.code \/ code[k].grant \in gs
    PROVE  OAuthInv'
<1>0. grants \in Seq(GrantRow) /\ (\A p \in DOMAIN pairs : pairs[p].grant \in DOMAIN grants)
    BY DEF OAuthInv, OAuthTypeOK
<1>1. /\ grants' \in Seq(GrantRow)
      /\ DOMAIN grants' = DOMAIN grants
      /\ \A g \in DOMAIN grants :
            /\ grants'[g].code = grants[g].code
            /\ grants'[g].client = grants[g].client
            /\ grants[g].revoked # "no" => grants'[g].revoked = grants[g].revoked
            /\ g \in gs => grants'[g].revoked # "no"
    BY <1>0, RevokeAllKeeps
<1>2. OAuthTypeOK'
    BY <1>1 DEF OAuthInv, OAuthTypeOK, settings, At
<1>3. CodesInv' /\ ExchangesInv'
    <2>1. \A k \in Codes : code[k].grant \in DOMAIN grants \cup {0}
        BY DEF OAuthInv, OAuthTypeOK
    <2>2. CodesInv'
        BY <1>1, <2>1 DEF OAuthInv, CodesInv, At
    <2>3. ExchangesInv'
        BY DEF OAuthInv, ExchangesInv
    <2>4. QED
        BY <2>2, <2>3
<1>4. ClientsInv'
    BY <1>1 DEF OAuthInv, ClientsInv, ClientsOfGrantsKept
<1>5. ChainInv'
    BY DEF OAuthInv, ChainInv, OneRefreshPerGrant, At
<1>6. ReplayInv'
    <2>1. ASSUME NEW p \in replays'.refresh PROVE ~Live(pairs[p].grant)'
        BY <1>0, <1>1, <2>1 DEF OAuthInv, ReplayInv, ReplayEndsTheGrant, Live
    <2>2. ASSUME NEW g \in DOMAIN grants, grants[g].code \in replays'.code
          PROVE  ~Live(g)'
        <3>1. code[grants[g].code].grant = g
            BY DEF OAuthInv, CodesInv
        <3>2. QED
            BY <1>1, <2>2, <3>1 DEF OAuthInv, ReplayInv, ReplayEndsTheGrant, Live
    <2>3. QED
        BY <1>1, <2>1, <2>2 DEF ReplayInv, ReplayEndsTheGrant
<1>7. EnabledHasAddress' /\ TimesInv'
    BY DEF OAuthInv, EnabledHasAddress, TimesInv, settings
<1>8. QED
    BY <1>2, <1>3, <1>4, <1>5, <1>6, <1>7 DEF OAuthInv

\* Registration prunes only clients without grants, so no code it deletes
\* has one.
LEMMA RegisterStep ==
    ASSUME OAuthInv, NEW c \in Clients, RegisterClient(c)
    PROVE  OAuthInv'
<1> DEFINE pruned == Abandoned(now)
<1> USE DEF OAuthInv
<1>1. /\ client[c].state = "absent"
      /\ client' = [d \in Clients |->
                      IF d = c THEN [state |-> "stored", created |-> now]
                      ELSE IF d \in pruned THEN [client[d] EXCEPT !.state = "pruned"]
                      ELSE client[d]]
      /\ code' = [k \in Codes |-> IF code[k].client \in pruned
                                  THEN [AbsentCode EXCEPT !.state = "deleted"] ELSE code[k]]
      /\ UNCHANGED <<now, address, mcp, active, grants, pairs, request, replays>>
    BY DEF RegisterClient, settings
<1>2. pruned \subseteq Clients /\ \A g \in DOMAIN grants : grants[g].client \notin pruned
    <2>1. pruned \subseteq Clients
        BY DEF Abandoned
    <2>2. ASSUME NEW g \in DOMAIN grants, grants[g].client \in pruned PROVE FALSE
        BY <2>2 DEF Abandoned
    <2>3. QED
        BY <2>1, <2>2
<1> HIDE DEF pruned
<1>3. ASSUME NEW g \in DOMAIN grants
      PROVE  grants[g].code \in Codes /\ grants[g].client \in Clients
    BY RowTypes
<1>4. ASSUME NEW g \in DOMAIN grants PROVE code'[grants[g].code] = code[grants[g].code]
    BY <1>1, <1>2, <1>3 DEF ClientsInv
<1>5. ASSUME NEW k \in Codes
      PROVE  \/ code'[k] = code[k] /\ code[k].client \notin pruned
             \/ /\ code'[k] = [AbsentCode EXCEPT !.state = "deleted"]
                /\ code[k].client \in pruned /\ code[k].grant = 0
    <2>1. CASE code[k].client \in pruned
        <3>1. code[k].grant # 0 => code[k].grant \in DOMAIN grants /\ grants[code[k].grant].code = k
            BY DEF CodesInv, OAuthTypeOK
        <3>2. code[k].grant # 0 => code[k].client = grants[code[k].grant].client
            BY <3>1 DEF ClientsInv
        <3>3. code[k].grant = 0
            BY <1>2, <2>1, <3>1, <3>2
        <3>4. QED
            BY <1>1, <2>1, <3>3
    <2>2. CASE code[k].client \notin pruned
        BY <1>1, <2>2
    <2>3. QED
        BY <2>1, <2>2
<1>6. ASSUME NEW d \in Clients, client[d].state = "stored", d \notin pruned
      PROVE  client'[d].state = "stored"
    BY <1>1, <1>6
<1>7. OAuthTypeOK'
    <2>1. client' \in [Clients -> ClientRow]
        BY <1>1 DEF OAuthTypeOK, ClientRow
    <2>2. code' \in [Codes -> CodeRow]
        <3>1. [AbsentCode EXCEPT !.state = "deleted"] \in CodeRow
            BY DEF AbsentCode, CodeRow
        <3>2. QED
            BY <1>1, <3>1 DEF OAuthTypeOK
    <2>3. \A k \in Codes : code'[k].grant \in DOMAIN grants \cup {0}
        BY <1>5 DEF OAuthTypeOK, AbsentCode
    <2>4. QED
        BY <1>1, <2>1, <2>2, <2>3 DEF OAuthTypeOK, At
<1>8. CodesInv'
    <2>1. \A r \in Requests : At(r, "approve") => code'[request[r].code].state = "absent"
        <3>1. ASSUME NEW r \in Requests, At(r, "approve")
              PROVE  code'[request[r].code].state = "absent"
            <4>1. request[r].code \in Codes
                BY <3>1 DEF OAuthTypeOK, RequestState, At
            <4>2. code[request[r].code].client \notin pruned
                BY <1>2, <3>1, <4>1, NoneAssumption DEF CodesInv
            <4>3. QED
                BY <1>5, <3>1, <4>1, <4>2 DEF CodesInv
        <3>2. QED
            BY <3>1
    <2>2. QED
        BY <1>1, <1>4, <1>5, <2>1 DEF CodesInv, AbsentCode, At
<1>9. ExchangesInv'
    <2>1. ASSUME NEW r \in Requests, request[r].pc \in {"consumed", "grant"}
          PROVE  /\ code'[request[r].code].state \in {"spent", "deleted"}
                 /\ code'[request[r].code].grant = 0
        <3>1. request[r].code \in Codes
            BY <2>1 DEF OAuthTypeOK, RequestState
        <3>2. QED
            BY <1>5, <2>1, <3>1 DEF ExchangesInv, AbsentCode
    <2>2. QED
        BY <1>1, <2>1 DEF ExchangesInv
<1>10. ClientsInv'
    <2>1. ASSUME NEW g \in DOMAIN grants PROVE client'[grants[g].client].state = "stored"
        BY <1>2, <1>3, <1>6 DEF ClientsInv, ClientsOfGrantsKept
    <2>2. ASSUME NEW k \in Codes, code'[k].state \in {"stored", "spent"}
          PROVE  client'[code'[k].client].state = "stored"
        <3>1. code'[k] = code[k] /\ code[k].client \notin pruned
            BY <1>5, <2>2 DEF AbsentCode
        <3>2. client[code[k].client].state = "stored" /\ code[k].client \in Clients
            BY <2>2, <3>1 DEF ClientsInv, ClientsOfGrantsKept, CodesInv
        <3>3. QED
            BY <1>6, <3>1, <3>2
    <2>3. \A g \in DOMAIN grants : code'[grants[g].code].client = grants[g].client
        BY <1>4 DEF ClientsInv
    <2>4. ClientsOfGrantsKept'
        BY <1>1, <2>1, <2>2 DEF ClientsOfGrantsKept
    <2>5. QED
        BY <1>1, <2>3, <2>4 DEF ClientsInv
<1>11. ReplayInv'
    BY <1>1, <1>5 DEF ReplayInv, ReplayEndsTheGrant, Live, AbsentCode, OAuthTypeOK
<1>12. ChainInv' /\ TimesInv' /\ EnabledHasAddress'
    BY <1>1 DEF ChainInv, TimesInv, EnabledHasAddress, OneRefreshPerGrant, At
<1>13. QED
    BY <1>7, <1>8, <1>9, <1>10, <1>11, <1>12

\* A step that only sets one request to work keeps everything about the
\* tables; what it carries has to fit them.
LEMMA CarryStep ==
    ASSUME OAuthInv,
           UNCHANGED <<now, settings, active, tables, replays>>,
           NEW r \in Requests, NEW req \in RequestState,
           request' = [request EXCEPT ![r] = req],
           req.pc = "approve" =>
              /\ code[req.code].state = "absent"
              /\ \A q \in Requests : At(q, "approve") => request[q].code # req.code,
           req.pc \in {"consumed", "grant"} =>
              /\ request[r].pc \in {"consumed", "grant"}
              /\ req.code = request[r].code
              /\ req.at = request[r].at,
           req.pc = "rotate" =>
              /\ req.pair \in DOMAIN pairs
              /\ pairs[req.pair].minted <= req.at
              /\ req.at <= now
    PROVE  OAuthInv'
<1> USE DEF OAuthInv
<1>1. /\ request'[r] = req
      /\ \A q \in Requests : q # r => request'[q] = request[q]
      /\ request' \in [Requests -> RequestState]
    BY DEF OAuthTypeOK
<1>2. OAuthTypeOK'
    BY <1>1 DEF OAuthTypeOK, settings, tables, At
<1>3. CodesInv'
    <2>1. \A q \in Requests : At(q, "approve")' => code[request'[q].code].state = "absent"
        BY <1>1 DEF CodesInv, At
    <2>2. ASSUME NEW q \in Requests, NEW s \in Requests, At(q, "approve")', At(s, "approve")',
                 request'[q].code = request'[s].code
          PROVE  q = s
        BY <1>1, <2>2 DEF CodesInv, At
    <2>3. QED
        BY <2>1, <2>2 DEF CodesInv, tables
<1>4. ExchangesInv'
    BY <1>1 DEF ExchangesInv, tables
<1>5. ClientsInv' /\ ReplayInv' /\ EnabledHasAddress'
    BY DEF ClientsInv, ClientsOfGrantsKept, ReplayInv, ReplayEndsTheGrant, Live,
           EnabledHasAddress, settings, tables
<1>6. ChainInv'
    BY <1>1 DEF ChainInv, OneRefreshPerGrant, tables, At
<1>7. TimesInv'
    BY <1>1 DEF TimesInv
<1>8. QED
    BY <1>2, <1>3, <1>4, <1>5, <1>6, <1>7

\* A code is stored for the approval that carried it; unused codes that ran
\* out are dropped, and none of those had a grant.
LEMMA CreateCodeStep ==
    ASSUME OAuthInv, NEW r \in Requests, CreateCode(r)
    PROVE  OAuthInv'
<1> DEFINE req == request[r]
           fresh == [state |-> "stored", person |-> req.person, client |-> req.client,
                     resource |-> req.resource, expires |-> req.at + CodeTTL, grant |-> 0]
<1> USE DEF OAuthInv
<1>1. /\ At(r, "approve")
      /\ client[req.client].state = "stored"
      /\ request' = [request EXCEPT ![r] = Idle]
      /\ UNCHANGED <<now, address, mcp, active, client, grants, pairs, replays>>
      /\ code' = [k \in Codes |->
              IF k = req.code THEN fresh
              ELSE IF code[k].state = "stored" /\ code[k].expires < req.at
              THEN [AbsentCode EXCEPT !.state = "deleted"] ELSE code[k]]
    BY DEF CreateCode, Goto, settings
<1>2. /\ req.code \in Codes /\ req.person \in Persons /\ req.client \in Clients
      /\ req.resource \in Addresses /\ req.at \in Instants
    BY <1>1, RowTypes
<1>3. fresh \in CodeRow
    BY <1>2, LifetimesAssumption DEF CodeRow, Instants
<1>4. code[req.code].state = "absent" /\ code[req.code].grant = 0
    BY <1>1, <1>2 DEF CodesInv
<1>5. ASSUME NEW k \in Codes
      PROVE  \/ k = req.code /\ code'[k] = fresh
             \/ k # req.code /\ code'[k] = code[k]
             \/ /\ k # req.code /\ code[k].state = "stored" /\ code[k].grant = 0
                /\ code'[k] = [AbsentCode EXCEPT !.state = "deleted"]
    BY <1>1 DEF CodesInv
<1>6. \A g \in DOMAIN grants : code'[grants[g].code] = code[grants[g].code]
    <2>1. ASSUME NEW g \in DOMAIN grants PROVE code'[grants[g].code] = code[grants[g].code]
        <3>1. grants[g].code \in Codes /\ code[grants[g].code].grant = g /\ g # 0
            BY RowTypes DEF CodesInv, OAuthTypeOK
        <3>2. QED
            BY <1>4, <1>5, <3>1
    <2>2. QED
        BY <2>1
<1> HIDE DEF fresh
<1>7. /\ request' \in [Requests -> RequestState]
      /\ request'[r].pc = "idle"
      /\ \A q \in Requests : q # r => request'[q] = request[q]
    <2>1. Idle \in RequestState /\ Idle.pc = "idle"
        BY DEF Idle, RequestState
    <2>2. QED
        BY <1>1, <2>1 DEF OAuthTypeOK
<1>8. OAuthTypeOK'
    <2>1. code' \in [Codes -> CodeRow]
        <3>1. [AbsentCode EXCEPT !.state = "deleted"] \in CodeRow
            BY DEF AbsentCode, CodeRow
        <3>2. QED
            BY <1>1, <1>3, <3>1 DEF OAuthTypeOK
    <2>2. \A k \in Codes : code'[k].grant = code[k].grant
        BY <1>4, <1>5 DEF AbsentCode, fresh
    <2>3. \A q \in Requests : At(q, "rotate")' => request'[q].pair \in DOMAIN pairs
        BY <1>7 DEF OAuthTypeOK, At
    <2>4. QED
        BY <1>1, <1>7, <2>1, <2>2, <2>3 DEF OAuthTypeOK
<1>9. CodesInv'
    <2>1. ASSUME NEW q \in Requests, At(q, "approve")'
          PROVE  code'[request'[q].code].state = "absent"
        <3>1. q # r /\ request'[q] = request[q] /\ At(q, "approve")
            BY <1>7, <2>1 DEF At
        <3>2. request[q].code \in Codes /\ request[q].code # req.code
            BY <1>1, <3>1, RowTypes DEF CodesInv
        <3>3. QED
            BY <1>5, <3>1, <3>2 DEF CodesInv
    <2>2. \A q, s \in Requests : At(q, "approve")' /\ At(s, "approve")'
             /\ request'[q].code = request'[s].code => q = s
        BY <1>7 DEF CodesInv, At
    <2>3. ASSUME NEW k \in Codes
          PROVE  /\ code'[k].state \in {"stored", "spent"} =>
                       /\ code'[k].person \in Persons
                       /\ code'[k].client \in Clients
                       /\ code'[k].resource \in Addresses
                 /\ code'[k].state \in {"absent", "deleted"} => code'[k].client = None
                 /\ code'[k].state # "spent" => code'[k].grant = 0
                 /\ code'[k].grant # 0 => grants[code'[k].grant].code = k
        BY <1>2, <1>5 DEF CodesInv, AbsentCode, fresh
    <2>4. \A g \in DOMAIN grants : code'[grants[g].code].grant = g
        BY <1>6 DEF CodesInv
    <2>5. QED
        BY <1>1, <2>1, <2>2, <2>3, <2>4 DEF CodesInv
<1>10. ExchangesInv'
    <2>1. ASSUME NEW q \in Requests, request'[q].pc \in {"consumed", "grant"}
          PROVE  /\ code'[request'[q].code].state \in {"spent", "deleted"}
                 /\ code'[request'[q].code].grant = 0
        <3>1. q # r /\ request'[q] = request[q]
            BY <1>7, <2>1
        <3>2. request[q].code \in Codes /\ request[q].code # req.code
            BY <1>4, <2>1, <3>1, RowTypes DEF ExchangesInv
        <3>3. QED
            BY <1>5, <2>1, <3>1, <3>2 DEF ExchangesInv
    <2>2. QED
        BY <1>7, <2>1 DEF ExchangesInv
<1>11. ClientsInv'
    <2>1. \A k \in Codes : code'[k].state \in {"stored", "spent"}
                             => client[code'[k].client].state = "stored"
        BY <1>1, <1>5 DEF ClientsInv, ClientsOfGrantsKept, AbsentCode, fresh
    <2>2. \A g \in DOMAIN grants : code'[grants[g].code].client = grants[g].client
        BY <1>6 DEF ClientsInv
    <2>3. QED
        BY <1>1, <2>1, <2>2 DEF ClientsInv, ClientsOfGrantsKept
<1>12. ReplayInv'
    <2>1. \A k \in replays.code : k \in Codes /\ code'[k].grant # 0
        BY <1>4, <1>5 DEF ReplayInv, OAuthTypeOK
    <2>2. QED
        BY <1>1, <2>1 DEF ReplayInv, ReplayEndsTheGrant, Live
<1>13. ChainInv'
    BY <1>1, <1>7 DEF ChainInv, OneRefreshPerGrant, At
<1>14. TimesInv' /\ EnabledHasAddress'
    BY <1>1, <1>7 DEF TimesInv, EnabledHasAddress
<1>15. QED
    BY <1>8, <1>9, <1>10, <1>11, <1>12, <1>13, <1>14

\* The code an exchange consumes was carried by no other exchange.
LEMMA ConsumeCodeStep ==
    ASSUME OAuthInv, NEW r \in Requests, NEW k \in Codes, ConsumeCode(r, k)
    PROVE  OAuthInv'
<1> USE DEF OAuthInv
<1> DEFINE req == [pc |-> "consumed", code |-> k, at |-> now]
<1>1. /\ code[k].state = "stored"
      /\ code' = [code EXCEPT ![k].state = "spent"]
      /\ request' = [request EXCEPT ![r] = req]
      /\ UNCHANGED <<now, address, mcp, active, client, grants, pairs, replays>>
    BY DEF ConsumeCode, Goto, settings
<1>2. code[k] \in CodeRow
    BY RowTypes
<1>3. /\ code' \in [Codes -> CodeRow]
      /\ \A j \in Codes : j # k => code'[j] = code[j]
      /\ code'[k].state = "spent"
      /\ code'[k].person = code[k].person /\ code'[k].client = code[k].client
      /\ code'[k].resource = code[k].resource /\ code'[k].grant = code[k].grant
    BY <1>1, <1>2 DEF OAuthTypeOK, CodeRow
<1>4. code[k].grant = 0
    BY <1>1 DEF CodesInv
<1>5. /\ request' \in [Requests -> RequestState]
      /\ request'[r] = req
      /\ \A q \in Requests : q # r => request'[q] = request[q]
    <2>1. req \in RequestState
        BY DEF RequestState, OAuthTypeOK
    <2>2. QED
        BY <1>1, <2>1 DEF OAuthTypeOK
<1>6. OAuthTypeOK'
    BY <1>1, <1>3, <1>4, <1>5 DEF OAuthTypeOK, At
<1>7. CodesInv'
    <2>1. ASSUME NEW q \in Requests, At(q, "approve")'
          PROVE  At(q, "approve") /\ request'[q] = request[q]
                 /\ code'[request[q].code].state = "absent"
        <3>1. q # r /\ request'[q] = request[q] /\ At(q, "approve")
            BY <1>5, <2>1 DEF At
        <3>2. request[q].code \in Codes /\ request[q].code # k
            BY <1>1, <3>1, RowTypes DEF CodesInv
        <3>3. QED
            BY <1>3, <3>1, <3>2 DEF CodesInv
    <2>2. \A g \in DOMAIN grants : grants[g].code \in Codes /\ code'[grants[g].code].grant = g
        BY <1>3, RowTypes DEF CodesInv
    <2>3. ASSUME NEW j \in Codes
          PROVE  /\ code'[j].state \in {"stored", "spent"} =>
                       /\ code'[j].person \in Persons
                       /\ code'[j].client \in Clients
                       /\ code'[j].resource \in Addresses
                 /\ code'[j].state \in {"absent", "deleted"} => code'[j].client = None
                 /\ code'[j].state # "spent" => code'[j].grant = 0
                 /\ code'[j].grant # 0 => grants[code'[j].grant].code = j
        BY <1>1, <1>3 DEF CodesInv
    <2>4. \A q, s \in Requests : At(q, "approve")' /\ At(s, "approve")'
             /\ request'[q].code = request'[s].code => q = s
        BY <2>1 DEF CodesInv
    <2>5. QED
        BY <1>1, <2>1, <2>2, <2>3, <2>4 DEF CodesInv
<1>8. ExchangesInv'
    <2>1. ASSUME NEW q \in Requests, q # r, request'[q].pc \in {"consumed", "grant"}
          PROVE  /\ request'[q] = request[q]
                 /\ request[q].code # k
                 /\ code'[request[q].code].state \in {"spent", "deleted"}
                 /\ code'[request[q].code].grant = 0
        BY <1>1, <1>3, <1>5, <2>1, RowTypes DEF ExchangesInv
    <2>2. QED
        BY <1>3, <1>4, <1>5, <2>1 DEF ExchangesInv
<1>9. ClientsInv'
    <2>1. \A g \in DOMAIN grants : code'[grants[g].code].client = grants[g].client
        BY <1>3, RowTypes DEF ClientsInv
    <2>2. ASSUME NEW j \in Codes, code'[j].state \in {"stored", "spent"}
          PROVE  client[code'[j].client].state = "stored"
        BY <1>1, <1>3, <2>2 DEF ClientsInv, ClientsOfGrantsKept
    <2>3. QED
        BY <1>1, <2>1, <2>2 DEF ClientsInv, ClientsOfGrantsKept
<1>10. ReplayInv'
    <2>1. \A j \in replays.code : code'[j].grant # 0
        BY <1>3 DEF ReplayInv, OAuthTypeOK
    <2>2. QED
        BY <1>1, <2>1 DEF ReplayInv, ReplayEndsTheGrant, Live
<1>11. ChainInv'
    BY <1>1, <1>5 DEF ChainInv, OneRefreshPerGrant, At
<1>12. TimesInv' /\ EnabledHasAddress'
    BY <1>1, <1>5 DEF TimesInv, EnabledHasAddress, OAuthTypeOK, Instants
<1>13. QED
    BY <1>6, <1>7, <1>8, <1>9, <1>10, <1>11, <1>12

\* The new grant is the first of its code and starts a chain of its own.
LEMMA CreateGrantStep ==
    ASSUME OAuthInv, NEW r \in Requests, CreateGrant(r)
    PROVE  OAuthInv'
<1> USE DEF OAuthInv
<1> DEFINE k == request[r].code
           g == Len(grants) + 1
           grant == [person |-> code[k].person, client |-> code[k].client,
                     resource |-> code[k].resource, code |-> k, revoked |-> "no"]
           pair == MintedPair(g, request[r].at)
           p == Len(pairs) + 1
<1>1. /\ At(r, "grant")
      /\ code[k].state = "spent"
      /\ grants' = Append(grants, grant)
      /\ code' = [code EXCEPT ![k].grant = g]
      /\ pairs' = Append(pairs, pair)
      /\ request' = [request EXCEPT ![r] = Idle]
      /\ UNCHANGED <<now, address, mcp, active, client, replays>>
    BY DEF CreateGrant, Goto, settings
<1>2. k \in Codes /\ request[r].at \in Instants /\ code[k] \in CodeRow
    BY <1>1, RowTypes DEF At
<1>3. code[k].grant = 0
    BY <1>1 DEF ExchangesInv, At
<1>4. grant \in GrantRow
    BY <1>1, <1>2 DEF GrantRow, CodesInv
<1>5. /\ grants \in Seq(GrantRow) /\ pairs \in Seq(PairRow)
      /\ Len(grants) \in Nat /\ Len(pairs) \in Nat
      /\ DOMAIN grants = 1..Len(grants) /\ DOMAIN pairs = 1..Len(pairs)
    BY DEF OAuthTypeOK
<1>6. pair \in PairRow
    BY <1>2, <1>5 DEF PairRow, MintedPair
<1>7. /\ grants' \in Seq(GrantRow)
      /\ DOMAIN grants' = DOMAIN grants \cup {g} /\ g \notin DOMAIN grants /\ g # 0
      /\ grants'[g] = grant
      /\ \A h \in DOMAIN grants : grants'[h] = grants[h]
    BY <1>1, <1>4, <1>5
<1>8. /\ pairs' \in Seq(PairRow)
      /\ DOMAIN pairs' = DOMAIN pairs \cup {p} /\ p \notin DOMAIN pairs
      /\ pairs'[p] = pair
      /\ \A q \in DOMAIN pairs : pairs'[q] = pairs[q]
    BY <1>1, <1>5, <1>6
<1>9. /\ code' \in [Codes -> CodeRow]
      /\ \A j \in Codes : j # k => code'[j] = code[j]
      /\ code'[k].grant = g /\ code'[k].state = "spent"
      /\ code'[k].person = code[k].person /\ code'[k].client = code[k].client
      /\ code'[k].resource = code[k].resource
    <2> HIDE DEF k, g
    <2>1. g \in Nat
        BY <1>5 DEF g
    <2>2. /\ code'[k] = [code[k] EXCEPT !.grant = g]
          /\ \A j \in Codes : j # k => code'[j] = code[j]
          /\ code' = [j \in Codes |-> code'[j]]
        BY <1>1, <1>2 DEF OAuthTypeOK
    <2>3. /\ code'[k] \in CodeRow
          /\ code'[k].grant = g /\ code'[k].state = "spent"
          /\ code'[k].person = code[k].person /\ code'[k].client = code[k].client
          /\ code'[k].resource = code[k].resource
        BY <1>1, <1>2, <2>1, <2>2 DEF CodeRow
    <2>4. code' \in [Codes -> CodeRow]
        BY <2>2, <2>3, RowTypes
    <2>5. QED
        BY <2>2, <2>3, <2>4
<1>10. /\ request' \in [Requests -> RequestState]
       /\ request'[r].pc = "idle"
       /\ \A q \in Requests : q # r => request'[q] = request[q]
    <2>1. Idle \in RequestState /\ Idle.pc = "idle"
        BY DEF Idle, RequestState
    <2>2. QED
        BY <1>1, <2>1 DEF OAuthTypeOK
<1>11. \A h \in DOMAIN grants : grants[h].code \in Codes /\ grants[h].code # k
    BY <1>3, <1>5, RowTypes DEF CodesInv
<1>12. \A q \in DOMAIN pairs : pairs[q].grant \in DOMAIN grants /\ pairs[q].grant # g
    BY <1>7, RowTypes
<1>13. pair.grant = g /\ pair.minted = request[r].at /\ pair.spent = FALSE
       /\ "refresh" \in pair.stored
    BY DEF MintedPair
<1> HIDE DEF grant, pair, g, p
<1>14. OAuthTypeOK'
    <2>1. \A q \in DOMAIN pairs' : pairs'[q].grant \in DOMAIN grants'
        BY <1>7, <1>8, <1>12, <1>13
    <2>2. \A j \in Codes : code'[j].grant \in DOMAIN grants' \cup {0}
        BY <1>7, <1>9 DEF OAuthTypeOK
    <2>3. \A q \in Requests : At(q, "rotate")' => request'[q].pair \in DOMAIN pairs'
        BY <1>8, <1>10 DEF OAuthTypeOK, At
    <2>4. QED
        BY <1>1, <1>7, <1>8, <1>9, <1>10, <2>1, <2>2, <2>3 DEF OAuthTypeOK
<1>15. CodesInv'
    <2>1. ASSUME NEW q \in Requests, At(q, "approve")'
          PROVE  At(q, "approve") /\ request'[q] = request[q]
                 /\ code'[request[q].code].state = "absent"
        <3>1. q # r /\ request'[q] = request[q] /\ At(q, "approve")
            BY <1>10, <2>1 DEF At
        <3>2. request[q].code \in Codes /\ request[q].code # k
            BY <1>1, <3>1, RowTypes DEF CodesInv
        <3>3. QED
            BY <1>9, <3>1, <3>2 DEF CodesInv
    <2>2. \A h \in DOMAIN grants' : code'[grants'[h].code].grant = h
        BY <1>7, <1>9, <1>11 DEF CodesInv, grant
    <2>3. ASSUME NEW j \in Codes
          PROVE  /\ code'[j].state \in {"stored", "spent"} =>
                       /\ code'[j].person \in Persons
                       /\ code'[j].client \in Clients
                       /\ code'[j].resource \in Addresses
                 /\ code'[j].state \in {"absent", "deleted"} => code'[j].client = None
                 /\ code'[j].state # "spent" => code'[j].grant = 0
        BY <1>1, <1>9 DEF CodesInv
    <2>4. ASSUME NEW j \in Codes, code'[j].grant # 0 PROVE grants'[code'[j].grant].code = j
        <3>1. CASE j = k
            BY <1>7, <1>9, <3>1 DEF grant
        <3>2. CASE j # k
            BY <1>7, <1>9, <2>4, <3>2 DEF CodesInv, OAuthTypeOK
        <3>3. QED
            BY <3>1, <3>2
    <2>5. \A q, s \in Requests : At(q, "approve")' /\ At(s, "approve")'
             /\ request'[q].code = request'[s].code => q = s
        BY <2>1 DEF CodesInv
    <2>6. QED
        BY <2>1, <2>2, <2>3, <2>4, <2>5 DEF CodesInv
<1>16. ExchangesInv'
    <2>1. ASSUME NEW q \in Requests, request'[q].pc \in {"consumed", "grant"}
          PROVE  /\ request'[q] = request[q]
                 /\ code'[request[q].code].state \in {"spent", "deleted"}
                 /\ code'[request[q].code].grant = 0
        <3>1. q # r /\ request'[q] = request[q]
            BY <1>10, <2>1
        <3>2. request[q].code \in Codes /\ request[q].code # k
            BY <1>1, <2>1, <3>1, RowTypes DEF ExchangesInv, At
        <3>3. QED
            BY <1>9, <2>1, <3>1, <3>2 DEF ExchangesInv
    <2>2. QED
        BY <2>1 DEF ExchangesInv
<1>17. ClientsInv'
    <2>1. client[code[k].client].state = "stored"
        BY <1>1, <1>2 DEF ClientsInv, ClientsOfGrantsKept
    <2>2. \A h \in DOMAIN grants' : client[grants'[h].client].state = "stored"
        BY <1>7, <2>1 DEF ClientsInv, ClientsOfGrantsKept, grant
    <2>3. \A j \in Codes : code'[j].state \in {"stored", "spent"} => client[code'[j].client].state = "stored"
        BY <1>9, <2>1 DEF ClientsInv, ClientsOfGrantsKept
    <2>4. \A h \in DOMAIN grants' : code'[grants'[h].code].client = grants'[h].client
        BY <1>7, <1>9, <1>11 DEF ClientsInv, grant
    <2>5. QED
        BY <1>1, <2>2, <2>3, <2>4 DEF ClientsInv, ClientsOfGrantsKept
<1>18. ReplayInv'
    <2>1. k \notin replays.code
        BY <1>3 DEF ReplayInv
    <2>2. \A q \in replays.refresh : grants'[pairs'[q].grant].revoked # "no"
        BY <1>7, <1>8, <1>12 DEF ReplayInv, ReplayEndsTheGrant, Live
    <2>3. \A h \in DOMAIN grants' : grants'[h].code \in replays.code => grants'[h].revoked # "no"
        BY <1>7, <2>1 DEF ReplayInv, ReplayEndsTheGrant, Live, grant
    <2>4. \A j \in replays.code : code'[j].grant # 0
        BY <1>7, <1>9 DEF ReplayInv, OAuthTypeOK
    <2>5. QED
        BY <1>1, <1>8, <2>2, <2>3, <2>4 DEF ReplayInv, ReplayEndsTheGrant, Live
<1>19. ChainInv'
    <2>0. request[r].at <= now /\ request[r].at \in Int
        BY <1>1, <1>2 DEF TimesInv, At, Instants
    <2>1. OneRefreshPerGrant'
        BY <1>8, <1>12, <1>13 DEF ChainInv, OneRefreshPerGrant
    <2>2. \A q \in DOMAIN pairs' : ~pairs'[q].spent => "refresh" \in pairs'[q].stored
        BY <1>8, <1>13 DEF ChainInv
    <2>3. \A q \in DOMAIN pairs' : \E s \in DOMAIN pairs' :
             /\ pairs'[s].grant = pairs'[q].grant
             /\ ~pairs'[s].spent
             /\ pairs'[q].minted <= pairs'[s].minted
        BY <1>8, <1>13, <2>0 DEF ChainInv
    <2>4. \A q \in DOMAIN pairs' : pairs'[q].minted <= now
        BY <1>8, <1>13, <2>0 DEF ChainInv
    <2>5. \A q \in Requests : At(q, "rotate")' => pairs'[request'[q].pair].minted <= request'[q].at
        BY <1>8, <1>10, RowTypes DEF ChainInv, At
    <2>6. QED
        BY <1>1, <2>1, <2>2, <2>3, <2>4, <2>5 DEF ChainInv
<1>20. TimesInv' /\ EnabledHasAddress'
    BY <1>1, <1>10 DEF TimesInv, EnabledHasAddress
<1>21. QED
    BY <1>14, <1>15, <1>16, <1>17, <1>18, <1>19, <1>20

\* A rotation spends the one unspent token of the grant, and the pair that
\* replaces it is at least as young as every other of its chain.
LEMMA RotateStep ==
    ASSUME OAuthInv, NEW r \in Requests, Rotate(r)
    PROVE  OAuthInv'
<1> USE DEF OAuthInv
<1> DEFINE o == request[r].pair
           g == pairs[o].grant
           pair == MintedPair(g, request[r].at)
           p == Len(pairs) + 1
           kept == [Pruned(g, request[r].at) EXCEPT ![o].spent = TRUE]
<1>1. /\ At(r, "rotate") /\ ~pairs[o].spent
      /\ pairs' = Append(kept, pair)
      /\ request' = [request EXCEPT ![r] = Idle]
      /\ UNCHANGED <<now, address, mcp, active, client, code, grants, replays>>
    BY DEF Rotate, Goto, settings
<1>2. /\ o \in DOMAIN pairs /\ request[r].at \in Instants /\ g \in DOMAIN grants
      /\ grants \in Seq(GrantRow) /\ pairs \in Seq(PairRow)
    BY <1>1, RowTypes DEF OAuthTypeOK
<1>3. pair \in PairRow
    <2>1. g \in Nat
        BY <1>2
    <2>2. QED
        BY <1>2, <2>1 DEF PairRow, MintedPair
<1>4. /\ kept \in Seq(PairRow)
      /\ DOMAIN kept = DOMAIN pairs /\ Len(kept) = Len(pairs)
      /\ kept[o].spent = TRUE
      /\ \A q \in DOMAIN pairs : /\ kept[q].grant = pairs[q].grant
                                 /\ kept[q].minted = pairs[q].minted
                                 /\ q # o => kept[q].spent = pairs[q].spent
                                 /\ pairs[q].grant # g => kept[q] = pairs[q]
    <2> DEFINE new == Pruned(g, request[r].at)
    <2>1. /\ new \in Seq(PairRow) /\ Len(new) = Len(pairs) /\ DOMAIN new = DOMAIN pairs
          /\ \A q \in DOMAIN pairs : /\ new[q].grant = pairs[q].grant
                                     /\ new[q].minted = pairs[q].minted
                                     /\ new[q].spent = pairs[q].spent
                                     /\ pairs[q].grant # g => new[q] = pairs[q]
        BY <1>2, PrunedKeeps
    <2>0. kept = [new EXCEPT ![o] = [new[o] EXCEPT !.spent = TRUE]]
        OBVIOUS
    <2> HIDE DEF new, o, g, kept
    <2>2. new[o] \in PairRow
        BY <1>2, <2>1
    <2>3. [new[o] EXCEPT !.spent = TRUE] \in PairRow
        BY <2>2 DEF PairRow
    <2>5. kept \in Seq(PairRow) /\ Len(kept) = Len(pairs) /\ DOMAIN kept = DOMAIN pairs
        BY <1>2, <2>0, <2>1, <2>3
    <2>6. \A q \in DOMAIN pairs : q # o => kept[q] = new[q]
        BY <2>0, <2>1
    <2>7. kept[o] = [new[o] EXCEPT !.spent = TRUE]
        BY <1>2, <2>0, <2>1
    <2>8. kept[o].spent = TRUE /\ kept[o].grant = new[o].grant /\ kept[o].minted = new[o].minted
        BY <2>2, <2>7 DEF PairRow
    <2>9. pairs[o].grant = g
        BY DEF g
    <2>10. QED
        BY <1>2, <2>1, <2>5, <2>6, <2>8, <2>9
<1> HIDE DEF kept, pair, g
<1>5. /\ pairs' \in Seq(PairRow)
      /\ DOMAIN pairs' = DOMAIN pairs \cup {p} /\ p \notin DOMAIN pairs
      /\ pairs'[p] = pair
      /\ \A q \in DOMAIN pairs : pairs'[q] = kept[q]
    BY <1>1, <1>2, <1>3, <1>4
<1>6. pair.grant = g /\ pair.minted = request[r].at /\ pair.spent = FALSE
      /\ "refresh" \in pair.stored
    BY DEF MintedPair, pair
<1>7. /\ request' \in [Requests -> RequestState]
      /\ request'[r].pc = "idle"
      /\ \A q \in Requests : q # r => request'[q] = request[q]
    <2>1. Idle \in RequestState /\ Idle.pc = "idle"
        BY DEF Idle, RequestState
    <2>2. QED
        BY <1>1, <2>1 DEF OAuthTypeOK
<1>8. pairs[o].grant = g
    BY DEF g
<1> HIDE DEF p, o
<1>9. \A q \in DOMAIN pairs : pairs[q].grant = g /\ q # o => pairs[q].spent
    BY <1>1, <1>2, <1>8 DEF ChainInv, OneRefreshPerGrant
<1>10. OAuthTypeOK'
    <2>1. \A q \in DOMAIN pairs' : pairs'[q].grant \in DOMAIN grants
        BY <1>2, <1>4, <1>5, <1>6, RowTypes
    <2>2. \A q \in Requests : At(q, "rotate")' => request'[q].pair \in DOMAIN pairs'
        BY <1>5, <1>7 DEF OAuthTypeOK, At
    <2>3. QED
        BY <1>1, <1>5, <1>7, <2>1, <2>2 DEF OAuthTypeOK
<1>11. CodesInv' /\ ExchangesInv' /\ ClientsInv'
    BY <1>1, <1>7 DEF CodesInv, ExchangesInv, ClientsInv, ClientsOfGrantsKept, At
<1>12. ReplayInv'
    BY <1>1, <1>4, <1>5 DEF ReplayInv, ReplayEndsTheGrant, Live
<1>13. TimesInv' /\ EnabledHasAddress'
    BY <1>1, <1>7 DEF TimesInv, EnabledHasAddress
<1>14. ChainInv'
    <2>1. /\ request[r].at \in Int /\ request[r].at <= now
          /\ now \in Int
          /\ pairs[o].minted <= request[r].at
        BY <1>1, <1>2 DEF TimesInv, ChainInv, At, Instants, OAuthTypeOK, o
    <2>2. \A q \in DOMAIN pairs : pairs[q].grant = g => pairs[q].minted <= request[r].at
        <3>1. ASSUME NEW q \in DOMAIN pairs, pairs[q].grant = g
              PROVE  pairs[q].minted <= request[r].at
            <4>1. PICK s \in DOMAIN pairs : /\ pairs[s].grant = g
                                            /\ ~pairs[s].spent
                                            /\ pairs[q].minted <= pairs[s].minted
                BY <3>1 DEF ChainInv
            <4>2. s = o
                BY <1>9, <4>1
            <4>3. QED
                BY <1>2, <2>1, <4>1, <4>2, RowTypes
        <3>2. QED
            BY <3>1
    <2>3. OneRefreshPerGrant'
        <3>1. ASSUME NEW q \in DOMAIN pairs', NEW s \in DOMAIN pairs',
                     pairs'[q].grant = pairs'[s].grant, ~pairs'[q].spent, ~pairs'[s].spent
              PROVE  q = s
            <4>1. CASE q = p /\ s # p
                BY <1>4, <1>5, <1>6, <1>9, <3>1, <4>1
            <4>2. CASE q # p /\ s = p
                BY <1>4, <1>5, <1>6, <1>9, <3>1, <4>2
            <4>3. CASE q # p /\ s # p
                <5>1. q \in DOMAIN pairs /\ s \in DOMAIN pairs /\ q # o /\ s # o
                    BY <1>4, <1>5, <3>1, <4>3
                <5>2. QED
                    BY <1>4, <1>5, <3>1, <5>1 DEF ChainInv, OneRefreshPerGrant
            <4>4. QED
                BY <4>1, <4>2, <4>3
        <3>2. QED
            BY <3>1 DEF OneRefreshPerGrant
    <2>4. ASSUME NEW q \in DOMAIN pairs', ~pairs'[q].spent
          PROVE  "refresh" \in pairs'[q].stored
        <3>1. CASE q = p
            BY <1>5, <1>6, <3>1
        <3>2. CASE q # p
            <4>1. q \in DOMAIN pairs /\ q # o
                BY <1>4, <1>5, <2>4, <3>2
            <4>2. pairs[q].grant # g
                BY <1>4, <1>5, <1>9, <2>4, <4>1
            <4>3. pairs'[q] = pairs[q]
                BY <1>4, <1>5, <4>1, <4>2
            <4>4. QED
                BY <2>4, <4>1, <4>3 DEF ChainInv
        <3>3. QED
            BY <3>1, <3>2
    <2>5. ASSUME NEW q \in DOMAIN pairs'
          PROVE  \E s \in DOMAIN pairs' : /\ pairs'[s].grant = pairs'[q].grant
                                          /\ ~pairs'[s].spent
                                          /\ pairs'[q].minted <= pairs'[s].minted
        <3>1. CASE pairs'[q].grant = g
            <4>1. pairs'[q].minted <= pairs'[p].minted
                BY <1>4, <1>5, <1>6, <2>1, <2>2, <3>1
            <4>2. QED
                BY <1>5, <1>6, <3>1, <4>1
        <3>2. CASE pairs'[q].grant # g
            <4>1. q \in DOMAIN pairs /\ pairs'[q] = pairs[q] /\ pairs[q].grant # g
                BY <1>4, <1>5, <1>6, <3>2
            <4>2. PICK s \in DOMAIN pairs : /\ pairs[s].grant = pairs[q].grant
                                            /\ ~pairs[s].spent
                                            /\ pairs[q].minted <= pairs[s].minted
                BY <4>1 DEF ChainInv
            <4>3. pairs'[s] = pairs[s] /\ s \in DOMAIN pairs'
                BY <1>4, <1>5, <4>1, <4>2
            <4>4. QED
                BY <4>1, <4>2, <4>3
        <3>3. QED
            BY <3>1, <3>2
    <2>6. \A q \in DOMAIN pairs' : pairs'[q].minted <= now
        BY <1>4, <1>5, <1>6, <2>1 DEF ChainInv
    <2>7. ASSUME NEW q \in Requests, At(q, "rotate")'
          PROVE  pairs'[request'[q].pair].minted <= request'[q].at
        <3>1. At(q, "rotate") /\ request'[q] = request[q]
            BY <1>7, <2>7 DEF At
        <3>2. request[q].pair \in DOMAIN pairs
            BY <3>1, RowTypes
        <3>3. pairs'[request[q].pair].minted = pairs[request[q].pair].minted
            BY <1>4, <1>5, <3>2
        <3>4. QED
            BY <3>1, <3>3 DEF ChainInv
    <2>8. QED
        BY <1>1, <2>3, <2>4, <2>5, <2>6, <2>7 DEF ChainInv
<1>15. QED
    BY <1>10, <1>11, <1>12, <1>13, <1>14

\* The inductive invariant holds when nobody has registered or consented yet.
LEMMA InitKeeps == OAuthInit => OAuthInv
<1>1. SUFFICES ASSUME OAuthInit PROVE OAuthInv
    OBVIOUS
<1>2. /\ grants = << >> /\ pairs = << >> /\ mcp = FALSE /\ now = 0
      /\ \A r \in Requests : request[r].pc = "idle"
      /\ \A k \in Codes : code[k] = AbsentCode
    BY <1>1 DEF OAuthInit, Idle
<1>3. OAuthTypeOK
    <2>1. AbsentCode \in CodeRow /\ Idle \in RequestState
        BY DEF AbsentCode, CodeRow, Idle, RequestState
    <2>2. code \in [Codes -> CodeRow] /\ request \in [Requests -> RequestState]
        BY <1>1, <2>1 DEF OAuthInit
    <2>3. client \in [Clients -> ClientRow] /\ now \in Instants
        BY <1>1, BoundsAssumption DEF OAuthInit, ClientRow, Instants
    <2>4. grants \in Seq(GrantRow) /\ pairs \in Seq(PairRow)
        BY <1>2
    <2>5. replays \in [refresh : SUBSET Nat, code : SUBSET Codes, early : SUBSET Codes]
          /\ active \in [Persons -> BOOLEAN] /\ address \in Addresses \cup {None}
        BY <1>1 DEF OAuthInit
    <2>6. (\A p \in DOMAIN pairs : pairs[p].grant \in DOMAIN grants)
          /\ (\A k \in Codes : code[k].grant \in DOMAIN grants \cup {0})
        BY <1>2 DEF AbsentCode
    <2>7. QED
        BY <1>2, <2>2, <2>3, <2>4, <2>5, <2>6 DEF OAuthTypeOK, At
<1>4. CodesInv /\ ExchangesInv
    BY <1>2 DEF CodesInv, ExchangesInv, AbsentCode, At
<1>5. ClientsInv /\ ChainInv
    BY <1>2 DEF ClientsInv, ClientsOfGrantsKept, ChainInv, OneRefreshPerGrant, AbsentCode, At
<1>6. ReplayInv
    BY <1>1, <1>2 DEF OAuthInit, ReplayInv, ReplayEndsTheGrant
<1>7. EnabledHasAddress /\ TimesInv
    BY <1>2 DEF EnabledHasAddress, TimesInv
<1>8. QED
    BY <1>3, <1>4, <1>5, <1>6, <1>7 DEF OAuthInv

\* Every action of the consent model keeps the inductive invariant.
LEMMA NextKeeps == OAuthInv /\ [OAuthNext]_vars => OAuthInv'
<1> SUFFICES ASSUME OAuthInv, [OAuthNext]_vars PROVE OAuthInv'
    OBVIOUS
<1> USE DEF OAuthInv
<1>0. /\ now \in Int /\ now \in Instants
      /\ request \in [Requests -> RequestState] /\ Idle \in RequestState
      /\ Idle.pc = "idle"
      /\ address \in Addresses \cup {None} /\ mcp \in BOOLEAN
      /\ active \in [Persons -> BOOLEAN]
      /\ grants \in Seq(GrantRow)
      /\ replays \in [refresh : SUBSET Nat, code : SUBSET Codes, early : SUBSET Codes]
      /\ replays.refresh \subseteq DOMAIN pairs
      /\ \A k \in replays.code : code[k].grant # 0
    BY DEF OAuthTypeOK, Instants, Idle, RequestState, ReplayInv
<1>1. CASE Tick
    <2>1. now' \in Instants /\ now <= now'
        BY <1>0, <1>1, BoundsAssumption DEF Tick, Instants
    <2>2. /\ UNCHANGED <<settings, active, tables, request, replays>>
        BY <1>1 DEF Tick
    <2>3. QED
        BY <1>0, <2>1, <2>2, QuietStep DEF settings, EnabledHasAddress
<1>2. CASE DisableMCP
    <2>1. mcp' = FALSE /\ UNCHANGED <<now, address, active, request>>
          /\ UNCHANGED <<tables, replays>>
        BY <1>2 DEF DisableMCP
    <2>2. mcp' \in BOOLEAN /\ ~mcp'
        BY <2>1
    <2>3. QED
        BY <1>0, <2>1, <2>2, QuietStep
<1>3. ASSUME NEW a \in Addresses \cup {None}, SetInstanceAddress(a) PROVE OAuthInv'
    BY <1>0, <1>3, QuietStep DEF SetInstanceAddress, tables
<1>4. ASSUME NEW u \in Persons, SetActive(u) PROVE OAuthInv'
    <2>1. active' \in [Persons -> BOOLEAN]
        BY <1>0, <1>4 DEF SetActive
    <2>2. CASE active[u]
        BY <1>0, <1>4, <2>1, <2>2, RevokeStep DEF SetActive, settings
    <2>3. CASE ~active[u]
        BY <1>0, <1>4, <2>1, <2>3, QuietStep DEF SetActive, settings, tables, EnabledHasAddress
    <2>4. QED
        BY <2>2, <2>3
<1>5. ASSUME NEW c \in Clients, RegisterClient(c) PROVE OAuthInv'
    BY <1>5, RegisterStep
<1>6. ASSUME NEW g \in DOMAIN grants, RevokeGrant(g) PROVE OAuthInv'
    BY <1>0, <1>6, RevokeStep DEF RevokeGrant, settings
<1>7. ASSUME NEW r \in Requests, BeginEnable(r) PROVE OAuthInv'
    <2>1. [pc |-> "enable"] \in RequestState
        BY DEF RequestState
    <2>2. QED
        BY <1>0, <1>7, <2>1, QuietStep DEF BeginEnable, Goto, settings, EnabledHasAddress
<1>8. ASSUME NEW r \in Requests, EnableMCP(r) PROVE OAuthInv'
    BY <1>0, <1>8, QuietStep DEF EnableMCP, Goto, EnabledHasAddress, tables
<1>9. ASSUME NEW r \in Requests, NEW u \in Persons, NEW c \in Clients, NEW k \in Codes,
             BeginApprove(r, u, c, k)
      PROVE  OAuthInv'
    <2> DEFINE req == [pc |-> "approve", person |-> u, client |-> c, code |-> k,
                       resource |-> address, at |-> now]
    <2>1. req \in RequestState
        BY <1>0, <1>9 DEF BeginApprove, Enabled, RequestState
    <2>2. QED
        BY <1>9, <2>1, CarryStep DEF BeginApprove, Goto
<1>10. ASSUME NEW r \in Requests, CreateCode(r) PROVE OAuthInv'
    BY <1>10, CreateCodeStep
<1>11. ASSUME NEW r \in Requests, NEW k \in Codes, ConsumeCode(r, k) PROVE OAuthInv'
    BY <1>11, ConsumeCodeStep
<1>12. ASSUME NEW r \in Requests, NEW k \in Codes, ReplayCode(r, k) PROVE OAuthInv'
    <2>1. /\ replays' \in [refresh : SUBSET Nat, code : SUBSET Codes, early : SUBSET Codes]
          /\ replays'.refresh = replays.refresh
          /\ \A j \in replays'.code : j \in replays.code \/ (j = k /\ code[k].grant # 0)
        BY <1>0, <1>12 DEF ReplayCode
    <2>2. code[k].grant # 0 => code[k].grant \in {code[k].grant} \cap DOMAIN grants
        BY DEF OAuthTypeOK
    <2>3. QED
        BY <1>0, <1>12, <2>1, <2>2, RevokeStep DEF ReplayCode, settings
<1>13. ASSUME NEW r \in Requests, CheckCode(r) PROVE OAuthInv'
    <2> DEFINE req == [request[r] EXCEPT !.pc = "grant"]
    <2>1. /\ req \in RequestState /\ request[r].pc = "consumed"
          /\ req.pc = "grant" /\ req.code = request[r].code /\ req.at = request[r].at
        <3>1. request[r] \in [pc : {"consumed", "grant"}, code : Codes, at : Instants]
            BY <1>0, <1>13 DEF CheckCode, At, RequestState
        <3>2. QED
            BY <1>13, <3>1 DEF CheckCode, At, RequestState
    <2>2. QED
        BY <1>13, <2>1, CarryStep DEF CheckCode, Goto
<1>14. ASSUME NEW r \in Requests, CreateGrant(r) PROVE OAuthInv'
    BY <1>14, CreateGrantStep
<1>15. ASSUME NEW r \in Requests, NEW p \in DOMAIN pairs, BeginRefresh(r, p) PROVE OAuthInv'
    <2> DEFINE req == [pc |-> "rotate", pair |-> p, at |-> now]
    <2>1. req \in RequestState
        BY <1>0 DEF RequestState, OAuthTypeOK
    <2>2. pairs[p].minted <= now /\ now <= now
        BY <1>0 DEF ChainInv
    <2>3. req.pc = "rotate" /\ req.pair = p /\ req.at = now
        OBVIOUS
    <2>4. request' = [request EXCEPT ![r] = req]
          /\ UNCHANGED <<now, settings, active, tables, replays>>
        BY <1>15 DEF BeginRefresh, Goto
    <2> HIDE DEF req
    <2>5. QED
        BY <2>1, <2>2, <2>3, <2>4, CarryStep
<1>16. ASSUME NEW r \in Requests, Rotate(r) PROVE OAuthInv'
    BY <1>16, RotateStep
<1>17. ASSUME NEW r \in Requests, ReplayRefresh(r) PROVE OAuthInv'
    <2> DEFINE p == request[r].pair
    <2>1. p \in DOMAIN pairs
        BY <1>17, RowTypes DEF ReplayRefresh
    <2>2. /\ replays' \in [refresh : SUBSET Nat, code : SUBSET Codes, early : SUBSET Codes]
          /\ replays'.refresh = replays.refresh \cup {p}
          /\ replays'.code = replays.code
        <3>1. p \in Nat
            BY <2>1 DEF OAuthTypeOK
        <3>2. replays' = [replays EXCEPT !.refresh = @ \cup {p}]
            BY <1>17 DEF ReplayRefresh
        <3> HIDE DEF p
        <3>3. QED
            BY <1>0, <3>1, <3>2
    <2>3. QED
        BY <1>0, <1>17, <2>1, <2>2, RevokeStep DEF ReplayRefresh, Goto, settings
<1>18. ASSUME NEW r \in Requests, Abandon(r) PROVE OAuthInv'
    BY <1>0, <1>18, QuietStep DEF Abandon, Goto, settings, EnabledHasAddress
<1>19. CASE UNCHANGED vars
    BY <1>0, <1>19, QuietStep DEF vars, settings, tables, EnabledHasAddress
<1>20. QED
    BY <1>1, <1>2, <1>3, <1>4, <1>5, <1>6, <1>7, <1>8, <1>9, <1>10, <1>11, <1>12, <1>13,
       <1>14, <1>15, <1>16, <1>17, <1>18, <1>19 DEF OAuthNext

\* The inductive invariant: types, the safety properties of consent, and what
\* each request in flight still knows of the rows it read.
THEOREM OAuthInvariant == OAuthSpec => []OAuthInv
    BY InitKeeps, NextKeeps, PTL DEF OAuthSpec

(***************************************************************************)
(* What follows from it.                                                   *)
(***************************************************************************)

\* The types and the foreign keys hold in every reachable state.
THEOREM OAuthTypesCorrect == OAuthSpec => []OAuthTypeOK
<1>1. OAuthInv => OAuthTypeOK
    BY DEF OAuthInv
<1>2. QED
    BY <1>1, OAuthInvariant, PTL

\* However exchanges of one code and rotations of one token overlap and fail,
\* at most one grant comes of the code, and a grant keeps at most one refresh
\* token: ConsumeCode and Rotate spend before they create.
THEOREM UsedOnce == OAuthSpec => []SingleUse
<1>1. OAuthInv => OneGrantPerCode /\ OneRefreshPerGrant
    BY DEF OAuthInv, CodesInv, ChainInv, OneGrantPerCode
<1>2. OAuthInv => SingleUse
    BY <1>1 DEF SingleUse
<1>3. QED
    BY <1>2, OAuthInvariant, PTL

\* A replayed refresh token, and a code replayed after its exchange, end the
\* consent for good.
THEOREM ReplayEndsGrants == OAuthSpec => []ReplayEndsTheGrant
<1>1. OAuthInv => ReplayEndsTheGrant
    BY DEF OAuthInv, ReplayInv
<1>2. QED
    BY <1>1, OAuthInvariant, PTL

\* MCP is never enabled without an instance address.
THEOREM EnabledAlwaysAddressed == OAuthSpec => []EnabledHasAddress
<1>1. OAuthInv => EnabledHasAddress
    BY DEF OAuthInv
<1>2. QED
    BY <1>1, OAuthInvariant, PTL

\* No client with a grant or a usable code is ever pruned.
THEOREM GrantsKeepClients == OAuthSpec => []ClientsOfGrantsKept
<1>1. OAuthInv => ClientsOfGrantsKept
    BY DEF OAuthInv, ClientsInv
<1>2. QED
    BY <1>1, OAuthInvariant, PTL

\* Whatever may act as a person is on the list that person revokes from: the
\* youngest pair of the chain outlives every access token of it, because
\* refresh tokens live at least as long as access tokens.
THEOREM UsableAlwaysListed == OAuthSpec => []UsableIsListed
<1>1. OAuthInv => UsableIsListed
    <2>1. SUFFICES ASSUME OAuthInv, NEW p \in DOMAIN pairs, Accepts(p)
                   PROVE  Listed(pairs[p].grant)
        BY DEF UsableIsListed
    <2>2. Live(pairs[p].grant) /\ now < pairs[p].minted + AccessTTL
        BY <2>1 DEF Accepts, AccessValid
    <2>3. PICK q \in DOMAIN pairs : /\ pairs[q].grant = pairs[p].grant
                                    /\ ~pairs[q].spent
                                    /\ pairs[p].minted <= pairs[q].minted
        BY <2>1 DEF OAuthInv, ChainInv
    <2>4. "refresh" \in pairs[q].stored
        BY <2>1, <2>3 DEF OAuthInv, ChainInv
    <2>5. now < pairs[q].minted + RefreshTTL
        <3>1. /\ pairs[p].minted \in Int /\ pairs[q].minted \in Int
              /\ now \in Int
            BY <2>1, RowTypes DEF OAuthInv, OAuthTypeOK, Instants
        <3>2. QED
            BY <2>2, <2>3, <3>1, LifetimesAssumption
    <2>6. QED
        BY <2>2, <2>3, <2>4, <2>5 DEF Listed, RefreshValid
<1>2. QED
    BY <1>1, OAuthInvariant, PTL

\* Nothing rewrites a revocation.
THEOREM RevocationsAreFinal == OAuthSpec => RevocationFinal
<1>1. OAuthInv /\ [OAuthNext]_vars
         => [\A g \in DOMAIN grants : ~Live(g) => grants'[g].revoked = grants[g].revoked]_vars
    <2>1. SUFFICES ASSUME OAuthInv, OAuthNext, NEW g \in DOMAIN grants, ~Live(g)
                   PROVE  grants'[g].revoked = grants[g].revoked
        BY DEF vars
    <2>2. grants \in Seq(GrantRow)
        BY <2>1 DEF OAuthInv, OAuthTypeOK
    <2>3. ASSUME NEW gs, NEW by \in {"tkt", "person"}, grants' = RevokeAll(gs, by)
          PROVE  grants'[g].revoked = grants[g].revoked
        BY <2>1, <2>2, <2>3, RevokeAllKeeps DEF Live
    <2>4. ASSUME NEW x, grants' = Append(grants, x)
          PROVE  grants'[g].revoked = grants[g].revoked
        BY <2>1, <2>2, <2>4
    <2>5. CASE grants' = grants
        BY <2>5
    <2>6. QED
        BY <2>1, <2>3, <2>4, <2>5
        DEF OAuthNext, Tick, DisableMCP, SetInstanceAddress, SetActive, RegisterClient,
            RevokeGrant, BeginEnable, EnableMCP, BeginApprove, CreateCode, ConsumeCode,
            ReplayCode, CheckCode, CreateGrant, BeginRefresh, Rotate, ReplayRefresh,
            Abandon, tables
<1>2. QED
    BY <1>1, OAuthInvariant, PTL DEF OAuthSpec, RevocationFinal

(***************************************************************************)
(* Codes met again before their grant.                                     *)
(***************************************************************************)

Exchanging(k) == \E r \in Requests : request[r].pc \in {"consumed", "grant"} /\ request[r].code = k

\* Nobody presents a code again between its consumption and the end of the
\* exchange that consumed it, in a grant or without one.
ExchangesUndisturbed ==
    [][\A k \in Codes : k \in replays'.early /\ k \notin replays.early => ~Exchanging(k)]_vars

\* A code met again without a grant is spent, and nothing will grant it one.
EarlyInv == \A k \in replays.early :
    /\ code[k].state \in {"spent", "deleted"}
    /\ ~Exchanging(k)
    /\ \A g \in DOMAIN grants : grants[g].code # k

\* Only the presentation of a spent code without a grant counts as early.
LEMMA EarlyCodes ==
    ASSUME OAuthInv, OAuthNext, NEW k \in replays'.early, k \notin replays.early
    PROVE  k \in Codes /\ code[k].state = "spent" /\ code[k].grant = 0
           /\ code' = code /\ request' = request /\ DOMAIN grants' = DOMAIN grants
           /\ \A g \in DOMAIN grants : grants'[g].code = grants[g].code
<1>1. PICK r \in Requests, j \in Codes : ReplayCode(r, j)
    <2>1. replays \in [refresh : SUBSET Nat, code : SUBSET Codes, early : SUBSET Codes]
        BY DEF OAuthInv, OAuthTypeOK
    <2>2. ASSUME NEW r \in Requests, ReplayRefresh(r) PROVE replays'.early = replays.early
        BY <2>1, <2>2 DEF ReplayRefresh
    <2> QED
        BY <2>2 DEF OAuthNext, Tick, DisableMCP, SetInstanceAddress, SetActive, RegisterClient,
            RevokeGrant, BeginEnable, EnableMCP, BeginApprove, CreateCode, ConsumeCode,
            CheckCode, CreateGrant, BeginRefresh, Rotate, Abandon
<1>2. /\ replays \in [refresh : SUBSET Nat, code : SUBSET Codes, early : SUBSET Codes]
      /\ grants \in Seq(GrantRow)
    BY DEF OAuthInv, OAuthTypeOK
<1>3. k = j /\ code[j].grant = 0
    BY <1>1, <1>2 DEF ReplayCode
<1>4. DOMAIN grants' = DOMAIN grants /\ \A g \in DOMAIN grants : grants'[g].code = grants[g].code
    <2>1. grants' = RevokeAll({code[j].grant} \cap DOMAIN grants, "tkt")
        BY <1>1 DEF ReplayCode
    <2> QED
        BY <1>2, <2>1, RevokeAllKeeps
<1> QED
    BY <1>1, <1>3, <1>4 DEF ReplayCode, CanPresent

\* A request starts an exchange only with a stored code, and ends one or goes
\* on with the code it carries.
LEMMA ExchangeBegins ==
    ASSUME OAuthInv, OAuthNext, NEW k \in Codes, Exchanging(k)', ~Exchanging(k)
    PROVE  code[k].state = "stored"
<1>1. request \in [Requests -> RequestState]
    BY DEF OAuthInv, OAuthTypeOK
<1>2. PICK r \in Requests : request'[r].pc \in {"consumed", "grant"} /\ request'[r].code = k
    BY DEF Exchanging
<1>3. ~(request[r].pc \in {"consumed", "grant"} /\ request[r].code = k)
    BY DEF Exchanging
<1>4. request'[r] # request[r]
    BY <1>2, <1>3
<1>5. ASSUME NEW q \in Requests, CheckCode(q) PROVE FALSE
    <2>1. request[q] \in [pc : {"consumed", "grant"}, code : Codes, at : Instants]
        BY <1>1, <1>5 DEF CheckCode, At, RequestState
    <2>2. q = r
        BY <1>4, <1>5 DEF CheckCode, Goto
    <2>3. request'[r].code = request[r].code
        BY <1>1, <1>5, <2>1, <2>2 DEF CheckCode, Goto
    <2> QED
        BY <1>2, <1>3, <2>1, <2>2, <2>3
<1>6. ASSUME NEW q \in Requests, NEW j \in Codes, ConsumeCode(q, j)
      PROVE  code[k].state = "stored"
    <2>1. q = r
        BY <1>4, <1>6 DEF ConsumeCode, Goto
    <2>2. request'[r].code = j
        BY <1>1, <1>6, <2>1 DEF ConsumeCode, Goto
    <2> QED
        BY <1>2, <1>6, <2>2 DEF ConsumeCode
<1>7. ASSUME NEW q \in Requests, NEW x, request' = [request EXCEPT ![q] = x],
             x.pc \notin {"consumed", "grant"}
      PROVE  FALSE
    BY <1>1, <1>2, <1>4, <1>7
<1>8. Idle.pc = "idle"
    BY DEF Idle
<1> QED
    BY <1>4, <1>5, <1>6, <1>7, <1>8
    DEF OAuthNext, Tick, DisableMCP, SetInstanceAddress, SetActive, RegisterClient,
        RevokeGrant, BeginEnable, EnableMCP, BeginApprove, CreateCode, ReplayCode,
        CreateGrant, BeginRefresh, Rotate, ReplayRefresh, Abandon, Goto

\* A spent code stays spent, or goes with its client.
LEMMA SpentStays ==
    ASSUME OAuthInv, OAuthNext, NEW k \in Codes, code[k].state \in {"spent", "deleted"}
    PROVE  code'[k].state \in {"spent", "deleted"}
<1>1. code \in [Codes -> CodeRow]
    BY DEF OAuthInv, OAuthTypeOK
<1>2. ASSUME NEW c \in Clients, RegisterClient(c) PROVE code'[k].state \in {"spent", "deleted"}
    BY <1>1, <1>2 DEF RegisterClient, AbsentCode
<1>3. ASSUME NEW r \in Requests, CreateCode(r) PROVE code'[k].state \in {"spent", "deleted"}
    <2>1. k # request[r].code
        BY <1>3 DEF CreateCode, OAuthInv, CodesInv
    <2> QED
        BY <1>1, <1>3, <2>1 DEF CreateCode, AbsentCode
<1>4. ASSUME NEW r \in Requests, NEW j \in Codes, ConsumeCode(r, j)
      PROVE  code'[k].state \in {"spent", "deleted"}
    BY <1>1, <1>4 DEF ConsumeCode, CodeRow
<1>5. ASSUME NEW r \in Requests, CreateGrant(r) PROVE code'[k].state \in {"spent", "deleted"}
    <2>1. PICK g, j : code' = [code EXCEPT ![j].grant = g]
        BY <1>5 DEF CreateGrant
    <2>2. code[k] \in CodeRow
        BY <1>1
    <2> QED
        BY <1>1, <2>1, <2>2 DEF CodeRow
<1> QED
    BY <1>2, <1>3, <1>4, <1>5
    DEF OAuthNext, Tick, DisableMCP, SetInstanceAddress, SetActive, RevokeGrant, BeginEnable,
        EnableMCP, BeginApprove, ReplayCode, CheckCode, BeginRefresh, Rotate, ReplayRefresh,
        Abandon, tables

\* A grant is created for a code that is being exchanged, and keeps its code.
LEMMA GrantsOfExchanges ==
    ASSUME OAuthInv, OAuthNext, NEW g \in DOMAIN grants'
    PROVE  \/ g \in DOMAIN grants /\ grants'[g].code = grants[g].code
           \/ Exchanging(grants'[g].code)
<1>1. grants \in Seq(GrantRow)
    BY DEF OAuthInv, OAuthTypeOK
<1>2. CASE grants' = grants
    BY <1>2
<1>3. ASSUME NEW gs, NEW by \in {"tkt", "person"}, grants' = RevokeAll(gs, by)
      PROVE  g \in DOMAIN grants /\ grants'[g].code = grants[g].code
    BY <1>1, <1>3, RevokeAllKeeps
<1>4. ASSUME NEW r \in Requests, CreateGrant(r)
      PROVE  \/ g \in DOMAIN grants /\ grants'[g].code = grants[g].code
             \/ Exchanging(grants'[g].code)
    <2>1. PICK row : grants' = Append(grants, row) /\ row.code = request[r].code
        BY <1>4 DEF CreateGrant
    <2>2. CASE g \in DOMAIN grants
        BY <1>1, <2>1, <2>2
    <2>3. CASE g \notin DOMAIN grants
        <3>1. grants'[g] = row
            BY <1>1, <2>1, <2>3
        <3> QED
            BY <1>4, <2>1, <3>1 DEF CreateGrant, At, Exchanging
    <2> QED
        BY <2>2, <2>3
<1> QED
    BY <1>2, <1>3, <1>4
    DEF OAuthNext, Tick, DisableMCP, SetInstanceAddress, SetActive, RegisterClient,
        RevokeGrant, BeginEnable, EnableMCP, BeginApprove, CreateCode, ConsumeCode,
        ReplayCode, CheckCode, BeginRefresh, Rotate, ReplayRefresh, Abandon, tables

\* A code that is met again early yields a live grant in one case only: its
\* exchange was still in flight.  An exchange that failed has spent the code for
\* good, and nothing met later brings a grant of it (ConsumeCode, CreateGrant).
THEOREM EarlyReplaysEndGrants ==
    OAuthSpec /\ ExchangesUndisturbed => []EarlyReplayEndsTheGrant
<1>1. OAuthInit => EarlyInv
    BY DEF OAuthInit, EarlyInv
<1>2. ASSUME OAuthInv, EarlyInv, OAuthNext,
             \A k \in Codes : k \in replays'.early /\ k \notin replays.early => ~Exchanging(k)
      PROVE  EarlyInv'
    <2> SUFFICES ASSUME NEW k \in replays'.early
                 PROVE  /\ code'[k].state \in {"spent", "deleted"}
                        /\ ~Exchanging(k)'
                        /\ \A g \in DOMAIN grants' : grants'[g].code # k
        BY DEF EarlyInv
    <2>1. /\ k \in Codes /\ code[k].state \in {"spent", "deleted"}
          /\ ~Exchanging(k)
          /\ \A g \in DOMAIN grants : grants[g].code # k
        <3>1. CASE k \in replays.early
            <4>1. replays.early \subseteq Codes
                BY <1>2 DEF OAuthInv, OAuthTypeOK
            <4> QED
                BY <1>2, <3>1, <4>1 DEF EarlyInv
        <3>2. CASE k \notin replays.early
            <4>1. k \in Codes /\ code[k].state = "spent" /\ code[k].grant = 0
                BY <1>2, <3>2, EarlyCodes
            <4>2. ASSUME NEW g \in DOMAIN grants PROVE grants[g].code # k
                <5>1. code[grants[g].code].grant = g /\ g # 0
                    BY <1>2 DEF OAuthInv, CodesInv, OAuthTypeOK
                <5> QED
                    BY <4>1, <5>1
            <4> QED
                BY <1>2, <3>2, <4>1, <4>2
        <3> QED
            BY <3>1, <3>2
    <2>2. code'[k].state \in {"spent", "deleted"}
        BY <1>2, <2>1, SpentStays
    <2>3. ~Exchanging(k)'
        BY <1>2, <2>1, ExchangeBegins
    <2>4. \A g \in DOMAIN grants' : grants'[g].code # k
        BY <1>2, <2>1, GrantsOfExchanges
    <2> QED
        BY <2>2, <2>3, <2>4
<1>3. OAuthInv /\ EarlyInv /\ UNCHANGED vars => EarlyInv'
    BY DEF EarlyInv, Exchanging, vars, tables, settings
<1>4. OAuthInv /\ EarlyInv /\ [OAuthNext]_vars
      /\ [\A k \in Codes : k \in replays'.early /\ k \notin replays.early => ~Exchanging(k)]_vars
      => EarlyInv'
    BY <1>2, <1>3
<1>5. EarlyInv => EarlyReplayEndsTheGrant
    BY DEF EarlyInv, EarlyReplayEndsTheGrant
<1> QED
    BY <1>1, <1>4, <1>5, OAuthInvariant, PTL DEF OAuthSpec, ExchangesUndisturbed
=============================================================================
