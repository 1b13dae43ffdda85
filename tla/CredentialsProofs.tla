-------------------------- MODULE CredentialsProofs --------------------------
(***************************************************************************)
(* The properties of Credentials for every number of accounts, links,      *)
(* sessions and requests.  The invariant is inductive as it stands: what a *)
(* request has read is compared again by the transaction that uses it, so  *)
(* nothing need be known of the requests in flight beyond their types.     *)
(***************************************************************************)
EXTENDS Credentials, TLAPS

CredInv == CredentialsTypeOK /\ PendingLinkIsCurrent

LinksHaveOwners ==
    \A k \in Links : link[k].state \in {"pending", "spent"} =>
        link[k].user \in People /\ Exists(link[k].user)

SessionsHaveOwners == \A s \in Sessions : session[s] \in People => Exists(session[s])

(***************************************************************************)
(* The helpers.                                                            *)
(***************************************************************************)

\* A password replaced is another password; nothing else of any row moves.
LEMMA ReplacedRows ==
    ASSUME account \in [People -> AccountRow], NEW u \in People, Room(u)
    PROVE  /\ Replaced(u) \in [People -> AccountRow]
           /\ \A v \in People : Replaced(u)[v].state = account[v].state
           /\ \A v \in People : v # u => Replaced(u)[v] = account[v]
           /\ Replaced(u)[u].password # account[u].password
<1>1. account[u].password \in Nat /\ account[u].password + 1 \in Passwords
    BY CredentialsAssumption DEF AccountRow, Passwords, Room
<1> QED
    BY <1>1 DEF Replaced, AccountRow

\* A voided row has its type and is neither pending nor spent.
LEMMA VoidedRow ==
    ASSUME link \in [Links -> LinkRow], NEW k \in Links
    PROVE  Void(k) \in LinkRow /\ Void(k).state = "void"
BY DEF Void, LinkRow

\* What stays pending of voided links belongs to others, and is untouched.
LEMMA VoidedLinks ==
    ASSUME link \in [Links -> LinkRow], NEW u \in People
    PROVE  /\ VoidPending(u) \in [Links -> LinkRow]
           /\ \A k \in Links : VoidPending(u)[k].state = "pending" =>
                  VoidPending(u)[k] = link[k] /\ link[k].user # u
           /\ \A k \in Links : VoidPending(u)[k].state = "spent" =>
                  VoidPending(u)[k] = link[k]
<1>1. \A k \in Links : VoidPending(u)[k] = IF k \in PendingOf(u) THEN Void(k) ELSE link[k]
    BY DEF VoidPending
<1>2. VoidPending(u) \in [Links -> LinkRow]
    BY VoidedRow DEF VoidPending
<1>3. \A k \in Links : k \in PendingOf(u) <=> link[k].state = "pending" /\ link[k].user = u
    BY DEF PendingOf
<1> QED
    BY <1>1, <1>2, <1>3, VoidedRow

\* A sign-out leaves a person only the sessions to keep, and nobody new.
LEMMA SignedOut ==
    ASSUME session \in [Sessions -> People \cup {None, Ended}], NEW u \in People, NEW keep
    PROVE  /\ SignOut(u, keep) \in [Sessions -> People \cup {None, Ended}]
           /\ \A s \in Sessions : SignOut(u, keep)[s] \in People =>
                  SignOut(u, keep)[s] = session[s] /\ (session[s] = u => s \in keep)
<1>1. Ended \notin People
    BY CredentialsAssumption DEF Ended
<1> QED
    BY <1>1 DEF SignOut

(***************************************************************************)
(* What the steps preserve.                                                *)
(***************************************************************************)

\* Links stay current if no pending one appears and the owners of those that
\* stay keep their password.
LEMMA LinksKept ==
    ASSUME CredInv, link' \in [Links -> LinkRow],
           \A k \in Links : link'[k].state = "pending" =>
               /\ link'[k] = link[k]
               /\ account'[link[k].user].password = account[link[k].user].password,
           \A k \in Links : link'[k].state \in {"pending", "spent"} =>
               link'[k].user \in People /\ account'[link'[k].user].state # "gone"
    PROVE  PendingLinkIsCurrent' /\ LinksHaveOwners'
<1>1. LinksFollowPassword'
    BY DEF CredInv, PendingLinkIsCurrent, LinksFollowPassword
<1>2. ASSUME NEW u \in People, NEW k \in PendingOf(u)', NEW l \in PendingOf(u)' PROVE k = l
    BY <1>2 DEF CredInv, PendingLinkIsCurrent, OnePendingLink, PendingOf
<1> QED
    BY <1>1, <1>2 DEF PendingLinkIsCurrent, OnePendingLink, LinksHaveOwners, Exists

\* A step that only moves a request on.
LEMMA ServeKeeps ==
    ASSUME CredInv, NEW r \in Requests, NEW state \in RequestStates,
           Serve(r, state), RowsUnchanged
    PROVE  CredInv'
<1>1. request' \in [Requests -> RequestStates]
    BY DEF CredInv, CredentialsTypeOK, Serve
<1> QED
    BY <1>1 DEF CredInv, CredentialsTypeOK, PendingLinkIsCurrent, LinksFollowPassword,
        OnePendingLink, PendingOf, Exists, RowsUnchanged

\* A step that leaves the accounts and the links alone.
LEMMA SessionsKeep ==
    ASSUME CredInv, UNCHANGED <<account, link>>,
           session' \in [Sessions -> People \cup {None, Ended}], SessionsHaveOwners',
           passwordSignIn' \in BOOLEAN, request' \in [Requests -> RequestStates],
           now' \in Instants
    PROVE  CredInv'
BY DEF CredInv, CredentialsTypeOK, SessionsHaveOwners, PendingLinkIsCurrent,
    LinksFollowPassword, OnePendingLink, PendingOf, Exists

\* A served request is idle.
LEMMA ServedIdle ==
    ASSUME CredInv, NEW r \in Requests, Serve(r, Idle)
    PROVE  request' \in [Requests -> RequestStates]
BY DEF CredInv, CredentialsTypeOK, Serve, RequestStates

\* The one write of a password: it voids the pending links of the account, may
\* spend one of them, and signs out as it likes.
LEMMA PasswordWrite ==
    ASSUME CredInv, NEW u \in People, NEW r \in Requests, Serve(r, Idle),
           Exists(u), Room(u), account' = Replaced(u),
           link' \in [Links -> LinkRow],
           \A k \in Links : link'[k].state = "pending" => link'[k] = link[k] /\ link[k].user # u,
           \A k \in Links : link'[k].state = "spent" =>
               link'[k].user = link[k].user /\ link[k].state \in {"pending", "spent"},
           session' \in [Sessions -> People \cup {None, Ended}],
           \A s \in Sessions : session'[s] \in People => session'[s] = session[s],
           UNCHANGED <<passwordSignIn, now>>
    PROVE  CredInv'
<1>1. CredentialsTypeOK
    BY DEF CredInv
<1>2. /\ account' \in [People -> AccountRow]
      /\ \A v \in People : account'[v].state = account[v].state
      /\ \A v \in People : v # u => account'[v] = account[v]
    BY <1>1, ReplacedRows DEF CredentialsTypeOK
<1>3. ASSUME NEW k \in Links, link'[k].state = "pending"
      PROVE  /\ link'[k].user \in People /\ account'[link'[k].user].state # "gone"
             /\ account'[link[k].user].password = account[link[k].user].password
    BY <1>1, <1>2, <1>3 DEF CredentialsTypeOK, Exists
<1>4. ASSUME NEW k \in Links, link'[k].state = "spent"
      PROVE  link'[k].user \in People /\ account'[link'[k].user].state # "gone"
    BY <1>1, <1>2, <1>4 DEF CredentialsTypeOK, Exists
<1>5. PendingLinkIsCurrent' /\ LinksHaveOwners'
    BY <1>3, <1>4, LinksKept
<1>6. SessionsHaveOwners'
    BY <1>1, <1>2 DEF CredentialsTypeOK, SessionsHaveOwners, Exists
<1> QED
    BY <1>1, <1>2, <1>5, <1>6, ServedIdle
    DEF CredInv, CredentialsTypeOK, LinksHaveOwners, SessionsHaveOwners

LEMMA InitSound == Init => CredInv
<1> SUFFICES ASSUME Init PROVE CredInv
    OBVIOUS
<1>1. /\ Root \in People /\ None \notin People
      /\ 0 \in Instants /\ 0 \in Passwords /\ 1 \in Passwords
    BY CredentialsAssumption DEF Instants, Passwords
<1>2. account \in [People -> AccountRow] /\ \A u \in People : account[u].state = "active"
    BY <1>1 DEF Init, AccountRow
<1>3. /\ link \in [Links -> LinkRow] /\ \A k \in Links : link[k].state = "none"
    BY <1>1 DEF Init, LinkRow, NoLink
<1>4. session \in [Sessions -> People \cup {None, Ended}] /\ \A s \in Sessions : session[s] \notin People
    BY <1>1 DEF Init
<1>5. /\ request \in [Requests -> RequestStates]
      /\ passwordSignIn \in BOOLEAN /\ now \in Instants
    BY <1>1 DEF Init, RequestStates
<1> QED
    BY <1>2, <1>3, <1>4, <1>5
    DEF CredInv, CredentialsTypeOK, PendingLinkIsCurrent, LinksFollowPassword,
        OnePendingLink, PendingOf

(***************************************************************************)
(* The steps of a request that only read.                                  *)
(***************************************************************************)

LEMMA LoginSound ==
    ASSUME CredInv, NEW r \in Requests, NEW u \in People,
           Login(r, u) \/ BeginSetPassword(r, u) \/ BeginReset(r, u)
    PROVE  CredInv'
<1>1. /\ [at |-> "open", user |-> u] \in RequestStates
      /\ [at |-> "set", user |-> u] \in RequestStates
      /\ [at |-> "ask", user |-> u] \in RequestStates
    BY DEF RequestStates
<1> QED
    BY <1>1, ServeKeeps DEF Login, BeginSetPassword, BeginReset

LEMMA BeginOwnChangeSound ==
    ASSUME CredInv, NEW r \in Requests, NEW s \in Sessions, BeginOwnChange(r, s)
    PROVE  CredInv'
<1>1. [at |-> "verify", user |-> session[s], session |-> s] \in RequestStates
    BY DEF RequestStates, BeginOwnChange
<1> QED
    BY <1>1, ServeKeeps DEF BeginOwnChange

\* The request states that carry something, taken apart.
LEMMA Requested ==
    ASSUME CredInv, NEW r \in Requests
    PROVE  /\ request[r].at \in {"open", "ask", "set", "issue", "verify", "own"} =>
                  request[r].user \in People
           /\ request[r].at \in {"verify", "own"} => request[r].session \in Sessions
           /\ request[r].at = "own" => request[r].verified \in Passwords
           /\ request[r].at = "issue" => request[r].issued \in Instants
           /\ request[r].at = "redeem" => request[r].link \in Links
<1>1. request[r] \in RequestStates
    BY DEF CredInv, CredentialsTypeOK
<1> QED
    BY <1>1 DEF RequestStates, Idle

LEMMA VerifyOwnPasswordSound ==
    ASSUME CredInv, NEW r \in Requests, VerifyOwnPassword(r)
    PROVE  CredInv'
<1> DEFINE u == request[r].user
<1> DEFINE next == [at |-> "own", user |-> u, session |-> request[r].session,
                    verified |-> account[u].password]
<1>1. u \in People /\ request[r].session \in Sessions
    BY Requested DEF VerifyOwnPassword
<1>2. account[u].password \in Passwords
    BY <1>1 DEF CredInv, CredentialsTypeOK, AccountRow
<1>3. next \in RequestStates /\ Idle \in RequestStates
    BY <1>1, <1>2 DEF RequestStates
<1>4. Serve(r, next) \/ Serve(r, Idle)
    BY DEF VerifyOwnPassword
<1>5. RowsUnchanged
    BY DEF VerifyOwnPassword
<1> HIDE DEF next, u
<1> QED
    BY <1>3, <1>4, <1>5, ServeKeeps

LEMMA CheckThrottleSound ==
    ASSUME CredInv, NEW r \in Requests, CheckThrottle(r)
    PROVE  CredInv'
<1> DEFINE next == [at |-> "issue", user |-> request[r].user, issued |-> now]
<1>1. request[r].user \in People /\ now \in Instants
    BY Requested DEF CheckThrottle, CredInv, CredentialsTypeOK
<1>2. next \in RequestStates /\ Idle \in RequestStates
    BY <1>1 DEF RequestStates
<1>3. Serve(r, next) \/ Serve(r, Idle)
    BY DEF CheckThrottle
<1>4. RowsUnchanged
    BY DEF CheckThrottle
<1> HIDE DEF next
<1> QED
    BY <1>2, <1>3, <1>4, ServeKeeps

LEMMA BeginRedeemSound ==
    ASSUME CredInv, NEW r \in Requests, NEW k \in Links, BeginRedeem(r, k)
    PROVE  CredInv'
<1>1. [at |-> "redeem", link |-> k] \in RequestStates
    BY DEF RequestStates
<1> QED
    BY <1>1, ServeKeeps DEF BeginRedeem

LEMMA AbandonSound ==
    ASSUME CredInv, NEW r \in Requests, Abandon(r)
    PROVE  CredInv'
<1>1. Idle \in RequestStates
    BY DEF RequestStates
<1> QED
    BY <1>1, ServeKeeps DEF Abandon

(***************************************************************************)
(* The sessions, the switch and the clock.                                 *)
(***************************************************************************)

LEMMA OpenSessionSound ==
    ASSUME CredInv, NEW r \in Requests, NEW s \in Sessions, OpenSession(r, s)
    PROVE  CredInv'
<1>1. request[r].user \in People
    BY Requested DEF OpenSession
<1>2. request' \in [Requests -> RequestStates]
    BY ServedIdle DEF OpenSession
<1>3. /\ session' \in [Sessions -> People \cup {None, Ended}] /\ SessionsHaveOwners'
    BY <1>1 DEF OpenSession, CredInv, CredentialsTypeOK, SessionsHaveOwners, Exists
<1> QED
    BY <1>2, <1>3, SessionsKeep DEF OpenSession, CredInv, CredentialsTypeOK

LEMMA EndSessionSound ==
    ASSUME CredInv, NEW s \in Sessions, EndSession(s)
    PROVE  CredInv'
<1>1. Ended \notin People
    BY CredentialsAssumption DEF Ended
<1>2. session' \in [Sessions -> People \cup {None, Ended}] /\ SessionsHaveOwners'
    BY <1>1 DEF EndSession, CredInv, CredentialsTypeOK, SessionsHaveOwners, Exists
<1> QED
    BY <1>2, SessionsKeep DEF EndSession, CredInv, CredentialsTypeOK

LEMMA SwitchAndTickSound ==
    ASSUME CredInv, SwitchPasswordSignIn \/ Tick
    PROVE  CredInv'
<1>1. now' \in Instants
    BY CredentialsAssumption DEF CredInv, CredentialsTypeOK, SwitchPasswordSignIn, Tick, Instants
<1>2. passwordSignIn' \in BOOLEAN
    BY Zenon DEF CredInv, CredentialsTypeOK, SwitchPasswordSignIn, Tick
<1> QED
    BY <1>1, <1>2, SessionsKeep
    DEF SwitchPasswordSignIn, Tick, CredInv, CredentialsTypeOK, SessionsHaveOwners, Exists

(***************************************************************************)
(* The writes of accounts and links.                                       *)
(***************************************************************************)

LEMMA CommitOwnChangeSound ==
    ASSUME CredInv, NEW r \in Requests, CommitOwnChange(r)
    PROVE  CredInv'
<1>1. PICK u \in People : u = request[r].user
    BY Requested DEF CommitOwnChange
<1>2. CASE UNCHANGED <<account, link, session>>
    <2>1. RowsUnchanged /\ Serve(r, Idle) /\ Idle \in RequestStates
        BY <1>2 DEF CommitOwnChange, RowsUnchanged, RequestStates
    <2> QED
        BY <2>1, ServeKeeps
<1>3. CASE /\ Exists(u) /\ Room(u)
           /\ account' = Replaced(u) /\ link' = VoidPending(u)
           /\ session' = SignOut(u, {request[r].session})
    <2>1. CredentialsTypeOK
        BY DEF CredInv
    <2>2. /\ link' \in [Links -> LinkRow]
          /\ \A k \in Links : link'[k].state = "pending" => link'[k] = link[k] /\ link[k].user # u
          /\ \A k \in Links : link'[k].state = "spent" =>
                 link'[k].user = link[k].user /\ link[k].state \in {"pending", "spent"}
        BY <1>3, <2>1, VoidedLinks DEF CredentialsTypeOK
    <2>3. /\ session' \in [Sessions -> People \cup {None, Ended}]
          /\ \A s \in Sessions : session'[s] \in People => session'[s] = session[s]
        BY <1>3, <2>1, SignedOut DEF CredentialsTypeOK
    <2> QED
        BY <1>3, <2>2, <2>3, PasswordWrite DEF CommitOwnChange
<1> QED
    BY <1>1, <1>2, <1>3 DEF CommitOwnChange

LEMMA CommitSetPasswordSound ==
    ASSUME CredInv, NEW r \in Requests, CommitSetPassword(r)
    PROVE  CredInv'
<1>1. PICK u \in People : u = request[r].user
    BY Requested DEF CommitSetPassword
<1>2. CASE UNCHANGED <<account, link>>
    <2>1. RowsUnchanged /\ Serve(r, Idle) /\ Idle \in RequestStates
        BY <1>2 DEF CommitSetPassword, RowsUnchanged, RequestStates
    <2> QED
        BY <2>1, ServeKeeps
<1>3. CASE Exists(u) /\ Room(u) /\ account' = Replaced(u) /\ link' = VoidPending(u)
    <2>1. CredentialsTypeOK
        BY DEF CredInv
    <2>2. /\ link' \in [Links -> LinkRow]
          /\ \A k \in Links : link'[k].state = "pending" => link'[k] = link[k] /\ link[k].user # u
          /\ \A k \in Links : link'[k].state = "spent" =>
                 link'[k].user = link[k].user /\ link[k].state \in {"pending", "spent"}
        BY <1>3, <2>1, VoidedLinks DEF CredentialsTypeOK
    <2>3. /\ session' \in [Sessions -> People \cup {None, Ended}]
          /\ \A s \in Sessions : session'[s] \in People => session'[s] = session[s]
        BY <2>1 DEF CommitSetPassword, CredentialsTypeOK
    <2> QED
        BY <1>3, <2>2, <2>3, PasswordWrite DEF CommitSetPassword
<1> QED
    BY <1>1, <1>2, <1>3 DEF CommitSetPassword

LEMMA RedeemSound ==
    ASSUME CredInv, NEW r \in Requests, Redeem(r)
    PROVE  CredInv'
<1>0. CredentialsTypeOK
    BY DEF CredInv
<1>1. PICK k \in Links : k = request[r].link
    BY Requested DEF Redeem
<1>2. CASE UNCHANGED <<account, link, session>>
    <2>1. RowsUnchanged /\ Serve(r, Idle) /\ Idle \in RequestStates
        BY <1>2 DEF Redeem, RowsUnchanged, RequestStates
    <2> QED
        BY <2>1, ServeKeeps
<1>3. CASE UsableAt(k, now)
    <2>1. PICK u \in People : u = link[k].user /\ Exists(u)
        BY <1>0, <1>3 DEF CredentialsTypeOK, UsableAt
    <2>2. PICK spent \in LinkRow : spent = [link[k] EXCEPT !.state = "spent"]
        BY <1>0 DEF CredentialsTypeOK, LinkRow
    <2>3. /\ Room(u) /\ account' = Replaced(u)
          /\ link' = [VoidPending(u) EXCEPT ![k] = spent]
          /\ session' = SignOut(u, {})
        BY <1>1, <1>3, <2>1, <2>2 DEF Redeem
    <2>4. /\ VoidPending(u) \in [Links -> LinkRow]
          /\ \A l \in Links : VoidPending(u)[l].state = "pending" =>
                  VoidPending(u)[l] = link[l] /\ link[l].user # u
          /\ \A l \in Links : VoidPending(u)[l].state = "spent" => VoidPending(u)[l] = link[l]
        BY <1>0, VoidedLinks DEF CredentialsTypeOK
    <2>5. spent.state = "spent" /\ spent.user = u /\ link[k].state = "pending"
        BY <1>0, <1>3, <2>1, <2>2 DEF CredentialsTypeOK, LinkRow, UsableAt
    <2>6. /\ link' \in [Links -> LinkRow]
          /\ \A l \in Links : link'[l].state = "pending" => link'[l] = link[l] /\ link[l].user # u
          /\ \A l \in Links : link'[l].state = "spent" =>
                 link'[l].user = link[l].user /\ link[l].state \in {"pending", "spent"}
        BY <2>1, <2>3, <2>4, <2>5
    <2>7. /\ session' \in [Sessions -> People \cup {None, Ended}]
          /\ \A s \in Sessions : session'[s] \in People => session'[s] = session[s]
        BY <1>0, <2>3, SignedOut DEF CredentialsTypeOK
    <2> QED
        BY <2>1, <2>3, <2>6, <2>7, PasswordWrite DEF Redeem
<1> QED
    BY <1>1, <1>2, <1>3 DEF Redeem

\* The new link is the only one pending, and replaces the password of now.
LEMMA IssueSound ==
    ASSUME CredInv, NEW r \in Requests, NEW k \in Links, Issue(r, k)
    PROVE  CredInv'
<1>0. CredentialsTypeOK
    BY DEF CredInv
<1>1. PICK u \in People : u = request[r].user
    BY Requested DEF Issue
<1>2. CASE ~Exists(u)
    <2>1. RowsUnchanged /\ Serve(r, Idle) /\ Idle \in RequestStates
        BY <1>1, <1>2 DEF Issue, RowsUnchanged, RequestStates
    <2> QED
        BY <2>1, ServeKeeps
<1>3. CASE Exists(u)
    <2>1. PICK row \in LinkRow :
             row = [state |-> "pending", user |-> u, issued |-> request[r].issued,
                    replaces |-> account[u].password]
        <3>1. request[r].issued \in Instants /\ account[u].password \in Passwords
            BY <1>0, Requested DEF Issue, CredentialsTypeOK, AccountRow
        <3> QED
            BY <3>1 DEF LinkRow
    <2>2. link' = [VoidPending(u) EXCEPT ![k] = row]
        BY <1>1, <1>3, <2>1 DEF Issue
    <2>3. /\ VoidPending(u) \in [Links -> LinkRow]
          /\ \A l \in Links : VoidPending(u)[l].state = "pending" =>
                  VoidPending(u)[l] = link[l] /\ link[l].user # u
          /\ \A l \in Links : VoidPending(u)[l].state = "spent" => VoidPending(u)[l] = link[l]
        BY <1>0, VoidedLinks DEF CredentialsTypeOK
    <2>4. /\ link' \in [Links -> LinkRow]
          /\ link'[k] = row
          /\ \A l \in Links : l # k /\ link'[l].state \in {"pending", "spent"} => link'[l] = link[l]
          /\ \A l \in Links : l # k /\ link'[l].state = "pending" => link[l].user # u
        BY <2>2, <2>3
    <2>5. LinksFollowPassword'
        BY <2>1, <2>4 DEF CredInv, PendingLinkIsCurrent, LinksFollowPassword, Issue
    <2>6. OnePendingLink'
        BY <2>1, <2>4 DEF CredInv, PendingLinkIsCurrent, OnePendingLink, PendingOf
    <2>7. LinksHaveOwners'
        BY <1>0, <1>3, <2>1, <2>4 DEF CredentialsTypeOK, LinksHaveOwners, Exists, Issue
    <2>8. request' \in [Requests -> RequestStates]
        BY ServedIdle DEF Issue
    <2> QED
        BY <1>0, <2>4, <2>5, <2>6, <2>7, <2>8
        DEF CredInv, CredentialsTypeOK, PendingLinkIsCurrent, LinksHaveOwners, Exists, Issue
<1> QED
    BY <1>2, <1>3

LEMMA SwitchActiveSound ==
    ASSUME CredInv, NEW u \in People, SwitchActive(u)
    PROVE  CredInv'
<1>0. CredentialsTypeOK
    BY DEF CredInv
<1>1. /\ account' \in [People -> AccountRow]
      /\ \A v \in People : account'[v].password = account[v].password
      /\ \A v \in People : Exists(v) => account'[v].state # "gone"
    BY <1>0 DEF SwitchActive, CredentialsTypeOK, AccountRow, Exists
<1>2. PendingLinkIsCurrent' /\ LinksHaveOwners'
    <2>1. \A k \in Links : link[k].state \in {"pending", "spent"} =>
              link[k].user \in People /\ Exists(link[k].user)
        BY <1>0 DEF CredentialsTypeOK
    <2> QED
        BY <1>0, <1>1, <2>1, LinksKept DEF SwitchActive, CredentialsTypeOK
<1> QED
    BY <1>0, <1>1, <1>2
    DEF SwitchActive, CredInv, CredentialsTypeOK, LinksHaveOwners, Exists

LEMMA DeleteUserSound ==
    ASSUME CredInv, NEW u \in People, DeleteUser(u)
    PROVE  CredInv'
<1>0. CredentialsTypeOK
    BY DEF CredInv
<1>1. /\ account' \in [People -> AccountRow]
      /\ \A v \in People : account'[v].password = account[v].password
      /\ \A v \in People : v # u /\ Exists(v) => account'[v].state # "gone"
    BY <1>0 DEF DeleteUser, CredentialsTypeOK, AccountRow, Exists
<1>2. \A k \in Links : link'[k] = IF k \in RowsOf(u) THEN Void(k) ELSE link[k]
    BY DEF DeleteUser
<1>3. link' \in [Links -> LinkRow]
    BY <1>0, VoidedRow DEF DeleteUser, CredentialsTypeOK
<1>4. \A k \in Links : link'[k].state \in {"pending", "spent"} =>
          link'[k] = link[k] /\ link[k].user \in People \ {u} /\ Exists(link[k].user)
    BY <1>0, <1>2, VoidedRow DEF CredentialsTypeOK, RowsOf
<1>5. PendingLinkIsCurrent' /\ LinksHaveOwners'
    BY <1>1, <1>3, <1>4, LinksKept
<1>6. /\ session' \in [Sessions -> People \cup {None, Ended}]
      /\ \A s \in Sessions : session'[s] \in People =>
             session'[s] = session[s] /\ session[s] # u
    BY <1>0, SignedOut DEF DeleteUser, CredentialsTypeOK
<1>7. SessionsHaveOwners'
    BY <1>0, <1>1, <1>6 DEF CredentialsTypeOK, SessionsHaveOwners, Exists
<1> QED
    BY <1>0, <1>1, <1>3, <1>5, <1>6, <1>7
    DEF DeleteUser, CredInv, CredentialsTypeOK, LinksHaveOwners, SessionsHaveOwners

(***************************************************************************)
(* The theorems.                                                           *)
(***************************************************************************)

LEMMA StepsSound == CredInv /\ [Next]_vars => CredInv'
<1> SUFFICES ASSUME CredInv, [Next]_vars PROVE CredInv'
    OBVIOUS
<1>1. CASE UNCHANGED vars
    BY <1>1 DEF vars, CredInv, CredentialsTypeOK, PendingLinkIsCurrent,
        LinksFollowPassword, OnePendingLink, PendingOf, Exists
<1>2. ASSUME NEW r \in Requests, NEW u \in People,
             Login(r, u) \/ BeginSetPassword(r, u) \/ BeginReset(r, u)
      PROVE  CredInv'
    BY <1>2, LoginSound
<1>3. ASSUME NEW r \in Requests, NEW s \in Sessions, OpenSession(r, s) \/ BeginOwnChange(r, s)
      PROVE  CredInv'
    BY <1>3, OpenSessionSound, BeginOwnChangeSound
<1>4. ASSUME NEW r \in Requests, NEW k \in Links, Issue(r, k) \/ BeginRedeem(r, k)
      PROVE  CredInv'
    BY <1>4, IssueSound, BeginRedeemSound
<1>5. ASSUME NEW r \in Requests,
             VerifyOwnPassword(r) \/ CommitOwnChange(r) \/ CommitSetPassword(r)
                \/ CheckThrottle(r) \/ Redeem(r) \/ Abandon(r)
      PROVE  CredInv'
    BY <1>5, VerifyOwnPasswordSound, CommitOwnChangeSound, CommitSetPasswordSound,
        CheckThrottleSound, RedeemSound, AbandonSound
<1>6. ASSUME NEW s \in Sessions, EndSession(s) PROVE CredInv'
    BY <1>6, EndSessionSound
<1>7. ASSUME NEW u \in People, SwitchActive(u) \/ DeleteUser(u) PROVE CredInv'
    BY <1>7, SwitchActiveSound, DeleteUserSound
<1>8. CASE SwitchPasswordSignIn \/ Tick
    BY <1>8, SwitchAndTickSound
<1> QED
    BY <1>1, <1>2, <1>3, <1>4, <1>5, <1>6, <1>7, <1>8 DEF Next

THEOREM InvariantHolds == Spec => []CredInv
<1> QED
    BY InitSound, StepsSound, PTL DEF Spec

\* Sessions and links belong to accounts that exist, in every state (foreign
\* keys, the cascades of Delete), and every row has its type.
THEOREM CredentialsTyped == Spec => []CredentialsTypeOK
<1>1. CredInv => CredentialsTypeOK
    BY DEF CredInv
<1> QED
    BY <1>1, InvariantHolds, PTL

\* At most one link of an account can be used, and only against the password
\* it was mailed for, whatever requests were in flight (Issue, Redeem and the
\* two password writes of password_change_store.go and user_store.go).
THEOREM PendingLinksCurrent == Spec => []PendingLinkIsCurrent
<1>1. CredInv => PendingLinkIsCurrent
    BY DEF CredInv
<1> QED
    BY <1>1, InvariantHolds, PTL

\* Only a write of a password touches one, and it touches one account.
LEMMA WhoWrites ==
    ASSUME CredInv, Next, NEW u \in People, account'[u].password # account[u].password
    PROVE  \E r \in Requests : CommitOwnChange(r) \/ CommitSetPassword(r) \/ Redeem(r)
<1>1. ASSUME NEW v \in People, SwitchActive(v) \/ DeleteUser(v) PROVE FALSE
    BY <1>1 DEF SwitchActive, DeleteUser, CredInv, CredentialsTypeOK, AccountRow
<1>2. ASSUME UNCHANGED account PROVE FALSE
    BY <1>2
<1> QED
    BY <1>1, <1>2
    DEF Next, Login, BeginSetPassword, BeginReset, OpenSession, BeginOwnChange, Issue,
        BeginRedeem, VerifyOwnPassword, CheckThrottle, Abandon, EndSession,
        SwitchPasswordSignIn, Tick, RowsUnchanged

LEMMA ReplacedIsOwn ==
    ASSUME CredInv, NEW u \in People, NEW v \in People, account' = Replaced(v),
           account'[u].password # account[u].password
    PROVE  u = v
BY DEF Replaced, CredInv, CredentialsTypeOK

\* However requests interleave, a password is replaced by an administrator or
\* against a proof that holds at the write: the compare-and-set on the hash of
\* ChangePasswordAndSignOutOtherSessions, or the link that
\* RedeemPasswordResetToken spends.
THEOREM ChangesProven == Spec => PasswordChangesProven
<1> DEFINE Proven(u, r) ==
       \/ request[r].at = "set" /\ request[r].user = u
       \/ /\ request[r].at = "own" /\ request[r].user = u
          /\ request[r].verified = account[u].password
       \/ /\ request[r].at = "redeem"
          /\ link[request[r].link].user = u
          /\ UsableAt(request[r].link, now)
          /\ link'[request[r].link].state = "spent"
<1>1. ASSUME CredInv, Next, NEW u \in People, account'[u].password # account[u].password
      PROVE  \E r \in Requests : Proven(u, r)
    <2>1. PICK r \in Requests : CommitOwnChange(r) \/ CommitSetPassword(r) \/ Redeem(r)
        BY <1>1, WhoWrites
    <2>2. CASE CommitOwnChange(r)
        <3>1. request[r].user \in People
            BY <1>1, <2>2, Requested DEF CommitOwnChange
        <3>2. /\ account' = Replaced(request[r].user)
              /\ account[request[r].user].password = request[r].verified
            BY <1>1, <2>2 DEF CommitOwnChange
        <3> QED
            BY <1>1, <2>2, <3>1, <3>2, ReplacedIsOwn DEF CommitOwnChange
    <2>3. CASE CommitSetPassword(r)
        <3>1. request[r].user \in People
            BY <1>1, <2>3, Requested DEF CommitSetPassword
        <3>2. account' = Replaced(request[r].user)
            BY <1>1, <2>3 DEF CommitSetPassword
        <3> QED
            BY <1>1, <2>3, <3>1, <3>2, ReplacedIsOwn DEF CommitSetPassword
    <2>4. CASE Redeem(r)
        <3>1. PICK k \in Links : k = request[r].link
            BY <1>1, <2>4, Requested DEF Redeem
        <3>2. /\ UsableAt(k, now) /\ account' = Replaced(link[k].user)
              /\ link' = [VoidPending(link[k].user) EXCEPT ![k] = [link[k] EXCEPT !.state = "spent"]]
            BY <1>1, <2>4, <3>1 DEF Redeem
        <3>3. link[k].user \in People
            BY <1>1, <3>2 DEF CredInv, CredentialsTypeOK, UsableAt
        <3>4. link'[k].state = "spent"
            BY <1>1, <3>2 DEF CredInv, CredentialsTypeOK, LinkRow, VoidPending
        <3>5. link[k].user = u
            BY <1>1, <3>2, <3>3, ReplacedIsOwn
        <3> QED
            BY <2>4, <3>1, <3>2, <3>4, <3>5 DEF Redeem
    <2> QED
        BY <2>1, <2>2, <2>3, <2>4
<1>2. CredInv /\ [Next]_vars =>
          [\A u \in People : account'[u].password # account[u].password =>
              \E r \in Requests : Proven(u, r)]_vars
    BY <1>1
<1> QED
    BY <1>2, InvariantHolds, PTL DEF Spec, PasswordChangesProven

\* A change of one's own password leaves its session signed in: the session is
\* looked up in the transaction that signs the others out
\* (ChangePasswordAndSignOutOtherSessions).
THEOREM OwnChangeKeeps == Spec => OwnChangeKeepsItsSession
<1> DEFINE Changes(r) ==
       /\ request[r].at = "own" /\ request'[r] = Idle
       /\ account'[request[r].user].password # account[request[r].user].password
<1>1. ASSUME CredInv, Next, NEW r \in Requests, Changes(r)
      PROVE  session'[request[r].session] = request[r].user
    <2>1. request[r].user \in People /\ request[r].session \in Sessions
        BY <1>1, Requested
    <2>2. PICK q \in Requests : CommitOwnChange(q) \/ CommitSetPassword(q) \/ Redeem(q)
        BY <1>1, <2>1, WhoWrites
    <2>3. request' = [request EXCEPT ![q] = Idle]
        BY <2>2 DEF CommitOwnChange, CommitSetPassword, Redeem, Serve
    <2>4. q = r
        <3>1. request[r] # Idle
            BY <1>1 DEF Idle
        <3> QED
            BY <1>1, <2>3, <3>1 DEF CredInv, CredentialsTypeOK
    <2>5. CommitOwnChange(r)
        BY <1>1, <2>2, <2>4 DEF CommitSetPassword, Redeem
    <2>6. /\ session[request[r].session] = request[r].user
          /\ session' = SignOut(request[r].user, {request[r].session})
        BY <1>1, <2>5 DEF CommitOwnChange
    <2> QED
        BY <2>1, <2>6 DEF SignOut
<1>2. CredInv /\ [Next]_vars =>
          [\A r \in Requests : Changes(r) =>
              session'[request[r].session] = request[r].user]_vars
    BY <1>1
<1> QED
    BY <1>2, InvariantHolds, PTL DEF Spec, OwnChangeKeepsItsSession
=============================================================================
