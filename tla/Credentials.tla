---------------------------- MODULE Credentials ----------------------------
(***************************************************************************)
(* Passwords, reset links and the sessions a password opens                *)
(* (auth_service.go, password_change.go, password_reset.go and their       *)
(* stores).  A password is verified against a row read long before the     *)
(* write (hashing takes its time), so every request reads, and writes in a *)
(* transaction of its own.  Hashes are salted: every password an account   *)
(* is given is a new hash, named by its number.                            *)
(***************************************************************************)
EXTENDS Naturals

CONSTANTS
    People, Root,   \* accounts; the root account
    Links,          \* reset tokens, random and never issued twice
    Sessions,       \* session tokens, likewise
    Requests,
    None,
    Lifetime,       \* ticks a link works
    Throttle,       \* ticks between two links of one account
    MaxPassword,    \* bound on the passwords of one account
    MaxTime         \* bound on the clock

ASSUME CredentialsAssumption ==
    /\ Root \in People
    /\ None \notin People \cup Links \cup Sessions
    /\ "ended" \notin People
    /\ Lifetime \in Nat \ {0} /\ Throttle \in Nat
    /\ MaxPassword \in Nat \ {0} /\ MaxTime \in Nat

VARIABLES
    account,   \* per person: whether it signs in, and its password's number
    link,      \* password_reset_tokens
    session,   \* whose session a token is
    passwordSignIn,  \* whether accounts other than root sign in by password
    request,   \* per request: what it has read and is about to write
    now

vars == <<account, link, session, passwordSignIn, request, now>>

Passwords == 0..MaxPassword   \* 0: an account a company sign-in made
Instants == 0..MaxTime

AccountRow == [state : {"active", "inactive", "gone"}, password : Passwords]
\* A void row is deleted; a spent one stays.  "replaces" is the password the
\* account had when the link was mailed.
LinkRow == [state : {"none", "pending", "spent", "void"}, user : People \cup {None},
            issued : Instants, replaces : Passwords]
NoLink == [state |-> "none", user |-> None, issued |-> 0, replaces |-> 0]

Idle == [at |-> "idle"]
RequestStates ==
    {Idle}
    \cup [at : {"open", "ask", "set"}, user : People]
    \cup [at : {"issue"}, user : People, issued : Instants]
    \cup [at : {"verify"}, user : People, session : Sessions]
    \cup [at : {"own"}, user : People, session : Sessions, verified : Passwords]
    \cup [at : {"redeem"}, link : Links]

Exists(u) == account[u].state # "gone"
Active(u) == account[u].state = "active"
Allowed(u) == u = Root \/ passwordSignIn
UsableAt(k, t) == link[k].state = "pending" /\ t < link[k].issued + Lifetime
PendingOf(u) == {k \in Links : link[k].state = "pending" /\ link[k].user = u}
RowsOf(u) == {k \in Links : link[k].state \in {"pending", "spent"} /\ link[k].user = u}

Init ==
    /\ \E company \in SUBSET (People \ {Root}) :
          account = [u \in People |->
                        [state |-> "active", password |-> IF u \in company THEN 0 ELSE 1]]
    /\ link = [k \in Links |-> NoLink]
    /\ session = [s \in Sessions |-> None]
    /\ passwordSignIn = TRUE
    /\ request = [r \in Requests |-> Idle]
    /\ now = 0

Serve(r, state) == request' = [request EXCEPT ![r] = state]
RowsUnchanged == UNCHANGED <<account, link, session, passwordSignIn, now>>

Replaced(u) == [account EXCEPT ![u].password = @ + 1]
Room(u) == account[u].password < MaxPassword
Void(k) == [link[k] EXCEPT !.state = "void"]
VoidPending(u) == [k \in Links |-> IF k \in PendingOf(u) THEN Void(k) ELSE link[k]]
Ended == "ended"
SignOut(u, keep) ==
    [s \in Sessions |-> IF session[s] = u /\ s \notin keep THEN Ended ELSE session[s]]
-----------------------------------------------------------------------------
\* Login: the account is read and its password verified, then the switch.
\* Every refusal leaves things as they are.
Login(r, u) ==
    /\ request[r] = Idle
    /\ Active(u) /\ account[u].password > 0 /\ Allowed(u)
    /\ Serve(r, [at |-> "open", user |-> u])
    /\ RowsUnchanged

\* The session is an insert of its own; its foreign key needs the account.
OpenSession(r, s) ==
    /\ request[r].at = "open"
    /\ LET u == request[r].user IN
       IF Exists(u) THEN session[s] = None /\ session' = [session EXCEPT ![s] = u]
                    ELSE UNCHANGED session
    /\ Serve(r, Idle)
    /\ UNCHANGED <<account, link, passwordSignIn, now>>

\* Logout, the 24 hours of a session, or the middleware meeting an account
\* that is inactive.
EndSession(s) ==
    /\ session[s] \in People
    /\ session' = [session EXCEPT ![s] = Ended]
    /\ UNCHANGED <<account, link, passwordSignIn, request, now>>

\* The middleware: the session, then its account, which must be active.
BeginOwnChange(r, s) ==
    /\ request[r] = Idle
    /\ session[s] \in People /\ Active(session[s])
    /\ Serve(r, [at |-> "verify", user |-> session[s], session |-> s])
    /\ RowsUnchanged

\* ChangeOwnPassword up to its write: the account is read again and the
\* current password verified against the hash that was read.
VerifyOwnPassword(r) ==
    /\ request[r].at = "verify"
    /\ LET u == request[r].user IN
       Serve(r, IF Active(u) /\ account[u].password > 0 /\ Allowed(u)
                THEN [at |-> "own", user |-> u, session |-> request[r].session,
                      verified |-> account[u].password]
                ELSE Idle)
    /\ RowsUnchanged

\* Fault: the session in use is not looked up before the others go.
CommitOwnChangeAnySession(r) ==
    /\ request[r].at = "own"
    /\ LET u == request[r].user IN
       IF Exists(u) /\ account[u].password = request[r].verified
         THEN /\ Room(u)
              /\ account' = Replaced(u)
              /\ link' = VoidPending(u)
              /\ session' = SignOut(u, {request[r].session})
         ELSE UNCHANGED <<account, link, session>>
    /\ Serve(r, Idle) /\ UNCHANGED <<passwordSignIn, now>>

\* ChangePasswordAndSignOutOtherSessions: a compare-and-set on the hash, and
\* the session in use must still be there; the pending links and every other
\* session of the account go in the same transaction.
CommitOwnChange(r) ==
    /\ request[r].at = "own"
    /\ LET u == request[r].user IN
       IF /\ Exists(u) /\ account[u].password = request[r].verified
          /\ session[request[r].session] = u
         THEN /\ Room(u)
              /\ account' = Replaced(u)
              /\ link' = VoidPending(u)
              /\ session' = SignOut(u, {request[r].session})
         ELSE UNCHANGED <<account, link, session>>
    /\ Serve(r, Idle) /\ UNCHANGED <<passwordSignIn, now>>

\* ChangePassword by an administrator: the target is read and is not root.
BeginSetPassword(r, u) ==
    /\ request[r] = Idle
    /\ Exists(u) /\ u # Root
    /\ Serve(r, [at |-> "set", user |-> u])
    /\ RowsUnchanged

\* Fault: the links of the account are forgotten.
CommitSetPasswordKeepingLinks(r) ==
    /\ request[r].at = "set"
    /\ LET u == request[r].user IN
       IF Exists(u) THEN Room(u) /\ account' = Replaced(u) ELSE UNCHANGED account
    /\ Serve(r, Idle) /\ UNCHANGED <<link, session, passwordSignIn, now>>

\* UpdatePasswordHash: no comparison, and nobody is signed out; the pending
\* links go.
CommitSetPassword(r) ==
    /\ request[r].at = "set"
    /\ LET u == request[r].user IN
       IF Exists(u)
         THEN /\ Room(u)
              /\ account' = Replaced(u)
              /\ link' = VoidPending(u)
         ELSE UNCHANGED <<account, link>>
    /\ Serve(r, Idle) /\ UNCHANGED <<session, passwordSignIn, now>>
-----------------------------------------------------------------------------
\* RequestPasswordReset: the account and the switch.
BeginReset(r, u) ==
    /\ request[r] = Idle
    /\ Active(u) /\ Allowed(u)
    /\ Serve(r, [at |-> "ask", user |-> u])
    /\ RowsUnchanged

\* The clock, and the newest row of the account, are read outside the
\* transaction that issues.
CheckThrottle(r) ==
    /\ request[r].at = "ask"
    /\ LET u == request[r].user IN
       Serve(r, IF \E k \in RowsOf(u) : now < link[k].issued + Throttle THEN Idle
                ELSE [at |-> "issue", user |-> u, issued |-> now])
    /\ RowsUnchanged

\* IssuePasswordResetToken: the pending links go, the new one is stored.
Issue(r, k) ==
    /\ request[r].at = "issue" /\ link[k].state = "none"
    /\ LET u == request[r].user IN
       link' = IF ~Exists(u) THEN link
               ELSE [VoidPending(u) EXCEPT
                       ![k] = [state |-> "pending", user |-> u, issued |-> request[r].issued,
                               replaces |-> account[u].password]]
    /\ Serve(r, Idle)
    /\ UNCHANGED <<account, session, passwordSignIn, now>>

\* ResetPassword up to its write: the owner of a link
\* that still works while only root signs in with a password.
BeginRedeem(r, k) ==
    /\ request[r] = Idle
    /\ link[k].state # "none"
    /\ UsableAt(k, now) => Allowed(link[k].user)
    /\ Serve(r, [at |-> "redeem", link |-> k])
    /\ RowsUnchanged

\* Fault: only a deleted link is refused.
RedeemAnyRow(r) ==
    /\ request[r].at = "redeem"
    /\ LET k == request[r].link
           u == link[k].user IN
       IF link[k].state \in {"pending", "spent"}
         THEN /\ Room(u)
              /\ account' = Replaced(u)
              /\ link' = [VoidPending(u) EXCEPT ![k] = [link[k] EXCEPT !.state = "spent"]]
              /\ session' = SignOut(u, {})
         ELSE UNCHANGED <<account, link, session>>
    /\ Serve(r, Idle) /\ UNCHANGED <<passwordSignIn, now>>

\* RedeemPasswordResetToken, the clock read as it begins: the link is read
\* again in the transaction that spends it, replaces the password, voids the
\* other links and ends every session of the account.
Redeem(r) ==
    /\ request[r].at = "redeem"
    /\ LET k == request[r].link
           u == link[k].user IN
       IF UsableAt(k, now)
         THEN /\ Room(u)
              /\ account' = Replaced(u)
              /\ link' = [VoidPending(u) EXCEPT ![k] = [link[k] EXCEPT !.state = "spent"]]
              /\ session' = SignOut(u, {})
         ELSE UNCHANGED <<account, link, session>>
    /\ Serve(r, Idle) /\ UNCHANGED <<passwordSignIn, now>>
-----------------------------------------------------------------------------
\* UpdateManagedUser: no session and no link is touched.
SwitchActive(u) ==
    /\ Exists(u) /\ u # Root
    /\ account' = [account EXCEPT ![u].state = IF @ = "active" THEN "inactive" ELSE "active"]
    /\ UNCHANGED <<link, session, passwordSignIn, request, now>>

\* Fault: the links of a deleted account stay.
DeleteUserKeepingLinks(u) ==
    /\ Exists(u) /\ u # Root
    /\ account' = [account EXCEPT ![u].state = "gone"]
    /\ session' = SignOut(u, {})
    /\ UNCHANGED <<link, passwordSignIn, request, now>>

\* Delete: the sessions go with the account, and the links by their cascade.
DeleteUser(u) ==
    /\ Exists(u) /\ u # Root
    /\ account' = [account EXCEPT ![u].state = "gone"]
    /\ session' = SignOut(u, {})
    /\ link' = [k \in Links |-> IF k \in RowsOf(u) THEN Void(k) ELSE link[k]]
    /\ UNCHANGED <<passwordSignIn, request, now>>

\* SaveCompanySignIn: password sign-in is turned on or off.
SwitchPasswordSignIn ==
    /\ passwordSignIn' = ~passwordSignIn
    /\ UNCHANGED <<account, link, session, request, now>>

Tick ==
    /\ now < MaxTime
    /\ now' = now + 1
    /\ UNCHANGED <<account, link, session, passwordSignIn, request>>

\* A request that fails, or is refused for a reason not modelled, ends.
Abandon(r) ==
    /\ request[r] # Idle
    /\ Serve(r, Idle)
    /\ RowsUnchanged

Next ==
    \/ \E r \in Requests, u \in People : Login(r, u) \/ BeginSetPassword(r, u) \/ BeginReset(r, u)
    \/ \E r \in Requests, s \in Sessions : OpenSession(r, s) \/ BeginOwnChange(r, s)
    \/ \E r \in Requests, k \in Links : Issue(r, k) \/ BeginRedeem(r, k)
    \/ \E r \in Requests :
          VerifyOwnPassword(r) \/ CommitOwnChange(r) \/ CommitSetPassword(r)
             \/ CheckThrottle(r) \/ Redeem(r) \/ Abandon(r)
    \/ \E s \in Sessions : EndSession(s)
    \/ \E u \in People : SwitchActive(u) \/ DeleteUser(u)
    \/ SwitchPasswordSignIn \/ Tick

Spec == Init /\ [][Next]_vars
-----------------------------------------------------------------------------
\* Every row keeps its type, and what is left of a session or a link belongs to
\* an account that exists (foreign keys, the cascade of 0029).
CredentialsTypeOK ==
    /\ account \in [People -> AccountRow]
    /\ link \in [Links -> LinkRow]
    /\ session \in [Sessions -> People \cup {None, Ended}]
    /\ passwordSignIn \in BOOLEAN
    /\ request \in [Requests -> RequestStates]
    /\ now \in Instants
    /\ \A k \in Links : link[k].state \in {"pending", "spent"} =>
          link[k].user \in People /\ Exists(link[k].user)
    /\ \A s \in Sessions : session[s] \in People => Exists(session[s])

\* "A link mailed before a password change must never set a password after
\* it, whichever path changed it": a pending link replaces the password the
\* account still has.
LinksFollowPassword ==
    \A k \in Links : link[k].state = "pending" =>
        link[k].replaces = account[link[k].user].password

\* A new request voids the older link, also when two requests for one account
\* passed the throttle together.
OnePendingLink ==
    \A u \in People : \A k, l \in PendingOf(u) : k = l

\* An account has at most one link that can be used, and only against the
\* password it was mailed for (Issue, voidResetLinksTx).
PendingLinkIsCurrent == LinksFollowPassword /\ OnePendingLink

\* A password is replaced only by an administrator, or against a proof that
\* holds at that instant: the current password as it is stored then, or a link
\* that works then and never again.
PasswordChangesProven ==
    [][\A u \in People : account'[u].password # account[u].password =>
          \E r \in Requests :
             \/ request[r].at = "set" /\ request[r].user = u
             \/ /\ request[r].at = "own" /\ request[r].user = u
                /\ request[r].verified = account[u].password
             \/ /\ request[r].at = "redeem"
                /\ link[request[r].link].user = u
                /\ UsableAt(request[r].link, now)
                /\ link'[request[r].link].state = "spent"]_vars

\* The session that changes its own password stays signed in, or nothing
\* changes: it may have been ended while the password was being hashed.
OwnChangeKeepsItsSession ==
    [][\A r \in Requests :
          /\ request[r].at = "own" /\ request'[r] = Idle
          /\ account'[request[r].user].password # account[request[r].user].password
          => session'[request[r].session] = request[r].user]_vars
=============================================================================
