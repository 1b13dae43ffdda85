---------------------------- MODULE UserAccounts ----------------------------
(***************************************************************************)
(* The accounts of people: who may change whose role and state, the trail  *)
(* of role changes, and the accounts and sessions a company sign-in makes  *)
(* (user_service.go, user_store.go, pending_users.go, company_signin.go,   *)
(* company_identity_store.go, recover_root.go).  A request reads the       *)
(* actor, then the target, and writes in a transaction of its own.         *)
(***************************************************************************)
EXTENDS Naturals, Sequences, FiniteSets

CONSTANTS
    People,      \* account ids, never reused (AUTOINCREMENT)
    Emails,      \* normalized addresses
    Subjects,    \* the people a provider knows (issuer and subject)
    Requests,
    None,
    MaxChanges   \* bound on the role changes of one account

ASSUME AccountsAssumption ==
    /\ MaxChanges \in Nat
    /\ None \notin People \cup Emails \cup Subjects

Roles == {"user", "agent", "admin", "root"}

\* The role column of an id no row has yet, or has any more.
NoRow == {"none", "deleted"}

VARIABLES
    user,      \* the users table
    trail,     \* per account: its role_changes rows, oldest first
    identity,  \* user_identities: the account of a subject
    sessions,  \* sessions opened by a company sign-in
    request    \* per request: what it has read and is about to do

vars == <<user, trail, identity, sessions, request>>

UserRow == [role : Roles \cup NoRow, email : Emails \cup {None},
            active : BOOLEAN, pending : BOOLEAN]

RoleChange == [from : Roles, to : Roles]

Absent == [role |-> "none", email |-> None, active |-> FALSE, pending |-> FALSE]
Deleted == [Absent EXCEPT !.role = "deleted"]

Idle == [at |-> "idle"]

RequestStates ==
    {Idle}
    \cup [at : {"actor"}, as : Roles]
    \cup [at : {"update", "delete"}, as : Roles,
          target : People, expected : Roles]
    \cup [at : {"callback", "unknown", "create"}, subject : Subjects,
          email : Emails, lostRace : BOOLEAN]
    \cup [at : {"link"}, subject : Subjects, email : Emails, lostRace : BOOLEAN,
          account : People]
    \cup [at : {"open"}, subject : Subjects, account : People]

Exists(u) == user[u].role \in Roles
HasRoot == \E u \in People : user[u].role = "root"
EmailFree(e) == \A u \in People : Exists(u) => user[u].email # e
EmailFreeFor(u, e) == \A v \in People \ {u} : Exists(v) => user[v].email # e
Linked(u) == \E s \in Subjects : identity[s] = u

\* A fresh database, or one upgraded from before roles: 0003 made everybody
\* an agent, and nobody is root yet.
Init ==
    /\ \/ user = [u \in People |-> Absent]
       \/ \E u \in People, e \in Emails :
             user = [v \in People |-> IF v = u
                        THEN [Absent EXCEPT !.role = "agent", !.email = e, !.active = TRUE]
                        ELSE Absent]
    /\ trail = [u \in People |-> <<>>]
    /\ identity = [s \in Subjects |-> None]
    /\ sessions = {}
    /\ request = [r \in Requests |-> Idle]

Serve(r, state) == request' = [request EXCEPT ![r] = state]
RowsUnchanged == UNCHANGED <<user, trail, identity, sessions>>
SignInUnchanged == UNCHANGED <<identity, sessions>>

\* The row a role change appends, unless the role stays.
Recorded(u, from, to) ==
    IF from = to THEN trail ELSE [trail EXCEPT ![u] = Append(@, [from |-> from, to |-> to])]
Room(u) == Len(trail[u]) < MaxChanges
-----------------------------------------------------------------------------
\* policy.go: who may change whom, and which role they may give.
CanManage(as, target) == as \in {"admin", "root"} /\ target # "root" /\ ~(as = "admin" /\ target = "admin")
CanGrant(as, role) == as \in {"admin", "root"} /\ (role \in {"user", "agent"} \/ (role = "admin" /\ as = "root"))

\* First-user setup: the count and the insert share one transaction.
BootstrapRoot(u, e) ==
    /\ \A v \in People : ~Exists(v)
    /\ user[u].role = "none"
    /\ user' = [user EXCEPT ![u] = [role |-> "root", email |-> e, active |-> TRUE, pending |-> FALSE]]
    /\ UNCHANGED <<trail, request>> /\ SignInUnchanged

\* -recover-root, and the backfill of the first account: the operator's
\* choice.  A pending account fails the CHECK of the pending column.
RecoverRoot(u) ==
    /\ ~HasRoot /\ Exists(u) /\ Room(u) /\ ~user[u].pending
    /\ user' = [user EXCEPT ![u].role = "root", ![u].active = TRUE]
    /\ trail' = Recorded(u, user[u].role, "root")
    /\ UNCHANGED request /\ SignInUnchanged

\* The session middleware reads the actor, and requireCapability checks the
\* role that was read.
ReadActor(r, a) ==
    /\ request[r] = Idle
    /\ user[a].active /\ user[a].role \in {"admin", "root"}
    /\ Serve(r, [at |-> "actor", as |-> user[a].role])
    /\ RowsUnchanged

\* managedUserTarget and the guards on its role.  Every refusal ends the
\* request.
ReadTarget(r, op, u) ==
    /\ request[r].at = "actor"
    /\ Serve(r, IF Exists(u) /\ ~user[u].pending /\ CanManage(request[r].as, user[u].role)
                THEN [at |-> op, as |-> request[r].as,
                      target |-> u, expected |-> user[u].role]
                ELSE Idle)
    /\ RowsUnchanged

\* Create: an active account with the user role; a taken address is refused.
CreateUser(r, u, e) ==
    /\ request[r].at = "actor"
    /\ user[u].role = "none" /\ EmailFree(e)
    /\ user' = [user EXCEPT ![u] = [role |-> "user", email |-> e, active |-> TRUE, pending |-> FALSE]]
    /\ Serve(r, Idle)
    /\ UNCHANGED trail /\ SignInUnchanged

\* Fault: the guarded WHERE does not compare the role.
CommitUpdateAnyRole(r, role, active, e) ==
    /\ request[r].at = "update" /\ CanGrant(request[r].as, role)
    /\ LET u == request[r].target
           expected == request[r].expected IN
       /\ Exists(u) /\ user[u].role # "root" /\ ~user[u].pending /\ Room(u) /\ EmailFreeFor(u, e)
       /\ user' = [user EXCEPT ![u].role = role, ![u].active = active, ![u].email = e]
       /\ trail' = Recorded(u, expected, role)
    /\ Serve(r, Idle) /\ SignInUnchanged

\* UpdateManagedUser and DowngradeToUser: the write holds only while the row
\* has the role that was read, and the address is nobody else's.
CommitUpdate(r, role, active, e) ==
    /\ request[r].at = "update" /\ CanGrant(request[r].as, role)
    /\ LET u == request[r].target
           expected == request[r].expected IN
       IF user[u].role = expected /\ ~user[u].pending /\ EmailFreeFor(u, e)
         THEN /\ role = expected \/ Room(u)
              /\ user' = [user EXCEPT ![u].role = role, ![u].active = active, ![u].email = e]
              /\ trail' = Recorded(u, expected, role)
         ELSE UNCHANGED <<user, trail>>
    /\ Serve(r, Idle) /\ SignInUnchanged

\* Faults: the role changes of an account do not keep it, and its identities
\* do not go with it.
CommitDeleteAudited(r) ==
    /\ request[r].at = "delete"
    /\ LET u == request[r].target IN
       /\ Exists(u) /\ user[u].role # "root"
       /\ user' = [user EXCEPT ![u] = Deleted]
       /\ trail' = [trail EXCEPT ![u] = <<>>]
       /\ identity' = [s \in Subjects |-> IF identity[s] = u THEN None ELSE identity[s]]
       /\ sessions' = {x \in sessions : x.account # u}
    /\ Serve(r, Idle)

CommitDeleteKeepingLink(r) ==
    /\ request[r].at = "delete"
    /\ LET u == request[r].target IN
       /\ Exists(u) /\ user[u].role # "root" /\ trail[u] = <<>>
       /\ user' = [user EXCEPT ![u] = Deleted]
       /\ sessions' = {x \in sessions : x.account # u}
    /\ Serve(r, Idle) /\ UNCHANGED <<trail, identity>>

\* Delete does not compare the role again.  The trigger refuses root, and the
\* foreign keys an account that has role changes (whoever made one has some, or
\* is root).  A ticket or comment that refuses the delete too is Abandon.  The
\* sessions and identities of the account go with it.
CommitDelete(r) ==
    /\ request[r].at = "delete"
    /\ LET u == request[r].target IN
       IF Exists(u) /\ user[u].role # "root" /\ trail[u] = <<>>
         THEN /\ user' = [user EXCEPT ![u] = Deleted]
              /\ identity' = [s \in Subjects |-> IF identity[s] = u THEN None ELSE identity[s]]
              /\ sessions' = {x \in sessions : x.account # u}
              /\ UNCHANGED trail
         ELSE UNCHANGED <<user, trail, identity, sessions>>
    /\ Serve(r, Idle)

\* ApprovePending: every entry still waits, or nothing is written.
ApprovePending(r, batch, role) ==
    /\ request[r].at = "actor" /\ CanGrant(request[r].as, role)
    /\ batch # {}
    /\ IF \A u \in batch : user[u].pending
         THEN /\ role # "user" => \A u \in batch : Room(u)
              /\ user' = [u \in People |-> IF u \in batch
                             THEN [user[u] EXCEPT !.pending = FALSE, !.active = TRUE, !.role = role]
                             ELSE user[u]]
              /\ trail' = [u \in People |-> IF u \in batch /\ user[u].role # role
                              THEN Append(trail[u], [from |-> user[u].role, to |-> role])
                              ELSE trail[u]]
         ELSE UNCHANGED <<user, trail>>
    /\ Serve(r, Idle) /\ SignInUnchanged

\* RejectPending: the same batch rule; the account stays, inactive.
RejectPending(r, batch) ==
    /\ request[r].at = "actor"
    /\ batch # {}
    /\ IF \A u \in batch : user[u].pending /\ CanManage(request[r].as, user[u].role)
         THEN user' = [u \in People |-> IF u \in batch
                          THEN [user[u] EXCEPT !.pending = FALSE, !.active = FALSE]
                          ELSE user[u]]
         ELSE UNCHANGED user
    /\ Serve(r, Idle) /\ UNCHANGED trail /\ SignInUnchanged
-----------------------------------------------------------------------------
\* Complete: the callback consumed its attempt and the provider answered the
\* subject and the address it knows the person by now.
Callback(r, s, e) ==
    /\ request[r] = Idle
    /\ Serve(r, [at |-> "callback", subject |-> s, email |-> e, lostRace |-> FALSE])
    /\ RowsUnchanged

\* Fault: a waiting account is not told from a managed one.
ResolveIdentityAnyState(r) ==
    /\ request[r].at = "callback"
    /\ LET s == request[r].subject IN
       Serve(r, IF identity[s] = None THEN [request[r] EXCEPT !.at = "unknown"]
                ELSE [at |-> "open", subject |-> s, account |-> identity[s]])
    /\ RowsUnchanged

\* resolveAccountOnce, the identity first: a waiting account is answered as
\* pending, an inactive one is refused, and an active one signs in.
ResolveIdentity(r) ==
    /\ request[r].at = "callback"
    /\ LET s == request[r].subject
           u == identity[s] IN
       Serve(r, IF u = None THEN [request[r] EXCEPT !.at = "unknown"]
                ELSE IF user[u].active THEN [at |-> "open", subject |-> s, account |-> u]
                ELSE Idle)
    /\ RowsUnchanged

\* Then the address: nobody has it, or the account that has it is linked.  A
\* waiting or inactive account ends the sign-in.
ResolveEmail(r) ==
    /\ request[r].at = "unknown"
    /\ IF EmailFree(request[r].email)
         THEN Serve(r, [request[r] EXCEPT !.at = "create"])
         ELSE \E u \in People :
                /\ Exists(u) /\ user[u].email = request[r].email
                /\ Serve(r, IF user[u].active
                            THEN [at |-> "link", subject |-> request[r].subject,
                                  email |-> request[r].email,
                                  lostRace |-> request[r].lostRace, account |-> u]
                            ELSE Idle)
    /\ RowsUnchanged

\* ErrCompanyIdentityTaken: resolveAccount starts over once, then refuses.
Retry(r) ==
    IF request[r].lostRace THEN Idle
    ELSE [at |-> "callback", subject |-> request[r].subject,
          email |-> request[r].email, lostRace |-> TRUE]

\* CreateUserWithIdentity: the account and its link in one transaction, under
\* the uniques of the address and of the subject.  The policy for new
\* accounts decides whether it waits for approval.
CreateAccount(r, u, pending) ==
    /\ request[r].at = "create"
    /\ LET s == request[r].subject
           e == request[r].email IN
       IF EmailFree(e) /\ identity[s] = None
         THEN /\ user[u].role = "none"
              /\ user' = [user EXCEPT ![u] = [role |-> "user", email |-> e,
                                              active |-> ~pending, pending |-> pending]]
              /\ identity' = [identity EXCEPT ![s] = u]
              /\ Serve(r, IF pending THEN Idle ELSE [at |-> "open", subject |-> s, account |-> u])
         ELSE /\ Serve(r, Retry(r))
              /\ UNCHANGED <<user, identity>>
    /\ UNCHANGED <<trail, sessions>>

\* LinkIdentity, under the uniques of the subject and of the account and
\* provider.  The foreign key fails the request if the account is gone.
LinkIdentity(r) ==
    /\ request[r].at = "link"
    /\ LET s == request[r].subject
           u == request[r].account IN
       IF ~Exists(u) THEN Serve(r, Idle) /\ UNCHANGED identity
       ELSE IF identity[s] = None /\ ~Linked(u)
         THEN /\ identity' = [identity EXCEPT ![s] = u]
              /\ Serve(r, [at |-> "open", subject |-> s, account |-> u])
         ELSE Serve(r, Retry(r)) /\ UNCHANGED identity
    /\ UNCHANGED <<user, trail, sessions>>

\* newSession: an insert of its own; the foreign key needs the account.
OpenSession(r) ==
    /\ request[r].at = "open"
    /\ LET u == request[r].account IN
       sessions' = IF Exists(u) THEN sessions \cup {[account |-> u, subject |-> request[r].subject]}
                   ELSE sessions
    /\ Serve(r, Idle)
    /\ UNCHANGED <<user, trail, identity>>

\* Logout, the end of its 24 hours, or the middleware meeting an inactive
\* account.
EndSession(x) ==
    /\ x \in sessions
    /\ sessions' = sessions \ {x}
    /\ UNCHANGED <<user, trail, identity, request>>

Abandon(r) ==
    /\ request[r] # Idle
    /\ Serve(r, Idle)
    /\ RowsUnchanged

Manage(r) ==
    \/ \E a \in People : ReadActor(r, a)
    \/ \E op \in {"update", "delete"}, u \in People : ReadTarget(r, op, u)
    \/ \E u \in People, e \in Emails : CreateUser(r, u, e)
    \/ \E role \in Roles, active \in BOOLEAN, e \in Emails : CommitUpdate(r, role, active, e)
    \/ CommitDelete(r)
    \/ \E batch \in SUBSET People :
          RejectPending(r, batch) \/ \E role \in Roles : ApprovePending(r, batch, role)

SignIn(r) ==
    \/ \E s \in Subjects, e \in Emails : Callback(r, s, e)
    \/ ResolveIdentity(r) \/ ResolveEmail(r)
    \/ \E u \in People, pending \in BOOLEAN : CreateAccount(r, u, pending)
    \/ LinkIdentity(r) \/ OpenSession(r)

Next ==
    \/ \E u \in People, e \in Emails : BootstrapRoot(u, e)
    \/ \E u \in People : RecoverRoot(u)
    \/ \E r \in Requests : Manage(r) \/ SignIn(r) \/ Abandon(r)
    \/ \E x \in sessions : EndSession(x)

Spec == Init /\ [][Next]_vars
-----------------------------------------------------------------------------
\* Every row keeps its type, a pending account is an inactive requester (the
\* CHECK of 0034), and an identity names an account that exists.
AccountsTypeOK ==
    /\ user \in [People -> UserRow]
    /\ trail \in [People -> Seq(RoleChange)]
    /\ identity \in [Subjects -> People \cup {None}]
    /\ sessions \subseteq [account : People, subject : Subjects]
    /\ request \in [Requests -> RequestStates]
    /\ \A u \in People : user[u].pending => ~user[u].active /\ user[u].role = "user"
    /\ \A s \in Subjects : identity[s] # None => Exists(identity[s])

\* The role_changes rows of an account chain up to its role, although requests
\* that read different roles overlap (the compare-and-set of user_store.go).
RoleTrailFaithful ==
    \A u \in People :
        /\ \A i \in 1..Len(trail[u]) :
              /\ trail[u][i].from # trail[u][i].to
              /\ i > 1 => trail[u][i].from = trail[u][i - 1].to
        /\ IF trail[u] # <<>> THEN trail[u][Len(trail[u])].to = user[u].role
                              ELSE user[u].role # "admin"

\* An account that is an admin now is changed or deleted only by a request of
\* root, whatever its role was when an admin's request read it: the role
\* compare-and-set of an update, and for a delete, which has none, the role
\* change that made the account an admin.
AdminsChangedByRootOnly ==
    [][\A u \in People :
          user[u].role = "admin" /\ user'[u] # user[u] /\ HasRoot =>
              \E r \in Requests :
                  request[r].at \in {"update", "delete"} /\ request[r].as = "root"
                      /\ request[r].target = u /\ request'[r] = Idle]_vars

\* The session of a company sign-in belongs to the account its provider
\* identity is linked to, whatever other sign-ins, creations and deletions ran
\* between the steps of Complete.
SignedInAsLinked ==
    \A x \in sessions : identity[x.subject] = x.account

\* Nobody has a session who waits for approval, or a request about to open one.
WaitingHaveNoSession ==
    /\ \A x \in sessions : ~user[x.account].pending
    /\ \A r \in Requests : request[r].at = "open" => ~user[request[r].account].pending

\* A company sign-in opens the session of the linked account, and of nobody
\* who waits for approval (CompanySignInService.Complete).
CompanySessionsRight == SignedInAsLinked /\ WaitingHaveNoSession
=============================================================================
