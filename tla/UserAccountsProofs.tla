------------------------- MODULE UserAccountsProofs -------------------------
(***************************************************************************)
(* The safety of accounts for every number of people, addresses, provider  *)
(* subjects and requests.  What a request in flight carries may be stale;  *)
(* the invariant says how stale: its actor was allowed to manage the role  *)
(* it read, and the account a sign-in is about to link or open exists or   *)
(* existed, and never waits for approval.                                  *)
(***************************************************************************)
EXTENDS UserAccounts, SequenceTheorems, TLAPS

\* One account's trail chains, and ends at its role.
TrailEndsAt(t, role) ==
    /\ \A i \in 1..Len(t) :
          /\ t[i].from # t[i].to
          /\ i > 1 => t[i].from = t[i - 1].to
    /\ IF t # <<>> THEN t[Len(t)].to = role ELSE role # "admin"

\* What the provers need of a request's state, by its kind.
RequestSound(r) ==
    /\ request[r].at \in {"actor", "update", "delete"} => request[r].as \in {"admin", "root"}
    /\ request[r].at \in {"update", "delete"} =>
          /\ request[r].target \in People /\ request[r].expected \in Roles
          /\ CanManage(request[r].as, request[r].expected)
    /\ request[r].at \in {"callback", "unknown", "create", "link"} =>
          request[r].subject \in Subjects /\ request[r].email \in Emails
    /\ request[r].at \in {"link", "open"} =>
          /\ request[r].account \in People
          /\ user[request[r].account].role # "none" /\ ~user[request[r].account].pending
    /\ request[r].at = "open" =>
          /\ request[r].subject \in Subjects
          /\ \/ identity[request[r].subject] = request[r].account
             \/ user[request[r].account].role = "deleted"

AccountsInv ==
    /\ AccountsTypeOK
    /\ RoleTrailFaithful
    /\ SignedInAsLinked
    /\ \A x \in sessions : ~user[x.account].pending
    /\ \A r \in Requests : RequestSound(r)

UserSound(u) ==
    /\ user[u] \in UserRow
    /\ user[u].pending => ~user[u].active /\ user[u].role = "user"
    /\ trail[u] \in Seq(RoleChange) /\ TrailEndsAt(trail[u], user[u].role)

(***************************************************************************)
(* The pieces.                                                             *)
(***************************************************************************)

LEMMA TrailsByAccount ==
    RoleTrailFaithful <=> \A u \in People : TrailEndsAt(trail[u], user[u].role)
BY DEF RoleTrailFaithful, TrailEndsAt

LEMMA Users ==
    ASSUME AccountsInv
    PROVE  \A u \in People : UserSound(u)
BY TrailsByAccount DEF AccountsInv, AccountsTypeOK, UserSound

\* A recorded change of a role extends a trail that ended at it.
LEMMA Extended ==
    ASSUME NEW t \in Seq(RoleChange), NEW old \in Roles, NEW new \in Roles,
           TrailEndsAt(t, old), old # new
    PROVE  LET c == [from |-> old, to |-> new] IN
           Append(t, c) \in Seq(RoleChange) /\ TrailEndsAt(Append(t, c), new)
<1>0. [from |-> old, to |-> new] \in RoleChange
    BY DEF RoleChange
<1>1. PICK c \in RoleChange : c = [from |-> old, to |-> new]
    BY <1>0
<1>2. PICK s \in Seq(RoleChange) : s = Append(t, c)
    BY AppendProperties
<1>3. /\ Len(t) \in Nat /\ Len(s) = Len(t) + 1 /\ s[Len(t) + 1] = c
      /\ \A i \in 1..Len(t) : s[i] = t[i]
    BY <1>2, AppendProperties
<1>4. ASSUME NEW i \in 1..Len(s) PROVE s[i].from # s[i].to /\ (i > 1 => s[i].from = s[i - 1].to)
    <2>1. CASE i \in 1..Len(t)
        <3>1. i > 1 => i - 1 \in 1..Len(t)
            BY <1>3, <2>1
        <3> QED
            BY <1>3, <2>1, <3>1 DEF TrailEndsAt
    <2>2. CASE i = Len(t) + 1
        <3>1. CASE Len(t) = 0
            BY <1>1, <1>3, <2>2, <3>1
        <3>2. CASE Len(t) # 0
            <4>1. t # <<>> /\ i - 1 = Len(t) /\ Len(t) \in 1..Len(t)
                BY <1>3, <2>2, <3>2
            <4> QED
                BY <1>1, <1>3, <2>2, <4>1 DEF TrailEndsAt
        <3> QED
            BY <3>1, <3>2
    <2> QED
        BY <1>3, <2>1, <2>2
<1>5. s # <<>> /\ s[Len(s)].to = new
    BY <1>1, <1>3
<1> QED
    BY <1>1, <1>2, <1>4, <1>5 DEF TrailEndsAt

\* An account that never was, or is no more, has no role changes if it is to
\* be created.
LEMMA NoTrailYet ==
    ASSUME AccountsInv, NEW u \in People, user[u].role = "none"
    PROVE  trail[u] = <<>>
<1>1. trail[u] \in Seq(RoleChange) /\ TrailEndsAt(trail[u], "none")
    BY Users DEF UserSound
<1>2. CASE trail[u] # <<>>
    <2>1. Len(trail[u]) \in 1..Len(trail[u])
        BY <1>1, <1>2
    <2>2. trail[u][Len(trail[u])] \in RoleChange
        BY <1>1, <2>1
    <2> QED
        BY <1>1, <1>2, <2>2 DEF TrailEndsAt, RoleChange, Roles
<1> QED
    BY <1>2

LEMMA FreshTrail ==
    ASSUME NEW role, role # "admin"
    PROVE  <<>> \in Seq(RoleChange) /\ TrailEndsAt(<<>>, role)
BY DEF TrailEndsAt

(***************************************************************************)
(* What the rows of accounts owe to each other and to the requests.        *)
(***************************************************************************)

\* A change of accounts and trails, request by request unchanged or served:
\* enough that every account stays sound, nobody existing vanishes and nobody
\* comes to wait who was there before.
LEMMA AccountsChange ==
    ASSUME AccountsInv, (\E r \in Requests : Serve(r, Idle)) \/ UNCHANGED request,
           user' \in [People -> UserRow], trail' \in [People -> Seq(RoleChange)],
           \A u \in People : UserSound(u)',
           \A u \in People : Exists(u) => Exists(u)',
           \A u \in People : user[u].role # "none" =>
               /\ user'[u].pending => user[u].pending
               /\ user[u].role = "deleted" => user'[u].role = "deleted",
           UNCHANGED <<identity, sessions>>
    PROVE  AccountsInv'
<1>1. request' \in [Requests -> RequestStates]
    BY DEF AccountsInv, AccountsTypeOK, Serve, RequestStates
<1>2. AccountsTypeOK'
    BY <1>1 DEF AccountsInv, AccountsTypeOK, UserSound
<1>3. RoleTrailFaithful'
    BY DEF UserSound, RoleTrailFaithful, TrailEndsAt
<1>4. SignedInAsLinked'
    BY DEF AccountsInv, SignedInAsLinked
<1>5. ASSUME NEW x \in sessions PROVE ~user'[x.account].pending
    <2>1. x.account \in People /\ identity[x.subject] = x.account /\ x.subject \in Subjects
        BY DEF AccountsInv, AccountsTypeOK, SignedInAsLinked
    <2>2. user[x.account].role \in Roles
        BY <2>1, AccountsAssumption DEF AccountsInv, AccountsTypeOK, Exists
    <2> QED
        BY <2>1, <2>2 DEF AccountsInv, Roles
<1>6. ASSUME NEW q \in Requests PROVE RequestSound(q)'
    <2>1. request'[q] = request[q] \/ request'[q] = Idle
        BY DEF Serve, AccountsInv, AccountsTypeOK
    <2>2. CASE request'[q] = Idle
        BY <2>2 DEF RequestSound, Idle
    <2>3. CASE request'[q] = request[q]
        <3>1. RequestSound(q)
            BY DEF AccountsInv
        <3>2. \A u \in People : user[u].role # "none" => user'[u].role # "none"
            BY DEF AccountsInv, AccountsTypeOK, UserRow, NoRow, Exists, Roles
        <3> QED
            BY <2>3, <3>1, <3>2 DEF RequestSound
    <2> QED
        BY <2>1, <2>2, <2>3
<1> QED
    BY <1>2, <1>3, <1>4, <1>5, <1>6 DEF AccountsInv

\* A step that moves one request on and changes nothing else.
LEMMA ServeKeeps ==
    ASSUME AccountsInv, NEW r \in Requests, NEW state \in RequestStates,
           Serve(r, state), RowsUnchanged, RequestSound(r)'
    PROVE  AccountsInv'
<1>1. /\ request' \in [Requests -> RequestStates]
      /\ \A q \in Requests \ {r} : request'[q] = request[q]
    BY DEF Serve, AccountsInv, AccountsTypeOK
<1>2. \A q \in Requests : RequestSound(q)'
    BY <1>1 DEF AccountsInv, RequestSound, RowsUnchanged
<1> QED
    BY <1>1, <1>2
    DEF AccountsInv, AccountsTypeOK, RoleTrailFaithful, SignedInAsLinked, Exists, RowsUnchanged

LEMMA ServedIdle ==
    ASSUME AccountsInv, NEW r \in Requests, Serve(r, Idle), RowsUnchanged
    PROVE  AccountsInv'
<1>1. Idle \in RequestStates
    BY DEF RequestStates
<1>2. request'[r] = Idle
    BY DEF Serve, AccountsInv, AccountsTypeOK
<1>3. RequestSound(r)'
    BY <1>2 DEF RequestSound, Idle
<1> QED
    BY <1>1, <1>3, ServeKeeps

\* The trail after a recorded change ends at the new role.
LEMMA RecordedTrail ==
    ASSUME AccountsInv, NEW u \in People, NEW new \in Roles, user[u].role \in Roles
    PROVE  /\ Recorded(u, user[u].role, new) \in [People -> Seq(RoleChange)]
           /\ TrailEndsAt(Recorded(u, user[u].role, new)[u], new)
           /\ \A v \in People \ {u} : Recorded(u, user[u].role, new)[v] = trail[v]
<1>1. /\ trail \in [People -> Seq(RoleChange)]
      /\ TrailEndsAt(trail[u], user[u].role)
    BY Users DEF AccountsInv, AccountsTypeOK, UserSound
<1>2. CASE user[u].role = new
    BY <1>1, <1>2 DEF Recorded
<1>3. CASE user[u].role # new
    <2>1. PICK t \in Seq(RoleChange) :
             t = Append(trail[u], [from |-> user[u].role, to |-> new]) /\ TrailEndsAt(t, new)
        BY <1>1, <1>3, Extended
    <2>2. Recorded(u, user[u].role, new) = [trail EXCEPT ![u] = t]
        BY <1>3, <2>1 DEF Recorded
    <2> QED
        BY <1>1, <2>1, <2>2
<1> QED
    BY <1>2, <1>3

\* One account changes.
LEMMA AccountChange ==
    ASSUME AccountsInv, (\E r \in Requests : Serve(r, Idle)) \/ UNCHANGED request,
           UNCHANGED <<identity, sessions>>,
           NEW u \in People, NEW row \in UserRow, user' = [user EXCEPT ![u] = row],
           trail' \in [People -> Seq(RoleChange)], TrailEndsAt(trail'[u], row.role),
           \A v \in People \ {u} : trail'[v] = trail[v],
           row.pending => ~row.active /\ row.role = "user",
           row.role \in Roles, user[u].role # "deleted",
           user[u].role # "none" => (row.pending => user[u].pending)
    PROVE  AccountsInv'
<1>1. /\ user \in [People -> UserRow] /\ user' \in [People -> UserRow]
      /\ user'[u] = row /\ \A v \in People \ {u} : user'[v] = user[v]
    BY DEF AccountsInv, AccountsTypeOK
<1>2. ASSUME NEW v \in People PROVE UserSound(v)'
    <2>1. CASE v = u
        BY <1>1, <2>1 DEF UserSound, TrailEndsAt
    <2>2. CASE v # u
        <3>1. UserSound(v) /\ user'[v] = user[v] /\ trail'[v] = trail[v]
            BY <1>1, <2>2, Users
        <3> QED
            BY <3>1 DEF UserSound, TrailEndsAt
    <2> QED
        BY <2>1, <2>2
<1>3. \A v \in People : Exists(v) => Exists(v)'
    BY <1>1 DEF Exists
<1>4. \A v \in People : user[v].role # "none" =>
         /\ user'[v].pending => user[v].pending
         /\ user[v].role = "deleted" => user'[v].role = "deleted"
    BY <1>1
<1> QED
    BY <1>1, <1>2, <1>3, <1>4, AccountsChange

LEMMA BootstrapSound ==
    ASSUME AccountsInv, NEW u \in People, NEW e \in Emails, BootstrapRoot(u, e)
    PROVE  AccountsInv'
<1>1. PICK row : row = [role |-> "root", email |-> e, active |-> TRUE, pending |-> FALSE]
    OBVIOUS
<1>2. row \in UserRow /\ TrailEndsAt(trail[u], "root")
    <2>1. trail[u] = <<>>
        BY NoTrailYet DEF BootstrapRoot
    <2> QED
        BY <1>1, <2>1, FreshTrail DEF UserRow, Roles
<1>3. /\ UNCHANGED <<identity, sessions, request, trail>> /\ user[u].role = "none"
      /\ user' = [user EXCEPT ![u] = row]
    BY <1>1 DEF BootstrapRoot, SignInUnchanged
<1>4. trail' \in [People -> Seq(RoleChange)]
    BY <1>3 DEF AccountsInv, AccountsTypeOK
<1> QED
    BY <1>1, <1>2, <1>3, <1>4, AccountChange DEF Roles

LEMMA RecoverRootSound ==
    ASSUME AccountsInv, NEW u \in People, RecoverRoot(u)
    PROVE  AccountsInv'
<1>1. user \in [People -> UserRow] /\ user[u] \in UserRow /\ user[u].role \in Roles
      /\ user[u].pending = FALSE
    BY DEF AccountsInv, AccountsTypeOK, RecoverRoot, Exists, UserRow
<1>2. PICK row \in UserRow :
         /\ user' = [user EXCEPT ![u] = row]
         /\ row.role = "root" /\ row.pending = FALSE
    <2>1. PICK row : row = [user[u] EXCEPT !.role = "root", !.active = TRUE]
        OBVIOUS
    <2>2. row \in UserRow /\ row.role = "root" /\ row.pending = FALSE
        BY <1>1, <2>1 DEF UserRow, Roles
    <2>3. user' = [user EXCEPT ![u] = row]
        BY <1>1, <2>1 DEF RecoverRoot
    <2> QED
        BY <2>2, <2>3
<1>3. /\ UNCHANGED <<identity, sessions, request>>
      /\ trail' = Recorded(u, user[u].role, "root")
    BY DEF RecoverRoot, SignInUnchanged
<1>4. /\ trail' \in [People -> Seq(RoleChange)] /\ TrailEndsAt(trail'[u], "root")
      /\ \A v \in People \ {u} : trail'[v] = trail[v]
    BY <1>1, <1>3, RecordedTrail DEF Roles
<1> QED
    BY <1>1, <1>2, <1>3, <1>4, AccountChange DEF Roles

LEMMA CreateUserSound ==
    ASSUME AccountsInv, NEW r \in Requests, NEW u \in People, NEW e \in Emails, CreateUser(r, u, e)
    PROVE  AccountsInv'
<1>1. PICK row : row = [role |-> "user", email |-> e, active |-> TRUE, pending |-> FALSE]
    OBVIOUS
<1>2. row \in UserRow /\ TrailEndsAt(trail[u], "user")
    <2>1. trail[u] = <<>>
        BY NoTrailYet DEF CreateUser
    <2> QED
        BY <1>1, <2>1, FreshTrail DEF UserRow, Roles
<1>3. /\ UNCHANGED <<identity, sessions, trail>> /\ Serve(r, Idle) /\ user[u].role = "none"
      /\ user' = [user EXCEPT ![u] = row]
    BY <1>1 DEF CreateUser, SignInUnchanged
<1>4. trail' \in [People -> Seq(RoleChange)]
    BY <1>3 DEF AccountsInv, AccountsTypeOK
<1> QED
    BY <1>1, <1>2, <1>3, <1>4, AccountChange DEF Roles

LEMMA CommitUpdateSound ==
    ASSUME AccountsInv, NEW r \in Requests, NEW role \in Roles, NEW active \in BOOLEAN,
           NEW e \in Emails, CommitUpdate(r, role, active, e)
    PROVE  AccountsInv'
<1>1. PICK u \in People, expected \in Roles : u = request[r].target /\ expected = request[r].expected
    BY DEF CommitUpdate, AccountsInv, RequestSound
<1>2. user \in [People -> UserRow] /\ user[u] \in UserRow
    BY DEF AccountsInv, AccountsTypeOK
<1>3. UNCHANGED <<identity, sessions>> /\ Serve(r, Idle)
    BY DEF CommitUpdate, SignInUnchanged
<1>4. CASE UNCHANGED <<user, trail>>
    BY <1>3, <1>4, ServedIdle DEF RowsUnchanged
<1>5. CASE /\ user[u].role = expected /\ ~user[u].pending
           /\ user' = [user EXCEPT ![u].role = role, ![u].active = active, ![u].email = e]
           /\ trail' = Recorded(u, expected, role)
    <2>1. PICK row : row = [user[u] EXCEPT !.role = role, !.active = active, !.email = e]
        OBVIOUS
    <2>2. row \in UserRow /\ row.role = role /\ row.pending = user[u].pending
        BY <1>2, <2>1 DEF UserRow
    <2>3. user' = [user EXCEPT ![u] = row]
        BY <1>2, <1>5, <2>1
    <2>4. /\ trail' \in [People -> Seq(RoleChange)] /\ TrailEndsAt(trail'[u], role)
          /\ \A v \in People \ {u} : trail'[v] = trail[v]
        BY <1>5, RecordedTrail
    <2> QED
        BY <1>3, <1>5, <2>2, <2>3, <2>4, AccountChange DEF Roles
<1> QED
    BY <1>1, <1>4, <1>5 DEF CommitUpdate

\* The batch forms change accounts that wait for approval.
LEMMA ApprovePendingSound ==
    ASSUME AccountsInv, NEW r \in Requests, NEW batch \in SUBSET People, NEW role \in Roles,
           ApprovePending(r, batch, role)
    PROVE  AccountsInv'
<1>1. /\ user \in [People -> UserRow] /\ trail \in [People -> Seq(RoleChange)]
      /\ UNCHANGED <<identity, sessions>> /\ Serve(r, Idle)
    BY DEF AccountsInv, AccountsTypeOK, ApprovePending, SignInUnchanged
<1>2. CASE UNCHANGED <<user, trail>>
    BY <1>1, <1>2, ServedIdle DEF RowsUnchanged
<1>3. CASE /\ \A u \in batch : user[u].pending
           /\ user' = [u \in People |-> IF u \in batch
                          THEN [user[u] EXCEPT !.pending = FALSE, !.active = TRUE, !.role = role]
                          ELSE user[u]]
           /\ trail' = [u \in People |-> IF u \in batch /\ user[u].role # role
                           THEN Append(trail[u], [from |-> user[u].role, to |-> role])
                           ELSE trail[u]]
    <2>1. ASSUME NEW u \in batch
          PROVE  /\ user'[u] \in UserRow /\ ~user'[u].pending /\ user'[u].role = role
                 /\ trail'[u] \in Seq(RoleChange) /\ TrailEndsAt(trail'[u], role)
                 /\ user[u].role = "user"
        <3>1. u \in People /\ user[u].role = "user" /\ UserSound(u)
            BY <1>3, Users DEF UserSound
        <3>2. user'[u] \in UserRow /\ user'[u].pending = FALSE /\ user'[u].role = role
            BY <1>3, <3>1 DEF UserSound, UserRow
        <3>3. CASE user[u].role = role
            BY <1>3, <3>1, <3>2, <3>3 DEF UserSound
        <3>4. CASE user[u].role # role
            <4>1. trail'[u] = Append(trail[u], [from |-> user[u].role, to |-> role])
                BY <1>3, <3>1, <3>4
            <4>2. user[u].role \in Roles /\ TrailEndsAt(trail[u], user[u].role)
                  /\ trail[u] \in Seq(RoleChange)
                BY <3>1 DEF UserSound, Roles
            <4> QED
                BY <3>1, <3>2, <3>4, <4>1, <4>2, Extended
        <3> QED
            BY <3>3, <3>4
    <2>2. \A u \in People \ batch : user'[u] = user[u] /\ trail'[u] = trail[u]
        BY <1>3
    <2>3. ASSUME NEW u \in People PROVE UserSound(u)'
        <3>1. CASE u \in batch
            BY <2>1, <3>1 DEF UserSound, TrailEndsAt
        <3>2. CASE u \notin batch
            <4>1. UserSound(u) /\ user'[u] = user[u] /\ trail'[u] = trail[u]
                BY <2>2, <3>2, Users
            <4> QED
                BY <4>1 DEF UserSound, TrailEndsAt
        <3> QED
            BY <3>1, <3>2
    <2>4. user' \in [People -> UserRow] /\ trail' \in [People -> Seq(RoleChange)]
        <3>1. DOMAIN user' = People /\ DOMAIN trail' = People
            BY <1>3
        <3>2. \A u \in People : user'[u] \in UserRow /\ trail'[u] \in Seq(RoleChange)
            BY <2>3 DEF UserSound
        <3> QED
            BY <1>3, <3>2
    <2>5. \A u \in People : Exists(u) => Exists(u)'
        BY <2>1, <2>2 DEF Exists
    <2>6. ASSUME NEW u \in People
          PROVE  /\ user'[u].pending => user[u].pending
                 /\ user[u].role = "deleted" => user'[u].role = "deleted"
        BY <2>1, <2>2
    <2> QED
        BY <1>1, <2>3, <2>4, <2>5, <2>6, AccountsChange
<1> QED
    BY <1>2, <1>3 DEF ApprovePending

LEMMA RejectPendingSound ==
    ASSUME AccountsInv, NEW r \in Requests, NEW batch \in SUBSET People, RejectPending(r, batch)
    PROVE  AccountsInv'
<1>1. /\ user \in [People -> UserRow] /\ trail \in [People -> Seq(RoleChange)]
      /\ UNCHANGED <<identity, sessions, trail>> /\ Serve(r, Idle)
    BY DEF AccountsInv, AccountsTypeOK, RejectPending, SignInUnchanged
<1>2. CASE UNCHANGED user
    BY <1>1, <1>2, ServedIdle DEF RowsUnchanged
<1>3. CASE user' = [u \in People |-> IF u \in batch
                       THEN [user[u] EXCEPT !.pending = FALSE, !.active = FALSE]
                       ELSE user[u]]
    <2>1. ASSUME NEW u \in People
          PROVE  /\ user'[u] \in UserRow /\ user'[u].role = user[u].role
                 /\ user'[u].pending => user'[u] = user[u]
        <3>1. user[u] \in UserRow
            BY <1>1
        <3> QED
            BY <1>3, <3>1 DEF UserRow
    <2>2. ASSUME NEW u \in People PROVE UserSound(u)'
        <3>1. UserSound(u) /\ trail'[u] = trail[u]
            BY <1>1, Users
        <3> QED
            BY <2>1, <3>1 DEF UserSound, TrailEndsAt
    <2>3. user' \in [People -> UserRow] /\ trail' \in [People -> Seq(RoleChange)]
        BY <1>1, <1>3, <2>1
    <2>4. \A u \in People : Exists(u) => Exists(u)'
        BY <2>1 DEF Exists
    <2> QED
        BY <1>1, <2>1, <2>2, <2>3, <2>4, AccountsChange
<1> QED
    BY <1>2, <1>3 DEF RejectPending

\* What else refers to an account that is deleted goes with it.
LEMMA CommitDeleteSound ==
    ASSUME AccountsInv, NEW r \in Requests, CommitDelete(r)
    PROVE  AccountsInv'
<1>1. PICK u \in People : u = request[r].target
    BY DEF CommitDelete, AccountsInv, RequestSound
<1>2. CASE RowsUnchanged
    BY <1>2, ServedIdle DEF CommitDelete
<1>3. CASE /\ Exists(u) /\ trail[u] = <<>>
           /\ user' = [user EXCEPT ![u] = Deleted]
           /\ identity' = [s \in Subjects |-> IF identity[s] = u THEN None ELSE identity[s]]
           /\ sessions' = {x \in sessions : x.account # u}
           /\ UNCHANGED trail
    <2>1. PICK gone \in UserRow : gone = Deleted /\ gone.role = "deleted" /\ gone.pending = FALSE
        <3>1. PICK absent : absent = Absent
            OBVIOUS
        <3>2. absent \in UserRow /\ absent.pending = FALSE
            BY <3>1 DEF Absent, UserRow, NoRow
        <3>3. PICK gone : gone = [absent EXCEPT !.role = "deleted"]
            OBVIOUS
        <3>4. gone \in UserRow /\ gone.role = "deleted" /\ gone.pending = FALSE
            BY <3>2, <3>3 DEF UserRow, NoRow
        <3>5. gone = Deleted
            BY <3>1, <3>3 DEF Deleted
        <3> QED
            BY <3>4, <3>5
    <2>2. /\ user \in [People -> UserRow] /\ user' \in [People -> UserRow] /\ user'[u] = gone
          /\ \A v \in People \ {u} : user'[v] = user[v]
        BY <1>3, <2>1 DEF AccountsInv, AccountsTypeOK
    <2>3. ASSUME NEW v \in People PROVE UserSound(v)'
        <3>1. CASE v = u
            BY <1>3, <2>1, <2>2, <3>1, FreshTrail DEF UserSound, TrailEndsAt
        <3>2. CASE v # u
            <4>1. UserSound(v) /\ user'[v] = user[v] /\ trail'[v] = trail[v]
                BY <1>3, <2>2, <3>2, Users
            <4> QED
                BY <4>1 DEF UserSound, TrailEndsAt
        <3> QED
            BY <3>1, <3>2
    <2>4. /\ request' \in [Requests -> RequestStates]
          /\ \A q \in Requests : request'[q] = request[q] \/ request'[q] = Idle
        BY DEF CommitDelete, Serve, AccountsInv, AccountsTypeOK, RequestStates
    <2>5. /\ identity' \in [Subjects -> People \cup {None}]
          /\ \A s \in Subjects : identity'[s] # None => identity'[s] # u /\ identity'[s] = identity[s]
          /\ \A s \in Subjects : identity[s] # u => identity'[s] = identity[s]
        BY <1>3 DEF AccountsInv, AccountsTypeOK
    <2>6. \A s \in Subjects : identity'[s] # None => user'[identity'[s]].role \in Roles
        BY <2>2, <2>5 DEF AccountsInv, AccountsTypeOK, Exists
    <2>7. sessions' \subseteq sessions /\ \A x \in sessions' : x.account # u
        BY <1>3
    <2>8. AccountsTypeOK'
        BY <1>3, <2>2, <2>3, <2>4, <2>5, <2>6, <2>7 DEF AccountsInv, AccountsTypeOK, UserSound, Exists
    <2>9. RoleTrailFaithful'
        BY <2>3 DEF UserSound, RoleTrailFaithful, TrailEndsAt
    <2>10. SignedInAsLinked' /\ \A x \in sessions' : ~user'[x.account].pending
        BY <2>2, <2>5, <2>7 DEF AccountsInv, AccountsTypeOK, SignedInAsLinked
    <2>11. ASSUME NEW q \in Requests PROVE RequestSound(q)'
        <3>1. CASE request'[q] = Idle
            BY <3>1 DEF RequestSound, Idle
        <3>2. CASE request'[q] = request[q]
            <4>1. RequestSound(q)
                BY DEF AccountsInv
            <4>2. \A v \in People : user[v].role # "none" /\ ~user[v].pending =>
                     user'[v].role # "none" /\ ~user'[v].pending
                BY <2>1, <2>2
            <4>3. \A v \in People : user[v].role = "deleted" => user'[v].role = "deleted"
                BY <2>1, <2>2
            <4>4. \A s \in Subjects, v \in People :
                     identity[s] = v => identity'[s] = v \/ user'[v].role = "deleted"
                BY <2>1, <2>2, <2>5
            <4> QED
                BY <3>2, <4>1, <4>2, <4>3, <4>4 DEF RequestSound
        <3> QED
            BY <2>4, <3>1, <3>2
    <2> QED
        BY <2>8, <2>9, <2>10, <2>11 DEF AccountsInv
<1> QED
    BY <1>1, <1>2, <1>3 DEF CommitDelete, RowsUnchanged

LEMMA ReadActorSound ==
    ASSUME AccountsInv, NEW r \in Requests, NEW a \in People, ReadActor(r, a)
    PROVE  AccountsInv'
<1>1. PICK state \in RequestStates :
         /\ state = [at |-> "actor", as |-> user[a].role] /\ Serve(r, state)
         /\ state.at = "actor" /\ state.as \in {"admin", "root"}
    BY DEF ReadActor, RequestStates, Roles
<1>2. request'[r] = state
    BY <1>1 DEF Serve, AccountsInv, AccountsTypeOK
<1>3. RequestSound(r)'
    BY <1>1, <1>2 DEF RequestSound
<1> QED
    BY <1>1, <1>3, ServeKeeps DEF ReadActor

LEMMA ReadTargetSound ==
    ASSUME AccountsInv, NEW r \in Requests, NEW op \in {"update", "delete"}, NEW u \in People,
           ReadTarget(r, op, u)
    PROVE  AccountsInv'
<1>1. CASE Serve(r, Idle)
    BY <1>1, ServedIdle DEF ReadTarget
<1>2. CASE /\ Exists(u) /\ CanManage(request[r].as, user[u].role)
           /\ Serve(r, [at |-> op, as |-> request[r].as, target |-> u, expected |-> user[u].role])
    <2>1. request[r].as \in {"admin", "root"} /\ user[u].role \in Roles
        BY <1>2 DEF ReadTarget, AccountsInv, RequestSound, Exists
    <2>2. PICK state \in RequestStates :
             /\ Serve(r, state) /\ state.at = op /\ state.as = request[r].as
             /\ state.target = u /\ state.expected = user[u].role
        BY <1>2, <2>1 DEF RequestStates, Roles
    <2>3. request'[r] = state
        BY <2>2 DEF Serve, AccountsInv, AccountsTypeOK
    <2>4. CanManage(state.as, state.expected)
        BY <1>2, <2>2
    <2>5. RequestSound(r)'
        BY <2>1, <2>2, <2>3, <2>4 DEF RequestSound
    <2> QED
        BY <2>2, <2>5, ServeKeeps DEF ReadTarget
<1> QED
    BY <1>1, <1>2 DEF ReadTarget

LEMMA CallbackSound ==
    ASSUME AccountsInv, NEW r \in Requests, NEW s \in Subjects, NEW e \in Emails, Callback(r, s, e)
    PROVE  AccountsInv'
<1>1. PICK state : state = [at |-> "callback", subject |-> s, email |-> e, lostRace |-> FALSE]
    OBVIOUS
<1>2. /\ state \in RequestStates /\ state.at = "callback"
      /\ state.subject \in Subjects /\ state.email \in Emails
    BY <1>1 DEF RequestStates
<1>3. Serve(r, state) /\ RowsUnchanged
    BY <1>1 DEF Callback
<1>4. request'[r] = state
    BY <1>3 DEF Serve, AccountsInv, AccountsTypeOK
<1>5. RequestSound(r)'
    BY <1>2, <1>4 DEF RequestSound
<1> QED
    BY <1>2, <1>3, <1>5, ServeKeeps

LEMMA ResolveIdentitySound ==
    ASSUME AccountsInv, NEW r \in Requests, ResolveIdentity(r)
    PROVE  AccountsInv'
<1>1. PICK s \in Subjects : s = request[r].subject
    BY DEF ResolveIdentity, AccountsInv, RequestSound
<1>2. CASE Serve(r, Idle)
    BY <1>2, ServedIdle DEF ResolveIdentity
<1>3. CASE Serve(r, [request[r] EXCEPT !.at = "unknown"])
    <2>1. request[r] \in RequestStates /\ request[r].at = "callback" /\ request[r].email \in Emails
        BY DEF ResolveIdentity, AccountsInv, AccountsTypeOK, RequestSound
    <2>2. PICK state \in RequestStates :
             /\ Serve(r, state) /\ state.at = "unknown"
             /\ state.subject = s /\ state.email = request[r].email
        <3>1. PICK before \in RequestStates : before = request[r]
            BY <2>1
        <3>2. PICK after : after = [before EXCEPT !.at = "unknown"]
            OBVIOUS
        <3>3. /\ after \in RequestStates /\ after.at = "unknown"
              /\ after.subject = before.subject /\ after.email = before.email
            BY <2>1, <3>1, <3>2 DEF RequestStates, Idle
        <3> QED
            BY <1>1, <1>3, <3>1, <3>2, <3>3
    <2>3. request'[r] = state
        BY <2>2 DEF Serve, AccountsInv, AccountsTypeOK
    <2>4. RequestSound(r)'
        BY <2>1, <2>2, <2>3 DEF RequestSound
    <2> QED
        BY <2>2, <2>4, ServeKeeps DEF ResolveIdentity
<1>4. CASE /\ identity[s] # None /\ user[identity[s]].active
           /\ Serve(r, [at |-> "open", subject |-> s, account |-> identity[s]])
    <2>1. identity[s] \in People /\ Exists(identity[s])
        BY <1>4 DEF AccountsInv, AccountsTypeOK
    <2>2. PICK u \in People : u = identity[s]
        BY <2>1
    <2>3. user[u].role # "none" /\ ~user[u].pending
        BY <1>4, <2>1, <2>2 DEF AccountsInv, AccountsTypeOK, Exists, Roles
    <2>4. PICK state \in RequestStates :
             Serve(r, state) /\ state.at = "open" /\ state.subject = s /\ state.account = u
        BY <1>4, <2>2 DEF RequestStates
    <2>5. request'[r] = state
        BY <2>4 DEF Serve, AccountsInv, AccountsTypeOK
    <2>6. RequestSound(r)'
        BY <2>2, <2>3, <2>4, <2>5 DEF RequestSound, ResolveIdentity, RowsUnchanged
    <2> QED
        BY <2>4, <2>6, ServeKeeps DEF ResolveIdentity
<1> QED
    BY <1>1, <1>2, <1>3, <1>4 DEF ResolveIdentity

LEMMA ResolveEmailSound ==
    ASSUME AccountsInv, NEW r \in Requests, ResolveEmail(r)
    PROVE  AccountsInv'
<1>1. /\ request[r] \in RequestStates /\ request[r].at = "unknown"
      /\ request[r].subject \in Subjects /\ request[r].email \in Emails
    BY DEF ResolveEmail, AccountsInv, AccountsTypeOK, RequestSound
<1>2. CASE Serve(r, Idle)
    BY <1>2, ServedIdle DEF ResolveEmail
<1>3. CASE Serve(r, [request[r] EXCEPT !.at = "create"])
    <2>1. PICK state \in RequestStates :
             /\ Serve(r, state) /\ state.at = "create"
             /\ state.subject = request[r].subject /\ state.email = request[r].email
        BY <1>1, <1>3 DEF RequestStates, Idle
    <2>2. request'[r] = state
        BY <2>1 DEF Serve, AccountsInv, AccountsTypeOK
    <2>3. RequestSound(r)'
        BY <1>1, <2>1, <2>2 DEF RequestSound
    <2> QED
        BY <2>1, <2>3, ServeKeeps DEF ResolveEmail
<1>4. ASSUME NEW u \in People, Exists(u), user[u].active,
             Serve(r, [at |-> "link", subject |-> request[r].subject, email |-> request[r].email,
                       lostRace |-> request[r].lostRace, account |-> u])
      PROVE  AccountsInv'
    <2>1. request[r].lostRace \in BOOLEAN
        BY <1>1 DEF RequestStates, Idle
    <2>2. user[u].role # "none" /\ ~user[u].pending
        BY <1>4 DEF AccountsInv, AccountsTypeOK, Exists, Roles
    <2>3. PICK state \in RequestStates :
             /\ Serve(r, state) /\ state.at = "link" /\ state.account = u
             /\ state.subject = request[r].subject /\ state.email = request[r].email
        BY <1>1, <1>4, <2>1 DEF RequestStates
    <2>4. request'[r] = state
        BY <2>3 DEF Serve, AccountsInv, AccountsTypeOK
    <2>5. RequestSound(r)'
        BY <1>1, <2>2, <2>3, <2>4 DEF RequestSound, ResolveEmail, RowsUnchanged
    <2> QED
        BY <2>3, <2>5, ServeKeeps DEF ResolveEmail
<1> QED
    BY <1>2, <1>3, <1>4 DEF ResolveEmail

\* Starting over forgets nothing a request still needs.
LEMMA Retried ==
    ASSUME AccountsInv, NEW r \in Requests, request[r].at \in {"create", "link"}
    PROVE  /\ Retry(r) \in RequestStates
           /\ \/ Retry(r) = Idle
              \/ /\ Retry(r).at = "callback"
                 /\ Retry(r).subject \in Subjects /\ Retry(r).email \in Emails
<1>1. request[r].subject \in Subjects /\ request[r].email \in Emails
    BY DEF AccountsInv, RequestSound
<1>2. PICK again : again = [at |-> "callback", subject |-> request[r].subject,
                            email |-> request[r].email, lostRace |-> TRUE]
    OBVIOUS
<1>3. /\ again \in RequestStates /\ again.at = "callback"
      /\ again.subject \in Subjects /\ again.email \in Emails
    BY <1>1, <1>2 DEF RequestStates
<1>4. Idle \in RequestStates
    BY DEF RequestStates
<1> QED
    BY <1>2, <1>3, <1>4 DEF Retry

LEMMA RetriedSound ==
    ASSUME AccountsInv, NEW r \in Requests, request[r].at \in {"create", "link"},
           Serve(r, Retry(r)), RowsUnchanged
    PROVE  AccountsInv'
<1>1. PICK state \in RequestStates :
         /\ state = Retry(r)
         /\ \/ state = Idle
            \/ state.at = "callback" /\ state.subject \in Subjects /\ state.email \in Emails
    BY Retried
<1>2. request'[r] = state
    BY <1>1 DEF Serve, AccountsInv, AccountsTypeOK
<1>3. RequestSound(r)'
    BY <1>1, <1>2 DEF RequestSound, Idle
<1> QED
    BY <1>1, <1>3, ServeKeeps

\* A new account is linked to the subject that nobody had, and to nobody else.
LEMMA CreateAccountSound ==
    ASSUME AccountsInv, NEW r \in Requests, NEW u \in People, NEW pending \in BOOLEAN,
           CreateAccount(r, u, pending)
    PROVE  AccountsInv'
<1>1. PICK s \in Subjects, e \in Emails :
         s = request[r].subject /\ e = request[r].email /\ request[r].at = "create"
    BY DEF CreateAccount, AccountsInv, RequestSound
<1>2. CASE Serve(r, Retry(r)) /\ UNCHANGED <<user, identity>>
    BY <1>1, <1>2, RetriedSound DEF CreateAccount, RowsUnchanged
<1>3. CASE /\ identity[s] = None /\ user[u].role = "none"
           /\ user' = [user EXCEPT ![u] = [role |-> "user", email |-> e,
                                           active |-> ~pending, pending |-> pending]]
           /\ identity' = [identity EXCEPT ![s] = u]
           /\ Serve(r, IF pending THEN Idle ELSE [at |-> "open", subject |-> s, account |-> u])
    <2> UNCHANGED <<trail, sessions>>
        BY DEF CreateAccount
    <2>1. PICK row : row = [role |-> "user", email |-> e, active |-> ~pending, pending |-> pending]
        OBVIOUS
    <2>2. /\ row \in UserRow /\ row.role = "user" /\ row.pending = pending
          /\ row.pending => ~row.active
        BY <2>1 DEF UserRow, Roles
    <2>3. /\ user \in [People -> UserRow] /\ user' \in [People -> UserRow] /\ user'[u] = row
          /\ \A v \in People \ {u} : user'[v] = user[v]
        BY <1>3, <2>1, <2>2 DEF AccountsInv, AccountsTypeOK
    <2>4. ASSUME NEW v \in People PROVE UserSound(v)'
        <3>1. CASE v = u
            <4>1. trail'[v] = <<>>
                BY <1>3, <3>1, NoTrailYet
            <4> QED
                BY <2>2, <2>3, <3>1, <4>1, FreshTrail DEF UserSound, TrailEndsAt
        <3>2. CASE v # u
            <4>1. UserSound(v) /\ user'[v] = user[v] /\ trail'[v] = trail[v]
                BY <2>3, <3>2, Users
            <4> QED
                BY <4>1 DEF UserSound, TrailEndsAt
        <3> QED
            BY <3>1, <3>2
    <2>5. PICK state \in RequestStates :
             /\ Serve(r, state)
             /\ \/ state = Idle
                \/ state.at = "open" /\ state.subject = s /\ state.account = u /\ ~pending
        <3>1. CASE pending
            BY <1>3, <3>1 DEF RequestStates
        <3>2. CASE ~pending
            BY <1>3, <3>2 DEF RequestStates
        <3> QED
            BY <3>1, <3>2
    <2>6. /\ request' \in [Requests -> RequestStates] /\ request'[r] = state
          /\ \A q \in Requests \ {r} : request'[q] = request[q]
        BY <2>5 DEF Serve, AccountsInv, AccountsTypeOK
    <2>7. /\ identity' \in [Subjects -> People \cup {None}] /\ identity'[s] = u
          /\ \A x \in Subjects \ {s} : identity'[x] = identity[x]
        BY <1>3 DEF AccountsInv, AccountsTypeOK
    <2>8. \A x \in Subjects : identity'[x] # None => user'[identity'[x]].role \in Roles
        BY <2>2, <2>3, <2>7 DEF AccountsInv, AccountsTypeOK, Exists, Roles
    <2>9. AccountsTypeOK'
        BY <2>3, <2>4, <2>6, <2>7, <2>8 DEF AccountsInv, AccountsTypeOK, UserSound, Exists
    <2>10. RoleTrailFaithful'
        BY <2>4 DEF UserSound, RoleTrailFaithful, TrailEndsAt
    <2>11. ASSUME NEW x \in sessions
           PROVE  identity'[x.subject] = x.account /\ ~user'[x.account].pending
        <3>1. /\ x.account \in People /\ x.subject \in Subjects
              /\ identity[x.subject] = x.account /\ ~user[x.account].pending
            BY DEF AccountsInv, AccountsTypeOK, SignedInAsLinked
        <3>2. x.account # None /\ x.account # u
            BY <1>3, <3>1, AccountsAssumption DEF AccountsInv, AccountsTypeOK, Exists, Roles
        <3> QED
            BY <1>3, <2>3, <2>7, <3>1, <3>2
    <2>12. ASSUME NEW q \in Requests PROVE RequestSound(q)'
        <3>1. CASE q = r
            <4>1. CASE state = Idle
                BY <2>6, <3>1, <4>1 DEF RequestSound, Idle
            <4>2. CASE /\ state.at = "open" /\ state.subject = s /\ state.account = u /\ ~pending
                BY <2>2, <2>3, <2>6, <2>7, <3>1, <4>2 DEF RequestSound
            <4> QED
                BY <2>5, <4>1, <4>2
        <3>2. CASE q # r
            <4>1. RequestSound(q) /\ request'[q] = request[q]
                BY <2>6, <3>2 DEF AccountsInv
            <4>2. \A v \in People : user[v].role # "none" => user'[v] = user[v]
                BY <1>3, <2>3
            <4>3. \A x \in Subjects, v \in People : identity[x] = v => identity'[x] = v
                BY <1>3, <2>7, AccountsAssumption
            <4> QED
                BY <4>1, <4>2, <4>3 DEF RequestSound
        <3> QED
            BY <3>1, <3>2
    <2> QED
        BY <2>9, <2>10, <2>11, <2>12 DEF AccountsInv, SignedInAsLinked
<1> QED
    BY <1>1, <1>2, <1>3 DEF CreateAccount

LEMMA LinkIdentitySound ==
    ASSUME AccountsInv, NEW r \in Requests, LinkIdentity(r)
    PROVE  AccountsInv'
<1>1. PICK s \in Subjects, u \in People :
         s = request[r].subject /\ u = request[r].account /\ request[r].at = "link"
    BY DEF LinkIdentity, AccountsInv, RequestSound
<1> UNCHANGED <<user, trail, sessions>>
    BY DEF LinkIdentity
<1>2. CASE Serve(r, Idle) /\ UNCHANGED identity
    BY <1>2, ServedIdle DEF RowsUnchanged
<1>3. CASE Serve(r, Retry(r)) /\ UNCHANGED identity
    BY <1>1, <1>3, RetriedSound DEF RowsUnchanged
<1>4. CASE /\ Exists(u) /\ identity[s] = None
           /\ identity' = [identity EXCEPT ![s] = u]
           /\ Serve(r, [at |-> "open", subject |-> s, account |-> u])
    <2>1. PICK state \in RequestStates :
             Serve(r, state) /\ state.at = "open" /\ state.subject = s /\ state.account = u
        BY <1>4 DEF RequestStates
    <2>2. /\ request' \in [Requests -> RequestStates] /\ request'[r] = state
          /\ \A q \in Requests \ {r} : request'[q] = request[q]
        BY <2>1 DEF Serve, AccountsInv, AccountsTypeOK
    <2>3. /\ identity' \in [Subjects -> People \cup {None}] /\ identity'[s] = u
          /\ \A x \in Subjects \ {s} : identity'[x] = identity[x]
        BY <1>4 DEF AccountsInv, AccountsTypeOK
    <2>4. AccountsTypeOK'
        BY <1>4, <2>2, <2>3 DEF AccountsInv, AccountsTypeOK, Exists
    <2>5. RoleTrailFaithful'
        BY DEF AccountsInv, RoleTrailFaithful
    <2>6. \A x \in Subjects, v \in People : identity[x] = v => identity'[x] = v
        BY <1>4, <2>3, AccountsAssumption
    <2>7. SignedInAsLinked'
        BY <2>6 DEF AccountsInv, AccountsTypeOK, SignedInAsLinked
    <2>8. ASSUME NEW q \in Requests PROVE RequestSound(q)'
        <3>1. CASE q = r
            BY <1>1, <2>1, <2>2, <2>3, <3>1 DEF RequestSound, AccountsInv
        <3>2. CASE q # r
            <4>1. RequestSound(q) /\ request'[q] = request[q]
                BY <2>2, <3>2 DEF AccountsInv
            <4> QED
                BY <2>6, <4>1 DEF RequestSound
        <3> QED
            BY <3>1, <3>2
    <2> QED
        BY <2>4, <2>5, <2>7, <2>8 DEF AccountsInv
<1> QED
    BY <1>1, <1>2, <1>3, <1>4 DEF LinkIdentity

LEMMA OpenSessionSound ==
    ASSUME AccountsInv, NEW r \in Requests, OpenSession(r)
    PROVE  AccountsInv'
<1>1. PICK s \in Subjects, u \in People :
         /\ s = request[r].subject /\ u = request[r].account
         /\ ~user[u].pending /\ (identity[s] = u \/ user[u].role = "deleted")
    BY DEF OpenSession, AccountsInv, RequestSound
<1>2. UNCHANGED <<user, trail, identity>> /\ Serve(r, Idle)
    BY DEF OpenSession
<1>3. /\ request' \in [Requests -> RequestStates] /\ request'[r] = Idle
      /\ \A q \in Requests \ {r} : request'[q] = request[q]
    BY <1>2 DEF Serve, AccountsInv, AccountsTypeOK, RequestStates
<1>4. ASSUME NEW x \in sessions', x \notin sessions
      PROVE  x \in [account : People, subject : Subjects] /\ x.account = u /\ x.subject = s /\ Exists(u)
    BY <1>1, <1>4 DEF OpenSession
<1>5. ASSUME NEW x \in sessions'
      PROVE  /\ x \in [account : People, subject : Subjects]
             /\ identity[x.subject] = x.account /\ ~user[x.account].pending
    <2>1. CASE x \in sessions
        BY <2>1 DEF AccountsInv, AccountsTypeOK, SignedInAsLinked
    <2>2. CASE x \notin sessions
        BY <1>1, <1>4, <2>2 DEF Exists, Roles
    <2> QED
        BY <2>1, <2>2
<1>6. \A q \in Requests : RequestSound(q)'
    BY <1>2, <1>3 DEF AccountsInv, RequestSound, Idle
<1> QED
    BY <1>2, <1>3, <1>5, <1>6
    DEF AccountsInv, AccountsTypeOK, RoleTrailFaithful, SignedInAsLinked, Exists

LEMMA EndSessionSound ==
    ASSUME AccountsInv, NEW x \in sessions, EndSession(x)
    PROVE  AccountsInv'
<1>1. sessions' \subseteq sessions /\ UNCHANGED <<user, trail, identity, request>>
    BY DEF EndSession
<1>2. AccountsTypeOK' /\ RoleTrailFaithful'
    BY <1>1 DEF AccountsInv, AccountsTypeOK, RoleTrailFaithful, Exists
<1>3. \A r \in Requests : RequestSound(r)'
    BY <1>1 DEF AccountsInv, RequestSound
<1> QED
    BY <1>1, <1>2, <1>3 DEF AccountsInv, SignedInAsLinked

(***************************************************************************)
(* The invariant.                                                          *)
(***************************************************************************)

LEMMA AccountsInvInit == Init => AccountsInv
<1> SUFFICES ASSUME Init PROVE AccountsInv
    OBVIOUS
<1>1. Absent \in UserRow /\ Absent.pending = FALSE /\ Absent.role = "none"
    BY DEF Absent, UserRow, NoRow
<1>2. ASSUME NEW e \in Emails
      PROVE  \E row \in UserRow : /\ row.pending = FALSE /\ row.role = "agent"
                /\ row = [Absent EXCEPT !.role = "agent", !.email = e, !.active = TRUE]
    <2>1. PICK absent : absent = Absent
        OBVIOUS
    <2>2. PICK row : row = [absent EXCEPT !.role = "agent", !.email = e, !.active = TRUE]
        OBVIOUS
    <2>3. row \in UserRow /\ row.pending = FALSE /\ row.role = "agent"
        BY <1>1, <2>1, <2>2 DEF UserRow, Roles
    <2> QED
        BY <2>1, <2>2, <2>3
<1>3. user \in [People -> UserRow] /\ \A u \in People : ~user[u].pending /\ user[u].role # "admin"
    <2>1. CASE user = [u \in People |-> Absent]
        BY <1>1, <2>1
    <2>2. ASSUME NEW u \in People, NEW e \in Emails,
                 user = [v \in People |-> IF v = u
                    THEN [Absent EXCEPT !.role = "agent", !.email = e, !.active = TRUE] ELSE Absent]
          PROVE  /\ user \in [People -> UserRow]
                 /\ \A v \in People : ~user[v].pending /\ user[v].role # "admin"
        <3>1. PICK row \in UserRow : /\ row.pending = FALSE /\ row.role = "agent"
                 /\ row = [Absent EXCEPT !.role = "agent", !.email = e, !.active = TRUE]
            BY <1>2
        <3> QED
            BY <1>1, <2>2, <3>1
    <2> QED
        BY <2>1, <2>2 DEF Init
<1>4. trail \in [People -> Seq(RoleChange)] /\ \A u \in People : trail[u] = <<>>
    <2>0. <<>> \in Seq(RoleChange)
        OBVIOUS
    <2>1. PICK t \in Seq(RoleChange) : t = <<>>
        BY <2>0, Zenon
    <2>2. trail = [u \in People |-> t]
        BY <2>1 DEF Init
    <2> QED
        BY <2>1, <2>2
<1>5. identity \in [Subjects -> People \cup {None}] /\ \A s \in Subjects : identity[s] = None
    BY DEF Init
<1>6. request \in [Requests -> RequestStates] /\ \A r \in Requests : request[r] = Idle
    BY DEF Init, RequestStates
<1>7. sessions = {}
    BY DEF Init
<1>8. AccountsTypeOK
    BY <1>3, <1>4, <1>5, <1>6, <1>7 DEF AccountsTypeOK
<1>9. RoleTrailFaithful
    BY <1>3, <1>4 DEF RoleTrailFaithful
<1>10. \A r \in Requests : RequestSound(r)
    BY <1>6 DEF RequestSound, Idle
<1> QED
    BY <1>7, <1>8, <1>9, <1>10 DEF AccountsInv, SignedInAsLinked

LEMMA AccountsInvStep == AccountsInv /\ [Next]_vars => AccountsInv'
<1> SUFFICES ASSUME AccountsInv, [Next]_vars PROVE AccountsInv'
    OBVIOUS
<1>1. ASSUME NEW u \in People, NEW e \in Emails, BootstrapRoot(u, e) PROVE AccountsInv'
    BY <1>1, BootstrapSound
<1>2. ASSUME NEW u \in People, RecoverRoot(u) PROVE AccountsInv'
    BY <1>2, RecoverRootSound
<1>3. ASSUME NEW r \in Requests, Manage(r) PROVE AccountsInv'
    <2>1. ASSUME NEW a \in People, ReadActor(r, a) PROVE AccountsInv'
        BY <2>1, ReadActorSound
    <2>2. ASSUME NEW op \in {"update", "delete"}, NEW u \in People, ReadTarget(r, op, u)
          PROVE  AccountsInv'
        BY <2>2, ReadTargetSound
    <2>3. ASSUME NEW u \in People, NEW e \in Emails, CreateUser(r, u, e) PROVE AccountsInv'
        BY <2>3, CreateUserSound
    <2>4. ASSUME NEW role \in Roles, NEW active \in BOOLEAN, NEW e \in Emails,
                 CommitUpdate(r, role, active, e)
          PROVE  AccountsInv'
        BY <2>4, CommitUpdateSound
    <2>5. ASSUME CommitDelete(r) PROVE AccountsInv'
        BY <2>5, CommitDeleteSound
    <2>6. ASSUME NEW batch \in SUBSET People, RejectPending(r, batch) PROVE AccountsInv'
        BY <2>6, RejectPendingSound
    <2>7. ASSUME NEW batch \in SUBSET People, NEW role \in Roles, ApprovePending(r, batch, role)
          PROVE  AccountsInv'
        BY <2>7, ApprovePendingSound
    <2> QED
        BY <1>3, <2>1, <2>2, <2>3, <2>4, <2>5, <2>6, <2>7 DEF Manage
<1>4. ASSUME NEW r \in Requests, SignIn(r) PROVE AccountsInv'
    <2>1. ASSUME NEW s \in Subjects, NEW e \in Emails, Callback(r, s, e) PROVE AccountsInv'
        BY <2>1, CallbackSound
    <2>2. ASSUME NEW u \in People, NEW pending \in BOOLEAN, CreateAccount(r, u, pending)
          PROVE  AccountsInv'
        BY <2>2, CreateAccountSound
    <2> QED
        BY <1>4, <2>1, <2>2, ResolveIdentitySound, ResolveEmailSound, LinkIdentitySound,
           OpenSessionSound DEF SignIn
<1>5. ASSUME NEW r \in Requests, Abandon(r) PROVE AccountsInv'
    BY <1>5, ServedIdle DEF Abandon
<1>6. ASSUME NEW x \in sessions, EndSession(x) PROVE AccountsInv'
    BY <1>6, EndSessionSound
<1>7. CASE UNCHANGED vars
    BY <1>7 DEF vars, AccountsInv, AccountsTypeOK, RoleTrailFaithful, SignedInAsLinked,
                RequestSound, Exists
<1> QED
    BY <1>1, <1>2, <1>3, <1>4, <1>5, <1>6, <1>7 DEF Next

\* The invariant of the accounts, their trails, their links and their sessions.
THEOREM AccountsInvHolds == Spec => []AccountsInv
BY AccountsInvInit, AccountsInvStep, PTL DEF Spec

\* Accounts, trails, identities, sessions and requests keep their types, a
\* pending account is an inactive requester and a link names an account that
\* exists.
THEOREM AccountsTyped == Spec => []AccountsTypeOK
<1>1. AccountsInv => AccountsTypeOK
    BY DEF AccountsInv
<1> QED
    BY <1>1, AccountsInvHolds, PTL

\* The role_changes rows of every account chain up to its role, however many
\* requests overlap (the compare-and-set of UpdateManagedUser).
THEOREM TrailsFaithful == Spec => []RoleTrailFaithful
<1>1. AccountsInv => RoleTrailFaithful
    BY DEF AccountsInv
<1> QED
    BY <1>1, AccountsInvHolds, PTL

\* The sessions a company sign-in opens belong to the linked account, which
\* never waits for approval (Complete, CreateUserWithIdentity, LinkIdentity).
THEOREM SessionsRight == Spec => []CompanySessionsRight
<1>1. ASSUME AccountsInv PROVE CompanySessionsRight
    BY <1>1 DEF AccountsInv, RequestSound, CompanySessionsRight, SignedInAsLinked,
                WaitingHaveNoSession
<1> QED
    BY <1>1, AccountsInvHolds, PTL

AdminsKept ==
    \A u \in People :
        user[u].role = "admin" /\ user'[u] # user[u] /\ HasRoot =>
            \E r \in Requests :
                request[r].at \in {"update", "delete"} /\ request[r].as = "root"
                    /\ request[r].target = u /\ request'[r] = Idle

\* A request that writes an account writes the one it read, and has the right.
LEMMA ManagedByRoot ==
    ASSUME AccountsInv, NEW r \in Requests, Manage(r), NEW u \in People,
           user[u].role = "admin", user'[u] # user[u]
    PROVE  /\ request[r].at \in {"update", "delete"} /\ request[r].as = "root"
           /\ request[r].target = u /\ request'[r] = Idle
<1> user \in [People -> UserRow]
    BY DEF AccountsInv, AccountsTypeOK
<1>1. ~user[u].pending /\ trail[u] # <<>>
    BY DEF AccountsInv, AccountsTypeOK, RoleTrailFaithful
<1>2. Serve(r, Idle) => request'[r] = Idle
    BY DEF Serve, AccountsInv, AccountsTypeOK
<1>3. ASSUME NEW role \in Roles, NEW active \in BOOLEAN, NEW e \in Emails,
             CommitUpdate(r, role, active, e)
      PROVE  /\ request[r].at = "update" /\ request[r].as = "root"
             /\ request[r].target = u /\ request'[r] = Idle
    <2>1. request[r].target \in People /\ RequestSound(r) /\ request[r].at = "update"
        BY <1>3 DEF CommitUpdate, AccountsInv, RequestSound
    <2>2. user' # user
        OBVIOUS
    <2>3. /\ user[request[r].target].role = request[r].expected
          /\ \A v \in People : v # request[r].target => user'[v] = user[v]
        BY <1>3, <2>2 DEF CommitUpdate
    <2>4. request[r].target = u /\ request[r].expected = "admin"
        BY <2>1, <2>3
    <2>5. request[r].as = "root"
        BY <2>1, <2>4 DEF RequestSound, CanManage
    <2> QED
        BY <1>2, <1>3, <2>1, <2>4, <2>5 DEF CommitUpdate
<1>4. ~CommitDelete(r)
    <2> SUFFICES ASSUME CommitDelete(r) PROVE FALSE
        OBVIOUS
    <2>1. user' # user
        OBVIOUS
    <2>2. trail[request[r].target] = <<>> /\ user' = [user EXCEPT ![request[r].target] = Deleted]
        BY <2>1 DEF CommitDelete
    <2>3. u # request[r].target
        BY <1>1, <2>2
    <2> QED
        BY <2>2, <2>3
<1>5. ASSUME NEW v \in People, NEW e \in Emails, CreateUser(r, v, e) PROVE FALSE
    BY <1>5 DEF CreateUser
<1>6. ASSUME NEW batch \in SUBSET People, RejectPending(r, batch) PROVE FALSE
    BY <1>1, <1>6 DEF RejectPending
<1>7. ASSUME NEW batch \in SUBSET People, NEW role \in Roles, ApprovePending(r, batch, role)
      PROVE  FALSE
    BY <1>1, <1>7 DEF ApprovePending
<1>8. user' = user \/ ~(\E a \in People : ReadActor(r, a))
    BY DEF ReadActor, RowsUnchanged
<1>9. user' = user \/ ~(\E op \in {"update", "delete"}, v \in People : ReadTarget(r, op, v))
    BY DEF ReadTarget, RowsUnchanged
<1> QED
    BY <1>3, <1>4, <1>5, <1>6, <1>7, <1>8, <1>9 DEF Manage

\* While there is a root, whoever is an admin is changed by a request of root
\* alone: an admin's stale request finds another role than it read, and the
\* delete of an account that was ever made an admin is refused.
THEOREM AdminsByRootOnly == Spec => AdminsChangedByRootOnly
<1>1. ASSUME AccountsInv, [Next]_vars PROVE [AdminsKept]_vars
    <2> SUFFICES ASSUME NEW u \in People, user[u].role = "admin", user'[u] # user[u], HasRoot
                 PROVE  \E r \in Requests :
                            request[r].at \in {"update", "delete"} /\ request[r].as = "root"
                                /\ request[r].target = u /\ request'[r] = Idle
        BY DEF AdminsKept
    <2> user \in [People -> UserRow]
        BY <1>1 DEF AccountsInv, AccountsTypeOK
    <2>1. ASSUME NEW v \in People, NEW e \in Emails, BootstrapRoot(v, e) PROVE FALSE
        BY <2>1 DEF BootstrapRoot, Exists, Roles
    <2>2. ASSUME NEW v \in People, RecoverRoot(v) PROVE FALSE
        BY <2>2 DEF RecoverRoot
    <2>3. ASSUME NEW r \in Requests, SignIn(r) PROVE FALSE
        <3>1. ASSUME NEW v \in People, NEW pending \in BOOLEAN, CreateAccount(r, v, pending)
              PROVE  FALSE
            BY <3>1 DEF CreateAccount
        <3> QED
            BY <2>3, <3>1
            DEF SignIn, Callback, ResolveIdentity, ResolveEmail, LinkIdentity, OpenSession,
                RowsUnchanged
    <2>4. ASSUME NEW r \in Requests, Abandon(r) PROVE FALSE
        BY <2>4 DEF Abandon, RowsUnchanged
    <2>5. ASSUME NEW x \in sessions, EndSession(x) PROVE FALSE
        BY <2>5 DEF EndSession
    <2>6. ~UNCHANGED vars
        BY DEF vars
    <2>7. PICK r \in Requests : Manage(r)
        BY <1>1, <2>1, <2>2, <2>3, <2>4, <2>5, <2>6 DEF Next
    <2> QED
        BY <1>1, <2>7, ManagedByRoot
<1> QED
    BY <1>1, AccountsInvHolds, PTL DEF Spec, AdminsChangedByRootOnly, AdminsKept
=============================================================================
