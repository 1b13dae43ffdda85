# Verification of tkt

tkt is a help desk: one Go server over one SQLite database. These modules model the parts of it that
carry its logic: the life of a ticket under concurrent requests, the delivery of notification emails,
the background passes over tickets, the authoring of workflows, accounts and their sign-ins, passwords
and reset links, and the consent given to connected applications. TLC checks each on small
instances, and TLAPS proves most of what is checked for every value of the constants.

    tlc -workers 2 -config MCTicketLifecycle_races.cfg MCTicketLifecycle
    tlapm TicketLifecycleProofs.tla

## The system

Paths are below `src/internal/`. An operation of the application layer reads what it needs outside any
transaction, decides on that copy, and hands one unit of work to the store, which is one immediate
SQLite transaction. SQLite serialises writers, so a store transaction is one atomic step, and
everything hard about the system lies in what was read before it. There are no locks in the
application layer, no version column on tickets (workflow drafts have one), and three background loops (email,
hold expiry, alerts) started by `cmd/server/main.go`.

| Component | State | Operations | What is hard | What makes it correct | Module |
|---|---|---|---|---|---|
| Ticket lifecycle (`domain/ticket.go`, `application/ticket_service.go`, `sqlite/ticket_store.go`) | ticket row, audit events | create, assign, transition, hold, resume, confirm, reject, edit | full-row writes of stale reads; hold columns and row columns written by different statements | legal moves; no ended ticket on hold; stamps match the state; an audit trail that adds up | `TicketLifecycle` |
| Workflow execution (`application/workflow_runner.go`, `sqlite/workflow_uow.go`, `workflow_run_store.go`) | run: cursor, status; answers | create with run, complete a step, automatic steps | two completions of one step; completing while closing, rejecting or downgrading | each step once, in order; no run outlives its ticket | `TicketLifecycle` |
| SLA (`domain/sla*.go`, `application/sla_service.go`) | frozen instants per ticket | freeze, shift over a hold | shift computed from a stale copy | the deadline moves with the end of a hold, by its pause | `TicketLifecycle`, `BackgroundPasses` |
| Comments (`application/comment_service.go`, `sqlite/comment_uow.go`) | comments | add; a requester reply ends the hold | reply racing other hold writes | the hold ends once | `TicketLifecycle` |
| Hold expiry (`application/hold_expiry.go`) | holds, reminders sent | close or remind, page by page | a reply racing the close; failures; pages that move under the pass | no close or reminder over a hold that ended; every expired hold ends | `TicketLifecycle`, `BackgroundPasses` |
| Alerts (`application/alerts.go`, `sqlite/alert_store.go`) | alerts already sent | pass | overlapping passes; facts read at different instants | one alert per breach and per period of silence | `BackgroundPasses` |
| Email delivery (`application/notification_email.go`, `sqlite/email_outbox_store.go`, `adapters/mail/smtp.go`) | one delivery row per notification | enqueue, claim, send, settle, recover | crash between sending and recording; unknown outcomes; two processes | at most one copy; truthful outcomes; bounded, spaced retries; everything settles | `EmailOutbox`, `EmailDelivery` |
| Workflow authoring, desks (`application/workflow_service.go`, `desk_service.go`, `sqlite/workflow_store.go`, `desk_store.go`) | draft and revision, versions, desks, members | save, publish, clone, delete category or desk, members | two editors; a desk deleted while published; a member downgraded while added | no lost draft; versions immutable and numbered; no dangling reference | `WorkflowAuthoring`, `VersionedDraft` |
| Users (`application/user_service.go`, `pending_users.go`, `sqlite/user_store.go`, `recover_root.go`) | accounts, role changes, memberships | create, edit, downgrade, delete, approve, reject, recover root | stale roles; open tickets of a downgraded person | the role trail chains; an admin is root's to change; hand-off of open tickets | `UserAccounts`, `TicketLifecycle` |
| Company sign-in (`application/company_signin.go`, `sqlite/company_identity_store.go`) | identities, sessions | callback: resolve, create or link, open a session | two first sign-ins; an account deleted or edited between the steps | the session of the linked account, of nobody who waits | `UserAccounts` |
| Passwords and sessions (`application/auth_service.go`, `password_*.go`, and their stores) | hashes, reset links, sessions, the sign-in switch | login, change, administrator change, request and redeem a link | slow hashing between read and write; two redemptions; throttle | no password replaced on a stale proof; one current link | `Credentials` |
| OAuth (`application/oauth.go`, `sqlite/oauth_store.go`, `instance_settings_store.go`) | clients, codes, grants, token pairs, the MCP switch | register, prune, approve, exchange, refresh, revoke | single use under concurrency; lost answers; pruning | one grant per code, one live refresh token; what was revoked stays revoked | `OAuthGrants` |
| Catalog (`domain/catalog_tree.go`, `sqlite/folder_store.go`, `category_store.go`) | folder tree | create, move, delete | stale folder written back | a forest at all times | not modelled |
| Settings, views, search, metrics, suggestions, HTTP, i18n, migrations | - | reads, single-row writes, rendering | - | not about interleaving | not modelled |

Components interact through the database only: a ticket change commits its notifications and their
pending delivery rows in its own transaction, the email sender finds them later; a downgrade rewrites
tickets in its transaction; a workflow plan and a manual change meet on the ticket row; a new ticket pins a
published version; the deactivation of a person revokes their grants, and their
sessions are refused when they are used.

## Modules

Each module of a component has an `MC...` module and configurations that give its constants values. Definitions
whose comment starts with "Fault:" are what a slip in the code would make of the definition after
them; no specification uses them. They show that the properties can fail.

### Tickets: `TicketLifecycle`

One ticket, because no transaction of the modelled operations reads another
ticket except to count loads. Its variables are the stored columns (`ticket`, `hold`, `due`, `run`), what the
audit and answer rows add up to (`trail`, `completed`), the people with an agent role (`staff`), and per
request what it read and decided (`request`). Every operation is a `Begin...` action, the application half
reading and deciding, and a `Commit...` action, the store half:

| Action | Code |
|---|---|
| `Init` | `CreateTicketWithRun` after `PlanInitialAutomatic` |
| `BeginAssign`, `BeginTransition`, `BeginPutOnHold`, `BeginResume`, `BeginConfirm`, `BeginReject`, `BeginUpdate` | the methods of `TicketService` |
| `BeginReply` | `CommentService.AddWithAttachments` when the comment ends a hold |
| `BeginExpire` | `HoldExpiryService.Pass` finding an expired hold |
| `BeginCompleteStep`, `LoadRun` | `GetWorkflowExecution` (two queries), `WorkflowRunner.PlanComplete` |
| `LoadSLA` | `SLAService.ShiftForHold`, a read of its own |
| `CommitUpdate` | `unitOfWork.Update`: the whole row, refused only for a terminal row over a stored hold |
| `CommitHold` | `unitOfWork.UpdateHold` and the resume half of `commentUnitOfWork.Add`: compare and set |
| `CommitPlan` | `ApplyWorkflowPlan`: rechecks, operations, cursor compare-and-set |
| `Downgrade` | `userStore.DowngradeToUser` |
| `Abandon` | an error, a cancelled request or a crash between the halves: nothing was written |

Abstractions: actors are administrators, so that every operation is open to them (a narrower scope only
removes behaviours); the fields an edit can change are one `title`; categories, followers, notifications
and ordinary comments are left out; which member a least-loaded step picks is any member of the staff;
the working calendar always works, so a shift adds the pause; instants are whole ticks, as the stored
timestamps are whole seconds. Values a finished request leaves behind are erased. Staff shrink by
downgrades only: a deactivation through `UpdateManagedUser` leaves tickets where they are and is not an action,
so `WorkStaysWithStaff` says nothing of it.

### Email: `EmailOutbox` and `EmailDelivery`

The outbox table, any number of server processes over one database, and a mail
server that may accept, refuse, or fall silent with or without having accepted. Instants are kept as the
ticks until a row is due. `EmailDelivery` is the abstract specification: an outcome per email, recorded once
and true to what reached the recipient, and at most one copy. `EmailOutbox` implements it with
`outcome` read off the row status and `copies` the copies accepted.

| Action | Code |
|---|---|
| `Notify`, `Cascade` | `appendNotificationsTx`; a deleted notification leaves its row, which has no foreign key |
| `BeginPass`, `SkipPending`, `ClaimDue` | `Pass` and the two store calls it starts with |
| `Compose`, `Send`, `Settle` | `compose`, `SMTPMailer.Send`, `failAttempt` and the `Mark...`/`Reschedule` statements |
| `FailPass` | an error of those two store calls |
| `Stop`, `Start` | crash or shutdown; `Recover` at startup |

Whether a recipient may still be mailed is a free choice at compose time; the message itself is left out. A
pass reads the clock just before it claims; the model reads it in the claim.

### Background passes: `BackgroundPasses`

The passes of `HoldExpiryService` and `AlertService` over several tickets on which people go on working. A
pass takes one clock snapshot, reads a page of ids above the last one, and judges its tickets one by one, each
in a transaction of its own; passes of two processes may overlap. A row keeps what the passes judge by:
whether it is open, since when it is held, the newest activity, and the due instant. The unit of time is a
working day.

| Action | Code |
|---|---|
| `StartHoldPass`, `ListHeld` | `Pass` on its ticker, `HeldTickets` |
| `CloseExpired` | `close` with the hold compare-and-set of `UpdateHold` |
| `NotDue`, `CheckReminder`, `Remind`, `RequesterUnreachable` | `remind`: the check outside, the write inside |
| `StartAlertPass`, `ListCandidates`, `ReadFacts` | `AlertCandidates` and the queries of a page after it |
| `AlertBreach`, `AlertNoMovement`, `AssigneeUnreachable` | one alert each, looked for and written by `AppendAlert` |
| `AbortHoldPass`, `AbortAlertPass` | any error, or the end of the process |
| `PutOnHold`, `EndHold`, `Work`, `Resolve` | what people do meanwhile, one committed change each |

Abstractions: the four SLA kinds are one condition, the breach of the resolution target; the several queries of
a page's facts are one read after the read of its rows, with the newest activity that of either instant; the
unlocked look for an earlier alert is left out, because `AppendAlert` looks again; closed tickets stay
closed, and the auto-close window is not switched off.

### Workflow authoring: `WorkflowAuthoring` and `VersionedDraft`

Categories, the draft and revision of each, immutable versions, the tickets that pin one, desks and their
members, and the builder pages (`tab`) of administrators with the revision they were rendered with. A
definition is the set of desks it names and whether it is complete enough to publish.

| Action | Code |
|---|---|
| `OpenBuilder`, `CloseBuilder` | rendering a builder page; leaving it |
| `SaveDraft`, `Publish` | `SaveDraftIfRevision`, `PublishAtRevision`: the revision compared in the transaction |
| `StartClone`, `ReadCloneTarget`, `WriteClone` | `WorkflowService.Clone`: source, target revision, guarded write |
| `StartTicket`, `CreateTicket`, `RouteTicket` | the version read at creation and pinned; routing to a desk afterwards |
| `DeleteCategory`, `CreateDesk`, `DeleteDesk` | `categoryStore.Delete`, `deskStore` with the references its transaction looks for |
| `StartMember`, `InsertMember`, `RemoveMember`, `Downgrade`, `Promote`, `SwitchActive` | desk membership against roles |

Every page carries the revision it was rendered with, as the pages of the builder do. A `select_step` request that
names no revision, which only a crafted or an old page sends, is rendered with its own draft and the stored
revision (`handlers_category_workflows.go:171-190`); no page of the model comes about that way.

`VersionedDraft` is what authoring promises, without revisions: a document is replaced only by an editor who was
looking at what it holds, and what was published stays. `DraftsImplemented` is the refinement.

### Accounts and company sign-in: `UserAccounts`

Accounts with role, address and state, the `role_changes` rows of each (`trail`), the provider identities and
the sessions a company sign-in opened. Requests of administrators read the actor, then the target, then write;
a sign-in resolves the identity, then the address, then creates or links, then opens a session. Every step
is its own statement or transaction.

| Action | Code |
|---|---|
| `BootstrapRoot`, `RecoverRoot` | first-user setup; `-recover-root` |
| `ReadActor`, `ReadTarget` | the session middleware and `requireCapability`; `managedUserTarget` |
| `CreateUser`, `CommitUpdate`, `CommitDelete` | `Create`, `UpdateManagedUser`/`DowngradeToUser`, `Delete` |
| `ApprovePending`, `RejectPending` | the batch forms of `pending_users.go` |
| `Callback`, `ResolveIdentity`, `ResolveEmail` | `Complete`, `resolveAccountOnce` |
| `CreateAccount`, `LinkIdentity`, `OpenSession` | `CreateUserWithIdentity`, `LinkIdentity`, `newSession`; a lost race starts over once |

Account numbers are never reused. A delete that a ticket or comment refuses is an abandoned request.

### Passwords, links and sessions: `Credentials`

A password is verified against a row read before the hash was computed, so every request is a read and a
write. Each password an account gets is a new hash, named by its number. The history of a link keeps which
password it was issued against (`replaces`), which the code does not store and the properties need.

| Action | Code |
|---|---|
| `Login`, `OpenSession`, `EndSession` | `AuthService.Login`, `sessionStore.Create`; logout, expiry |
| `BeginOwnChange`, `VerifyOwnPassword`, `CommitOwnChange` | `UserService.ChangeOwnPassword` and the guarded write of `password_change_store.go` |
| `BeginSetPassword`, `CommitSetPassword` | an administrator's change |
| `BeginReset`, `CheckThrottle`, `Issue`, `BeginRedeem`, `Redeem` | `PasswordResetService` and its store |
| `SwitchActive`, `DeleteUser`, `SwitchPasswordSignIn` | what happens to accounts and the switch meanwhile |

### Connected applications: `OAuthGrants`

Clients, authorization codes, grants and the pairs of access and refresh token of each, the instance address and
the MCP switch. Approval, exchange, refresh and enabling are requests whose reads come before their
writes, and any of them may end anywhere.

| Action | Code |
|---|---|
| `RegisterClient` | registration, which prunes abandoned clients first |
| `BeginApprove`, `CreateCode` | the consent page and its submission |
| `ConsumeCode`, `ReplayCode`, `CheckCode`, `CreateGrant` | `exchangeCode`: the code is consumed in one transaction, the grant created in another |
| `BeginRefresh`, `Rotate`, `ReplayRefresh` | `OAuthService.refresh`: the rotation consumes the token by its own `WHERE` |
| `RevokeGrant`, `SetActive` | revocation by the person; the trigger on deactivation |
| `SetInstanceAddress`, `BeginEnable`, `EnableMCP`, `DisableMCP` | the instance settings |

`replays` remembers which codes and tokens were presented again, for `ReplayEndsTheGrant`.

## Runs

| Run | Bounds | What it shows |
|---|---|---|
| `serial` | 1 request, 2 agents, 2 titles, clock to 2 | one at a time, every operation makes only moves of the transition table (`StateMovesLegal`) and its audit events add up to the row (`TrailFaithful`) |
| `races` | 2 requests, 1 agent, all operations but downgrade, clock to 2 | no ended ticket on hold and no run outlives its ticket or its detachment (`EndedAtRest`); stamps; each step once; hold timeline; runs only advance; the deadline moves only with the end of a hold and by its pause, stale reads included, but for holds of the same second (`DeadlineMovesByThePause`) |
| `downgrade` | 2 requests, 2 agents, a workflow that routes at creation and behind a claim, with a form that assigns nobody | open tickets are handed off and completions leave staff or nobody (`WorkStaysWithStaff`) |
| `retries` | 1 email, 2 processes, 2 retries, 3 stops, every store call may fail | one holder per email, retries bounded and spaced, `EmailDelivery` implemented |
| `settle` | 2 emails, 1 process, batches of one, 1 retry, 1 stop, composing may fail | every email settles |
| `passes` | an expiry pass over two tickets in pages of one, with two changes; two overlapping alert passes over one ticket; one pass of each kind over one ticket; an alert pass over two pages; clock to 3 | one alert per breach and per period of silence; what the expiry pass does it does to a hold that lasts; every hold that ran out ends |
| `consent` | 2 requests, 2 clients, 1 person, 1 code, 3 token pairs, clock to 3 | codes and refresh tokens work once, a replay ends the grant, revocation is final, clients of grants are kept, a usable token is listed, the switch has its address |
| `authoring` | 2 tabs, 2 categories, 1 desk, 1 person, 2 revisions, 2 versions | `VersionedDraft` implemented; versions numbered; references hold; members are staff |
| `accounts` | 2 requests, 3 accounts, 3 addresses, 1 subject, 2 role changes per account | role trails chain, admins are root's to change, company sessions belong to the linked account |
| `credentials` | 2 requests, root and one person, 2 links, 1 session, 3 passwords, clock to 1 | no password replaced on a stale proof; one pending link, against the current password; one's own change keeps one's session |
| `stale_state` | 2 requests | refutes the claim that the transition table governs the stored state |
| `stranded` | 1 email, a settlement may fail | refutes that a claimed row is always settled |

Why the bounds suffice. Two requests are enough for a race over one row, and each module's requests are
written so that two can be at any two of their steps. A clock of two ticks separates a hold that
spans an instant from one that does not, and makes the hold expire. The workflow of `races` has a claim, a
manual task and a terminal step, so that a completion may stop, continue, and end the run. Two
processes are an old and a new server; two retries tell an attempt counter that is stored from one that is
not. Pages of one ticket make every second ticket a new page. Three clock ticks of `passes` are the window of a
hold plus one, and of `consent` the lifetime of a refresh token plus one. Two links are one that is redeemed and
one issued meanwhile; the second category is what a clone is copied to; three accounts are
an actor, a target and the newcomer of a sign-in. Bounds of the models that are not of the code: `MaxClock`,
`MaxTime`, `MaxStops`, `MaxOverdue` (how far overdue rows are told apart for the claim order), `MaxPairs`,
`MaxRevision`, `MaxVersions`, `MaxChanges`, `MaxPassword`, and what a scenario of `passes` allows.

Deadlock checking is off where the system may rest: a cancelled ticket with no request in flight and a
clock at its bound, an instance on which every bounded change has been used up. It is on for the outbox,
whose sender never rests.

Fairness. `FairOutboxSpec` assumes that a sender with a next step takes it (`Run` loops on a ticker and
every step is bounded by a timeout), that time passes, and that a stopped process is started again
(`docker-compose.yml`, `restart: unless-stopped`). Notifications, deletions and switching email on and off
are not fair. `settle` also needs settlements and recoveries whose writes succeed: `stranded` shows why. In
`BackgroundPasses`, `PassFairness` says that the ticker starts pass after pass (weak fairness) and that a read of
a page, or the handling of one ticket, that is tried again and again succeeds at last (strong fairness, because a
failure aborts the pass and the next one starts over). Alert passes, people and the clock are not fair; a hold is
overdue by the clock as it stands.

## What the checks found

The two refuting runs are listed under `findings` with the line each refutes:

* `stale_state`: an edit reads the ticket when new; another request moves it on; the edit writes the whole
  row back, and a resolved, closed or even cancelled ticket is new again. Nothing in `unitOfWork.Update` compares the
  row with the one read. The same write loses columns without an audit event, so `TrailFaithful` holds
  in `serial` only. `MovesLegalUnlessStale` and `TrailCompleteUnlessStale` prove that such a write is the only way.
* `stranded`: a failed settlement write is logged and the row stays `sending` until the next start.

### Observed but not run

Seen while modelling, each a disagreement with a sentence of the code or its documents, or a gap nothing promises
to close. No run checks them; where a definition states the claim, it is named.

Tickets and email:

* A resume, reply or expiry reads a hold; it ends and another begins within the same second; the
  compare-and-set cannot tell them apart and ends the second (`HoldWriteMeetsTheHoldItRead`; this is the only way,
  by `HoldMetIsHoldRead`).
* Two resumes load the deadline, one of an earlier hold; the later writer puts the earlier value back, because the
  compare-and-set guards the hold and not the deadline (`DeadlineNeverEarlier`). It needs the same
  one-second resolution: any other end of a hold moves the deadline forward, by at most its pause
  (`DeadlinesMoveByThePause`).
* The role of an assignment's target is checked before the transaction, so somebody downgraded meanwhile is
  assigned (`AssignmentTargetOnStaff`; the only way, by `AssignmentsReachStaff`).
* A pass claims its whole batch first, so a restart fails emails nobody tried to send
  (`AbandonedWereBeingSent`).
* `GetWorkflowExecution` calls its separate queries a consistent read, which they are not, though the rechecks of
  `ApplyWorkflowPlan` refuse every plan that a torn snapshot could spoil.
* Unassigning an unassigned ticket is not the no-op its comment promises.
* A hand-off takes open tickets only, so a resolved ticket reopened later is open with somebody off the staff;
  the code does not say who should get it.

Background passes:

* Two processes may both remind of one hold: the check is outside the transaction (`hold_expiry.go:219`). A hold
  gets at most one reminder per process, by `RemindersBoundedByProcesses`.
* A ticket whose closing fails every time aborts every pass, and the holds after it never end
  (`hold_expiry.go:98`).
* The facts of an alert come from several statements, although the port says "read in a single statement": a read
  torn by a resume can announce a breach that never was, which no screen shows (`alerts.go:87`).
* A silence alert written at the instant of new activity suppresses the alert of the silence that follows.

Accounts and credentials:

* An administrator's edit carries the state its form was rendered with, and may reactivate an account
  deactivated meanwhile: only the role is compared. An administrator's password change compares not even the role.
* An API key created across a deactivation works after a reactivation, against "Reactivation revives no key".
* An address changed between `UsersByEmail` and `LinkIdentity` still gets the link.
* A session inserted by a login that was verified before a reset or a change survives it, although "using the link
  signs the account out everywhere". One opened by a login that read the password switch before it went off stays
  too, and an unused session survives deactivation and reactivation.
* The throttle of reset links is read outside the transaction that issues one, and a link voided by a password
  change resets it, against "one email per account every five minutes".

Connected applications, the builder and the catalog:

* A code presented again after its first exchange consumed it and before that exchange created the grant is
  refused, and the grant created afterwards is live (`EarlyReplayEndsTheGrant`).
* A person deactivated after an exchange checked them gets a grant the trigger could not revoke; it works once they
  are reactivated.
* A `select_step` request without a revision gets a page that shows its own draft under the current revision, so the
  next save from it replaces a draft its editor may not have seen (`handlers_category_workflows.go:171-190`).
* The edit of a category's text writes back the folder it read, over a concurrent move.

## Proofs

Every proof module extends its component's module and states its theorems for all values of the constants that
the component's named assumption allows. Each has the same shape: an inductive invariant, one lemma per action that
preserves it, a lemma for the helpers of rows and sequences, and the theorems.

| Module | Theorems | Inductive invariant, and why it is needed |
|---|---|---|
| `TicketLifecycleProofs` | types and all safety and action properties of `races` and `downgrade`, but for the deadline | `IInv`: a commit writes a row that was read and changed long ago, so what matters is what a request in flight carries. `RunSound` says that an active run has a step pending; `WorkSound`, of every request, that the row it will write has matching stamps, leaves the workflow only if the run is completed already, and that a hold change says what it does. The assumption on the workflow is used where an automatic advance ends the run: the cursor reaches the end exactly when a terminal step, being last, was taken. |
| `TicketOverlapProofs` | what overlapping requests can break, and under which condition they do not: `TrailFaithful`, `StateMovesLegal`, and three claims no run checks (below); `DeadlineMovesByThePause`, under no condition | `FreshInv`: the row a request carries differs from the stored one only where its audit batch says so, by a move of the table. `HoldKnown`: a request that remembers the hold in force has read that hold, and the deadline it will write is not before the stored one. `PauseKnown`: a request that has seen the hold in force will write the stored deadline or one moved by at most the pause; the end of a hold leaves no such request, so this holds whatever overlaps. `TargetSound`: the target of an assignment in flight is on the staff. |
| `EmailOutboxProofs` | types, `NoSharedClaims`, `TriesBounded`, `RetriesWait`, the refinement of `EmailDelivery`; `ClaimsNeverStranded`, provided that settlements and recoveries are stored | `OutboxInv`: a claim in a sender's batch may have been failed by a restart or deleted with its notification, but nobody else sends it; until its own conversation no copy was accepted, and the attempts stored with it bound the tries. A batch names an email once, and batches of different senders name different ones. `ClaimsInHand` is inductive with it: a claimed row is in the batch of a running sender, or a process is down whose start will fail it. It is the safety half of `EmailsSettle`, and the proviso is the gap `stranded` shows. |
| `OAuthGrantsProofs` | types and all properties of `consent`; `EarlyReplayEndsTheGrant` under a condition (below) | `OAuthInv`: an exchange in flight carries a spent code without a grant, and no two carry one; the unspent refresh token of a grant is the youngest of its chain and is stored, so pruning cannot hide a usable grant; what was replayed stays revoked. `EarlyInv`: a code met again without a grant is spent and in no exchange, so no grant can come of it. |
| `WorkflowAuthoringProofs` | types, references, numbering, members, the refinement of `VersionedDraft` | `AuthInv` adds `PagesInv`: a page that carries the stored revision shows the stored draft. It makes a comparison of numbers a comparison of texts, which is what the refinement rests on. |
| `UserAccountsProofs` | types and all properties of `accounts` | `AccountsInv`: the actor of a request in flight was allowed to manage the role it read, and the account a sign-in is about to link or open existed and never waits for approval; identities move only from nobody to somebody, or away with their account. |
| `CredentialsProofs` | types and all properties of `credentials` | `CredInv` is inductive as it stands: whatever a request has read is compared again by the transaction that uses it. |
| `BackgroundPassesProofs` | types, `AlertedOncePerPeriod`; `ExpiryMeetsItsHold`, provided that no scenario runs two expiry processes; for any number of them, reminders that come when due, closings of holds that ran their window (`ExpiryActsInTime`), and at most one reminder per process (`RemindersBoundedByProcesses`) | `PassesInv`: the clock of a pass is not ahead of the clock, and the activity by which it judges a ticket is not later than the ticket's, so whatever alerts came before the silence it found are older than the last movement. `OneExpiry` adds that a pass about to remind has found no reminder and nobody else could write one; the proviso is the gap at `hold_expiry.go:219`. `RemindInv` says how wide it is: the reminders a hold got since it began, and the processes about to send it one, are together no more than the processes that are or were at it; TLC finds the bound reached with two. |

### What holds under a condition

Some claims fail because two requests overlap in one particular way. A run that refutes such a claim does not say
whether that way is the only one; these theorems do. Each condition is a property of behaviours, stated beside its
theorem, that the code does not enforce; TLC finds each claim violated without it, and the condition met by
executions in which requests overlap and the interesting step happens.

| Claim | Proved for every behaviour in which | Theorem |
|---|---|---|
| the events add up to the row (`TrailFaithful`), states move by the table (`StateMovesLegal`) | the ticket row does not change while a whole-row write (`unitOfWork.Update` or the hold changes) is in flight (`WritersUndisturbed`); completions of steps may overlap anything, because `ApplyWorkflowPlan` checks again | `TrailCompleteUnlessStale`, `MovesLegalUnlessStale` |
| the same | requests are served one at a time and downgrades come between them, which is what `serial` checks on an instance | `OneAtATimeTrail`, `OneAtATimeMoves` |
| a hold is ended only by a request that read it (`HoldWriteMeetsTheHoldItRead`), and the deadline never moves back (`DeadlineNeverEarlier`) | no hold begins in the second a request in flight remembers (`HoldsToldApart`) | `HoldMetIsHoldRead`, `DeadlinesNeverEarlier` |
| assignments reach staff (`AssignmentTargetOnStaff`) | nobody is downgraded while an assignment to them is in flight (`TargetsStayOnStaff`) | `AssignmentsReachStaff` |
| a code presented twice before its grant leaves no live grant (`EarlyReplayEndsTheGrant`) | the second presentation does not meet its exchange in flight (`ExchangesUndisturbed`) | `EarlyReplaysEndGrants` |

The compare-and-set on the hold would always protect the deadline, were its stamps finer than a second; and the
audit trail needs `Update` and `UpdateHold` to check that the row is still the one read, and nothing else.

### Model-checked only

Liveness (`EmailsSettle`, `ExpiredHoldsEnd`) is beyond the prover, as `ENABLED` is. That a bound is reached, or a
condition above needed, is a counterexample TLC found and not a theorem. No modelled definition is recursive: what
would recur over the steps of a workflow or the order of a batch is a set comprehension, so that it can be proved
about.

## Not modelled

* Catalog: each operation is one transaction that checks the folder tree it writes; its one stale write is above.
* The working calendar and the SLA policies: pure functions of time with tests of their own; the models count ticks.
* Who is notified of what, followers, comments that end no hold, attachments, preferences, canned replies, visits:
  independent rows, one statement each.
* Views, search, export, metrics, suggestions: read-only, or text scoring.
* API keys and MCP tools: checks within one request. Settings: single rows, last writer wins.
* The texts of a sign-in attempt, of OAuth redirects and verifiers: equality within one message.
* HTTP handlers, rendering, translation, migrations and start-up: no state of their own; start, stop and the background
  loops appear in `EmailOutbox` and `BackgroundPasses`.
