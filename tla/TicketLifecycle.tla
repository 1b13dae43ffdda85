-------------------------- MODULE TicketLifecycle --------------------------
(***************************************************************************)
(* One ticket of the help desk: its row, its pinned workflow run, its hold *)
(* and its resolution deadline, under concurrent requests.                 *)
(*                                                                         *)
(* Every mutation of the application runs in two halves.  The application  *)
(* half reads the ticket OUTSIDE any transaction, applies the domain rules *)
(* to that copy and reads the clock (the Begin... and Load... actions).    *)
(* The store half is one immediate SQLite transaction that writes what the *)
(* application half decided (the Commit... actions); SQLite serialises     *)
(* writers, so it is a single step.  Between the halves any other request  *)
(* may commit: what is checked at commit, and what is not, is the subject  *)
(* of this module.                                                         *)
(***************************************************************************)
EXTENDS Integers, Sequences, FiniteSets

CONSTANTS
    Requests,     \* concurrent requests (handler goroutines, background passes)
    Agents,       \* users who may hold the agent role
    NoOne,        \* the NULL assignee
    Titles,       \* the values of the fields an edit can change
    Workflow,     \* the steps of the pinned workflow version
    Operations,   \* the application operations requests may start
    MaxClock,     \* bound: the clock stops here
    HoldDays,     \* hold auto-close window, in clock ticks; 0 turns it off
    CreationDue   \* the resolution deadline frozen at creation

AutomaticSteps == {"least_loaded", "resolve", "close"}
HumanSteps     == {"claim", "requester_form", "manual_task"}
TerminalSteps  == {"resolve", "close"}

AllOperations == {"assign", "transition", "put_on_hold", "resume", "reply",
                  "confirm", "reject", "update", "complete_step", "expire",
                  "downgrade"}

ASSUME NoOneAssumption     == Agents # {} /\ NoOne \notin Agents
ASSUME TitlesAssumption    == Titles # {}
ASSUME WorkflowAssumption  ==
    /\ Workflow \in Seq(AutomaticSteps \cup HumanSteps)
    /\ Workflow # <<>>
    /\ \A i \in 1..Len(Workflow) :
          Workflow[i] \in TerminalSteps => i = Len(Workflow)
ASSUME OperationsAssumption == Operations \subseteq AllOperations
ASSUME BoundsAssumption    ==
    MaxClock \in Nat \ {0} /\ HoldDays \in Nat /\ CreationDue \in Nat

VARIABLES
    ticket,    \* the columns of tickets that updateTicketTx writes
    hold,      \* tickets.on_hold_since; 0 is NULL
    due,       \* ticket_sla.due_resolve_at
    run,       \* the ticket_workflow_runs row
    trail,     \* what the audit events of the ticket add up to
    completed, \* per step: completions recorded by audit and answer rows
    staff,     \* active users whose stored role is agent or above
    request,   \* per request: what it read and decided to write
    now,       \* the clock, in the resolution of the stored timestamps
    witnessed  \* auxiliary: requests whose read saw the hold now in force

vars == <<ticket, hold, due, run, trail, completed, staff, request, now,
          witnessed>>

(***************************************************************************)
(* The domain: states, moves, ticket rows.                                 *)
(***************************************************************************)
States       == {"new", "in_progress", "resolved", "closed", "cancelled"}
ClosedStates == {"resolved", "closed", "cancelled"}

IsClosed(s) == s \in ClosedStates

transitions ==
    [s \in States |->
        CASE s = "new"         -> {"in_progress", "resolved", "cancelled"}
          [] s = "in_progress" -> {"resolved", "cancelled"}
          [] s = "resolved"    -> {"closed", "in_progress"}
          [] s = "closed"      -> {"in_progress"}
          [] s = "cancelled"   -> {}]

Assignees == Agents \cup {NoOne}

\* resolvedAt and closedAt say whether the column is set; pinned whether
\* workflow_version_id is; requester whether the ticket has a requester.
Rows == [state : States, assignee : Assignees, title : Titles,
         pinned : BOOLEAN, requester : BOOLEAN,
         resolvedAt : BOOLEAN, closedAt : BOOLEAN]

\* Fault: any other state is reachable.
CanTransitionAnywhere(row, held, to) == to # row.state /\ ~(IsClosed(to) /\ held)

\* Ticket.Transition: legal on this row, which is on hold iff held.
CanTransition(row, held, to) ==
    /\ to \in transitions[row.state]
    /\ ~(IsClosed(to) /\ held)

\* Fault: reopening keeps the stamps.
TransitionedKeepingStamps(row, to) ==
    [row EXCEPT !.state = to, !.resolvedAt = @ \/ to = "resolved",
                !.closedAt = @ \/ to = "closed"]

\* The row Ticket.Transition leaves behind.
Transitioned(row, to) ==
    [row EXCEPT
        !.state = to,
        !.resolvedAt = (to = "resolved") \/ (@ /\ to # "in_progress"),
        !.closedAt   = (to = "closed")
                       \/ (@ /\ ~(to = "in_progress" /\ row.state = "closed"))]

\* resolved_at and closed_at are set in the states they stamp.
Stamped(row) ==
    /\ row.resolvedAt <=> row.state \in {"resolved", "closed"}
    /\ row.closedAt <=> row.state = "closed"

(***************************************************************************)
(* The workflow: positions are zero-based cursors into Workflow.           *)
(***************************************************************************)
Step(c) == Workflow[c + 1]

Cursors == 0..Len(Workflow)
Runs    == [cursor : Cursors, status : {"active", "completed"}]

\* The first position at or after c that is not an automatic assignment.
StopAt(c) ==
    c + Cardinality({k \in c..(Len(Workflow) - 1) :
                        \A i \in c..k : Step(i) = "least_loaded"})

Routes(c)  == StopAt(c) > c
EndsIn(c, steps) == StopAt(c) < Len(Workflow) /\ Step(StopAt(c)) \in steps

\* Fault: a terminal step moves the cursor past the end.
CursorPastEnd(c) ==
    IF EndsIn(c, TerminalSteps) THEN StopAt(c) + 2 ELSE StopAt(c)

\* advanceAutomatics: the cursor after every automatic step from c on.
CursorAfter(c) ==
    IF EndsIn(c, TerminalSteps) THEN Len(Workflow) ELSE StopAt(c)

RunAfter(c) ==
    [cursor |-> CursorAfter(c),
     status |-> IF CursorAfter(c) = Len(Workflow) THEN "completed" ELSE "active"]

\* Assigning a person to a new ticket moves it to in_progress in the same unit.
Routed(row, a) ==
    [row EXCEPT !.assignee = a,
                !.state = IF @ = "new" THEN "in_progress" ELSE @]

\* advanceAutomatics on an open row: least_loaded steps route it to a, a
\* terminal step resolves it, or resolves and closes it.
Advanced(row, c, a) ==
    LET routed   == IF Routes(c) THEN Routed(row, a) ELSE row
        resolved == Transitioned(routed, "resolved")
    IN  IF EndsIn(c, {"resolve"}) THEN resolved
        ELSE IF EndsIn(c, {"close"}) THEN Transitioned(resolved, "closed")
        ELSE routed

(***************************************************************************)
(* The audit trail, reduced to what a reader replaying it concludes.       *)
(***************************************************************************)
EventFields == {"state", "assignee", "title", "hold", "resume"}

Trails == [state : States, assignee : Assignees, title : Titles, held : BOOLEAN]

TrailOf(row, held) == [state |-> row.state, assignee |-> row.assignee,
                       title |-> row.title, held |-> held]

\* appendAuditEventsTx of a batch recording `fields` with row's new values.
Appended(fields, row) ==
    [state    |-> IF "state" \in fields THEN row.state ELSE trail.state,
     assignee |-> IF "assignee" \in fields THEN row.assignee ELSE trail.assignee,
     title    |-> IF "title" \in fields THEN row.title ELSE trail.title,
     held     |-> IF "hold" \in fields THEN TRUE
                  ELSE IF "resume" \in fields THEN FALSE ELSE trail.held]

(***************************************************************************)
(* Requests.                                                               *)
(***************************************************************************)
Clock == 0..MaxClock

\* kind     which unit-of-work method commits the request
\* row      the ticket row it will write (for a plan: the row it planned on)
\* expected the on_hold_since its read observed
\* hold     the on_hold_since it will write
\* fields   the audit events of its batch
\* at       the clock it read, until the deadline is shifted by it
\* due      the shifted deadline, once loaded
\* run      the run its plan was built on
Work == [pc : {"idle", "loading", "ready"},
         kind : {"none", "update", "hold", "plan"},
         row : Rows, expected : Clock, hold : Clock,
         fields : SUBSET EventFields, at : Clock, due : Nat, run : Runs]

Idle(r)  == request[r].pc = "idle"
Ready(r, kind) == request[r].pc = "ready" /\ request[r].kind = kind

\* A finished request keeps nothing of what it read.
NoWork(row) ==
    [pc |-> "idle", kind |-> "none", row |-> row, expected |-> 0, hold |-> 0,
     fields |-> {}, at |-> 0, due |-> 0,
     run |-> [cursor |-> 0, status |-> "active"]]

\* The state every freshly created ticket starts from, before its workflow ran.
NewRow(req) ==
    [state |-> "new", assignee |-> NoOne, title |-> CHOOSE t \in Titles : TRUE,
     pinned |-> TRUE, requester |-> req, resolvedAt |-> FALSE,
     closedAt |-> FALSE]

Store == <<ticket, hold, due, run, trail, completed, staff, now>>

Finish(r) ==
    /\ request' = [request EXCEPT ![r] = NoWork(NewRow(TRUE))]
    /\ witnessed' = witnessed \ {r}

(***************************************************************************)
(* CreateTicketWithRun commits the row, its run, its created event and its *)
(* frozen deadline at once, after the automatic steps the workflow starts  *)
(* with.                                                                   *)
(***************************************************************************)
Init ==
    /\ staff = Agents
    /\ \E req \in BOOLEAN, a \in Agents :
          ticket = Advanced(NewRow(req), 0, a)
    /\ run = RunAfter(0)
    /\ trail = TrailOf(ticket, FALSE)
    /\ completed = [c \in Cursors |-> 0]
    /\ hold = 0
    /\ due = CreationDue
    /\ now = 1
    /\ request = [r \in Requests |-> NoWork(NewRow(TRUE))]
    /\ witnessed = {}

Tick ==
    /\ now < MaxClock
    /\ now' = now + 1
    /\ UNCHANGED <<ticket, hold, due, run, trail, completed, staff, request,
                   witnessed>>

(***************************************************************************)
(* Application half: read, decide, remember.                               *)
(***************************************************************************)
Begin(r, op, work) ==
    /\ op \in Operations
    /\ Idle(r)
    /\ request' = [request EXCEPT ![r] = work]
    /\ witnessed' = IF work.expected # 0 THEN witnessed \cup {r} ELSE witnessed
    /\ UNCHANGED Store

\* A mutation that goes through unitOfWork.Update: the whole row it read,
\* with its own change in it.
ByUpdate(row, fields) ==
    [NoWork(row) EXCEPT !.pc = "ready", !.kind = "update", !.fields = fields]

\* A mutation that starts a hold, through unitOfWork.UpdateHold.
ByStartingHold ==
    [NoWork(ticket) EXCEPT !.pc = "ready", !.kind = "hold", !.hold = now,
                           !.fields = {"hold"}]

\* A mutation that ends the hold it read; it has the deadline still to load.
ByEndingHold(row, fields) ==
    [NoWork(row) EXCEPT !.pc = "loading", !.kind = "hold", !.expected = hold,
                        !.fields = fields \cup {"resume"}, !.at = now]

BeginAssign(r) ==
    \E a \in staff \cup {NoOne} :
        /\ ~IsClosed(ticket.state)
        /\ a = NoOne \/ a # ticket.assignee
        /\ Begin(r, "assign",
                 ByUpdate([ticket EXCEPT !.assignee = a], {"assignee"}))

\* A terminal move of a held ticket resumes it first, in the same write.
BeginTransition(r) ==
    \E to \in States :
        LET ends == hold # 0 /\ IsClosed(to)
            row  == Transitioned(ticket, to)
        IN  /\ ~(ticket.state = "resolved" /\ to = "closed" /\ ticket.requester)
            /\ CanTransition(ticket, hold # 0 /\ ~ends, to)
            /\ Begin(r, "transition",
                     IF ends THEN ByEndingHold(row, {"state"})
                             ELSE ByUpdate(row, {"state"}))

BeginPutOnHold(r) ==
    /\ ~IsClosed(ticket.state)
    /\ hold = 0
    /\ Begin(r, "put_on_hold", ByStartingHold)

BeginResume(r) ==
    /\ hold # 0
    /\ Begin(r, "resume", ByEndingHold(ticket, {}))

\* A public comment by the requester of a held ticket.
BeginReply(r) ==
    /\ hold # 0
    /\ ticket.requester
    /\ ~IsClosed(ticket.state) \/ ticket.state = "resolved"
    /\ Begin(r, "reply", ByEndingHold(ticket, {}))

BeginConfirm(r) ==
    /\ ticket.requester
    /\ CanTransition(ticket, hold # 0, "closed")
    /\ Begin(r, "confirm", ByUpdate(Transitioned(ticket, "closed"), {"state"}))

\* The rejected ticket leaves its workflow.
BeginReject(r) ==
    /\ ticket.requester
    /\ ticket.state = "resolved"
    /\ Begin(r, "reject",
             ByUpdate([Transitioned(ticket, "in_progress") EXCEPT
                          !.pinned = FALSE], {"state"}))

\* An edit that changes nothing still writes the row, without an event.
BeginUpdate(r) ==
    \E t \in Titles :
        /\ ~IsClosed(ticket.state)
        /\ Begin(r, "update",
                 ByUpdate([ticket EXCEPT !.title = t],
                          IF t = ticket.title THEN {} ELSE {"title"}))

\* The background pass found the hold past its deadline.
BeginExpire(r) ==
    /\ HoldDays > 0
    /\ hold # 0
    /\ ~IsClosed(ticket.state)
    /\ now >= hold + HoldDays
    /\ Begin(r, "expire",
             ByEndingHold(Transitioned(Transitioned(ticket, "resolved"),
                                       "closed"), {"state"}))

\* GetWorkflowExecution reads the ticket, then the run, in separate queries.
\* The run field only remembers, until LoadRun, what the run was then.
BeginCompleteStep(r) ==
    /\ ticket.pinned
    /\ Begin(r, "complete_step",
             [NoWork(ticket) EXCEPT !.pc = "loading", !.kind = "plan",
                                    !.expected = hold, !.run = run])

\* TicketSLA.ShiftResolveForHold with a calendar that always works: a
\* deadline already reached at the pause stays, none moves earlier.
ShiftedDue(d, pausedAt, resumedAt) ==
    IF d <= pausedAt \/ resumedAt <= pausedAt
    THEN d
    ELSE d + (resumedAt - pausedAt)

LoadSLA(r) ==
    LET w == request[r]
    IN  /\ w.pc = "loading" /\ w.kind = "hold"
        /\ request' = [request EXCEPT
                          ![r].pc  = "ready",
                          ![r].at  = 0,
                          ![r].due = ShiftedDue(due, w.expected, w.at)]
        /\ UNCHANGED <<Store, witnessed>>

\* WorkflowRunner.PlanComplete: the pending human step may complete on this
\* row, and no terminal step behind it meets a hold.
CanComplete(row, held, c) ==
    /\ c < Len(Workflow)
    /\ ~IsClosed(row.state)
    /\ Step(c) = "requester_form" => row.requester
    /\ Step(c) = "manual_task" => row.assignee # NoOne
    /\ ~(held /\ EndsIn(c + 1, TerminalSteps))

LoadRun(r) ==
    LET w == request[r]
    IN  /\ w.pc = "loading" /\ w.kind = "plan"
        /\ run.status = "active"
        /\ CanComplete(w.row, w.expected # 0, run.cursor)
        /\ request' = [request EXCEPT ![r].pc = "ready", ![r].run = run]
        /\ UNCHANGED <<Store, witnessed>>

\* The request fails, is cancelled, or dies with the process: nothing it
\* decided was written.
Abandon(r) ==
    /\ ~Idle(r)
    /\ Finish(r)
    /\ UNCHANGED Store

(***************************************************************************)
(* Store half: one transaction each.                                       *)
(***************************************************************************)

\* closeActiveRunTx, on every path that writes a terminal row.
ClosedRun(row) ==
    IF IsClosed(row.state) THEN [run EXCEPT !.status = "completed"] ELSE run

Refuse(r) == Finish(r) /\ UNCHANGED Store

\* Fault: the stored hold is not read.
CommitUpdateBehindHold(r) ==
    LET w == request[r]
    IN  /\ Ready(r, "update")
        /\ ticket' = w.row
        /\ run' = ClosedRun(w.row)
        /\ trail' = Appended(w.fields, w.row)
        /\ Finish(r)
        /\ UNCHANGED <<hold, due, completed, staff, now>>

\* unitOfWork.Update: the full row, whatever was committed since it was read.
\* Only a terminal row meeting a stored hold is refused.
CommitUpdate(r) ==
    LET w == request[r]
    IN  /\ Ready(r, "update")
        /\ IF IsClosed(w.row.state) /\ hold # 0
           THEN Refuse(r)
           ELSE /\ ticket' = w.row
                /\ run' = ClosedRun(w.row)
                /\ trail' = Appended(w.fields, w.row)
                /\ Finish(r)
                /\ UNCHANGED <<hold, due, completed, staff, now>>

\* Fault: a request that lost the race for the hold records its events.
CommitHoldRecordingLosers(r) ==
    LET w == request[r]
    IN  /\ Ready(r, "hold")
        /\ hold' = IF hold = w.expected THEN w.hold ELSE hold
        /\ ticket' = w.row
        /\ due' = IF hold = w.expected /\ w.hold = 0 THEN w.due ELSE due
        /\ run' = ClosedRun(w.row)
        /\ trail' = Appended(w.fields, w.row)
        /\ Finish(r)
        /\ UNCHANGED <<completed, staff, now>>

\* Fault: the compare-and-set asks only whether the ticket is on hold.
CommitHoldByPresence(r) ==
    LET w == request[r]
    IN  /\ Ready(r, "hold")
        /\ IF (hold # 0) # (w.expected # 0)
           THEN Refuse(r)
           ELSE /\ hold' = w.hold
                /\ ticket' = w.row
                /\ due' = IF w.hold = 0 THEN w.due ELSE due
                /\ run' = ClosedRun(w.row)
                /\ trail' = Appended(w.fields, w.row)
                /\ request' = [request EXCEPT ![r] = NoWork(NewRow(TRUE))]
                /\ witnessed' = {}
                /\ UNCHANGED <<completed, staff, now>>

\* unitOfWork.UpdateHold, and the resume half of commentUnitOfWork.Add: the
\* hold is compared and set, everything else is written as read.  A reply
\* whose hold is gone commits its comment alone.
CommitHold(r) ==
    LET w == request[r]
    IN  /\ Ready(r, "hold")
        /\ IF hold # w.expected
           THEN Refuse(r)
           ELSE /\ hold' = w.hold
                /\ ticket' = w.row
                /\ due' = IF w.hold = 0 THEN w.due ELSE due
                /\ run' = ClosedRun(w.row)
                /\ trail' = Appended(w.fields, w.row)
                /\ request' = [request EXCEPT ![r] = NoWork(NewRow(TRUE))]
                /\ witnessed' = {}
                /\ UNCHANGED <<completed, staff, now>>

\* Completing step c gives the ticket an assignee.
Assigns(c) == Step(c) = "claim" \/ Routes(c + 1)

\* Fault: the position of the run is not rechecked.
PlanAtAnyCursor(w) ==
    /\ ticket.pinned
    /\ ticket.requester = w.row.requester
    /\ ticket.assignee = w.row.assignee
    /\ run.status = "active"
    /\ ticket.state = w.row.state
    /\ ticket.assignee \in staff \cup {NoOne}
    /\ ~(hold # 0 /\ EndsIn(w.run.cursor + 1, TerminalSteps))
    /\ Assigns(w.run.cursor) => staff # {}

\* Fault: the run may have been completed by a closure.
PlanOnCompletedRun(w) ==
    /\ ticket.pinned
    /\ ticket.requester = w.row.requester
    /\ ticket.assignee = w.row.assignee
    /\ run.cursor = w.run.cursor
    /\ ticket.state = w.row.state
    /\ ticket.assignee \in staff \cup {NoOne}
    /\ ~(hold # 0 /\ EndsIn(w.run.cursor + 1, TerminalSteps))
    /\ Assigns(w.run.cursor) => staff # {}

\* Fault: the assignee's role is not rechecked.
PlanForAnyAssignee(w) ==
    /\ ticket.pinned
    /\ ticket.requester = w.row.requester
    /\ ticket.assignee = w.row.assignee
    /\ run.cursor = w.run.cursor /\ run.status = "active"
    /\ ticket.state = w.row.state
    /\ ~(hold # 0 /\ EndsIn(w.run.cursor + 1, TerminalSteps))
    /\ Assigns(w.run.cursor) => staff # {}

\* ApplyWorkflowPlan rechecks, in its transaction, the facts its plan was
\* built on; the hold is met by the simulated terminal transitions.
PlanStillHolds(w) ==
    /\ ticket.pinned
    /\ ticket.requester = w.row.requester
    /\ ticket.assignee = w.row.assignee
    /\ run.cursor = w.run.cursor /\ run.status = "active"
    /\ ticket.state = w.row.state
    /\ ticket.assignee \in staff \cup {NoOne}
    /\ ~(hold # 0 /\ EndsIn(w.run.cursor + 1, TerminalSteps))
    /\ Assigns(w.run.cursor) => staff # {}

\* The row that completing step c produces from the row read in the
\* transaction: claimant completes a claim, selected is least loaded.
Planned(c, claimant, selected) ==
    Advanced(IF Step(c) = "claim" THEN Routed(ticket, claimant) ELSE ticket,
             c + 1, selected)

\* Fault: a plan records its assignments but not its transitions.
PlanFieldsNoState(c, row) == IF Assigns(c) THEN {"assignee"} ELSE {}

PlanFields(c, row) ==
    (IF Assigns(c) THEN {"assignee"} ELSE {})
    \cup (IF row.state # ticket.state THEN {"state"} ELSE {})

ApplyPlan(r) ==
    LET c == request[r].run.cursor
    IN  \E claimant \in IF Step(c) = "claim" THEN staff ELSE {NoOne},
           selected \in IF Routes(c + 1) THEN staff ELSE {NoOne} :
            LET row == Planned(c, claimant, selected)
            IN  /\ ticket' = row
                /\ run' = RunAfter(c + 1)
                /\ trail' = Appended(PlanFields(c, row), row)
                /\ completed' = [completed EXCEPT ![c] = @ + 1]
                /\ Finish(r)
                /\ UNCHANGED <<hold, due, staff, now>>

CommitPlan(r) ==
    /\ Ready(r, "plan")
    /\ IF PlanStillHolds(request[r])
       THEN ApplyPlan(r)
       ELSE Refuse(r)

\* userStore.DowngradeToUser: the role flips and the open ticket is handed to
\* the least loaded member of its desk, or to nobody.
Downgrade(u) ==
    LET open == ticket.assignee = u /\ ~IsClosed(ticket.state)
    IN  /\ "downgrade" \in Operations
        /\ u \in staff
        /\ staff' = staff \ {u}
        /\ \E a \in (staff \ {u}) \cup {NoOne} :
              LET row == IF open THEN [ticket EXCEPT !.assignee = a] ELSE ticket
              IN  /\ ticket' = row
                  /\ trail' = IF open THEN Appended({"assignee"}, row) ELSE trail
        /\ UNCHANGED <<hold, due, run, completed, request, now, witnessed>>

Next ==
    \/ Tick
    \/ \E u \in Agents : Downgrade(u)
    \/ \E r \in Requests :
          \/ BeginAssign(r)
          \/ BeginTransition(r)
          \/ BeginPutOnHold(r)
          \/ BeginResume(r)
          \/ BeginReply(r)
          \/ BeginConfirm(r)
          \/ BeginReject(r)
          \/ BeginUpdate(r)
          \/ BeginExpire(r)
          \/ BeginCompleteStep(r)
          \/ LoadSLA(r)
          \/ LoadRun(r)
          \/ CommitUpdate(r)
          \/ CommitHold(r)
          \/ CommitPlan(r)
          \/ Abandon(r)

Spec == Init /\ [][Next]_vars

(***************************************************************************)
(* Properties that hold however requests interleave.                       *)
(***************************************************************************)

\* Every variable keeps its type: the row columns, the hold and the clock
\* within the bound, a run position inside the pinned workflow.
TypeOK ==
    /\ ticket \in Rows
    /\ hold \in Clock
    /\ due \in Nat
    /\ run \in Runs
    /\ trail \in Trails
    /\ completed \in [Cursors -> Nat]
    /\ staff \subseteq Agents
    /\ request \in [Requests -> Work]
    /\ now \in 1..MaxClock
    /\ witnessed \subseteq Requests

\* No resolved, closed or cancelled ticket is on hold, although the hold
\* columns and the state are written by different statements from different
\* reads (unitOfWork.Update refuses a terminal row over a stored hold,
\* UpdateHold compares and sets it).
TerminalNeverOnHold == IsClosed(ticket.state) => hold = 0

\* A ticket that left the open states keeps no active workflow run, on every
\* path that writes a terminal row (closeActiveRunTx, the final cursor write).
TerminalRunCompleted == IsClosed(ticket.state) => run.status = "completed"

\* A ticket the requester sent back out of its workflow has no active run:
\* no workflow step can target it (RejectResolution).
DetachedRunCompleted == ~ticket.pinned => run.status = "completed"

\* A ticket that ended, or left its workflow, leaves nothing going on: no
\* hold that could still expire and no run that could still complete a step.
EndedAtRest == TerminalNeverOnHold /\ TerminalRunCompleted /\ DetachedRunCompleted

\* resolved_at and closed_at are set exactly in the states they stamp, also
\* when a stale row overwrites a newer one.
StampsMatchState == Stamped(ticket)

\* The timeline never loses a hold: its hold and resume events always say
\* what on_hold_since says, whatever races for the hold (casTicketHoldTx).
HoldTrailFaithful == trail.held <=> hold # 0

\* No workflow step is completed twice, and none is completed ahead of the
\* cursor, however many requests planned the same step (applyCursorCAS).
StepsCompletedOnce ==
    \A c \in Cursors : completed[c] <= IF c < run.cursor THEN 1 ELSE 0

\* A run only moves forward, and a completed run never moves again, not even
\* when a stale write reopens or re-pins the ticket.
RunOnlyAdvances ==
    [][run' # run => /\ run.status = "active"
                     /\ run'.cursor >= run.cursor]_vars

\* The resolution deadline moves only with the end of a hold, and by no more
\* than the pause it made (in working time, ShiftedDue), although it was
\* shifted from a copy read before the transaction (ShiftForHold): the
\* compare-and-set of the hold answers for the deadline too
\* (casTicketHoldTx).  It cannot tell apart two holds that began in the same
\* second; there a stale deadline is written.
DeadlineMovesByThePause ==
    [][due' # due =>
          /\ hold # 0 /\ hold' = 0
          /\ \/ due' \in due..(due + (now - hold))
             \/ \E r \in Requests \ witnessed :
                   /\ ~Idle(r) /\ request'[r].pc = "idle"
                   /\ request[r].expected = hold]_vars

\* A downgrade leaves no open ticket with the person it takes off the staff
\* (userStore.DowngradeToUser).
DowngradeHandsOff ==
    [][\A u \in staff \ staff' :
          ticket'.assignee = u => IsClosed(ticket'.state)]_vars

\* A workflow completion never leaves the ticket with somebody off the staff,
\* even when a downgrade committed after the plan was built
\* (recheckApplyUsersTx, requireActiveAgentTx, leastLoadedAssigneeTx).
CompletionLeavesStaffAssignee ==
    [][completed' # completed =>
          ticket'.assignee \in staff \cup {NoOne}]_vars

\* Open work stays with staff: a downgrade hands it off, and no completion
\* planned before the downgrade hands it back.
WorkStaysWithStaff == DowngradeHandsOff /\ CompletionLeavesStaffAssignee

(***************************************************************************)
(* Properties of requests served one at a time.  The full-row write of a   *)
(* stale read breaks each of them as soon as two requests overlap.         *)
(***************************************************************************)

\* One commit may make two domain moves: resolve and close.
LegalMove(from, to) ==
    \/ to \in transitions[from]
    \/ to = "closed" /\ "resolved" \in transitions[from]

\* The stored state only ever makes the moves of the transition table, the
\* single source of truth for legal moves: cancelled is final, nothing
\* returns to new.
StateMovesLegal ==
    [][ticket'.state # ticket.state => LegalMove(ticket.state, ticket'.state)]_vars

\* No silent mutation: the audit events of a ticket add up to its row.
TrailFaithful == trail = TrailOf(ticket, hold # 0)

(***************************************************************************)
(* What a comment or document of the repository says and the code does not *)
(* keep; each is the single property of a run that refutes it.             *)
(***************************************************************************)

\* A hold write applies only against the hold its caller read.
HoldWriteMeetsTheHoldItRead ==
    [][hold # 0 /\ hold' = 0 =>
          \A r \in Requests :
             (~Idle(r) /\ request'[r].pc = "idle") => r \in witnessed]_vars

\* A resume never moves the resolution deadline earlier.
DeadlineNeverEarlier == [][due' >= due]_vars

\* The target of an assignment is an active agent-plus person.
AssignmentTargetOnStaff ==
    [][\A r \in Requests :
          (request[r].kind = "update" /\ request[r].fields = {"assignee"}
              /\ ticket' = request[r].row /\ ticket' # ticket)
          => ticket'.assignee \in staff \cup {NoOne}]_vars
=============================================================================
