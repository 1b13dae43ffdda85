----------------------- MODULE TicketLifecycleProofs -----------------------
(***************************************************************************)
(* The safety properties of TicketLifecycle for every set of requests, of  *)
(* agents and of titles, every workflow and every bound on the clock.      *)
(***************************************************************************)
EXTENDS TicketLifecycle, FiniteSetTheorems, TLAPS

(***************************************************************************)
(* Lemmas on the operators of the model.                                   *)
(***************************************************************************)

\* The automatic steps skipped from a cursor never lead out of the workflow.
LEMMA StopAtBounds ==
    ASSUME NEW c \in Cursors
    PROVE  StopAt(c) \in c..Len(Workflow)
<1> DEFINE rest  == c..(Len(Workflow) - 1)
           skips == {k \in rest : \A i \in c..k : Step(i) = "least_loaded"}
<1>1. Len(Workflow) \in Nat /\ c \in Nat /\ c <= Len(Workflow)
  BY WorkflowAssumption DEF Cursors
<1>2. IsFiniteSet(rest) /\ Cardinality(rest) = Len(Workflow) - c
  <2>1. /\ IsFiniteSet(rest)
        /\ Cardinality(rest) = IF c > Len(Workflow) - 1
                               THEN 0 ELSE (Len(Workflow) - 1) - c + 1
    BY <1>1, FS_Interval, c \in Int, Len(Workflow) - 1 \in Int
  <2> QED
    BY <1>1, <2>1
<1>3. Cardinality(skips) \in Nat /\ Cardinality(skips) <= Cardinality(rest)
  BY <1>2, FS_Subset, FS_CardinalityType, skips \subseteq rest
<1>4. StopAt(c) = c + Cardinality(skips)
  BY DEF StopAt
<1> QED
  BY <1>1, <1>2, <1>3, <1>4

\* A completed automatic walk ends at or past the cursor it started from,
\* inside the workflow.
LEMMA CursorAfterBounds ==
    ASSUME NEW c \in Cursors
    PROVE  CursorAfter(c) \in c..Len(Workflow)
<1>1. Len(Workflow) \in Nat /\ c \in Nat /\ c <= Len(Workflow)
  BY WorkflowAssumption DEF Cursors
<1> QED
  BY <1>1, StopAtBounds DEF CursorAfter

\* A domain move yields a row of the table.
LEMMA TransitionedType ==
    ASSUME NEW row \in Rows, NEW to \in States
    PROVE  /\ Transitioned(row, to) \in Rows
           /\ Transitioned(row, to).state = to
           /\ Transitioned(row, to).pinned = row.pinned
BY DEF Transitioned, Rows

\* A legal move of a stamped row yields a stamped row.
LEMMA TransitionedStamped ==
    ASSUME NEW row \in Rows, Stamped(row), NEW to \in transitions[row.state]
    PROVE  /\ to \in States
           /\ Stamped(Transitioned(row, to))
<1>1. row.state \in States
  BY DEF Rows
<1>2. to \in States
  BY <1>1 DEF transitions, States
<1>3. /\ to # "new"
      /\ to = "resolved"    => row.state \in {"new", "in_progress"}
      /\ to = "cancelled"   => row.state \in {"new", "in_progress"}
      /\ to = "closed"      => row.state = "resolved"
      /\ to = "in_progress" => row.state \in {"new", "resolved", "closed"}
  BY <1>1 DEF transitions, States
<1>4. /\ Transitioned(row, to).state = to
      /\ Transitioned(row, to).resolvedAt
            <=> to = "resolved" \/ (row.resolvedAt /\ to # "in_progress")
      /\ Transitioned(row, to).closedAt
            <=> to = "closed" \/ (row.closedAt
                  /\ ~(to = "in_progress" /\ row.state = "closed"))
  BY DEF Transitioned, Rows
<1>5. Stamped(Transitioned(row, to))
  BY <1>1, <1>2, <1>3, <1>4 DEF Stamped, States
<1> QED
  BY <1>2, <1>5

\* The automatic steps take an open, stamped row to a stamped row, which is
\* closed only by a terminal step.
LEMMA AdvancedSound ==
    ASSUME NEW row \in Rows, Stamped(row), ~IsClosed(row.state),
           NEW c \in Cursors, NEW a \in Assignees
    PROVE  /\ Advanced(row, c, a) \in Rows
           /\ Stamped(Advanced(row, c, a))
           /\ Advanced(row, c, a).pinned = row.pinned
           /\ IsClosed(Advanced(row, c, a).state) => EndsIn(c, TerminalSteps)
<1> DEFINE routed   == IF Routes(c) THEN Routed(row, a) ELSE row
           resolved == Transitioned(routed, "resolved")
<1>1. /\ routed \in Rows
      /\ Stamped(routed)
      /\ ~IsClosed(routed.state)
      /\ routed.pinned = row.pinned
      /\ routed.state \in {"new", "in_progress"}
  BY DEF Routed, Rows, Stamped, IsClosed, ClosedStates, States
<1>2. "resolved" \in transitions[routed.state]
  BY <1>1 DEF transitions, States
<1>3. /\ resolved \in Rows
      /\ Stamped(resolved)
      /\ resolved.state = "resolved"
      /\ resolved.pinned = row.pinned
  BY <1>1, <1>2, TransitionedStamped, TransitionedType
<1>4. "closed" \in transitions[resolved.state]
  BY <1>3 DEF transitions, States
<1>5. /\ Transitioned(resolved, "closed") \in Rows
      /\ Stamped(Transitioned(resolved, "closed"))
      /\ Transitioned(resolved, "closed").pinned = row.pinned
  BY <1>3, <1>4, TransitionedStamped, TransitionedType
<1>6. EndsIn(c, {"resolve"}) \/ EndsIn(c, {"close"}) => EndsIn(c, TerminalSteps)
  BY DEF EndsIn, TerminalSteps
<1>7. Advanced(row, c, a) =
        IF EndsIn(c, {"resolve"}) THEN resolved
        ELSE IF EndsIn(c, {"close"}) THEN Transitioned(resolved, "closed")
        ELSE routed
  BY DEF Advanced
<1> QED
  BY <1>1, <1>3, <1>5, <1>6, <1>7

\* The run after a completed walk: inside the workflow, completed exactly at
\* its end, and completed whenever the walk met a terminal step.
LEMMA RunAfterSound ==
    ASSUME NEW c \in Cursors
    PROVE  /\ RunAfter(c) \in Runs
           /\ RunAfter(c).cursor >= c
           /\ RunAfter(c).status = "active" => RunAfter(c).cursor < Len(Workflow)
           /\ EndsIn(c, TerminalSteps) => RunAfter(c).status = "completed"
<1>1. Len(Workflow) \in Nat /\ c \in Nat /\ c <= Len(Workflow)
  BY WorkflowAssumption DEF Cursors
<1>2. CursorAfter(c) \in c..Len(Workflow)
  BY CursorAfterBounds
<1>3. CursorAfter(c) \in Cursors
  BY <1>1, <1>2 DEF Cursors
<1>4. EndsIn(c, TerminalSteps) => CursorAfter(c) = Len(Workflow)
  BY DEF CursorAfter
<1> QED
  BY <1>1, <1>2, <1>3, <1>4 DEF RunAfter, Runs

\* A shifted deadline is a deadline.
LEMMA ShiftedDueType ==
    ASSUME NEW d \in Nat, NEW pausedAt \in Nat, NEW resumedAt \in Nat
    PROVE  ShiftedDue(d, pausedAt, resumedAt) \in Nat
BY DEF ShiftedDue

\* The row a new ticket starts from is an open, stamped row.
LEMMA NewRowSound ==
    ASSUME NEW req \in BOOLEAN
    PROVE  /\ NewRow(req) \in Rows
           /\ Stamped(NewRow(req))
           /\ ~IsClosed(NewRow(req).state)
           /\ NewRow(req).pinned
<1>1. (CHOOSE t \in Titles : TRUE) \in Titles
  BY TitlesAssumption
<1> QED
  BY <1>1 DEF NewRow, Rows, States, Assignees, Stamped, IsClosed, ClosedStates

\* What an idle request holds is well typed.
LEMMA NoWorkType ==
    ASSUME NEW row \in Rows
    PROVE  NoWork(row) \in Work
<1>1. 0 \in Clock /\ 0 \in Cursors
  BY BoundsAssumption, WorkflowAssumption DEF Clock, Cursors
<1> QED
  BY <1>1 DEF NoWork, Work, Runs

(***************************************************************************)
(* The inductive invariant.  The properties of the stored ticket are not   *)
(* inductive alone: a commit writes what its request decided earlier, so   *)
(* the invariant also says what every request in flight carries.           *)
(***************************************************************************)

\* What a request that writes a whole row carries, whatever committed since
\* it read: a stamped row, unpinned only if the run is already completed;
\* an update touches no hold; a hold change either ends the hold it read
\* and says so, or starts one on an open ticket and says so.
WorkSound(w) ==
    /\ w.kind \in {"update", "hold"} =>
          /\ Stamped(w.row)
          /\ ~w.row.pinned => run.status = "completed"
    /\ w.kind = "update" => "hold" \notin w.fields /\ "resume" \notin w.fields
    /\ (w.kind = "hold" /\ w.hold = 0) =>
          w.expected # 0 /\ "resume" \in w.fields /\ "hold" \notin w.fields
    /\ (w.kind = "hold" /\ w.hold # 0) =>
          w.expected = 0 /\ "hold" \in w.fields /\ ~IsClosed(w.row.state)

RunSound == run.status = "active" => run.cursor < Len(Workflow)

IInv ==
    /\ TypeOK
    /\ TerminalNeverOnHold
    /\ TerminalRunCompleted
    /\ DetachedRunCompleted
    /\ StampsMatchState
    /\ HoldTrailFaithful
    /\ StepsCompletedOnce
    /\ RunSound
    /\ \A r \in Requests : WorkSound(request[r])

\* The invariant holds of a freshly created ticket.
LEMMA InitSound == Init => IInv
<1> SUFFICES ASSUME Init PROVE IInv
  OBVIOUS
<1>1. PICK req \in BOOLEAN, a \in Agents : ticket = Advanced(NewRow(req), 0, a)
  BY DEF Init
<1>2. 0 \in Cursors /\ a \in Assignees
  BY WorkflowAssumption DEF Cursors, Assignees
<1>3. /\ ticket \in Rows
      /\ Stamped(ticket)
      /\ ticket.pinned
      /\ IsClosed(ticket.state) => EndsIn(0, TerminalSteps)
  BY <1>1, <1>2, NewRowSound, AdvancedSound
<1>4. /\ run \in Runs
      /\ run.status = "active" => run.cursor < Len(Workflow)
      /\ EndsIn(0, TerminalSteps) => run.status = "completed"
      /\ run.cursor \in Nat
  BY <1>2, RunAfterSound, WorkflowAssumption DEF Init, Runs, Cursors
<1>5. \A r \in Requests : request[r] = NoWork(NewRow(TRUE))
  BY DEF Init
<1>6. NoWork(NewRow(TRUE)) \in Work
  BY NewRowSound, NoWorkType
<1>7. trail \in Trails /\ ~trail.held
  <2>1. trail = [state |-> ticket.state, assignee |-> ticket.assignee,
                 title |-> ticket.title, held |-> FALSE]
    BY DEF Init, TrailOf
  <2> QED
    BY <1>3, <2>1 DEF Trails, Rows
<1>8. TypeOK
  <2>1. hold \in Clock /\ due \in Nat /\ now \in 1..MaxClock
    BY BoundsAssumption DEF Init, Clock
  <2>2. completed \in [Cursors -> Nat] /\ staff \subseteq Agents
        /\ witnessed \subseteq Requests
    BY DEF Init
  <2>3. request \in [Requests -> Work]
    BY <1>6 DEF Init
  <2> QED
    BY <1>3, <1>4, <1>7, <2>1, <2>2, <2>3 DEF TypeOK
<1>9. \A r \in Requests : WorkSound(request[r])
  BY <1>5 DEF WorkSound, NoWork
<1>10. StepsCompletedOnce
  BY <1>4 DEF Init, StepsCompletedOnce
<1>11. TerminalNeverOnHold /\ HoldTrailFaithful
  BY <1>7 DEF Init, TerminalNeverOnHold, HoldTrailFaithful
<1>12. TerminalRunCompleted /\ DetachedRunCompleted /\ StampsMatchState /\ RunSound
  BY <1>3, <1>4 DEF TerminalRunCompleted, DetachedRunCompleted,
                    StampsMatchState, RunSound
<1> QED
  BY <1>8, <1>9, <1>10, <1>11, <1>12 DEF IInv

\* A request that starts with sound work leaves the invariant in place.
LEMMA BeginSound ==
    ASSUME IInv, NEW r \in Requests, NEW op, NEW work \in Work,
           WorkSound(work), Begin(r, op, work)
    PROVE  IInv'
<1>1. UNCHANGED <<ticket, hold, due, run, trail, completed, staff, now>>
  BY DEF Begin, Store
<1>2. request' = [request EXCEPT ![r] = work]
  BY DEF Begin
<1>3. witnessed' \subseteq Requests
  BY DEF Begin, IInv, TypeOK
<1>4. TypeOK'
  BY <1>1, <1>2, <1>3 DEF IInv, TypeOK
<1>5. \A q \in Requests : WorkSound(request[q])'
  <2> TAKE q \in Requests
  <2>1. request'[q] = IF q = r THEN work ELSE request[q]
    BY <1>2 DEF IInv, TypeOK
  <2>2. WorkSound(request[q])
    BY DEF IInv
  <2> QED
    BY <2>1, <2>2, <1>1 DEF WorkSound
<1> QED
  BY <1>1, <1>4, <1>5
  DEF IInv, TerminalNeverOnHold, TerminalRunCompleted, DetachedRunCompleted,
      StampsMatchState, HoldTrailFaithful, StepsCompletedOnce, RunSound

\* Finishing a request, while the run at most completes, keeps the work of
\* every request sound.
LEMMA FinishSound ==
    ASSUME IInv, NEW r \in Requests,
           request' = [request EXCEPT ![r] = NoWork(NewRow(TRUE))],
           run.status = "completed" => run'.status = "completed"
    PROVE  /\ request' \in [Requests -> Work]
           /\ \A q \in Requests : WorkSound(request[q])'
<1>1. NoWork(NewRow(TRUE)) \in Work
  BY NewRowSound, NoWorkType
<1>2. request' \in [Requests -> Work]
  BY <1>1 DEF IInv, TypeOK
<1>3. ASSUME NEW q \in Requests
      PROVE  WorkSound(request[q])'
  <2>1. request'[q] = IF q = r THEN NoWork(NewRow(TRUE)) ELSE request[q]
    BY DEF IInv, TypeOK
  <2>2. CASE q = r
    BY <2>1, <2>2 DEF WorkSound, NoWork
  <2>3. CASE q # r
    <3>1. WorkSound(request[q]) /\ request'[q] = request[q]
      BY <2>1, <2>3 DEF IInv
    <3> QED
      BY <3>1 DEF WorkSound
  <2> QED
    BY <2>2, <2>3
<1> QED
  BY <1>2, <1>3

\* Closing the run with a closed row.
LEMMA ClosedRunSound ==
    ASSUME IInv, NEW row \in Rows
    PROVE  /\ ClosedRun(row) \in Runs
           /\ ClosedRun(row).cursor = run.cursor
           /\ IsClosed(row.state) => ClosedRun(row).status = "completed"
           /\ run.status = "completed" => ClosedRun(row) = run
           /\ ClosedRun(row).status = "active" => run.status = "active"
BY DEF ClosedRun, IInv, TypeOK, Runs

\* An audit batch keeps the trail typed, and touches the hold only if it
\* records it.
LEMMA AppendedSound ==
    ASSUME IInv, NEW fields \in SUBSET EventFields, NEW row \in Rows
    PROVE  /\ Appended(fields, row) \in Trails
           /\ "hold" \in fields => Appended(fields, row).held
           /\ "hold" \notin fields /\ "resume" \in fields =>
                 ~Appended(fields, row).held
           /\ "hold" \notin fields /\ "resume" \notin fields =>
                 Appended(fields, row).held = trail.held
BY DEF Appended, IInv, TypeOK, Trails, Rows

\* What the three shapes of whole-row work carry, built from a sound row.
LEMMA ByUpdateSound ==
    ASSUME IInv, NEW row \in Rows, Stamped(row),
           ~row.pinned => run.status = "completed",
           NEW fields \in SUBSET {"state", "assignee", "title"}
    PROVE  ByUpdate(row, fields) \in Work /\ WorkSound(ByUpdate(row, fields))
<1>1. NoWork(row) \in Work
  BY NoWorkType
<1>2. fields \subseteq EventFields
  BY DEF EventFields
<1>3. ByUpdate(row, fields) \in Work
  BY <1>1, <1>2 DEF ByUpdate, Work
<1>4. /\ ByUpdate(row, fields).kind = "update"
      /\ ByUpdate(row, fields).row = row
      /\ ByUpdate(row, fields).fields = fields
  BY DEF ByUpdate, NoWork
<1> QED
  BY <1>3, <1>4 DEF WorkSound

LEMMA ByEndingHoldSound ==
    ASSUME IInv, hold # 0, NEW row \in Rows, Stamped(row),
           ~row.pinned => run.status = "completed",
           NEW fields \in SUBSET {"state"}
    PROVE  /\ ByEndingHold(row, fields) \in Work
           /\ WorkSound(ByEndingHold(row, fields))
<1> DEFINE work == ByEndingHold(row, fields)
<1>1. NoWork(row) \in Work
  BY NoWorkType
<1>2. fields \cup {"resume"} \subseteq EventFields
  BY DEF EventFields
<1>3. hold \in Clock /\ now \in Clock
  BY BoundsAssumption DEF IInv, TypeOK, Clock
<1>4. work \in Work
  BY <1>1, <1>2, <1>3 DEF ByEndingHold, Work
<1>5. /\ work.kind = "hold"
      /\ work.row = row
      /\ work.hold = 0
      /\ work.expected = hold
      /\ work.fields = fields \cup {"resume"}
  BY DEF ByEndingHold, NoWork
<1> QED
  BY <1>4, <1>5 DEF WorkSound

LEMMA ByStartingHoldSound ==
    ASSUME IInv, ~IsClosed(ticket.state)
    PROVE  ByStartingHold \in Work /\ WorkSound(ByStartingHold)
<1>1. NoWork(ticket) \in Work
  BY NoWorkType DEF IInv, TypeOK
<1>2. now \in Clock /\ now # 0
  BY BoundsAssumption DEF IInv, TypeOK, Clock
<1>3. ByStartingHold \in Work
  BY <1>1, <1>2 DEF ByStartingHold, Work, EventFields
<1>4. /\ ByStartingHold.kind = "hold"
      /\ ByStartingHold.row = ticket
      /\ ByStartingHold.hold # 0
      /\ ByStartingHold.expected = 0
      /\ ByStartingHold.fields = {"hold"}
  BY <1>2 DEF ByStartingHold, NoWork
<1>5. Stamped(ticket) /\ (~ticket.pinned => run.status = "completed")
  BY DEF IInv, StampsMatchState, DetachedRunCompleted
<1> QED
  BY <1>3, <1>4, <1>5 DEF WorkSound

(***************************************************************************)
(* Each action preserves the invariant: the application half.              *)
(***************************************************************************)

LEMMA BeginAssignSound ==
    ASSUME IInv, NEW r \in Requests, BeginAssign(r)
    PROVE  IInv'
<1>1. PICK a \in staff \cup {NoOne} :
         Begin(r, "assign",
               ByUpdate([ticket EXCEPT !.assignee = a], {"assignee"}))
  BY DEF BeginAssign
<1> DEFINE row == [ticket EXCEPT !.assignee = a]
<1>2. ticket \in Rows /\ a \in Assignees
  BY DEF IInv, TypeOK, Assignees
<1>3. row \in Rows /\ row.state = ticket.state /\ row.pinned = ticket.pinned
      /\ row.resolvedAt = ticket.resolvedAt /\ row.closedAt = ticket.closedAt
  BY <1>2 DEF Rows
<1>4. Stamped(row) /\ (~row.pinned => run.status = "completed")
  BY <1>3 DEF IInv, StampsMatchState, Stamped, DetachedRunCompleted
<1> HIDE DEF row
<1>5. ByUpdate(row, {"assignee"}) \in Work /\ WorkSound(ByUpdate(row, {"assignee"}))
  BY <1>3, <1>4, ByUpdateSound
<1> QED
  BY <1>1, <1>5, BeginSound DEF row

LEMMA BeginTransitionSound ==
    ASSUME IInv, NEW r \in Requests, BeginTransition(r)
    PROVE  IInv'
<1>1. PICK to \in States :
        LET ends == hold # 0 /\ IsClosed(to)
            row  == Transitioned(ticket, to)
        IN  /\ CanTransition(ticket, hold # 0 /\ ~ends, to)
            /\ Begin(r, "transition",
                     IF ends THEN ByEndingHold(row, {"state"})
                             ELSE ByUpdate(row, {"state"}))
  BY DEF BeginTransition
<1> DEFINE row == Transitioned(ticket, to)
<1>2. ticket \in Rows /\ Stamped(ticket) /\ to \in transitions[ticket.state]
  BY <1>1 DEF IInv, TypeOK, StampsMatchState, CanTransition
<1>3. row \in Rows /\ Stamped(row) /\ row.pinned = ticket.pinned
  BY <1>2, TransitionedType, TransitionedStamped
<1>4. ~row.pinned => run.status = "completed"
  BY <1>3 DEF IInv, DetachedRunCompleted
<1> HIDE DEF row
<1>5. ByUpdate(row, {"state"}) \in Work /\ WorkSound(ByUpdate(row, {"state"}))
  BY <1>3, <1>4, ByUpdateSound
<1>6. hold # 0 => /\ ByEndingHold(row, {"state"}) \in Work
                  /\ WorkSound(ByEndingHold(row, {"state"}))
  BY <1>3, <1>4, ByEndingHoldSound
<1>7. CASE hold # 0 /\ IsClosed(to)
  BY <1>1, <1>6, <1>7, BeginSound DEF row
<1>8. CASE ~(hold # 0 /\ IsClosed(to))
  BY <1>1, <1>5, <1>8, BeginSound DEF row
<1> QED
  BY <1>7, <1>8

LEMMA BeginHoldSound ==
    ASSUME IInv, NEW r \in Requests,
           BeginPutOnHold(r) \/ BeginResume(r) \/ BeginReply(r)
    PROVE  IInv'
<1>1. ticket \in Rows /\ Stamped(ticket)
      /\ (~ticket.pinned => run.status = "completed")
  BY DEF IInv, TypeOK, StampsMatchState, DetachedRunCompleted
<1>2. CASE BeginPutOnHold(r)
  BY <1>2, ByStartingHoldSound, BeginSound DEF BeginPutOnHold
<1>3. CASE BeginResume(r) \/ BeginReply(r)
  <2>1. hold # 0 /\ \E op : Begin(r, op, ByEndingHold(ticket, {}))
    BY <1>3 DEF BeginResume, BeginReply
  <2>2. ByEndingHold(ticket, {}) \in Work /\ WorkSound(ByEndingHold(ticket, {}))
    BY <1>1, <2>1, ByEndingHoldSound
  <2> QED
    BY <2>1, <2>2, BeginSound
<1> QED
  BY <1>2, <1>3

LEMMA BeginConfirmSound ==
    ASSUME IInv, NEW r \in Requests, BeginConfirm(r)
    PROVE  IInv'
<1> DEFINE row == Transitioned(ticket, "closed")
<1>1. ticket \in Rows /\ Stamped(ticket) /\ "closed" \in transitions[ticket.state]
  BY DEF IInv, TypeOK, StampsMatchState, BeginConfirm, CanTransition
<1>2. row \in Rows /\ Stamped(row) /\ row.pinned = ticket.pinned
  BY <1>1, TransitionedType, TransitionedStamped
<1>3. ~row.pinned => run.status = "completed"
  BY <1>2 DEF IInv, DetachedRunCompleted
<1>4. Begin(r, "confirm", ByUpdate(row, {"state"}))
  BY DEF BeginConfirm
<1> HIDE DEF row
<1>5. ByUpdate(row, {"state"}) \in Work /\ WorkSound(ByUpdate(row, {"state"}))
  BY <1>2, <1>3, ByUpdateSound
<1> QED
  BY <1>4, <1>5, BeginSound

LEMMA BeginRejectSound ==
    ASSUME IInv, NEW r \in Requests, BeginReject(r)
    PROVE  IInv'
<1> DEFINE moved == Transitioned(ticket, "in_progress")
           row   == [moved EXCEPT !.pinned = FALSE]
<1>1. ticket \in Rows /\ Stamped(ticket) /\ ticket.state = "resolved"
  BY DEF IInv, TypeOK, StampsMatchState, BeginReject
<1>2. "in_progress" \in transitions[ticket.state]
  BY <1>1 DEF transitions, States
<1>3. moved \in Rows /\ Stamped(moved)
  BY <1>1, <1>2, TransitionedType, TransitionedStamped
<1> HIDE DEF moved
<1>4. row \in Rows /\ row.state = moved.state
      /\ row.resolvedAt = moved.resolvedAt /\ row.closedAt = moved.closedAt
  BY <1>3 DEF Rows
<1>5. Stamped(row)
  BY <1>3, <1>4 DEF Stamped
<1>6. run.status = "completed"
  BY <1>1 DEF IInv, TerminalRunCompleted, IsClosed, ClosedStates
<1>7. Begin(r, "reject", ByUpdate(row, {"state"}))
  BY DEF BeginReject, moved
<1> HIDE DEF row
<1>8. ByUpdate(row, {"state"}) \in Work /\ WorkSound(ByUpdate(row, {"state"}))
  BY <1>4, <1>5, <1>6, ByUpdateSound
<1> QED
  BY <1>7, <1>8, BeginSound

LEMMA BeginUpdateSound ==
    ASSUME IInv, NEW r \in Requests, BeginUpdate(r)
    PROVE  IInv'
<1>1. PICK t \in Titles :
         Begin(r, "update", ByUpdate([ticket EXCEPT !.title = t],
                                     IF t = ticket.title THEN {} ELSE {"title"}))
  BY DEF BeginUpdate
<1> DEFINE row    == [ticket EXCEPT !.title = t]
           fields == IF t = ticket.title THEN {} ELSE {"title"}
<1>2. row \in Rows /\ row.state = ticket.state /\ row.pinned = ticket.pinned
      /\ row.resolvedAt = ticket.resolvedAt /\ row.closedAt = ticket.closedAt
  BY DEF IInv, TypeOK, Rows
<1>3. Stamped(row) /\ (~row.pinned => run.status = "completed")
  BY <1>2 DEF IInv, StampsMatchState, Stamped, DetachedRunCompleted
<1>4. fields \in SUBSET {"state", "assignee", "title"}
  OBVIOUS
<1> HIDE DEF row, fields
<1>5. ByUpdate(row, fields) \in Work /\ WorkSound(ByUpdate(row, fields))
  BY <1>2, <1>3, <1>4, ByUpdateSound
<1> QED
  BY <1>1, <1>5, BeginSound DEF row, fields

LEMMA BeginExpireSound ==
    ASSUME IInv, NEW r \in Requests, BeginExpire(r)
    PROVE  IInv'
<1> DEFINE resolved == Transitioned(ticket, "resolved")
           row      == Transitioned(resolved, "closed")
<1>1. ticket \in Rows /\ Stamped(ticket) /\ hold # 0 /\ ~IsClosed(ticket.state)
  BY DEF IInv, TypeOK, StampsMatchState, BeginExpire
<1>2. "resolved" \in transitions[ticket.state]
  BY <1>1 DEF transitions, States, Rows, IsClosed, ClosedStates
<1>3. resolved \in Rows /\ Stamped(resolved) /\ resolved.state = "resolved"
      /\ resolved.pinned = ticket.pinned
  BY <1>1, <1>2, TransitionedType, TransitionedStamped
<1>4. "closed" \in transitions[resolved.state]
  BY <1>3 DEF transitions, States
<1> HIDE DEF resolved
<1>5. row \in Rows /\ Stamped(row) /\ row.pinned = resolved.pinned
  BY <1>3, <1>4, TransitionedType, TransitionedStamped
<1>6. ~row.pinned => run.status = "completed"
  BY <1>3, <1>5 DEF IInv, DetachedRunCompleted
<1>7. Begin(r, "expire", ByEndingHold(row, {"state"}))
  BY DEF BeginExpire, resolved
<1> HIDE DEF row
<1>8. ByEndingHold(row, {"state"}) \in Work /\ WorkSound(ByEndingHold(row, {"state"}))
  BY <1>1, <1>5, <1>6, ByEndingHoldSound
<1> QED
  BY <1>7, <1>8, BeginSound

LEMMA BeginCompleteStepSound ==
    ASSUME IInv, NEW r \in Requests, BeginCompleteStep(r)
    PROVE  IInv'
<1> DEFINE work == [NoWork(ticket) EXCEPT !.pc = "loading", !.kind = "plan",
                                          !.expected = hold, !.run = run]
<1>1. NoWork(ticket) \in Work
  BY NoWorkType DEF IInv, TypeOK
<1>2. work \in Work
  BY <1>1 DEF IInv, TypeOK, Work
<1>3. work.kind = "plan"
  BY DEF NoWork
<1>4. WorkSound(work)
  BY <1>3 DEF WorkSound
<1>5. Begin(r, "complete_step", work)
  BY DEF BeginCompleteStep
<1> HIDE DEF work
<1> QED
  BY <1>2, <1>4, <1>5, BeginSound

LEMMA LoadSLASound ==
    ASSUME IInv, NEW r \in Requests, LoadSLA(r)
    PROVE  IInv'
<1> DEFINE w    == request[r]
           work == [w EXCEPT !.pc = "ready", !.at = 0,
                             !.due = ShiftedDue(due, w.expected, w.at)]
<1>1. w \in Work /\ due \in Nat
  BY DEF IInv, TypeOK
<1>2. w.expected \in Nat /\ w.at \in Nat /\ 0 \in Clock
  BY <1>1, BoundsAssumption DEF Work, Clock
<1>3. ShiftedDue(due, w.expected, w.at) \in Nat
  BY <1>1, <1>2, ShiftedDueType
<1>4. work \in Work
  BY <1>1, <1>2, <1>3 DEF Work
<1>5. /\ work.kind = w.kind /\ work.row = w.row /\ work.fields = w.fields
      /\ work.hold = w.hold /\ work.expected = w.expected
  BY <1>1 DEF Work
<1>6. request' = [request EXCEPT ![r] = work]
  BY <1>1 DEF LoadSLA, IInv, TypeOK
<1>7. UNCHANGED <<ticket, hold, due, run, trail, completed, staff, now, witnessed>>
  BY DEF LoadSLA, Store
<1> HIDE DEF work
<1>8. TypeOK'
  BY <1>4, <1>6, <1>7 DEF IInv, TypeOK
<1>9. ASSUME NEW q \in Requests
      PROVE  WorkSound(request[q])'
  <2>1. WorkSound(request[q]) /\ WorkSound(request[r])
    BY DEF IInv
  <2>2. request'[q] = IF q = r THEN work ELSE request[q]
    BY <1>6 DEF IInv, TypeOK
  <2>3. CASE q = r
    BY <2>1, <2>2, <2>3, <1>5, <1>7 DEF WorkSound
  <2>4. CASE q # r
    BY <2>1, <2>2, <2>4, <1>7 DEF WorkSound
  <2> QED
    BY <2>3, <2>4
<1> QED
  BY <1>7, <1>8, <1>9
  DEF IInv, TerminalNeverOnHold, TerminalRunCompleted, DetachedRunCompleted,
      StampsMatchState, HoldTrailFaithful, StepsCompletedOnce, RunSound

LEMMA LoadRunSound ==
    ASSUME IInv, NEW r \in Requests, LoadRun(r)
    PROVE  IInv'
<1> DEFINE work == [request[r] EXCEPT !.pc = "ready", !.run = run]
<1>1. request[r] \in Work
  BY DEF IInv, TypeOK
<1>2. work \in Work /\ work.kind = "plan"
  BY <1>1 DEF LoadRun, IInv, TypeOK, Work
<1>3. request' = [request EXCEPT ![r] = work]
  BY <1>1 DEF LoadRun, IInv, TypeOK
<1>4. UNCHANGED <<ticket, hold, due, run, trail, completed, staff, now, witnessed>>
  BY DEF LoadRun, Store
<1> HIDE DEF work
<1>5. TypeOK'
  BY <1>2, <1>3, <1>4 DEF IInv, TypeOK
<1>6. ASSUME NEW q \in Requests
      PROVE  WorkSound(request[q])'
  <2>1. WorkSound(request[q])
    BY DEF IInv
  <2>2. request'[q] = IF q = r THEN work ELSE request[q]
    BY <1>3 DEF IInv, TypeOK
  <2> QED
    BY <2>1, <2>2, <1>2, <1>4 DEF WorkSound
<1> QED
  BY <1>4, <1>5, <1>6
  DEF IInv, TerminalNeverOnHold, TerminalRunCompleted, DetachedRunCompleted,
      StampsMatchState, HoldTrailFaithful, StepsCompletedOnce, RunSound

\* A request that ends without writing.
LEMMA RefuseSound ==
    ASSUME IInv, NEW r \in Requests, Refuse(r)
    PROVE  IInv'
<1>1. UNCHANGED <<ticket, hold, due, run, trail, completed, staff, now>>
  BY DEF Refuse, Store
<1>2. /\ request' = [request EXCEPT ![r] = NoWork(NewRow(TRUE))]
      /\ witnessed' \subseteq Requests
  BY DEF Refuse, Finish, IInv, TypeOK
<1>3. /\ request' \in [Requests -> Work]
      /\ \A q \in Requests : WorkSound(request[q])'
  BY <1>1, <1>2, FinishSound
<1>4. TypeOK'
  BY <1>1, <1>2, <1>3 DEF IInv, TypeOK
<1> QED
  BY <1>1, <1>3, <1>4
  DEF IInv, TerminalNeverOnHold, TerminalRunCompleted, DetachedRunCompleted,
      StampsMatchState, HoldTrailFaithful, StepsCompletedOnce, RunSound

(***************************************************************************)
(* Each action preserves the invariant: the store half.                    *)
(***************************************************************************)

LEMMA CommitUpdateSound ==
    ASSUME IInv, NEW r \in Requests, CommitUpdate(r)
    PROVE  IInv'
<1> DEFINE w == request[r]
<1>1. CASE IsClosed(w.row.state) /\ hold # 0
  BY <1>1, RefuseSound DEF CommitUpdate
<1>2. CASE ~(IsClosed(w.row.state) /\ hold # 0)
  <2>1. /\ w.kind = "update"
        /\ ticket' = w.row
        /\ run' = ClosedRun(w.row)
        /\ trail' = Appended(w.fields, w.row)
        /\ request' = [request EXCEPT ![r] = NoWork(NewRow(TRUE))]
        /\ witnessed' = witnessed \ {r}
        /\ UNCHANGED <<hold, due, completed, staff, now>>
    BY <1>2 DEF CommitUpdate, Ready, Finish
  <2>2. w.row \in Rows /\ w.fields \in SUBSET EventFields
    BY DEF IInv, TypeOK, Work
  <2>3. /\ Stamped(w.row)
        /\ ~w.row.pinned => run.status = "completed"
        /\ "hold" \notin w.fields /\ "resume" \notin w.fields
    BY <2>1 DEF IInv, WorkSound
  <2>4. /\ run' \in Runs
        /\ run'.cursor = run.cursor
        /\ IsClosed(w.row.state) => run'.status = "completed"
        /\ run.status = "completed" => run' = run
        /\ run'.status = "active" => run.status = "active"
    BY <2>1, <2>2, ClosedRunSound
  <2>5. trail' \in Trails /\ trail'.held = trail.held
    BY <2>1, <2>2, <2>3, AppendedSound
  <2>6. /\ request' \in [Requests -> Work]
        /\ \A q \in Requests : WorkSound(request[q])'
    BY <2>1, <2>4, FinishSound
  <2>7. TypeOK'
    BY <2>1, <2>2, <2>4, <2>5, <2>6 DEF IInv, TypeOK
  <2>8. TerminalNeverOnHold' /\ HoldTrailFaithful'
    BY <1>2, <2>1, <2>5 DEF IInv, TerminalNeverOnHold, HoldTrailFaithful
  <2>9. TerminalRunCompleted' /\ DetachedRunCompleted' /\ StampsMatchState'
    BY <2>1, <2>3, <2>4
    DEF TerminalRunCompleted, DetachedRunCompleted, StampsMatchState, Stamped
  <2>10. StepsCompletedOnce' /\ RunSound'
    BY <2>1, <2>4 DEF IInv, StepsCompletedOnce, RunSound
  <2> QED
    BY <2>6, <2>7, <2>8, <2>9, <2>10 DEF IInv
<1> QED
  BY <1>1, <1>2

LEMMA CommitHoldSound ==
    ASSUME IInv, NEW r \in Requests, CommitHold(r)
    PROVE  IInv'
<1> DEFINE w == request[r]
<1>1. CASE hold # w.expected
  BY <1>1, RefuseSound DEF CommitHold
<1>2. CASE hold = w.expected
  <2>1. /\ w.kind = "hold"
        /\ hold' = w.hold
        /\ ticket' = w.row
        /\ due' = IF w.hold = 0 THEN w.due ELSE due
        /\ run' = ClosedRun(w.row)
        /\ trail' = Appended(w.fields, w.row)
        /\ request' = [request EXCEPT ![r] = NoWork(NewRow(TRUE))]
        /\ witnessed' = {}
        /\ UNCHANGED <<completed, staff, now>>
    BY <1>2 DEF CommitHold, Ready
  <2>2. /\ w.row \in Rows /\ w.fields \in SUBSET EventFields
        /\ w.hold \in Clock /\ w.due \in Nat
    BY DEF IInv, TypeOK, Work
  <2>3. /\ Stamped(w.row)
        /\ ~w.row.pinned => run.status = "completed"
        /\ w.hold = 0 => "resume" \in w.fields /\ "hold" \notin w.fields
        /\ w.hold # 0 => "hold" \in w.fields /\ ~IsClosed(w.row.state)
    BY <2>1 DEF IInv, WorkSound
  <2>4. /\ run' \in Runs
        /\ run'.cursor = run.cursor
        /\ IsClosed(w.row.state) => run'.status = "completed"
        /\ run.status = "completed" => run' = run
        /\ run'.status = "active" => run.status = "active"
    BY <2>1, <2>2, ClosedRunSound
  <2>5. trail' \in Trails /\ (trail'.held <=> w.hold # 0)
    BY <2>1, <2>2, <2>3, AppendedSound
  <2>6. /\ request' \in [Requests -> Work]
        /\ \A q \in Requests : WorkSound(request[q])'
    BY <2>1, <2>4, FinishSound
  <2>7. TypeOK'
    BY <2>1, <2>2, <2>4, <2>5, <2>6 DEF IInv, TypeOK
  <2>8. TerminalNeverOnHold' /\ HoldTrailFaithful'
    BY <2>1, <2>3, <2>5 DEF TerminalNeverOnHold, HoldTrailFaithful
  <2>9. TerminalRunCompleted' /\ DetachedRunCompleted' /\ StampsMatchState'
    BY <2>1, <2>3, <2>4
    DEF TerminalRunCompleted, DetachedRunCompleted, StampsMatchState, Stamped
  <2>10. StepsCompletedOnce' /\ RunSound'
    BY <2>1, <2>4 DEF IInv, StepsCompletedOnce, RunSound
  <2> QED
    BY <2>6, <2>7, <2>8, <2>9, <2>10 DEF IInv
<1> QED
  BY <1>1, <1>2

\* Completing the step at a cursor inside the workflow yields a sound row,
\* which is closed only by a terminal step behind it.
LEMMA PlannedSound ==
    ASSUME NEW c \in Cursors, c < Len(Workflow), ticket \in Rows,
           Stamped(ticket), ~IsClosed(ticket.state),
           NEW claimant \in Assignees, NEW selected \in Assignees
    PROVE  /\ c + 1 \in Cursors
           /\ Planned(c, claimant, selected) \in Rows
           /\ Stamped(Planned(c, claimant, selected))
           /\ Planned(c, claimant, selected).pinned = ticket.pinned
           /\ IsClosed(Planned(c, claimant, selected).state) =>
                 EndsIn(c + 1, TerminalSteps)
<1> DEFINE row == IF Step(c) = "claim" THEN Routed(ticket, claimant) ELSE ticket
<1>1. c + 1 \in Cursors
  BY WorkflowAssumption DEF Cursors
<1>2. row \in Rows /\ Stamped(row) /\ ~IsClosed(row.state)
      /\ row.pinned = ticket.pinned
  BY DEF Routed, Rows, Stamped, IsClosed, ClosedStates, States
<1>3. Planned(c, claimant, selected) = Advanced(row, c + 1, selected)
  BY DEF Planned
<1> HIDE DEF row
<1> QED
  BY <1>1, <1>2, <1>3, AdvancedSound

LEMMA ApplyPlanSound ==
    ASSUME IInv, NEW r \in Requests, Ready(r, "plan"),
           PlanStillHolds(request[r]), ApplyPlan(r)
    PROVE  IInv'
<1> DEFINE c == request[r].run.cursor
<1>1. /\ ticket.pinned
      /\ run.cursor = c /\ run.status = "active"
      /\ ~(hold # 0 /\ EndsIn(c + 1, TerminalSteps))
  BY DEF PlanStillHolds
<1>2. /\ c \in Cursors /\ c < Len(Workflow)
      /\ ticket \in Rows /\ Stamped(ticket) /\ ~IsClosed(ticket.state)
  BY <1>1 DEF IInv, TypeOK, Runs, RunSound, StampsMatchState,
              TerminalRunCompleted
<1>3. PICK claimant \in Assignees, selected \in Assignees :
         LET row == Planned(c, claimant, selected)
         IN  /\ ticket' = row
             /\ run' = RunAfter(c + 1)
             /\ trail' = Appended(PlanFields(c, row), row)
             /\ completed' = [completed EXCEPT ![c] = @ + 1]
             /\ Finish(r)
             /\ UNCHANGED <<hold, due, staff, now>>
  BY DEF ApplyPlan, IInv, TypeOK, Assignees
<1> DEFINE row == Planned(c, claimant, selected)
<1> HIDE DEF c
<1>4. /\ c + 1 \in Cursors
      /\ row \in Rows /\ Stamped(row) /\ row.pinned
      /\ IsClosed(row.state) => EndsIn(c + 1, TerminalSteps)
  BY <1>1, <1>2, PlannedSound
<1> HIDE DEF row
<1>5. /\ ticket' = row
      /\ run' = RunAfter(c + 1)
      /\ trail' = Appended(PlanFields(c, row), row)
      /\ completed' = [completed EXCEPT ![c] = @ + 1]
      /\ request' = [request EXCEPT ![r] = NoWork(NewRow(TRUE))]
      /\ witnessed' = witnessed \ {r}
      /\ UNCHANGED <<hold, due, staff, now>>
  BY <1>3 DEF Finish, row
<1>6. /\ run' \in Runs
      /\ run'.cursor >= c + 1
      /\ run'.status = "active" => run'.cursor < Len(Workflow)
      /\ EndsIn(c + 1, TerminalSteps) => run'.status = "completed"
  BY <1>4, <1>5, RunAfterSound
<1>7. PlanFields(c, row) \in SUBSET EventFields
      /\ "hold" \notin PlanFields(c, row) /\ "resume" \notin PlanFields(c, row)
  BY DEF PlanFields, EventFields
<1>8. trail' \in Trails /\ trail'.held = trail.held
  BY <1>4, <1>5, <1>7, AppendedSound
<1>9. /\ request' \in [Requests -> Work]
      /\ \A q \in Requests : WorkSound(request[q])'
  BY <1>1, <1>5, FinishSound
<1>10. completed' \in [Cursors -> Nat]
  BY <1>2, <1>5 DEF IInv, TypeOK
<1>11. TypeOK'
  BY <1>4, <1>5, <1>6, <1>8, <1>9, <1>10 DEF IInv, TypeOK
<1>12. TerminalNeverOnHold' /\ HoldTrailFaithful'
  BY <1>1, <1>4, <1>5, <1>8 DEF IInv, TerminalNeverOnHold, HoldTrailFaithful
<1>13. TerminalRunCompleted' /\ DetachedRunCompleted' /\ StampsMatchState'
  BY <1>4, <1>5, <1>6
  DEF TerminalRunCompleted, DetachedRunCompleted, StampsMatchState, Stamped
<1>14. StepsCompletedOnce'
  <2> SUFFICES ASSUME NEW d \in Cursors
               PROVE  completed'[d] <= IF d < run'.cursor THEN 1 ELSE 0
    BY DEF StepsCompletedOnce
  <2>1. completed[d] <= (IF d < c THEN 1 ELSE 0) /\ completed[d] \in Nat
    BY <1>1 DEF IInv, TypeOK, StepsCompletedOnce
  <2>2. completed'[d] = IF d = c THEN completed[d] + 1 ELSE completed[d]
    BY <1>2, <1>5 DEF IInv, TypeOK
  <2>3. d \in Nat /\ c \in Nat /\ run'.cursor \in Nat
    BY <1>2, <1>6, WorkflowAssumption DEF Cursors, Runs
  <2> QED
    BY <2>1, <2>2, <2>3, <1>6
<1>15. RunSound'
  BY <1>6 DEF RunSound
<1> QED
  BY <1>9, <1>11, <1>12, <1>13, <1>14, <1>15 DEF IInv

LEMMA CommitPlanSound ==
    ASSUME IInv, NEW r \in Requests, CommitPlan(r)
    PROVE  IInv'
<1>1. CASE PlanStillHolds(request[r])
  BY <1>1, ApplyPlanSound DEF CommitPlan
<1>2. CASE ~PlanStillHolds(request[r])
  BY <1>2, RefuseSound DEF CommitPlan
<1> QED
  BY <1>1, <1>2

LEMMA DowngradeSound ==
    ASSUME IInv, NEW u \in Agents, Downgrade(u)
    PROVE  IInv'
<1> DEFINE open == ticket.assignee = u /\ ~IsClosed(ticket.state)
<1>1. PICK a \in (staff \ {u}) \cup {NoOne} :
         LET row == IF open THEN [ticket EXCEPT !.assignee = a] ELSE ticket
         IN  /\ ticket' = row
             /\ trail' = IF open THEN Appended({"assignee"}, row) ELSE trail
  BY DEF Downgrade
<1> DEFINE row == IF open THEN [ticket EXCEPT !.assignee = a] ELSE ticket
<1>2. /\ row \in Rows /\ row.state = ticket.state /\ row.pinned = ticket.pinned
      /\ row.resolvedAt = ticket.resolvedAt /\ row.closedAt = ticket.closedAt
  BY DEF IInv, TypeOK, Rows, Assignees
<1> HIDE DEF row
<1>3. /\ UNCHANGED <<hold, due, run, completed, request, now, witnessed>>
      /\ staff' \subseteq Agents
  BY DEF Downgrade, IInv, TypeOK
<1>4. /\ ticket' = row
      /\ trail' = IF open THEN Appended({"assignee"}, row) ELSE trail
  BY <1>1 DEF row
<1>5. {"assignee"} \in SUBSET EventFields
  BY DEF EventFields
<1>6. /\ Appended({"assignee"}, row) \in Trails
      /\ Appended({"assignee"}, row).held = trail.held
  BY <1>2, <1>5, AppendedSound
<1>7. trail' \in Trails /\ trail'.held = trail.held
  BY <1>4, <1>6 DEF IInv, TypeOK
<1>8. TypeOK'
  BY <1>2, <1>3, <1>4, <1>7 DEF IInv, TypeOK
<1>9. \A q \in Requests : WorkSound(request[q])'
  BY <1>3 DEF IInv, WorkSound
<1>10. TerminalNeverOnHold' /\ HoldTrailFaithful'
  BY <1>2, <1>3, <1>4, <1>7 DEF IInv, TerminalNeverOnHold, HoldTrailFaithful
<1>11. TerminalRunCompleted' /\ DetachedRunCompleted' /\ StampsMatchState'
  BY <1>2, <1>3, <1>4
  DEF IInv, TerminalRunCompleted, DetachedRunCompleted, StampsMatchState, Stamped
<1>12. StepsCompletedOnce' /\ RunSound'
  BY <1>3 DEF IInv, StepsCompletedOnce, RunSound
<1> QED
  BY <1>8, <1>9, <1>10, <1>11, <1>12 DEF IInv

LEMMA TickSound == IInv /\ Tick => IInv'
<1> SUFFICES ASSUME IInv, Tick PROVE IInv'
  OBVIOUS
<1>1. UNCHANGED <<ticket, hold, due, run, trail, completed, staff, request,
                  witnessed>>
  BY DEF Tick
<1>2. now' \in 1..MaxClock
  BY BoundsAssumption DEF Tick, IInv, TypeOK
<1>3. TypeOK'
  BY <1>1, <1>2 DEF IInv, TypeOK
<1> QED
  BY <1>1, <1>3
  DEF IInv, TerminalNeverOnHold, TerminalRunCompleted, DetachedRunCompleted,
      StampsMatchState, HoldTrailFaithful, StepsCompletedOnce, RunSound, WorkSound

LEMMA StutterSound == IInv /\ UNCHANGED vars => IInv'
BY DEF vars, IInv, TypeOK, TerminalNeverOnHold, TerminalRunCompleted,
       DetachedRunCompleted, StampsMatchState, HoldTrailFaithful,
       StepsCompletedOnce, RunSound, WorkSound

(***************************************************************************)
(* The theorems.                                                           *)
(***************************************************************************)

\* Every step of every request, clock tick or downgrade preserves the
\* invariant.
LEMMA StepSound == IInv /\ [Next]_vars => IInv'
<1> SUFFICES ASSUME IInv, [Next]_vars PROVE IInv'
  OBVIOUS
<1>1. CASE Tick
  BY <1>1, TickSound
<1>2. CASE \E u \in Agents : Downgrade(u)
  BY <1>2, DowngradeSound
<1>3. ASSUME NEW r \in Requests, BeginAssign(r) PROVE IInv'
  BY <1>3, BeginAssignSound
<1>4. ASSUME NEW r \in Requests, BeginTransition(r) PROVE IInv'
  BY <1>4, BeginTransitionSound
<1>5. ASSUME NEW r \in Requests,
             BeginPutOnHold(r) \/ BeginResume(r) \/ BeginReply(r)
      PROVE  IInv'
  BY <1>5, BeginHoldSound
<1>6. ASSUME NEW r \in Requests, BeginConfirm(r) PROVE IInv'
  BY <1>6, BeginConfirmSound
<1>7. ASSUME NEW r \in Requests, BeginReject(r) PROVE IInv'
  BY <1>7, BeginRejectSound
<1>8. ASSUME NEW r \in Requests, BeginUpdate(r) PROVE IInv'
  BY <1>8, BeginUpdateSound
<1>9. ASSUME NEW r \in Requests, BeginExpire(r) PROVE IInv'
  BY <1>9, BeginExpireSound
<1>10. ASSUME NEW r \in Requests, BeginCompleteStep(r) PROVE IInv'
  BY <1>10, BeginCompleteStepSound
<1>11. ASSUME NEW r \in Requests, LoadSLA(r) PROVE IInv'
  BY <1>11, LoadSLASound
<1>12. ASSUME NEW r \in Requests, LoadRun(r) PROVE IInv'
  BY <1>12, LoadRunSound
<1>13. ASSUME NEW r \in Requests, CommitUpdate(r) PROVE IInv'
  BY <1>13, CommitUpdateSound
<1>14. ASSUME NEW r \in Requests, CommitHold(r) PROVE IInv'
  BY <1>14, CommitHoldSound
<1>15. ASSUME NEW r \in Requests, CommitPlan(r) PROVE IInv'
  BY <1>15, CommitPlanSound
<1>16. ASSUME NEW r \in Requests, Abandon(r) PROVE IInv'
  BY <1>16, RefuseSound DEF Abandon, Refuse
<1>17. CASE UNCHANGED vars
  BY <1>17, StutterSound
<1> QED
  BY <1>1, <1>2, <1>3, <1>4, <1>5, <1>6, <1>7, <1>8, <1>9, <1>10, <1>11,
     <1>12, <1>13, <1>14, <1>15, <1>16, <1>17
  DEF Next

\* The inductive invariant holds throughout.
THEOREM Invariance == Spec => []IInv
<1>1. Init => IInv
  BY InitSound
<1>2. IInv /\ [Next]_vars => IInv'
  BY StepSound
<1> QED
  BY <1>1, <1>2, PTL DEF Spec

\* Every variable keeps its type, for every workflow and every set of requests.
THEOREM TypeCorrect == Spec => []TypeOK
<1>1. IInv => TypeOK
  BY DEF IInv
<1> QED
  BY <1>1, Invariance, PTL

\* No interleaving of requests leaves a terminal ticket on hold, nor a terminal
\* ticket, or one sent back out of its workflow, with an active run.
THEOREM EndedTicketsRest == Spec => []EndedAtRest
<1>1. IInv => EndedAtRest
  BY DEF IInv, EndedAtRest
<1> QED
  BY <1>1, Invariance, PTL

\* The resolution stamps always match the state, stale writes included.
THEOREM StampsStayInStep == Spec => []StampsMatchState
<1>1. IInv => StampsMatchState
  BY DEF IInv
<1> QED
  BY <1>1, Invariance, PTL

\* The timeline's hold and resume events always say what the hold column says.
THEOREM HoldTrailNeverDiverges == Spec => []HoldTrailFaithful
<1>1. IInv => HoldTrailFaithful
  BY DEF IInv
<1> QED
  BY <1>1, Invariance, PTL

\* No step of any workflow is completed twice or ahead of its turn.
THEOREM NoStepCompletedTwice == Spec => []StepsCompletedOnce
<1>1. IInv => StepsCompletedOnce
  BY DEF IInv
<1> QED
  BY <1>1, Invariance, PTL

(***************************************************************************)
(* What no step may do.                                                    *)
(***************************************************************************)

\* Only a commit or a downgrade changes what is stored.
LEMMA StoreSteps ==
    ASSUME [Next]_vars
    PROVE  \/ UNCHANGED <<ticket, hold, due, run, trail, completed, staff>>
           \/ \E u \in Agents : Downgrade(u)
           \/ \E r \in Requests : CommitUpdate(r) \/ CommitHold(r) \/ CommitPlan(r)
<1> DEFINE same == UNCHANGED <<ticket, hold, due, run, trail, completed, staff>>
<1>1. CASE Tick \/ UNCHANGED vars
  BY <1>1 DEF Tick, vars
<1>2. ASSUME NEW r \in Requests,
             \/ BeginAssign(r) \/ BeginTransition(r) \/ BeginPutOnHold(r)
             \/ BeginResume(r) \/ BeginReply(r) \/ BeginConfirm(r)
             \/ BeginReject(r) \/ BeginUpdate(r) \/ BeginExpire(r)
             \/ BeginCompleteStep(r)
      PROVE  same
  BY <1>2 DEF BeginAssign, BeginTransition, BeginPutOnHold, BeginResume,
              BeginReply, BeginConfirm, BeginReject, BeginUpdate, BeginExpire,
              BeginCompleteStep, Begin, Store
<1>3. ASSUME NEW r \in Requests, LoadSLA(r) \/ LoadRun(r) \/ Abandon(r)
      PROVE  same
  BY <1>3 DEF LoadSLA, LoadRun, Abandon, Store
<1> QED
  BY <1>1, <1>2, <1>3 DEF Next

\* A workflow run only advances, and a completed one never changes again.
THEOREM RunsOnlyAdvance == Spec => RunOnlyAdvances
<1> DEFINE A == run' # run => /\ run.status = "active"
                              /\ run'.cursor >= run.cursor
<1>1. ASSUME IInv, [Next]_vars PROVE A
  <2>1. ASSUME NEW r \in Requests, CommitUpdate(r) \/ CommitHold(r) PROVE A
    <3>1. request[r].row \in Rows /\ run \in Runs
      BY <1>1 DEF IInv, TypeOK, Work
    <3>2. run' = run \/ run' = ClosedRun(request[r].row)
      BY <2>1 DEF CommitUpdate, CommitHold, Refuse, Store
    <3>3. run.cursor \in Nat
      BY <3>1, WorkflowAssumption DEF Runs, Cursors
    <3> QED
      BY <1>1, <3>1, <3>2, <3>3, ClosedRunSound DEF Runs
  <2>2. ASSUME NEW r \in Requests, CommitPlan(r) PROVE A
    <3>1. CASE ~PlanStillHolds(request[r])
      BY <2>2, <3>1 DEF CommitPlan, Refuse, Store
    <3>2. CASE PlanStillHolds(request[r])
      <4>1. /\ run.status = "active"
            /\ run' = RunAfter(run.cursor + 1)
        BY <2>2, <3>2 DEF CommitPlan, ApplyPlan, PlanStillHolds
      <4>2. run.cursor \in Nat /\ run.cursor + 1 \in Cursors
        BY <1>1, <4>1, WorkflowAssumption
        DEF IInv, TypeOK, RunSound, Runs, Cursors
      <4>3. run' \in Runs /\ run'.cursor >= run.cursor + 1
        BY <4>1, <4>2, RunAfterSound
      <4>4. run'.cursor \in Nat
        BY <4>3, WorkflowAssumption DEF Runs, Cursors
      <4> QED
        BY <4>1, <4>2, <4>3, <4>4
    <3> QED
      BY <3>1, <3>2
  <2>3. ASSUME NEW u \in Agents, Downgrade(u) PROVE A
    BY <2>3 DEF Downgrade
  <2> QED
    BY <1>1, <2>1, <2>2, <2>3, StoreSteps
<1> QED
  BY <1>1, Invariance, PTL DEF Spec, RunOnlyAdvances

\* A downgrade leaves no open ticket with the person it takes off the staff.
THEOREM DowngradesHandOff == Spec => DowngradeHandsOff
<1> DEFINE A == \A u \in staff \ staff' :
                   ticket'.assignee = u => IsClosed(ticket'.state)
<1>1. ASSUME IInv, [Next]_vars PROVE A
  <2>1. ASSUME NEW u \in Agents, Downgrade(u) PROVE A
    <3>1. staff \ staff' \subseteq {u} /\ u \in staff /\ u # NoOne
      BY <2>1, NoOneAssumption DEF Downgrade
    <3>2. PICK a \in (staff \ {u}) \cup {NoOne} :
             ticket' = IF ticket.assignee = u /\ ~IsClosed(ticket.state)
                       THEN [ticket EXCEPT !.assignee = a] ELSE ticket
      BY <2>1 DEF Downgrade
    <3>3. CASE ticket.assignee = u /\ ~IsClosed(ticket.state)
      <4>1. ticket'.assignee = a
        BY <1>1, <3>2, <3>3 DEF IInv, TypeOK, Rows
      <4> QED
        BY <3>1, <4>1
    <3>4. CASE ~(ticket.assignee = u /\ ~IsClosed(ticket.state))
      BY <3>1, <3>2, <3>4
    <3> QED
      BY <3>3, <3>4
  <2>2. ASSUME NEW r \in Requests,
               CommitUpdate(r) \/ CommitHold(r) \/ CommitPlan(r)
        PROVE  A
    <3>1. staff' = staff
      BY <2>2 DEF CommitUpdate, CommitHold, CommitPlan, ApplyPlan, Refuse, Store
    <3> QED
      BY <3>1
  <2> QED
    BY <1>1, <2>1, <2>2, StoreSteps
<1> QED
  BY <1>1, Invariance, PTL DEF Spec, DowngradeHandsOff

\* A routed row is a row of the person it was routed to.
LEMMA RoutedRow ==
    ASSUME NEW row \in Rows, NEW a \in Assignees
    PROVE  Routed(row, a) \in Rows /\ Routed(row, a).assignee = a
BY DEF Routed, Rows, States

\* The assignee of a completed step: routed, claimed, or left alone.
LEMMA PlannedAssignee ==
    ASSUME NEW c \in Cursors, ticket \in Rows,
           NEW claimant \in Assignees, NEW selected \in Assignees
    PROVE  Planned(c, claimant, selected).assignee =
              IF Routes(c + 1) THEN selected
              ELSE IF Step(c) = "claim" THEN claimant ELSE ticket.assignee
<1> DEFINE row    == IF Step(c) = "claim" THEN Routed(ticket, claimant) ELSE ticket
           routed == IF Routes(c + 1) THEN Routed(row, selected) ELSE row
           final  == Planned(c, claimant, selected)
<1>1. /\ row \in Rows
      /\ row.assignee = IF Step(c) = "claim" THEN claimant ELSE ticket.assignee
  BY RoutedRow
<1> HIDE DEF row
<1>2. /\ routed \in Rows
      /\ routed.assignee = IF Routes(c + 1) THEN selected ELSE row.assignee
  BY <1>1, RoutedRow
<1>3. \A to : Transitioned(routed, to).assignee = routed.assignee
  BY <1>2 DEF Transitioned, Rows
<1>4. LET resolved == Transitioned(routed, "resolved")
      IN  final \in {routed, resolved, Transitioned(resolved, "closed")}
  BY DEF Planned, Advanced, row
<1>5. LET resolved == Transitioned(routed, "resolved")
      IN  Transitioned(resolved, "closed").assignee = routed.assignee
  <2>1. Transitioned(routed, "resolved") \in Rows
    BY <1>2, TransitionedType DEF States
  <2>2. Transitioned(Transitioned(routed, "resolved"), "closed").assignee
          = Transitioned(routed, "resolved").assignee
    BY <2>1 DEF Transitioned, Rows
  <2> QED
    BY <2>2, <1>3
<1> HIDE DEF routed, row, final
<1>6. final.assignee = routed.assignee
  BY <1>3, <1>4, <1>5
<1> QED
  BY <1>1, <1>2, <1>6 DEF final

\* A workflow completion never leaves the ticket with somebody off the staff.
THEOREM CompletionsRouteToStaff == Spec => CompletionLeavesStaffAssignee
<1> DEFINE A == completed' # completed =>
                   ticket'.assignee \in staff \cup {NoOne}
<1>1. ASSUME IInv, [Next]_vars PROVE A
  <2>1. ASSUME NEW r \in Requests, CommitPlan(r) PROVE A
    <3>1. CASE ~PlanStillHolds(request[r])
      BY <2>1, <3>1 DEF CommitPlan, Refuse, Store
    <3>2. CASE PlanStillHolds(request[r])
      <4> DEFINE c == request[r].run.cursor
      <4>1. c \in Cursors /\ ticket \in Rows /\ staff \subseteq Assignees
            /\ NoOne \in Assignees
        BY <1>1 DEF IInv, TypeOK, Work, Runs, Assignees
      <4>2. ticket.assignee \in staff \cup {NoOne}
        BY <3>2 DEF PlanStillHolds
      <4>3. PICK claimant \in IF Step(c) = "claim" THEN staff ELSE {NoOne},
                 selected \in IF Routes(c + 1) THEN staff ELSE {NoOne} :
               ticket' = Planned(c, claimant, selected)
        BY <2>1, <3>2 DEF CommitPlan, ApplyPlan
      <4>4. claimant \in Assignees /\ selected \in Assignees
        BY <4>1, <4>3
      <4> HIDE DEF c
      <4>5. ticket'.assignee =
               IF Routes(c + 1) THEN selected
               ELSE IF Step(c) = "claim" THEN claimant ELSE ticket.assignee
        BY <4>1, <4>3, <4>4, PlannedAssignee
      <4> QED
        BY <4>2, <4>3, <4>5
    <3> QED
      BY <3>1, <3>2
  <2>2. ASSUME NEW r \in Requests, CommitUpdate(r) \/ CommitHold(r) PROVE A
    BY <2>2 DEF CommitUpdate, CommitHold, Refuse, Store
  <2>3. ASSUME NEW u \in Agents, Downgrade(u) PROVE A
    BY <2>3 DEF Downgrade
  <2> QED
    BY <1>1, <2>1, <2>2, <2>3, StoreSteps
<1> QED
  BY <1>1, Invariance, PTL DEF Spec, CompletionLeavesStaffAssignee

\* Open work stays with staff, whatever downgrades overlap the completions.
THEOREM WorkStays == Spec => WorkStaysWithStaff
BY DowngradesHandOff, CompletionsRouteToStaff DEF WorkStaysWithStaff
=============================================================================
