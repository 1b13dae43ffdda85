------------------------ MODULE TicketOverlapProofs ------------------------
(***************************************************************************)
(* What overlapping requests have to avoid.                                *)
(*                                                                         *)
(* Five claims about a ticket fail when requests overlap: the moves of the *)
(* transition table, the complete audit trail, the hold met by the commit  *)
(* that read it, the deadline that never moves earlier, and the assignment *)
(* to somebody on the staff.  Each theorem names the one overlap that      *)
(* breaks the claim, as a condition on steps, and proves the claim of all  *)
(* other executions, however many requests overlap in them.                *)
(* DeadlinesMoveByThePause needs no condition: the property names its      *)
(* exception itself.                                                       *)
(***************************************************************************)
EXTENDS TicketLifecycleProofs

(***************************************************************************)
(* The conditions.                                                         *)
(***************************************************************************)

WholeRowKinds == {"update", "hold"}

\* The row changes under nobody who is about to write it whole.  Workflow
\* completions may overlap anything: they recheck what they read.
NothingUnderWriters ==
    ticket' # ticket =>
        \A r \in Requests : request'[r].kind \notin WholeRowKinds

WritersUndisturbed == [][NothingUnderWriters]_vars

\* No hold starts at an instant that a request in flight remembers as the
\* start of the hold it read.
HoldStartsAfresh ==
    hold = 0 /\ hold' # 0 =>
        \A r \in Requests : ~Idle(r) => request[r].expected # hold'

HoldsToldApart == [][HoldStartsAfresh]_vars

\* The whole-row write of an assignment and nothing else.
Assigning(w) == w.kind = "update" /\ w.fields = {"assignee"}

\* Nobody is taken off the staff while an assignment to them is in flight.
TargetsKept ==
    \A u \in staff \ staff' :
        \A r \in Requests : Assigning(request[r]) => request[r].row.assignee # u

TargetsStayOnStaff == [][TargetsKept]_vars

\* Requests served one at a time, and downgrades between them.
AloneInFlight == \A r, s \in Requests : ~Idle(r) /\ ~Idle(s) => r = s

DowngradesBetween == [][staff' # staff => \A r \in Requests : Idle(r)]_vars

(***************************************************************************)
(* What a request carries from its read.                                   *)
(***************************************************************************)

\* A whole row that differs from the stored one only where its audit events
\* say so, and by a move of the table.
WorkFresh(w) ==
    w.kind \in WholeRowKinds =>
        /\ "state" \notin w.fields => w.row.state = ticket.state
        /\ "assignee" \notin w.fields => w.row.assignee = ticket.assignee
        /\ "title" \notin w.fields => w.row.title = ticket.title
        /\ w.row.state = ticket.state \/ LegalMove(ticket.state, w.row.state)

\* An assignment in flight is to somebody on the staff, or to nobody.
TargetSound(w) ==
    Assigning(w) => w.row.assignee \in staff \cup {NoOne}

\* The hold and the clock a request remembers are those it has just read.
ReadNow(w) ==
    /\ w.expected \in {0, hold}
    /\ w.hold <= now
    /\ w.at <= now

\* What an application half leaves behind.
Begun(r, work) ==
    /\ Idle(r) /\ now' = now
    /\ work \in Work
    /\ work.pc # "idle"
    /\ ReadNow(work)
    /\ WorkFresh(work)
    /\ TargetSound(work)
    /\ work.kind = "hold" /\ work.pc = "ready" => work.expected = 0
    /\ request' = [request EXCEPT ![r] = work]
    /\ witnessed' = IF work.expected # 0 THEN witnessed \cup {r} ELSE witnessed
    /\ UNCHANGED <<ticket, hold, due, run, trail, completed, staff>>

\* An update built from the row just read is fresh.
LEMMA ByUpdateBegun ==
    ASSUME IInv, NEW r \in Requests, NEW op, NEW row \in Rows,
           NEW fields \in SUBSET {"state", "assignee", "title"},
           "state" \notin fields => row.state = ticket.state,
           "assignee" \notin fields => row.assignee = ticket.assignee,
           "title" \notin fields => row.title = ticket.title,
           row.state = ticket.state \/ LegalMove(ticket.state, row.state),
           fields = {"assignee"} => row.assignee \in staff \cup {NoOne},
           Begin(r, op, ByUpdate(row, fields))
    PROVE  \E work : Begun(r, work)
<1> DEFINE work == ByUpdate(row, fields)
<1>1. NoWork(row) \in Work
  BY NoWorkType
<1>2. fields \subseteq EventFields
  BY DEF EventFields
<1>3. work \in Work
  BY <1>1, <1>2 DEF ByUpdate, Work
<1>4. /\ work.kind = "update" /\ work.row = row /\ work.fields = fields
      /\ work.expected = 0 /\ work.pc = "ready"
      /\ work.hold = 0 /\ work.at = 0
  BY DEF ByUpdate, NoWork
<1>5. /\ Idle(r) /\ now' = now
      /\ request' = [request EXCEPT ![r] = work]
      /\ witnessed' = IF work.expected # 0 THEN witnessed \cup {r} ELSE witnessed
      /\ UNCHANGED <<ticket, hold, due, run, trail, completed, staff>>
  BY DEF Begin, Store
<1> HIDE DEF work
<1>6. WorkFresh(work) /\ TargetSound(work)
  BY <1>4 DEF WorkFresh, TargetSound, Assigning
<1>7. ReadNow(work)
  BY <1>4, BoundsAssumption DEF ReadNow, IInv, TypeOK
<1>8. Begun(r, work)
  BY <1>3, <1>4, <1>5, <1>6, <1>7 DEF Begun
<1> QED
  BY <1>8

\* So is the end of the hold just read, which has its deadline still to load.
LEMMA ByEndingHoldBegun ==
    ASSUME IInv, NEW r \in Requests, NEW op, NEW row \in Rows,
           NEW fields \in SUBSET {"state"},
           "state" \notin fields => row.state = ticket.state,
           row.assignee = ticket.assignee, row.title = ticket.title,
           row.state = ticket.state \/ LegalMove(ticket.state, row.state),
           Begin(r, op, ByEndingHold(row, fields))
    PROVE  \E work : Begun(r, work)
<1> DEFINE work == ByEndingHold(row, fields)
<1>1. NoWork(row) \in Work
  BY NoWorkType
<1>2. fields \cup {"resume"} \subseteq EventFields
  BY DEF EventFields
<1>3. hold \in Clock /\ now \in Clock
  BY BoundsAssumption DEF IInv, TypeOK, Clock
<1>4. work \in Work
  BY <1>1, <1>2, <1>3 DEF ByEndingHold, Work
<1>5. /\ work.kind = "hold" /\ work.pc = "loading" /\ work.row = row
      /\ work.fields = fields \cup {"resume"}
      /\ work.expected = hold /\ work.hold = 0 /\ work.at = now
  BY DEF ByEndingHold, NoWork
<1>6. /\ Idle(r) /\ now' = now
      /\ request' = [request EXCEPT ![r] = work]
      /\ witnessed' = IF work.expected # 0 THEN witnessed \cup {r} ELSE witnessed
      /\ UNCHANGED <<ticket, hold, due, run, trail, completed, staff>>
  BY DEF Begin, Store
<1> HIDE DEF work
<1>7. WorkFresh(work) /\ TargetSound(work)
  BY <1>5 DEF WorkFresh, TargetSound, Assigning
<1>8. ReadNow(work)
  BY <1>5, BoundsAssumption DEF ReadNow, IInv, TypeOK
<1>9. Begun(r, work)
  BY <1>4, <1>5, <1>6, <1>7, <1>8 DEF Begun
<1> QED
  BY <1>9

\* A domain move keeps the columns it does not stamp.
LEMMA TransitionedKeeps ==
    ASSUME NEW row \in Rows, NEW to \in States
    PROVE  /\ Transitioned(row, to).assignee = row.assignee
           /\ Transitioned(row, to).title = row.title
           /\ Transitioned(row, to).state = to
           /\ Transitioned(row, to) \in Rows
BY DEF Transitioned, Rows

\* Every application half leaves behind fresh work.
LEMMA BeginsFresh ==
    ASSUME IInv, NEW r \in Requests,
           \/ BeginAssign(r) \/ BeginTransition(r) \/ BeginPutOnHold(r)
           \/ BeginResume(r) \/ BeginReply(r) \/ BeginConfirm(r)
           \/ BeginReject(r) \/ BeginUpdate(r) \/ BeginExpire(r)
           \/ BeginCompleteStep(r)
    PROVE  \E work : Begun(r, work)
<1>1. ticket \in Rows /\ staff \subseteq Agents
  BY DEF IInv, TypeOK
<1>2. CASE BeginAssign(r)
  <2>1. PICK a \in staff \cup {NoOne} :
           Begin(r, "assign",
                 ByUpdate([ticket EXCEPT !.assignee = a], {"assignee"}))
    BY <1>2 DEF BeginAssign
  <2> DEFINE row == [ticket EXCEPT !.assignee = a]
  <2>2. /\ row \in Rows /\ row.state = ticket.state /\ row.title = ticket.title
        /\ row.assignee = a
    BY <1>1 DEF Rows, Assignees
  <2> HIDE DEF row
  <2>3. Begin(r, "assign", ByUpdate(row, {"assignee"}))
    BY <2>1 DEF row
  <2> QED
    BY <2>2, <2>3, ByUpdateBegun
<1>3. CASE BeginTransition(r)
  <2>1. PICK to \in States :
          LET ends == hold # 0 /\ IsClosed(to)
              row  == Transitioned(ticket, to)
          IN  /\ CanTransition(ticket, hold # 0 /\ ~ends, to)
              /\ Begin(r, "transition",
                       IF ends THEN ByEndingHold(row, {"state"})
                               ELSE ByUpdate(row, {"state"}))
    BY <1>3 DEF BeginTransition
  <2> DEFINE row == Transitioned(ticket, to)
  <2>2. LegalMove(ticket.state, to)
    BY <2>1 DEF CanTransition, LegalMove
  <2>3. /\ row \in Rows /\ row.state = to
        /\ row.assignee = ticket.assignee /\ row.title = ticket.title
    BY <1>1, TransitionedKeeps
  <2>4. \/ Begin(r, "transition", ByEndingHold(row, {"state"}))
        \/ Begin(r, "transition", ByUpdate(row, {"state"}))
    BY <2>1
  <2> HIDE DEF row
  <2>5. CASE Begin(r, "transition", ByEndingHold(row, {"state"}))
    BY <2>2, <2>3, <2>5, ByEndingHoldBegun
  <2>6. CASE Begin(r, "transition", ByUpdate(row, {"state"}))
    BY <2>2, <2>3, <2>6, ByUpdateBegun
  <2> QED
    BY <2>4, <2>5, <2>6
<1>4. CASE BeginPutOnHold(r)
  <2> DEFINE work == ByStartingHold
  <2>1. work \in Work
    BY <1>4, ByStartingHoldSound DEF BeginPutOnHold
  <2>2. /\ work.kind = "hold" /\ work.row = ticket /\ work.fields = {"hold"}
        /\ work.expected = 0 /\ work.pc = "ready"
        /\ work.hold = now /\ work.at = 0
    BY DEF ByStartingHold, NoWork
  <2>3. Begin(r, "put_on_hold", work)
    BY <1>4 DEF BeginPutOnHold
  <2> HIDE DEF work
  <2>4. /\ Idle(r) /\ now' = now
        /\ request' = [request EXCEPT ![r] = work]
        /\ witnessed' = IF work.expected # 0 THEN witnessed \cup {r} ELSE witnessed
        /\ UNCHANGED <<ticket, hold, due, run, trail, completed, staff>>
    BY <2>3 DEF Begin, Store
  <2>5. WorkFresh(work) /\ TargetSound(work)
    BY <2>2 DEF WorkFresh, TargetSound, Assigning
  <2>6. ReadNow(work)
    BY <2>2, BoundsAssumption DEF ReadNow, IInv, TypeOK
  <2>7. Begun(r, work)
    BY <2>1, <2>2, <2>4, <2>5, <2>6 DEF Begun
  <2> QED
    BY <2>7
<1>5. CASE BeginResume(r) \/ BeginReply(r)
  <2>1. \E op : Begin(r, op, ByEndingHold(ticket, {}))
    BY <1>5 DEF BeginResume, BeginReply
  <2> QED
    BY <1>1, <2>1, ByEndingHoldBegun
<1>6. CASE BeginConfirm(r)
  <2> DEFINE row == Transitioned(ticket, "closed")
  <2>1. LegalMove(ticket.state, "closed")
    BY <1>6 DEF BeginConfirm, CanTransition, LegalMove
  <2>2. /\ row \in Rows /\ row.state = "closed"
        /\ row.assignee = ticket.assignee /\ row.title = ticket.title
    BY <1>1, TransitionedKeeps DEF States
  <2>3. Begin(r, "confirm", ByUpdate(row, {"state"}))
    BY <1>6 DEF BeginConfirm
  <2> HIDE DEF row
  <2> QED
    BY <2>1, <2>2, <2>3, ByUpdateBegun
<1>7. CASE BeginReject(r)
  <2> DEFINE moved == Transitioned(ticket, "in_progress")
             row   == [moved EXCEPT !.pinned = FALSE]
  <2>1. LegalMove(ticket.state, "in_progress")
    BY <1>7 DEF BeginReject, LegalMove, transitions, States
  <2>2. /\ moved \in Rows /\ moved.state = "in_progress"
        /\ moved.assignee = ticket.assignee /\ moved.title = ticket.title
    BY <1>1, TransitionedKeeps DEF States
  <2>3. Begin(r, "reject", ByUpdate(row, {"state"}))
    BY <1>7 DEF BeginReject
  <2> HIDE DEF moved
  <2>4. /\ row \in Rows /\ row.state = "in_progress"
        /\ row.assignee = ticket.assignee /\ row.title = ticket.title
    BY <2>2 DEF Rows
  <2> HIDE DEF row
  <2> QED
    BY <2>1, <2>3, <2>4, ByUpdateBegun
<1>8. CASE BeginUpdate(r)
  <2>1. PICK t \in Titles :
           Begin(r, "update", ByUpdate([ticket EXCEPT !.title = t],
                                       IF t = ticket.title THEN {} ELSE {"title"}))
    BY <1>8 DEF BeginUpdate
  <2> DEFINE row    == [ticket EXCEPT !.title = t]
             fields == IF t = ticket.title THEN {} ELSE {"title"}
  <2>2. /\ row \in Rows /\ row.state = ticket.state
        /\ row.assignee = ticket.assignee /\ row.title = t
    BY <1>1 DEF Rows
  <2>3. /\ fields \in SUBSET {"state", "assignee", "title"}
        /\ "title" \notin fields => t = ticket.title
        /\ fields # {"assignee"}
    OBVIOUS
  <2>4. Begin(r, "update", ByUpdate(row, fields))
    BY <2>1
  <2> HIDE DEF row, fields
  <2> QED
    BY <2>2, <2>3, <2>4, ByUpdateBegun
<1>9. CASE BeginExpire(r)
  <2> DEFINE resolved == Transitioned(ticket, "resolved")
             row      == Transitioned(resolved, "closed")
  <2>1. LegalMove(ticket.state, "closed")
    BY <1>1, <1>9 DEF BeginExpire, LegalMove, transitions, States, Rows,
                      IsClosed, ClosedStates
  <2>2. /\ resolved \in Rows
        /\ resolved.assignee = ticket.assignee /\ resolved.title = ticket.title
    BY <1>1, TransitionedKeeps DEF States
  <2>3. Begin(r, "expire", ByEndingHold(row, {"state"}))
    BY <1>9 DEF BeginExpire
  <2> HIDE DEF resolved
  <2>4. /\ row \in Rows /\ row.state = "closed"
        /\ row.assignee = ticket.assignee /\ row.title = ticket.title
    BY <2>2, TransitionedKeeps DEF States
  <2> HIDE DEF row
  <2> QED
    BY <2>1, <2>3, <2>4, ByEndingHoldBegun
<1>10. CASE BeginCompleteStep(r)
  <2> DEFINE work == [NoWork(ticket) EXCEPT !.pc = "loading", !.kind = "plan",
                                            !.expected = hold, !.run = run]
  <2>1. NoWork(ticket) \in Work
    BY <1>1, NoWorkType
  <2>2. work \in Work
    BY <2>1 DEF IInv, TypeOK, Work
  <2>3. /\ work.kind = "plan" /\ work.pc = "loading"
        /\ work.expected = hold /\ work.hold = 0 /\ work.at = 0
    BY DEF NoWork
  <2>4. Begin(r, "complete_step", work)
    BY <1>10 DEF BeginCompleteStep
  <2> HIDE DEF work
  <2>5. /\ Idle(r) /\ now' = now
        /\ request' = [request EXCEPT ![r] = work]
        /\ witnessed' = IF work.expected # 0 THEN witnessed \cup {r} ELSE witnessed
        /\ UNCHANGED <<ticket, hold, due, run, trail, completed, staff>>
    BY <2>4 DEF Begin, Store
  <2>6. WorkFresh(work) /\ TargetSound(work)
    BY <2>3 DEF WorkFresh, TargetSound, Assigning, WholeRowKinds
  <2>7. ReadNow(work)
    BY <2>3, BoundsAssumption DEF ReadNow, IInv, TypeOK
  <2>8. Begun(r, work)
    BY <2>2, <2>3, <2>5, <2>6, <2>7 DEF Begun
  <2> QED
    BY <2>8
<1> QED
  BY <1>2, <1>3, <1>4, <1>5, <1>6, <1>7, <1>8, <1>9, <1>10

(***************************************************************************)
(* Writers undisturbed: the moves of the table, the complete trail.        *)
(***************************************************************************)

\* The steps, by what they do to the requests.
LEMMA RequestSteps ==
    ASSUME IInv, [Next]_vars
    PROVE  \/ UNCHANGED <<ticket, hold, due, run, trail, completed, staff,
                          request, witnessed>>
           \/ \E u \in Agents : Downgrade(u)
           \/ \E r \in Requests :
                 \/ \E work : Begun(r, work)
                 \/ LoadSLA(r) \/ LoadRun(r)
                 \/ CommitUpdate(r) \/ CommitHold(r) \/ CommitPlan(r)
                 \/ Abandon(r)
<1>1. CASE Tick \/ UNCHANGED vars
  BY <1>1 DEF Tick, vars
<1>2. ASSUME NEW r \in Requests,
             \/ BeginAssign(r) \/ BeginTransition(r) \/ BeginPutOnHold(r)
             \/ BeginResume(r) \/ BeginReply(r) \/ BeginConfirm(r)
             \/ BeginReject(r) \/ BeginUpdate(r) \/ BeginExpire(r)
             \/ BeginCompleteStep(r)
      PROVE  \E work : Begun(r, work)
  BY <1>2, BeginsFresh
<1> QED
  BY <1>1, <1>2 DEF Next

\* The end of a request, written or refused.
LEMMA CommitsFinish ==
    ASSUME NEW r \in Requests,
           CommitUpdate(r) \/ CommitHold(r) \/ CommitPlan(r) \/ Abandon(r)
    PROVE  request' = [request EXCEPT ![r] = NoWork(NewRow(TRUE))]
<1>1. CASE CommitUpdate(r)
  BY <1>1 DEF CommitUpdate, Refuse, Finish
<1>2. CASE CommitHold(r)
  BY <1>2 DEF CommitHold, Refuse, Finish
<1>3. CASE CommitPlan(r)
  BY <1>3 DEF CommitPlan, ApplyPlan, Refuse, Finish
<1>4. CASE Abandon(r)
  BY <1>4 DEF Abandon, Finish
<1> QED
  BY <1>1, <1>2, <1>3, <1>4

\* After a step, a request writes no whole row, writes the one it was going
\* to write, or has just read the ticket.
LEMMA RowsCarried ==
    ASSUME IInv, [Next]_vars, NEW q \in Requests
    PROVE  \/ request'[q].kind \notin WholeRowKinds
           \/ /\ request'[q].kind = request[q].kind
              /\ request'[q].row = request[q].row
              /\ request'[q].fields = request[q].fields
           \/ /\ ticket' = ticket /\ staff' = staff
              /\ WorkFresh(request'[q]) /\ TargetSound(request'[q])
<1> DEFINE Carried == /\ request'[q].kind = request[q].kind
                      /\ request'[q].row = request[q].row
                      /\ request'[q].fields = request[q].fields
           Read    == /\ ticket' = ticket /\ staff' = staff
                      /\ WorkFresh(request'[q]) /\ TargetSound(request'[q])
<1>1. request \in [Requests -> Work]
  BY DEF IInv, TypeOK
<1>2. CASE request' = request
  BY <1>2
<1>3. ASSUME NEW u \in Agents, Downgrade(u) PROVE request' = request
  BY <1>3 DEF Downgrade
<1>4. ASSUME NEW r \in Requests, NEW work, Begun(r, work) PROVE Carried \/ Read
  <2>1. /\ request'[q] = IF q = r THEN work ELSE request[q]
        /\ ticket' = ticket /\ staff' = staff
        /\ WorkFresh(work) /\ TargetSound(work)
    BY <1>1, <1>4 DEF Begun
  <2> QED
    BY <2>1
<1>5. ASSUME NEW r \in Requests, LoadSLA(r) \/ LoadRun(r) PROVE Carried
  BY <1>1, <1>5 DEF LoadSLA, LoadRun, Work
<1>6. ASSUME NEW r \in Requests,
             CommitUpdate(r) \/ CommitHold(r) \/ CommitPlan(r) \/ Abandon(r)
      PROVE  Carried \/ request'[q].kind \notin WholeRowKinds
  <2>1. request'[q] = IF q = r THEN NoWork(NewRow(TRUE)) ELSE request[q]
    BY <1>1, <1>6, CommitsFinish
  <2>2. NoWork(NewRow(TRUE)).kind = "none"
    BY DEF NoWork
  <2> QED
    BY <2>1, <2>2 DEF WholeRowKinds
<1> QED
  BY <1>2, <1>3, <1>4, <1>5, <1>6, RequestSteps

\* Every whole row in flight is fresh, and the trail adds up to the row.
RowsFresh == \A q \in Requests : WorkFresh(request[q])
FreshInv  == RowsFresh /\ TrailFaithful

\* While nobody writes under a writer, what it read stays the stored row.
LEMMA RowsStayFresh ==
    ASSUME IInv, [Next]_vars, RowsFresh, NothingUnderWriters
    PROVE  RowsFresh'
<1> SUFFICES ASSUME NEW q \in Requests, request'[q].kind \in WholeRowKinds
             PROVE  WorkFresh(request[q])'
  BY DEF RowsFresh, WorkFresh
<1>1. ticket' = ticket
  BY DEF NothingUnderWriters
<1>2. WorkFresh(request[q])
  BY DEF RowsFresh
<1>3. \/ /\ request'[q].kind = request[q].kind
         /\ request'[q].row = request[q].row
         /\ request'[q].fields = request[q].fields
      \/ WorkFresh(request'[q])
  BY RowsCarried
<1> QED
  BY <1>1, <1>2, <1>3 DEF WorkFresh

\* A batch that records every column its row changes adds up to the row.
LEMMA AppendedFaithful ==
    ASSUME IInv, TrailFaithful,
           NEW fields \in SUBSET EventFields, NEW row \in Rows,
           "state" \notin fields => row.state = ticket.state,
           "assignee" \notin fields => row.assignee = ticket.assignee,
           "title" \notin fields => row.title = ticket.title,
           ticket' = row, trail' = Appended(fields, row), IInv'
    PROVE  TrailFaithful'
<1>1. /\ trail.state = ticket.state /\ trail.assignee = ticket.assignee
      /\ trail.title = ticket.title
  BY DEF TrailFaithful, TrailOf
<1>2. /\ trail'.state = row.state /\ trail'.assignee = row.assignee
      /\ trail'.title = row.title
  BY <1>1 DEF Appended
<1>3. trail' \in Trails /\ (trail'.held <=> hold' # 0)
  BY DEF IInv, TypeOK, HoldTrailFaithful
<1>4. trail' = [state |-> ticket'.state, assignee |-> ticket'.assignee,
                title |-> ticket'.title, held |-> (hold' # 0)]
  BY <1>2, <1>3 DEF Trails
<1> QED
  BY <1>4 DEF TrailFaithful, TrailOf

\* A new ticket's trail is its row.
LEMMA FreshInit == Init => FreshInv
<1> SUFFICES ASSUME Init PROVE FreshInv
  OBVIOUS
<1>1. \A q \in Requests : request[q].kind = "none"
  BY DEF Init, NoWork
<1>2. RowsFresh
  BY <1>1 DEF RowsFresh, WorkFresh, WholeRowKinds
<1>3. TrailFaithful
  BY DEF Init, TrailFaithful
<1> QED
  BY <1>2, <1>3 DEF FreshInv

\* What a completed step does to the row: its title stays, and it moves as
\* the table allows.
LEMMA PlannedMoves ==
    ASSUME NEW c \in Cursors, ticket \in Rows, ~IsClosed(ticket.state),
           NEW claimant \in Assignees, NEW selected \in Assignees
    PROVE  LET row == Planned(c, claimant, selected)
           IN  /\ row.title = ticket.title
               /\ row.state = ticket.state \/ LegalMove(ticket.state, row.state)
<1> DEFINE row    == IF Step(c) = "claim" THEN Routed(ticket, claimant) ELSE ticket
           routed == IF Routes(c + 1) THEN Routed(row, selected) ELSE row
           resolved == Transitioned(routed, "resolved")
           closed   == Transitioned(resolved, "closed")
           final    == Planned(c, claimant, selected)
<1>1. ticket.state \in {"new", "in_progress"}
  BY DEF Rows, States, IsClosed, ClosedStates
<1>2. /\ row \in Rows /\ row.title = ticket.title
      /\ row.state \in {ticket.state, "in_progress"}
  BY DEF Routed, Rows, States
<1> HIDE DEF row
<1>3. /\ routed \in Rows /\ routed.title = ticket.title
      /\ routed.state \in {ticket.state, "in_progress"}
  BY <1>2 DEF Routed, Rows, States
<1>4. final \in {routed, resolved, closed}
  BY DEF Planned, Advanced, row
<1> HIDE DEF routed, final
<1>5. resolved \in Rows /\ resolved.title = ticket.title
      /\ resolved.state = "resolved"
  BY <1>3, TransitionedKeeps DEF States
<1> HIDE DEF resolved
<1>6. closed.title = ticket.title /\ closed.state = "closed"
  BY <1>5, TransitionedKeeps DEF States
<1> HIDE DEF closed
<1>7. /\ final.title = ticket.title
      /\ final.state \in {ticket.state, "in_progress", "resolved", "closed"}
  BY <1>3, <1>4, <1>5, <1>6
<1>8. \A s \in {"in_progress", "resolved", "closed"} :
         s = ticket.state \/ LegalMove(ticket.state, s)
  BY <1>1 DEF LegalMove, transitions, States
<1> QED
  BY <1>7, <1>8 DEF final

\* What the three commits and a downgrade write, or nothing.
LEMMA WritesOf ==
    ASSUME IInv, [Next]_vars, RowsFresh
    PROVE  \/ UNCHANGED <<ticket, hold, trail>>
           \/ \E fields \in SUBSET EventFields :
                 /\ "state" \notin fields => ticket'.state = ticket.state
                 /\ "assignee" \notin fields => ticket'.assignee = ticket.assignee
                 /\ "title" \notin fields => ticket'.title = ticket.title
                 /\ \/ ticket'.state = ticket.state
                    \/ LegalMove(ticket.state, ticket'.state)
                 /\ ticket' \in Rows
                 /\ trail' = Appended(fields, ticket')
<1> DEFINE Wrote(fields) ==
        /\ "state" \notin fields => ticket'.state = ticket.state
        /\ "assignee" \notin fields => ticket'.assignee = ticket.assignee
        /\ "title" \notin fields => ticket'.title = ticket.title
        /\ \/ ticket'.state = ticket.state
           \/ LegalMove(ticket.state, ticket'.state)
        /\ ticket' \in Rows
        /\ trail' = Appended(fields, ticket')
      Goal == \/ UNCHANGED <<ticket, hold, trail>>
              \/ \E fields \in SUBSET EventFields : Wrote(fields)
<1>1. ticket \in Rows
  BY DEF IInv, TypeOK
<1>2. ASSUME NEW r \in Requests, CommitUpdate(r) \/ CommitHold(r) PROVE Goal
  <2> DEFINE w == request[r]
  <2>1. CASE UNCHANGED <<ticket, hold, trail>>
    BY <2>1
  <2>2. CASE /\ w.kind \in WholeRowKinds
             /\ ticket' = w.row
             /\ trail' = Appended(w.fields, w.row)
    <3>1. w.fields \in SUBSET EventFields /\ w.row \in Rows
      BY DEF IInv, TypeOK, Work
    <3>2. WorkFresh(w)
      BY DEF RowsFresh
    <3>3. Wrote(w.fields)
      BY <2>2, <3>1, <3>2 DEF WorkFresh
    <3> HIDE DEF Wrote
    <3> QED
      BY <3>1, <3>3
  <2> QED
    BY <1>2, <2>1, <2>2
    DEF CommitUpdate, CommitHold, Refuse, Store, Ready, WholeRowKinds
<1>3. ASSUME NEW r \in Requests, CommitPlan(r) PROVE Goal
  <2>1. CASE ~PlanStillHolds(request[r])
    BY <1>3, <2>1 DEF CommitPlan, Refuse, Store
  <2>2. CASE PlanStillHolds(request[r])
    <3> DEFINE c == request[r].run.cursor
    <3>1. /\ c \in Cursors /\ c < Len(Workflow) /\ ~IsClosed(ticket.state)
      BY <2>2 DEF PlanStillHolds, IInv, TypeOK, Runs, RunSound, TerminalRunCompleted
    <3>2. PICK claimant \in IF Step(c) = "claim" THEN staff ELSE {NoOne},
               selected \in IF Routes(c + 1) THEN staff ELSE {NoOne} :
             LET row == Planned(c, claimant, selected)
             IN  ticket' = row /\ trail' = Appended(PlanFields(c, row), row)
      BY <1>3, <2>2 DEF CommitPlan, ApplyPlan
    <3>3. claimant \in Assignees /\ selected \in Assignees
      BY <3>2 DEF IInv, TypeOK, Assignees
    <3> DEFINE row == Planned(c, claimant, selected)
    <3> HIDE DEF c
    <3>4. /\ row.title = ticket.title
          /\ row.state = ticket.state \/ LegalMove(ticket.state, row.state)
      BY <1>1, <3>1, <3>3, PlannedMoves
    <3>5. row.assignee = IF Routes(c + 1) THEN selected
                         ELSE IF Step(c) = "claim" THEN claimant
                         ELSE ticket.assignee
      BY <1>1, <3>1, <3>3, PlannedAssignee
    <3>6. row \in Rows
      BY <1>1, <3>1, <3>3, PlannedSound DEF IInv, StampsMatchState
    <3>7. ticket' = row /\ trail' = Appended(PlanFields(c, row), row)
      BY <3>2
    <3> HIDE DEF row
    <3>8. /\ PlanFields(c, row) \in SUBSET EventFields
          /\ "state" \notin PlanFields(c, row) => row.state = ticket.state
          /\ "assignee" \notin PlanFields(c, row) => row.assignee = ticket.assignee
      BY <3>5 DEF PlanFields, Assigns, EventFields
    <3>9. Wrote(PlanFields(c, row))
      BY <3>4, <3>6, <3>7, <3>8
    <3> HIDE DEF Wrote
    <3> QED
      BY <3>8, <3>9
  <2> QED
    BY <2>1, <2>2
<1>4. ASSUME NEW u \in Agents, Downgrade(u) PROVE Goal
  <2> DEFINE open == ticket.assignee = u /\ ~IsClosed(ticket.state)
  <2>1. hold' = hold
    BY <1>4 DEF Downgrade
  <2>2. PICK a \in (staff \ {u}) \cup {NoOne} :
           LET row == IF open THEN [ticket EXCEPT !.assignee = a] ELSE ticket
           IN  /\ ticket' = row
               /\ trail' = IF open THEN Appended({"assignee"}, row) ELSE trail
    BY <1>4 DEF Downgrade
  <2>3. CASE ~open
    BY <2>1, <2>2, <2>3
  <2>4. CASE open
    <3>1. /\ ticket' = [ticket EXCEPT !.assignee = a]
          /\ trail' = Appended({"assignee"}, ticket')
      BY <2>2, <2>4
    <3>2. a \in Assignees
      BY DEF IInv, TypeOK, Assignees
    <3>3. /\ ticket' \in Rows
          /\ ticket'.state = ticket.state /\ ticket'.title = ticket.title
      BY <1>1, <3>1, <3>2 DEF Rows
    <3>4. Wrote({"assignee"})
      BY <3>1, <3>3
    <3>5. {"assignee"} \in SUBSET EventFields
      BY DEF EventFields
    <3> HIDE DEF Wrote
    <3> QED
      BY <3>4, <3>5
  <2> QED
    BY <2>3, <2>4
<1> HIDE DEF Wrote
<1>5. CASE UNCHANGED <<ticket, hold, due, run, trail, completed, staff>>
  BY <1>5
<1> QED
  BY <1>2, <1>3, <1>4, <1>5, StoreSteps DEF Wrote

\* While writers are undisturbed, every step keeps the rows in flight fresh
\* and the trail complete.
LEMMA FreshStep ==
    ASSUME IInv, [Next]_vars, FreshInv, NothingUnderWriters
    PROVE  FreshInv'
<1>1. RowsFresh'
  BY RowsStayFresh DEF FreshInv
<1>2. IInv'
  BY StepSound
<1>3. CASE UNCHANGED <<ticket, hold, trail>>
  BY <1>1, <1>3 DEF FreshInv, TrailFaithful
<1>4. ASSUME NEW fields \in SUBSET EventFields,
             "state" \notin fields => ticket'.state = ticket.state,
             "assignee" \notin fields => ticket'.assignee = ticket.assignee,
             "title" \notin fields => ticket'.title = ticket.title,
             ticket' \in Rows, trail' = Appended(fields, ticket')
      PROVE  TrailFaithful'
  <2>1. PICK row \in Rows : ticket' = row
    BY <1>4
  <2> QED
    BY <1>2, <1>4, <2>1, AppendedFaithful DEF FreshInv
<1> QED
  BY <1>1, <1>3, <1>4, WritesOf DEF FreshInv

\* While no row changes under a whole-row write in flight, every row in flight
\* differs from the stored one only where its audit batch says so.
THEOREM FreshInvariance == Spec /\ WritersUndisturbed => []FreshInv
<1>1. Init => FreshInv
  BY FreshInit
<1>2. IInv /\ FreshInv /\ [Next]_vars /\ [NothingUnderWriters]_vars => FreshInv'
  <2> SUFFICES ASSUME IInv, FreshInv, [Next]_vars, [NothingUnderWriters]_vars
               PROVE  FreshInv'
    OBVIOUS
  <2>1. CASE NothingUnderWriters
    BY <2>1, FreshStep
  <2>2. CASE UNCHANGED vars
    BY <2>2 DEF vars, FreshInv, RowsFresh, WorkFresh, TrailFaithful
  <2> QED
    BY <2>1, <2>2
<1> QED
  BY <1>1, <1>2, Invariance, PTL DEF Spec, WritersUndisturbed

\* The audit events of a ticket add up to its row in every execution in which
\* the row changes under no whole-row write in flight, however many requests
\* overlap otherwise (updateTicketTx, appendAuditEventsTx).
THEOREM TrailCompleteUnlessStale == Spec /\ WritersUndisturbed => []TrailFaithful
<1>1. FreshInv => TrailFaithful
  BY DEF FreshInv
<1> QED
  BY <1>1, FreshInvariance, PTL

\* And the stored state makes only the moves of the table.
THEOREM MovesLegalUnlessStale == Spec /\ WritersUndisturbed => StateMovesLegal
<1> DEFINE A == ticket'.state # ticket.state =>
                   LegalMove(ticket.state, ticket'.state)
<1>1. ASSUME IInv, FreshInv, [Next]_vars PROVE A
  BY <1>1, WritesOf DEF FreshInv
<1> QED
  BY <1>1, Invariance, FreshInvariance, PTL DEF Spec, StateMovesLegal

\* An idle request carries no row to write.
IdleIsEmpty == \A q \in Requests : Idle(q) => request[q].kind = "none"

LEMMA IdleStaysEmpty ==
    ASSUME IInv, [Next]_vars, IdleIsEmpty
    PROVE  IdleIsEmpty'
<1> SUFFICES ASSUME NEW q \in Requests, request'[q].pc = "idle"
             PROVE  request'[q].kind = "none"
  BY DEF IdleIsEmpty, Idle
<1>1. request \in [Requests -> Work]
  BY DEF IInv, TypeOK
<1>2. Idle(q) => request[q].kind = "none"
  BY DEF IdleIsEmpty
<1>3. CASE request' = request
  BY <1>2, <1>3 DEF Idle
<1>4. ASSUME NEW u \in Agents, Downgrade(u) PROVE request' = request
  BY <1>4 DEF Downgrade
<1>5. ASSUME NEW r \in Requests, NEW work, Begun(r, work)
      PROVE  request'[q].kind = "none"
  <2>1. request'[q] = IF q = r THEN work ELSE request[q]
    BY <1>1, <1>5 DEF Begun
  <2>2. work.pc # "idle"
    BY <1>5 DEF Begun
  <2> QED
    BY <1>2, <2>1, <2>2 DEF Idle
<1>6. ASSUME NEW r \in Requests, LoadSLA(r) \/ LoadRun(r)
      PROVE  request'[q].kind = "none"
  <2>1. q # r /\ request'[q] = request[q]
    BY <1>1, <1>6 DEF LoadSLA, LoadRun, Work
  <2> QED
    BY <1>2, <2>1 DEF Idle
<1>7. ASSUME NEW r \in Requests,
             CommitUpdate(r) \/ CommitHold(r) \/ CommitPlan(r) \/ Abandon(r)
      PROVE  request'[q].kind = "none"
  <2>1. request'[q] = IF q = r THEN NoWork(NewRow(TRUE)) ELSE request[q]
    BY <1>1, <1>7, CommitsFinish
  <2>2. NoWork(NewRow(TRUE)).kind = "none"
    BY DEF NoWork
  <2> QED
    BY <1>2, <2>1, <2>2 DEF Idle
<1> QED
  BY <1>3, <1>4, <1>5, <1>6, <1>7, RequestSteps

\* Requests served one at a time, with downgrades between them, disturb no
\* writer.
THEOREM OneAtATimeUndisturbed ==
    Spec /\ []AloneInFlight /\ DowngradesBetween => WritersUndisturbed
<1> DEFINE B == staff' # staff => \A r \in Requests : Idle(r)
<1>1. Init => IdleIsEmpty
  BY DEF Init, IdleIsEmpty, NoWork
<1>2. IInv /\ IdleIsEmpty /\ [Next]_vars => IdleIsEmpty'
  BY IdleStaysEmpty
<1>3. ASSUME IInv, IdleIsEmpty, AloneInFlight, [Next]_vars, [B]_vars
      PROVE  NothingUnderWriters
  <2> SUFFICES ASSUME ticket' # ticket, NEW q \in Requests
               PROVE  request'[q].kind \notin WholeRowKinds
    BY DEF NothingUnderWriters
  <2>1. request \in [Requests -> Work]
    BY <1>3 DEF IInv, TypeOK
  <2>2. Idle(q) => request[q].kind = "none"
    BY <1>3 DEF IdleIsEmpty
  <2>3. ASSUME NEW u \in Agents, Downgrade(u)
        PROVE  request'[q].kind \notin WholeRowKinds
    <3>1. staff' # staff /\ request' = request
      BY <2>3 DEF Downgrade
    <3>2. Idle(q)
      BY <1>3, <3>1 DEF vars
    <3> QED
      BY <2>2, <3>1, <3>2 DEF WholeRowKinds
  <2>4. ASSUME NEW r \in Requests,
               CommitUpdate(r) \/ CommitHold(r) \/ CommitPlan(r)
        PROVE  request'[q].kind \notin WholeRowKinds
    <3>1. request'[q] = IF q = r THEN NoWork(NewRow(TRUE)) ELSE request[q]
      BY <2>1, <2>4, CommitsFinish
    <3>2. NoWork(NewRow(TRUE)).kind = "none"
      BY DEF NoWork
    <3>3. ~Idle(r)
      BY <2>4 DEF CommitUpdate, CommitHold, CommitPlan, Ready, Idle
    <3>4. q # r => Idle(q)
      BY <1>3, <3>3 DEF AloneInFlight
    <3> QED
      BY <2>2, <3>1, <3>2, <3>4 DEF WholeRowKinds
  <2> QED
    BY <1>3, <2>3, <2>4, StoreSteps
<1> QED
  BY <1>1, <1>2, <1>3, Invariance, PTL
  DEF Spec, DowngradesBetween, WritersUndisturbed

\* Served one at a time, requests leave a complete trail, for every workflow,
\* staff and operation.
THEOREM OneAtATimeTrail ==
    Spec /\ []AloneInFlight /\ DowngradesBetween => []TrailFaithful
BY OneAtATimeUndisturbed, TrailCompleteUnlessStale, PTL

\* And keep to the moves of the table.
THEOREM OneAtATimeMoves ==
    Spec /\ []AloneInFlight /\ DowngradesBetween => StateMovesLegal
BY OneAtATimeUndisturbed, MovesLegalUnlessStale, PTL

(***************************************************************************)
(* Holds told apart: the hold met is the hold read, and no deadline moves  *)
(* earlier.                                                                *)
(***************************************************************************)

\* A request that remembers the hold now in force is one that read it, and
\* the deadline it is about to write is not earlier than the stored one.
HoldKnown(q) ==
    ~Idle(q) /\ hold # 0 /\ request[q].expected = hold =>
        /\ q \in witnessed
        /\ Ready(q, "hold") => request[q].due >= due

HoldsKnown == \A q \in Requests : HoldKnown(q)

\* A shift over a hold never moves a deadline earlier.
LEMMA ShiftedDueLater ==
    ASSUME NEW d \in Nat, NEW pausedAt \in Nat, NEW resumedAt \in Nat
    PROVE  ShiftedDue(d, pausedAt, resumedAt) >= d
BY DEF ShiftedDue

\* The commits that leave the hold alone leave its deadline alone.
LEMMA HoldKept ==
    ASSUME NEW r \in Requests,
           CommitUpdate(r) \/ CommitPlan(r) \/ Abandon(r)
    PROVE  /\ UNCHANGED <<hold, due>>
           /\ witnessed' = witnessed \ {r}
<1>1. CASE CommitUpdate(r)
  BY <1>1 DEF CommitUpdate, Refuse, Store, Finish
<1>2. CASE CommitPlan(r)
  BY <1>2 DEF CommitPlan, ApplyPlan, Refuse, Store, Finish
<1>3. CASE Abandon(r)
  BY <1>3 DEF Abandon, Store, Finish
<1> QED
  BY <1>1, <1>2, <1>3

\* A request that finishes knows nothing; the others know what they knew.
LEMMA FinishKnown ==
    ASSUME IInv, NEW r \in Requests, NEW q \in Requests, HoldKnown(q),
           request' = [request EXCEPT ![r] = NoWork(NewRow(TRUE))],
           UNCHANGED <<hold, due>>, witnessed' = witnessed \ {r}
    PROVE  HoldKnown(q)'
<1>1. request'[q] = IF q = r THEN NoWork(NewRow(TRUE)) ELSE request[q]
  BY DEF IInv, TypeOK
<1>2. NoWork(NewRow(TRUE)).pc = "idle"
  BY DEF NoWork
<1>3. CASE q = r
  BY <1>1, <1>2, <1>3 DEF HoldKnown, Idle
<1>4. CASE q # r
  BY <1>1, <1>4 DEF HoldKnown, Idle, Ready
<1> QED
  BY <1>3, <1>4

LEMMA KnownStep ==
    ASSUME IInv, [Next]_vars, HoldsKnown, HoldStartsAfresh,
           NEW q \in Requests
    PROVE  HoldKnown(q)'
<1>1. request \in [Requests -> Work] /\ due \in Nat
  BY DEF IInv, TypeOK
<1>2. HoldKnown(q)
  BY DEF HoldsKnown
<1>3. CASE UNCHANGED <<hold, due, request, witnessed>>
  BY <1>2, <1>3 DEF HoldKnown, Idle, Ready
<1>4. ASSUME NEW u \in Agents, Downgrade(u)
      PROVE  UNCHANGED <<hold, due, request, witnessed>>
  BY <1>4 DEF Downgrade
<1>5. ASSUME NEW r \in Requests, NEW work, Begun(r, work)
      PROVE  HoldKnown(q)'
  <2>1. /\ request'[q] = IF q = r THEN work ELSE request[q]
        /\ UNCHANGED <<hold, due>>
        /\ witnessed' = IF work.expected # 0 THEN witnessed \cup {r} ELSE witnessed
        /\ work.kind = "hold" /\ work.pc = "ready" => work.expected = 0
    BY <1>1, <1>5 DEF Begun
  <2>2. CASE q = r
    BY <2>1, <2>2 DEF HoldKnown, Idle, Ready
  <2>3. CASE q # r
    BY <1>2, <2>1, <2>3 DEF HoldKnown, Idle, Ready
  <2> QED
    BY <2>2, <2>3
<1>6. ASSUME NEW r \in Requests, LoadSLA(r) PROVE HoldKnown(q)'
  <2> DEFINE shifted == ShiftedDue(due, request[r].expected, request[r].at)
  <2>1. /\ request[r].expected \in Nat /\ request[r].at \in Nat
        /\ request[r].pc = "loading"
    BY <1>1, <1>6, BoundsAssumption DEF LoadSLA, Work, Clock
  <2>2. shifted >= due
    BY <1>1, <2>1, ShiftedDueLater
  <2>3. /\ UNCHANGED <<hold, due, witnessed>>
        /\ q # r => request'[q] = request[q]
        /\ request'[r].expected = request[r].expected
        /\ request'[r].due = shifted
    BY <1>1, <1>6 DEF LoadSLA, Store, Work
  <2> HIDE DEF shifted
  <2>4. CASE q = r
    BY <1>2, <2>1, <2>2, <2>3, <2>4 DEF HoldKnown, Idle, Ready
  <2>5. CASE q # r
    BY <1>2, <2>3, <2>5 DEF HoldKnown, Idle, Ready
  <2> QED
    BY <2>4, <2>5
<1>7. ASSUME NEW r \in Requests, LoadRun(r) PROVE HoldKnown(q)'
  <2>1. /\ UNCHANGED <<hold, due, witnessed>>
        /\ q # r => request'[q] = request[q]
        /\ request[r].pc = "loading"
        /\ request'[r].expected = request[r].expected
        /\ request'[r].kind = "plan"
    BY <1>1, <1>7 DEF LoadRun, Store, Work
  <2>2. CASE q = r
    BY <1>2, <2>1, <2>2 DEF HoldKnown, Idle, Ready
  <2>3. CASE q # r
    BY <1>2, <2>1, <2>3 DEF HoldKnown, Idle, Ready
  <2> QED
    BY <2>2, <2>3
<1>8. ASSUME NEW r \in Requests, CommitUpdate(r) \/ CommitPlan(r) \/ Abandon(r)
      PROVE  HoldKnown(q)'
  BY <1>2, <1>8, HoldKept, CommitsFinish, FinishKnown
<1>9. ASSUME NEW r \in Requests, CommitHold(r) PROVE HoldKnown(q)'
  <2>1. CASE hold # request[r].expected
    <3>1. UNCHANGED <<hold, due>> /\ witnessed' = witnessed \ {r}
      BY <1>9, <2>1 DEF CommitHold, Refuse, Store, Finish
    <3> QED
      BY <1>2, <1>9, <3>1, CommitsFinish, FinishKnown
  <2>2. CASE hold = request[r].expected
    <3>1. /\ hold' = request[r].hold
          /\ request[r].kind = "hold"
          /\ request' = [request EXCEPT ![r] = NoWork(NewRow(TRUE))]
      BY <1>9, <2>2 DEF CommitHold, Ready
    <3>2. CASE hold' = 0
      BY <3>2 DEF HoldKnown
    <3>3. CASE hold' # 0
      <4>1. hold = 0
        BY <2>2, <3>1, <3>3 DEF IInv, WorkSound
      <4>2. ~Idle(q) => request[q].expected # hold'
        BY <3>3, <4>1 DEF HoldStartsAfresh
      <4>3. request'[q] = IF q = r THEN NoWork(NewRow(TRUE)) ELSE request[q]
        BY <1>1, <3>1
      <4>4. NoWork(NewRow(TRUE)).pc = "idle"
        BY DEF NoWork
      <4> QED
        BY <4>2, <4>3, <4>4 DEF HoldKnown, Idle
    <3> QED
      BY <3>2, <3>3
  <2> QED
    BY <2>1, <2>2
<1> QED
  BY <1>3, <1>4, <1>5, <1>6, <1>7, <1>8, <1>9, RequestSteps

\* Where no hold starts with a stamp a request in flight remembers, every
\* request that remembers the hold in force has read that hold.
THEOREM HoldsAreKnown == Spec /\ HoldsToldApart => []HoldsKnown
<1>1. Init => HoldsKnown
  BY DEF Init, HoldsKnown, HoldKnown, Idle, NoWork
<1>2. IInv /\ HoldsKnown /\ [Next]_vars /\ [HoldStartsAfresh]_vars => HoldsKnown'
  <2> SUFFICES ASSUME IInv, HoldsKnown, [Next]_vars, [HoldStartsAfresh]_vars
               PROVE  HoldsKnown'
    OBVIOUS
  <2>1. CASE HoldStartsAfresh
    BY <2>1, KnownStep DEF HoldsKnown
  <2>2. CASE UNCHANGED vars
    BY <2>2 DEF vars, HoldsKnown, HoldKnown, Idle, Ready
  <2> QED
    BY <2>1, <2>2
<1> QED
  BY <1>1, <1>2, Invariance, PTL DEF Spec, HoldsToldApart

\* Only the commit that meets the hold it remembers ends it.
LEMMA EndsOfHolds ==
    ASSUME IInv, [Next]_vars, hold # 0, hold' = 0
    PROVE  \E r \in Requests :
              /\ Ready(r, "hold") /\ request[r].expected = hold
              /\ request' = [request EXCEPT ![r] = NoWork(NewRow(TRUE))]
              /\ due' = request[r].due
<1>1. ASSUME NEW u \in Agents, Downgrade(u) PROVE FALSE
  BY <1>1 DEF Downgrade
<1>2. ASSUME NEW r \in Requests, CommitUpdate(r) \/ CommitPlan(r) PROVE FALSE
  BY <1>2, HoldKept
<1>3. PICK r \in Requests : CommitHold(r)
  BY <1>1, <1>2, StoreSteps
<1>4. /\ Ready(r, "hold") /\ request[r].expected = hold
      /\ request' = [request EXCEPT ![r] = NoWork(NewRow(TRUE))]
      /\ due' = request[r].due
  BY <1>3 DEF CommitHold, Refuse, Store
<1> QED
  BY <1>4

\* A hold is ended only by a request that read it (UpdateHold,
\* casTicketHoldTx), unless a hold began at an instant a request in flight
\* remembers.
THEOREM HoldMetIsHoldRead ==
    Spec /\ HoldsToldApart => HoldWriteMeetsTheHoldItRead
<1> DEFINE A == hold # 0 /\ hold' = 0 =>
                  \A r \in Requests :
                     (~Idle(r) /\ request'[r].pc = "idle") => r \in witnessed
<1>1. ASSUME IInv, HoldsKnown, [Next]_vars PROVE A
  <2> SUFFICES ASSUME hold # 0, hold' = 0, NEW q \in Requests,
                      ~Idle(q), request'[q].pc = "idle"
               PROVE  q \in witnessed
    OBVIOUS
  <2>1. PICK r \in Requests :
              /\ Ready(r, "hold") /\ request[r].expected = hold
              /\ request' = [request EXCEPT ![r] = NoWork(NewRow(TRUE))]
    BY <1>1, EndsOfHolds
  <2>2. request'[q] = IF q = r THEN NoWork(NewRow(TRUE)) ELSE request[q]
    BY <1>1, <2>1 DEF IInv, TypeOK
  <2>3. q = r
    BY <2>2 DEF Idle
  <2> QED
    BY <1>1, <2>1, <2>3 DEF HoldsKnown, HoldKnown, Ready, Idle
<1> QED
  BY <1>1, Invariance, HoldsAreKnown, PTL DEF Spec, HoldWriteMeetsTheHoldItRead

\* No commit moves the resolution deadline earlier (ShiftResolveForHold), with
\* the same exception.
THEOREM DeadlinesNeverEarlier == Spec /\ HoldsToldApart => DeadlineNeverEarlier
<1> DEFINE A == due' >= due
<1>1. ASSUME IInv, HoldsKnown, [Next]_vars PROVE A
  <2>1. due \in Nat
    BY <1>1 DEF IInv, TypeOK
  <2>2. ASSUME NEW r \in Requests, CommitHold(r) PROVE A
    <3>1. CASE UNCHANGED due
      BY <2>1, <3>1
    <3>2. CASE /\ hold = request[r].expected /\ request[r].hold = 0
               /\ due' = request[r].due
      <4>1. Ready(r, "hold") /\ ~Idle(r)
        BY <2>2 DEF CommitHold, Ready, Idle
      <4>2. hold # 0
        BY <1>1, <3>2, <4>1 DEF IInv, WorkSound, Ready
      <4> QED
        BY <1>1, <3>2, <4>1, <4>2 DEF HoldsKnown, HoldKnown
    <3> QED
      BY <2>2, <3>1, <3>2 DEF CommitHold, Refuse, Store
  <2>3. ASSUME NEW r \in Requests, CommitUpdate(r) \/ CommitPlan(r) PROVE A
    BY <2>1, <2>3, HoldKept
  <2>4. ASSUME NEW u \in Agents, Downgrade(u) PROVE A
    BY <2>1, <2>4 DEF Downgrade
  <2> QED
    BY <1>1, <2>1, <2>2, <2>3, <2>4, StoreSteps
<1> QED
  BY <1>1, Invariance, HoldsAreKnown, PTL DEF Spec, DeadlineNeverEarlier

(***************************************************************************)
(* The deadline moves by the pause, whatever overlaps.  A request that has *)
(* seen the hold in force remembers it, and the deadline that request is   *)
(* about to write is the stored one, or later by at most the pause: the    *)
(* stored deadline moves only with the end of a hold, and the end of a     *)
(* hold leaves no request that has seen the next one.                      *)
(***************************************************************************)

\* The deadlines a commit that ends the hold in force may leave.
Shifted == due..(due + (now - hold))

PauseKnown(q) ==
    /\ request[q].hold <= now /\ request[q].at <= now
    /\ q \in witnessed =>
          /\ ~Idle(q) /\ hold # 0 /\ request[q].expected = hold
          /\ Ready(q, "hold") => request[q].due \in Shifted

PausesKnown == hold <= now /\ \A q \in Requests : PauseKnown(q)

\* A shift is at most the pause.
LEMMA ShiftedDueWithin ==
    ASSUME NEW d \in Nat, NEW pausedAt \in Nat, NEW resumedAt \in Nat,
           NEW t \in Nat, pausedAt <= t, resumedAt <= t
    PROVE  ShiftedDue(d, pausedAt, resumedAt) \in d..(d + (t - pausedAt))
BY DEF ShiftedDue

\* The longer the hold, the later the deadlines its end may leave.
LEMMA WindowGrows ==
    ASSUME NEW d \in Nat, NEW h \in Nat, NEW t \in Nat, NEW u \in Nat, t <= u
    PROVE  d..(d + (t - h)) \subseteq d..(d + (u - h))
OBVIOUS

\* The clock never goes back.
LEMMA ClockOnward ==
    ASSUME IInv, [Next]_vars
    PROVE  /\ now \in Nat /\ now' \in Nat /\ now' >= now
           /\ hold \in Nat /\ due \in Nat
<1>1. now \in 1..MaxClock /\ hold \in Nat /\ due \in Nat
  BY BoundsAssumption DEF IInv, TypeOK, Clock
<1>2. CASE Tick
  BY <1>1, <1>2 DEF Tick
<1>3. ASSUME NEW r \in Requests,
             \/ BeginAssign(r) \/ BeginTransition(r) \/ BeginPutOnHold(r)
             \/ BeginResume(r) \/ BeginReply(r) \/ BeginConfirm(r)
             \/ BeginReject(r) \/ BeginUpdate(r) \/ BeginExpire(r)
             \/ BeginCompleteStep(r)
      PROVE  now' = now
  BY <1>3, BeginsFresh DEF Begun
<1>4. ASSUME NEW r \in Requests,
             \/ LoadSLA(r) \/ LoadRun(r) \/ Abandon(r)
             \/ CommitUpdate(r) \/ CommitHold(r) \/ CommitPlan(r)
      PROVE  now' = now
  BY <1>4 DEF LoadSLA, LoadRun, Abandon, CommitUpdate, CommitHold, CommitPlan,
              ApplyPlan, Refuse, Store
<1>5. ASSUME NEW u \in Agents, Downgrade(u) PROVE now' = now
  BY <1>5 DEF Downgrade
<1>6. ASSUME UNCHANGED vars PROVE now' = now
  BY <1>6 DEF vars
<1>7. now' = now \/ Tick
  BY <1>3, <1>4, <1>5, <1>6 DEF Next
<1> QED
  BY <1>1, <1>2, <1>7

\* What is known of a pause survives the passing of time.
LEMMA PauseAged ==
    ASSUME IInv, [Next]_vars, hold <= now, NEW q \in Requests, PauseKnown(q),
           UNCHANGED <<hold, due>>, request'[q] = request[q],
           q \in witnessed' => q \in witnessed
    PROVE  PauseKnown(q)'
<1>1. /\ now \in Nat /\ now' \in Nat /\ now' >= now
      /\ hold \in Nat /\ due \in Nat
  BY ClockOnward
<1>2. request[q].hold \in Nat /\ request[q].at \in Nat
  BY BoundsAssumption DEF IInv, TypeOK, Work, Clock
<1>3. Shifted \subseteq Shifted'
  <2>1. due' = due /\ hold' = hold
    OBVIOUS
  <2>2. Shifted' = due..(due + (now' - hold))
    BY <2>1 DEF Shifted
  <2> QED
    BY <1>1, <2>2, WindowGrows DEF Shifted
<1>4. request'[q].hold <= now' /\ request'[q].at <= now'
  BY <1>1, <1>2 DEF PauseKnown
<1> QED
  BY <1>3, <1>4 DEF PauseKnown, Idle, Ready

\* So it does when somebody's request finishes.
LEMMA PauseFinished ==
    ASSUME IInv, [Next]_vars, hold <= now, NEW r \in Requests,
           NEW q \in Requests, PauseKnown(q), UNCHANGED <<hold, due>>,
           request' = [request EXCEPT ![r] = NoWork(NewRow(TRUE))],
           witnessed' = witnessed \ {r}
    PROVE  PauseKnown(q)'
<1>1. request'[q] = IF q = r THEN NoWork(NewRow(TRUE)) ELSE request[q]
  BY DEF IInv, TypeOK
<1>2. CASE q = r
  <2>1. request'[q].hold = 0 /\ request'[q].at = 0
    BY <1>1, <1>2 DEF NoWork
  <2>2. now' \in Nat /\ q \notin witnessed'
    BY <1>2, ClockOnward
  <2>3. request'[q].hold <= now' /\ request'[q].at <= now'
    <3>1. PICK t \in Nat : t = now'
      BY <2>2
    <3>2. 0 <= t
      OBVIOUS
    <3> QED
      BY <2>1, <3>1, <3>2, Zenon
  <2> QED
    BY <2>2, <2>3 DEF PauseKnown
<1>3. CASE q # r
  BY <1>1, <1>3, PauseAged
<1> QED
  BY <1>2, <1>3

LEMMA PauseStep ==
    ASSUME IInv, [Next]_vars, PausesKnown, NEW q \in Requests
    PROVE  PauseKnown(q)'
<1>1. /\ request \in [Requests -> Work]
      /\ now \in Nat /\ now' \in Nat /\ now' >= now
      /\ hold \in Nat /\ due \in Nat
  BY ClockOnward DEF IInv, TypeOK
<1>2. hold <= now /\ PauseKnown(q)
  BY DEF PausesKnown
<1>3. CASE UNCHANGED <<hold, due, request, witnessed>>
  BY <1>2, <1>3, PauseAged
<1>4. ASSUME NEW u \in Agents, Downgrade(u)
      PROVE  UNCHANGED <<hold, due, request, witnessed>>
  BY <1>4 DEF Downgrade
<1>5. ASSUME NEW r \in Requests, NEW work, Begun(r, work)
      PROVE  PauseKnown(q)'
  <2>1. /\ request'[q] = IF q = r THEN work ELSE request[q]
        /\ UNCHANGED <<hold, due>> /\ now' = now
        /\ witnessed' = IF work.expected # 0 THEN witnessed \cup {r} ELSE witnessed
        /\ work.kind = "hold" /\ work.pc = "ready" => work.expected = 0
        /\ work.pc # "idle" /\ Idle(r) /\ ReadNow(work)
    BY <1>1, <1>5 DEF Begun
  <2>2. CASE q = r
    <3>1. q \notin witnessed
      BY <1>2, <2>1, <2>2 DEF PauseKnown
    <3>2. q \in witnessed' => work.expected # 0 /\ work.expected = hold
      BY <2>1, <3>1 DEF ReadNow
    <3> QED
      BY <2>1, <2>2, <3>2 DEF PauseKnown, Idle, Ready, ReadNow
  <2>3. CASE q # r
    BY <1>2, <2>1, <2>3, PauseAged
  <2> QED
    BY <2>2, <2>3
<1>6. ASSUME NEW r \in Requests, LoadSLA(r) PROVE PauseKnown(q)'
  <2> DEFINE shifted == ShiftedDue(due, request[r].expected, request[r].at)
  <2>1. /\ request[r].expected \in Nat /\ request[r].at \in Nat
        /\ request[r].hold \in Nat /\ request[r].pc = "loading"
    BY <1>1, <1>6, BoundsAssumption DEF LoadSLA, Work, Clock
  <2>2. /\ UNCHANGED <<hold, due, now, witnessed>>
        /\ q # r => request'[q] = request[q]
        /\ request'[r].expected = request[r].expected
        /\ request'[r].hold = request[r].hold
        /\ request'[r].at = 0
        /\ request'[r].pc = "ready"
        /\ request'[r].due = shifted
    BY <1>1, <1>6 DEF LoadSLA, Store, Work
  <2>3. CASE q = r
    <3>1. q \in witnessed => shifted \in Shifted
      BY <1>1, <1>2, <2>1, <2>3, ShiftedDueWithin DEF PauseKnown, Shifted
    <3>2. Shifted' = Shifted
      BY <2>2 DEF Shifted
    <3> HIDE DEF shifted
    <3> QED
      BY <1>1, <1>2, <2>1, <2>2, <2>3, <3>1, <3>2 DEF PauseKnown, Idle, Ready
  <2>4. CASE q # r
    BY <1>2, <2>2, <2>4, PauseAged
  <2> QED
    BY <2>3, <2>4
<1>7. ASSUME NEW r \in Requests, LoadRun(r) PROVE PauseKnown(q)'
  <2>1. /\ UNCHANGED <<hold, due, now, witnessed>>
        /\ q # r => request'[q] = request[q]
        /\ request[r].pc = "loading"
        /\ request'[r].expected = request[r].expected
        /\ request'[r].hold = request[r].hold
        /\ request'[r].at = request[r].at
        /\ request'[r].pc = "ready"
        /\ request'[r].kind = "plan"
    BY <1>1, <1>7 DEF LoadRun, Store, Work
  <2>2. CASE q = r
    BY <1>2, <2>1, <2>2 DEF PauseKnown, Idle, Ready
  <2>3. CASE q # r
    BY <1>2, <2>1, <2>3, PauseAged
  <2> QED
    BY <2>2, <2>3
<1>8. ASSUME NEW r \in Requests, CommitUpdate(r) \/ CommitPlan(r) \/ Abandon(r)
      PROVE  PauseKnown(q)'
  BY <1>2, <1>8, HoldKept, CommitsFinish, PauseFinished
<1>9. ASSUME NEW r \in Requests, CommitHold(r) PROVE PauseKnown(q)'
  <2>1. CASE hold # request[r].expected
    <3>1. UNCHANGED <<hold, due>> /\ witnessed' = witnessed \ {r}
      BY <1>9, <2>1 DEF CommitHold, Refuse, Store, Finish
    <3> QED
      BY <1>2, <1>9, <3>1, CommitsFinish, PauseFinished
  <2>2. CASE hold = request[r].expected
    <3>1. witnessed' = {}
      BY <1>9, <2>2 DEF CommitHold
    <3>2. request'[q] = IF q = r THEN NoWork(NewRow(TRUE)) ELSE request[q]
      BY <1>1, <1>9, CommitsFinish
    <3>3. NoWork(NewRow(TRUE)).hold = 0 /\ NoWork(NewRow(TRUE)).at = 0
      BY DEF NoWork
    <3>4. request[q].hold \in Nat /\ request[q].at \in Nat
      BY <1>1, BoundsAssumption DEF Work, Clock
    <3>5. request'[q].hold <= now' /\ request'[q].at <= now'
      <4>1. CASE q = r
        <5>1. PICK t \in Nat : t = now'
          BY <1>1
        <5>2. request'[q].hold = 0 /\ request'[q].at = 0
          BY <3>2, <3>3, <4>1
        <5> QED
          BY <5>1, <5>2
      <4>2. CASE q # r
        BY <1>1, <1>2, <3>2, <3>4, <4>2 DEF PauseKnown
      <4> QED
        BY <4>1, <4>2
    <3> QED
      BY <3>1, <3>5 DEF PauseKnown
  <2> QED
    BY <2>1, <2>2
<1> QED
  BY <1>3, <1>4, <1>5, <1>6, <1>7, <1>8, <1>9, RequestSteps

\* A hold begins at an instant that has come.
LEMMA HoldInThePast ==
    ASSUME IInv, [Next]_vars, PausesKnown
    PROVE  hold' <= now'
<1>1. now \in Nat /\ now' \in Nat /\ now' >= now /\ hold \in Nat
  BY ClockOnward
<1>2. CASE hold' = hold
  BY <1>1, <1>2 DEF PausesKnown
<1>3. ASSUME NEW u \in Agents, Downgrade(u) PROVE hold' = hold
  BY <1>3 DEF Downgrade
<1>4. ASSUME NEW r \in Requests, CommitUpdate(r) \/ CommitPlan(r)
      PROVE  hold' = hold
  BY <1>4, HoldKept
<1>5. ASSUME NEW r \in Requests, CommitHold(r)
      PROVE  hold' = hold \/ hold' = request[r].hold
  BY <1>5 DEF CommitHold, Refuse, Store
<1>6. ASSUME NEW r \in Requests, hold' = request[r].hold PROVE hold' <= now'
  <2>1. request[r].hold \in Nat
    BY BoundsAssumption DEF IInv, TypeOK, Work, Clock
  <2> QED
    BY <1>1, <1>6, <2>1 DEF PausesKnown, PauseKnown
<1> QED
  BY <1>2, <1>3, <1>4, <1>5, <1>6, StoreSteps

\* Every request that has seen the hold in force carries no deadline but the
\* stored one, or that one moved by at most the pause.
THEOREM PausesAreKnown == Spec => []PausesKnown
<1>1. Init => PausesKnown
  BY DEF Init, PausesKnown, PauseKnown, NoWork
<1>2. IInv /\ PausesKnown /\ [Next]_vars => PausesKnown'
  BY PauseStep, HoldInThePast DEF PausesKnown
<1> QED
  BY <1>1, <1>2, Invariance, PTL DEF Spec

\* The resolution deadline moves only with the end of a hold and by no more
\* than its pause, although ShiftForHold reads it before the transaction,
\* unless the hold ended is another that began in the same second.
THEOREM DeadlinesMoveByThePause == Spec => DeadlineMovesByThePause
<1> DEFINE A == due' # due =>
                  /\ hold # 0 /\ hold' = 0
                  /\ \/ due' \in due..(due + (now - hold))
                     \/ \E r \in Requests \ witnessed :
                           /\ ~Idle(r) /\ request'[r].pc = "idle"
                           /\ request[r].expected = hold
<1>1. ASSUME IInv, PausesKnown, [Next]_vars PROVE A
  <2>1. ASSUME NEW r \in Requests, CommitHold(r), due' # due PROVE A
    <3>1. /\ hold = request[r].expected /\ hold' = request[r].hold
          /\ request[r].hold = 0 /\ due' = request[r].due
          /\ Ready(r, "hold") /\ ~Idle(r)
      BY <2>1 DEF CommitHold, Refuse, Store, Ready, Idle
    <3>2. hold # 0
      BY <1>1, <3>1 DEF IInv, WorkSound, Ready
    <3>3. request'[r].pc = "idle"
      <4>1. request'[r] = NoWork(NewRow(TRUE))
        BY <1>1, <2>1, CommitsFinish DEF IInv, TypeOK
      <4> QED
        BY <4>1 DEF NoWork
    <3>4. CASE r \in witnessed
      <4>1. due' \in due..(due + (now - hold))
        BY <1>1, <3>1, <3>4 DEF PausesKnown, PauseKnown, Shifted
      <4> QED
        BY <3>1, <3>2, <4>1
    <3>5. CASE r \notin witnessed
      BY <3>1, <3>2, <3>3, <3>5
    <3> QED
      BY <3>4, <3>5
  <2>2. ASSUME NEW r \in Requests, CommitUpdate(r) \/ CommitPlan(r) PROVE A
    BY <2>2, HoldKept
  <2>3. ASSUME NEW u \in Agents, Downgrade(u) PROVE A
    BY <2>3 DEF Downgrade
  <2> QED
    BY <1>1, <2>1, <2>2, <2>3, StoreSteps
<1> QED
  BY <1>1, Invariance, PausesAreKnown, PTL DEF Spec, DeadlineMovesByThePause
(***************************************************************************)
(* Targets stay on the staff: assignments go to staff.                     *)
(***************************************************************************)

TargetsSound == \A q \in Requests : TargetSound(request[q])

LEMMA TargetsStep ==
    ASSUME IInv, [Next]_vars, TargetsSound, TargetsKept
    PROVE  TargetsSound'
<1> SUFFICES ASSUME NEW q \in Requests, Assigning(request'[q])
             PROVE  request'[q].row.assignee \in staff' \cup {NoOne}
  BY DEF TargetsSound, TargetSound, Assigning
<1>1. \/ /\ request'[q].kind = request[q].kind
         /\ request'[q].row = request[q].row
         /\ request'[q].fields = request[q].fields
      \/ staff' = staff /\ TargetSound(request'[q])
  BY RowsCarried DEF Assigning, WholeRowKinds
<1>2. CASE staff' = staff /\ TargetSound(request'[q])
  BY <1>2 DEF TargetSound
<1>3. CASE /\ request'[q].kind = request[q].kind
           /\ request'[q].row = request[q].row
           /\ request'[q].fields = request[q].fields
  <2>1. Assigning(request[q])
    BY <1>3 DEF Assigning
  <2>2. request[q].row.assignee \in staff \cup {NoOne}
    BY <2>1 DEF TargetsSound, TargetSound
  <2>3. request[q].row.assignee \notin staff \ staff'
    BY <2>1 DEF TargetsKept
  <2> QED
    BY <1>3, <2>2, <2>3
<1> QED
  BY <1>1, <1>2, <1>3

\* An assignment is written for somebody on the staff (AssignTicket's check of
\* its target), unless its target is downgraded while it is in flight.
THEOREM AssignmentsReachStaff ==
    Spec /\ TargetsStayOnStaff => AssignmentTargetOnStaff
<1> DEFINE A == \A r \in Requests :
                   (request[r].kind = "update" /\ request[r].fields = {"assignee"}
                       /\ ticket' = request[r].row /\ ticket' # ticket)
                   => ticket'.assignee \in staff \cup {NoOne}
<1>1. Init => TargetsSound
  BY DEF Init, TargetsSound, TargetSound, Assigning, NoWork
<1>2. IInv /\ TargetsSound /\ [Next]_vars /\ [TargetsKept]_vars => TargetsSound'
  <2> SUFFICES ASSUME IInv, TargetsSound, [Next]_vars, [TargetsKept]_vars
               PROVE  TargetsSound'
    OBVIOUS
  <2>1. CASE TargetsKept
    BY <2>1, TargetsStep
  <2>2. CASE UNCHANGED vars
    BY <2>2 DEF vars, TargetsSound, TargetSound, Assigning
  <2> QED
    BY <2>1, <2>2
<1>3. TargetsSound => A
  BY DEF TargetsSound, TargetSound, Assigning
<1> QED
  BY <1>1, <1>2, <1>3, Invariance, PTL
  DEF Spec, TargetsStayOnStaff, AssignmentTargetOnStaff
=============================================================================
