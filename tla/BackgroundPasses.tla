-------------------------- MODULE BackgroundPasses --------------------------
(***************************************************************************)
(* The two background passes over open tickets, the expiry of holds        *)
(* (hold_expiry.go) and the operational alerts (alerts.go), beside the     *)
(* people who work on the tickets.  A pass takes one clock snapshot, reads *)
(* the tickets page by page, and writes about each of them in a            *)
(* transaction of its own; the passes of two processes may overlap.        *)
(* Working days are the unit of time: domain.SLACalendar is abstracted to  *)
(* counting them.                                                          *)
(***************************************************************************)
EXTENDS Naturals, Sequences, FiniteSetsExt

CONSTANTS
    NTickets,       \* tickets have ids 1..NTickets
    HoldPasses,     \* the processes that expire holds
    AlertPasses,    \* the processes that raise alerts
    PageSize,       \* HeldTicketsPageSize and AlertCandidatesPageSize
    Days,           \* the hold auto-close window
    Quiet,          \* InactivityWorkingDays
    Target,         \* the resolution target frozen on every ticket
    Scenarios,      \* which passes run side by side, over which open tickets,
                    \* and bounds on what people do and on the alert passes begun
    None,
    MaxTime         \* bound on the clock

ASSUME PassesAssumption ==
    /\ {NTickets, PageSize, Days, Quiet, Target} \subseteq Nat \ {0}
    /\ None \notin Nat
    /\ Scenarios \subseteq [passes : SUBSET (HoldPasses \cup AlertPasses),
                            open : SUBSET (1..NTickets),
                            changes : Nat, alertRuns : Nat]
    /\ MaxTime \in Nat

Tickets == 1..NTickets
Instants == 0..MaxTime

VARIABLES
    ticket,       \* the tickets table, with the due instant of ticket_sla
    notices,      \* per ticket and kind: created_at of its notifications
    holdPass,     \* what each expiry pass is doing
    alertPass,    \* what each alert pass is doing
    now,
    running,      \* the passes that run
    changes, alertRuns    \* what is left of the two bounds

bounds == <<changes, alertRuns>>
vars == <<ticket, notices, holdPass, alertPass, now, running, bounds>>

Kinds == {"reminder", "breached", "noMovement"}

\* activity is updated_at or the newest comment, whichever is later.
TicketRow == [open : BOOLEAN, held : Instants \cup {None},
              activity : Instants, due : 0..Target + MaxTime]

\* A page holds what a pass read of each ticket it has not judged yet; the
\* pass reads another only after a full one.
Off == [at |-> "off"]
PagesOf(Facts) ==
    UNION {[S -> Facts] : S \in {T \in SUBSET Tickets : Cardinality(T) \in 1..PageSize}}
Reading == [at : {"list"}, now : Instants, after : 0..NTickets]
Handling(steps, Facts) ==
    [at : steps, now : Instants, page : PagesOf(Facts), full : BOOLEAN]

HoldPassStates ==
    {Off} \cup Reading \cup Handling({"judge", "remind"}, Instants)

Candidate == [held : Instants \cup {None}, activity : Instants]
Verdict == [breached : BOOLEAN, quietSince : Instants \cup {None}]
AlertPassStates ==
    {Off} \cup Reading \cup Handling({"facts"}, Candidate)
          \cup Handling({"breach", "quiet"}, Verdict)

\* The tickets of a scenario are open, and some of them on hold.
Init ==
    /\ \E s \in Scenarios, held \in [Tickets -> {None, 0}] :
          /\ running = s.passes /\ changes = s.changes /\ alertRuns = s.alertRuns
          /\ \A t \in Tickets \ s.open : held[t] = None
          /\ ticket = [t \in Tickets |-> [open |-> t \in s.open, held |-> held[t],
                                          activity |-> 0, due |-> Target]]
    /\ notices = [t \in Tickets |-> [k \in Kinds |-> <<>>]]
    /\ holdPass = [p \in HoldPasses |-> Off]
    /\ alertPass = [p \in AlertPasses |-> Off]
    /\ now = 0
-----------------------------------------------------------------------------
(* Paging by id.                                                           *)

\* Fault: the page takes one ticket too many.
PageAboveLoose(S, after) ==
    {t \in S : t > after /\ Cardinality({u \in S : after < u /\ u < t}) <= PageSize}

PageAbove(S, after) ==
    {t \in S : t > after /\ Cardinality({u \in S : after < u /\ u <= t}) <= PageSize}

Held == {t \in Tickets : ticket[t].open /\ ticket[t].held # None}
Open == {t \in Tickets : ticket[t].open}

\* The pass turns to the facts it has just read, and ends when there are none.
Turned(pass, next, facts) ==
    IF DOMAIN facts = {} THEN Off
    ELSE [at |-> next, now |-> pass.now, page |-> facts,
          full |-> Cardinality(DOMAIN facts) = PageSize]

\* Once its current ticket is judged, the pass goes on with the page, reads the
\* page above it if this one was full, or ends.
Current(pass) == Min(DOMAIN pass.page)

Judged(pass, next) ==
    LET left == DOMAIN pass.page \ {Current(pass)} IN
    IF left # {} THEN [pass EXCEPT !.at = next, !.page = [t \in left |-> pass.page[t]]]
    ELSE IF pass.full THEN [at |-> "list", now |-> pass.now, after |-> Current(pass)]
    ELSE Off

Notified(t, kind, since) ==
    \E i \in DOMAIN notices[t][kind] : notices[t][kind][i] >= since
Notify(t, kind, at) ==
    notices' = [notices EXCEPT ![t][kind] = Append(@, at)]
-----------------------------------------------------------------------------
(* Hold expiry.                                                            *)

GoHold(p, next) ==
    /\ holdPass' = [holdPass EXCEPT ![p] = next]
    /\ UNCHANGED <<alertPass, now, running, bounds>>

StartHoldPass(p) ==
    /\ p \in running /\ holdPass[p] = Off
    /\ GoHold(p, [at |-> "list", now |-> now, after |-> 0])
    /\ UNCHANGED <<ticket, notices>>

\* Fault: every page is the first page.
HeldPageFirst(after) == PageAbove(Held, 0)

HeldPage(after) == PageAbove(Held, after)

ListHeld(p) ==
    /\ holdPass[p].at = "list"
    /\ GoHold(p, Turned(holdPass[p], "judge",
                        [t \in HeldPage(holdPass[p].after) |-> ticket[t].held]))
    /\ UNCHANGED <<ticket, notices>>

Judging(p, t) == holdPass[p].at = "judge" /\ Current(holdPass[p]) = t
Since(p) == holdPass[p].page[Current(holdPass[p])]
Expired(p) == holdPass[p].now >= Since(p) + Days
ToRemind(p) == Days >= 2 /\ holdPass[p].now >= Since(p) + Days - 1

\* The hold write applies against the hold the pass read; otherwise the
\* requester replied first, and the ticket is left alone.  Nothing reads the
\* due instant or the activity of a ticket that is not open.
CloseExpired(p, t) ==
    /\ Judging(p, t) /\ Expired(p)
    /\ ticket' = IF ticket[t].held = Since(p)
                   THEN [ticket EXCEPT ![t].open = FALSE, ![t].held = None]
                   ELSE ticket
    /\ GoHold(p, Judged(holdPass[p], "judge"))
    /\ UNCHANGED notices

NotDue(p, t) ==
    /\ Judging(p, t) /\ ~Expired(p) /\ ~ToRemind(p)
    /\ GoHold(p, Judged(holdPass[p], "judge"))
    /\ UNCHANGED <<ticket, notices>>

\* The read that keeps reminders to one per hold, outside the transaction
\* that writes the reminder.
CheckReminder(p, t) ==
    /\ Judging(p, t) /\ ~Expired(p) /\ ToRemind(p)
    /\ GoHold(p, IF Notified(t, "reminder", Since(p))
                   THEN Judged(holdPass[p], "judge")
                   ELSE [holdPass[p] EXCEPT !.at = "remind"])
    /\ UNCHANGED <<ticket, notices>>

\* Fault: the reminder does not look at the hold again.
RemindUnguarded(p, t) ==
    /\ holdPass[p].at = "remind" /\ Current(holdPass[p]) = t
    /\ Notify(t, "reminder", holdPass[p].now)
    /\ GoHold(p, Judged(holdPass[p], "judge"))
    /\ UNCHANGED ticket

Remind(p, t) ==
    /\ holdPass[p].at = "remind" /\ Current(holdPass[p]) = t
    /\ IF ticket[t].held = Since(p)
         THEN Notify(t, "reminder", holdPass[p].now)
         ELSE UNCHANGED notices
    /\ GoHold(p, Judged(holdPass[p], "judge"))
    /\ UNCHANGED ticket

\* Nobody can be told: nothing is written, and the hold is not marked.
RequesterUnreachable(p, t) ==
    /\ holdPass[p].at = "remind" /\ Current(holdPass[p]) = t
    /\ GoHold(p, Judged(holdPass[p], "judge"))
    /\ UNCHANGED <<ticket, notices>>

\* A failed read or write, or the end of the process, ends the pass.
AbortHoldPass(p) ==
    /\ holdPass[p] # Off
    /\ GoHold(p, Off)
    /\ UNCHANGED <<ticket, notices>>

JudgeHold(p, t) == CloseExpired(p, t) \/ NotDue(p, t) \/ CheckReminder(p, t)
RemindOf(p, t) == Remind(p, t) \/ RequesterUnreachable(p, t)
-----------------------------------------------------------------------------
(* Alerts.                                                                 *)

GoAlert(p, next) ==
    /\ alertPass' = [alertPass EXCEPT ![p] = next]
    /\ UNCHANGED <<ticket, holdPass, now, running, changes>>

StartAlertPass(p) ==
    /\ p \in running /\ alertPass[p] = Off
    /\ alertRuns > 0 /\ alertRuns' = alertRuns - 1
    /\ GoAlert(p, [at |-> "list", now |-> now, after |-> 0])
    /\ UNCHANGED notices

ListCandidates(p) ==
    /\ alertPass[p].at = "list"
    /\ GoAlert(p, Turned(alertPass[p], "facts",
                         [t \in PageAbove(Open, alertPass[p].after) |->
                             [held |-> ticket[t].held, activity |-> ticket[t].activity]]))
    /\ UNCHANGED <<notices, alertRuns>>

\* A paused resolution is judged at the instant of the pause.
ResolveNow(t, at) == IF ticket[t].held # None /\ ticket[t].held < at THEN ticket[t].held ELSE at

\* The commitments, pauses and comments of the page, read after its rows.  The
\* newest activity may be a comment this read sees or an edit it does not.
ReadFacts(p) ==
    /\ alertPass[p].at = "facts"
    /\ LET pass == alertPass[p]
           rows == pass.page
           verdict(t, last) ==
               [breached   |-> ResolveNow(t, pass.now) >= ticket[t].due,
                quietSince |-> IF rows[t].held = None /\ pass.now >= last + Quiet
                                 THEN last ELSE None] IN
       \E last \in [DOMAIN rows -> Instants] :
          /\ \A t \in DOMAIN rows : last[t] \in {rows[t].activity, ticket[t].activity}
          /\ GoAlert(p, [pass EXCEPT !.at = "breach",
                             !.page = [t \in DOMAIN rows |-> verdict(t, last[t])]])
    /\ UNCHANGED <<notices, alertRuns>>

Alerting(p, t, at) == alertPass[p].at = at /\ Current(alertPass[p]) = t

\* Fault: only an alert as late as the pass itself counts as sent.
AppendAlertBySnapshot(t, kind, since, at) ==
    IF Notified(t, kind, at) THEN UNCHANGED notices ELSE Notify(t, kind, at)

\* The transaction that writes an alert looks for it first.
AppendAlert(t, kind, since, at) ==
    IF Notified(t, kind, since) THEN UNCHANGED notices ELSE Notify(t, kind, at)

AlertBreach(p, t) ==
    /\ Alerting(p, t, "breach")
    /\ IF alertPass[p].page[t].breached
         THEN AppendAlert(t, "breached", 0, alertPass[p].now)
         ELSE UNCHANGED notices
    /\ GoAlert(p, [alertPass[p] EXCEPT !.at = "quiet"])
    /\ UNCHANGED alertRuns

AlertNoMovement(p, t) ==
    /\ Alerting(p, t, "quiet")
    /\ LET since == alertPass[p].page[t].quietSince IN
       IF since = None THEN UNCHANGED notices
       ELSE AppendAlert(t, "noMovement", since, alertPass[p].now)
    /\ GoAlert(p, Judged(alertPass[p], "breach"))
    /\ UNCHANGED alertRuns

AssigneeUnreachable(p, t) ==
    /\ Alerting(p, t, "breach")
    /\ GoAlert(p, Judged(alertPass[p], "breach"))
    /\ UNCHANGED <<notices, alertRuns>>

AbortAlertPass(p) ==
    /\ alertPass[p] # Off
    /\ GoAlert(p, Off)
    /\ UNCHANGED <<notices, alertRuns>>
-----------------------------------------------------------------------------
(* The people, and the clock.                                              *)

Change(t, row) ==
    /\ changes > 0 /\ changes' = changes - 1
    /\ ticket' = [ticket EXCEPT ![t] = row]
    /\ UNCHANGED <<notices, holdPass, alertPass, now, running, alertRuns>>

PutOnHold(t) ==
    /\ t \in Open \ Held
    /\ Change(t, [ticket[t] EXCEPT !.held = now, !.activity = now])

\* A resume, or a requester's reply: the deadline moves by the pause.
EndHold(t) ==
    /\ t \in Held
    /\ Change(t, [ticket[t] EXCEPT !.held = None, !.activity = now,
                                   !.due = @ + (now - ticket[t].held)])

Work(t) == t \in Open /\ Change(t, [ticket[t] EXCEPT !.activity = now])

Resolve(t) == t \in Open /\ Change(t, [ticket[t] EXCEPT !.open = FALSE, !.held = None])

Tick == now < MaxTime /\ now' = now + 1 /\ UNCHANGED <<ticket, notices, holdPass, alertPass, running, bounds>>

Next ==
    \/ \E p \in HoldPasses : StartHoldPass(p) \/ ListHeld(p) \/ AbortHoldPass(p)
    \/ \E p \in HoldPasses, t \in Tickets : JudgeHold(p, t) \/ RemindOf(p, t)
    \/ \E p \in AlertPasses :
          StartAlertPass(p) \/ ListCandidates(p) \/ ReadFacts(p) \/ AbortAlertPass(p)
    \/ \E p \in AlertPasses, t \in Tickets :
          AlertBreach(p, t) \/ AlertNoMovement(p, t) \/ AssigneeUnreachable(p, t)
    \/ \E t \in Tickets : PutOnHold(t) \/ EndHold(t) \/ Work(t) \/ Resolve(t)
    \/ Tick

\* The ticker starts pass after pass, and no failure meets the same read or
\* the same ticket every time.
PassFairness(p) ==
    /\ WF_vars(StartHoldPass(p))
    /\ \A a \in 0..NTickets : SF_vars(ListHeld(p) /\ holdPass[p].after = a)
    /\ \A t \in Tickets : SF_vars(JudgeHold(p, t)) /\ SF_vars(RemindOf(p, t))

Spec == Init /\ [][Next]_vars /\ \A p \in HoldPasses : PassFairness(p)
-----------------------------------------------------------------------------
PassesTypeOK ==
    /\ ticket \in [Tickets -> TicketRow]
    /\ notices \in [Tickets -> [Kinds -> Seq(Instants)]]
    /\ holdPass \in [HoldPasses -> HoldPassStates]
    /\ alertPass \in [AlertPasses -> AlertPassStates]
    /\ now \in Instants /\ running \subseteq HoldPasses \cup AlertPasses /\ {changes, alertRuns} \subseteq Nat

\* Overlapping alert passes, each with its own clock snapshot and its own view
\* of the ticket, report a breach once and every period of silence once:
\* between two alerts of an open ticket somebody moved it (AppendAlert).
AlertedOncePerPeriod ==
    \A t \in Tickets :
        /\ Len(notices[t].breached) <= 1
        /\ ticket[t].open =>
              \A i, j \in DOMAIN notices[t].noMovement :
                  i < j => notices[t].noMovement[i] < ticket[t].activity

\* What a pass does to a hold, it does to a hold that lasts: a reminder is the
\* first of the hold on record and comes when due, and a closing by the pass
\* ends a hold that ran its whole window, though the page it acts on is old
\* and the check for an earlier reminder is outside the transaction.
ExpiryMeetsItsHold ==
    [][\A t \in Tickets :
         LET since == ticket[t].held IN
         /\ notices'[t].reminder # notices[t].reminder =>
               /\ since # None /\ now >= since + Days - 1
               /\ ~Notified(t, "reminder", since)
         /\ ticket[t].open /\ ~ticket'[t].open /\ holdPass' # holdPass =>
               since # None /\ now >= since + Days]_vars

Overdue(t) == ticket[t].held # None /\ now >= ticket[t].held + Days

\* A hold that ran out ends, whatever other holds fill the pages before it and
\* whichever passes fail (HoldExpiryService.Pass).
ExpiredHoldsEnd ==
    \A t \in Tickets :
        (running \cap HoldPasses # {} /\ Overdue(t)) ~> ~Overdue(t)
=============================================================================
