---------------------------- MODULE EmailOutbox ----------------------------
(***************************************************************************)
(* The notification email outbox: one delivery row per notification,       *)
(* written by the change that notifies, and the background sender that     *)
(* claims due rows, sends them over SMTP and settles them.                 *)
(*                                                                         *)
(* Claiming is one immediate transaction and every settlement is one       *)
(* guarded statement; between them the sender reads the recipient and      *)
(* talks to the mail server with no transaction open.  A process can stop  *)
(* at any of these points, and a second process can start while the first  *)
(* still runs, so delivery is a conversation between rows, processes and a *)
(* mail server that may accept a message without saying so.                *)
(*                                                                         *)
(* Instants are kept as waits: the ticks until a row is due.               *)
(***************************************************************************)
EXTENDS Integers, Sequences, FiniteSets, SequencesExt

CONSTANTS
    Emails,      \* notification ids
    Processes,   \* server processes sharing the database
    Batch,       \* emailClaimBatch
    Backoff,     \* EmailRetryBackoff: the wait before each retry
    StoreFails,  \* the store calls that may fail
    MaxStops,    \* bound: how often processes stop
    MaxOverdue   \* bound: ticks by which overdue rows are told apart

ASSUME EmailsAssumption  == Emails \subseteq Nat
ASSUME BatchAssumption   == Batch \in Nat \ {0}
ASSUME BackoffAssumption ==
    /\ Backoff \in Seq(Nat \ {0})
    /\ \A i, j \in 1..Len(Backoff) : i <= j => Backoff[i] <= Backoff[j]
ASSUME FaultAssumption   ==
    StoreFails \subseteq {"pass", "compose", "settle", "recover"}
ASSUME BoundsAssumption  == MaxStops \in Nat /\ MaxOverdue \in Nat

VARIABLES
    outbox,        \* per email: its notification_emails row
    notification,  \* per email: whether its notification exists
    emailOn,       \* whether email delivery is configured and enabled
    process,       \* per process: where its sender is
    stops,         \* how often a process stopped
    accepted,      \* auxiliary: copies the mail server accepted
    tries,         \* auxiliary: conversations with the mail server
    since          \* auxiliary: ticks since the last of them

outboxVars == <<outbox, notification, emailOn, process, stops, accepted,
                tries, since>>
sentVars == <<accepted, tries, since>>

Statuses == {"absent", "pending", "sending", "sent", "skipped", "failed",
             "removed"}
Settled == {"sent", "skipped", "failed"}

Retries == Len(Backoff)
Horizon == IF Retries = 0 THEN 1 ELSE Backoff[Retries] + 1

\* PendingEmail: what a claim hands to its sender.
Claims == [email : Emails, attempts : 0..Retries]

Steps == {"down", "idle", "skip", "claim", "compose", "send", "settle"}
Verdicts == {"none", "sent", "skipped", "failed", "retry"}

Down == [pc |-> "down", batch |-> << >>, verdict |-> "none"]
Resting == [Down EXCEPT !.pc = "idle"]

(***************************************************************************)
(* The rest of the system.                                                 *)
(***************************************************************************)
OutboxInit ==
    /\ outbox = [e \in Emails |-> [status |-> "absent", attempts |-> 0, wait |-> 0]]
    /\ notification = [e \in Emails |-> "future"]
    /\ emailOn \in BOOLEAN
    /\ process = [p \in Processes |-> Down]
    /\ stops = 0
    /\ accepted = [e \in Emails |-> 0]
    /\ tries = [e \in Emails |-> 0]
    /\ since = [e \in Emails |-> 0]

\* A change commits its notification with a pending row, due at once.
Notify(e) ==
    /\ notification[e] = "future"
    /\ notification' = [notification EXCEPT ![e] = "stored"]
    /\ outbox' = [outbox EXCEPT ![e].status = "pending"]
    /\ UNCHANGED <<emailOn, process, stops, sentVars>>

\* The user, ticket or comment of the notification is deleted, and the
\* notification with it; its row has no foreign key and stays.
Cascade(e) ==
    /\ notification[e] = "stored"
    /\ notification' = [notification EXCEPT ![e] = "deleted"]
    /\ UNCHANGED <<outbox, emailOn, process, stops, sentVars>>

SwitchEmail ==
    /\ emailOn' = ~emailOn
    /\ UNCHANGED <<outbox, notification, process, stops, sentVars>>

ElapseTick ==
    /\ outbox' = [e \in Emails |->
                    [outbox[e] EXCEPT !.wait = IF @ > -MaxOverdue THEN @ - 1 ELSE @]]
    /\ since' = [e \in Emails |-> IF since[e] < Horizon THEN since[e] + 1 ELSE Horizon]
    /\ UNCHANGED <<notification, emailOn, process, stops, accepted, tries>>

(***************************************************************************)
(* One pass of the sender.                                                 *)
(***************************************************************************)
AtStep(p, pc) == process[p].pc = pc
Goto(p, pc) == process' = [process EXCEPT ![p].pc = pc]
Current(p) == Head(process[p].batch)

\* The configuration is read once, and holds for the whole pass.
BeginPass(p) ==
    /\ AtStep(p, "idle")
    /\ Goto(p, IF emailOn THEN "claim" ELSE "skip")
    /\ UNCHANGED <<outbox, notification, emailOn, stops, sentVars>>

SkipPending(p) ==
    /\ AtStep(p, "skip")
    /\ outbox' = [e \in Emails |-> [outbox[e] EXCEPT
                     !.status = IF @ = "pending" THEN "skipped" ELSE @]]
    /\ Goto(p, "idle")
    /\ UNCHANGED <<notification, emailOn, stops, sentVars>>

Orphaned(e) == notification[e] = "deleted" /\ outbox[e].status # "absent"

\* Fault: the backoff is stored but not awaited.
DueBeforeWait == {e \in Emails : outbox[e].status = "pending" /\ ~Orphaned(e)}

Due == {e \in Emails : /\ outbox[e].status = "pending"
                       /\ outbox[e].wait <= 0
                       /\ ~Orphaned(e)}

\* ORDER BY next_attempt_at, notification_id.
Before(e, f) == \/ outbox[e].wait < outbox[f].wait
                \/ outbox[e].wait = outbox[f].wait /\ e < f

InOrder(order) ==
    \A i, j \in DOMAIN order : i < j => Before(order[i], order[j])

\* Fault: the limit is off by one.
ClaimsPastBatch == {order \in BoundedSeq(Due, Batch + 1) :
                       /\ InOrder(order)
                       /\ \A e \in Due \ Range(order) :
                             Len(order) > Batch /\ \A i \in DOMAIN order : Before(order[i], e)}

\* The first due rows in that order, LIMIT Batch: rows stay behind only when
\* the batch is full.
FirstDue == {order \in BoundedSeq(Due, Batch) :
               /\ InOrder(order)
               /\ \A e \in Due \ Range(order) :
                     Len(order) = Batch /\ \A i \in DOMAIN order : Before(order[i], e)}

\* Orphans are deleted and the first due rows claimed, in one transaction.
ClaimDue(p) ==
    /\ AtStep(p, "claim")
    /\ \E order \in FirstDue :
          /\ outbox' = [e \in Emails |-> [outbox[e] EXCEPT
                           !.status = IF Orphaned(e) THEN "removed"
                                      ELSE IF e \in Range(order) THEN "sending" ELSE @]]
          /\ process' = [process EXCEPT ![p] =
                [pc |-> IF order = << >> THEN "idle" ELSE "compose",
                 batch |-> [i \in 1..Len(order) |->
                              [email |-> order[i], attempts |-> outbox[order[i]].attempts]],
                 verdict |-> "none"]]
    /\ UNCHANGED <<notification, emailOn, stops, sentVars>>

\* failAttempt, for a cause that retrying may cure.
Transient(claim) == IF claim.attempts + 1 > Retries THEN "failed" ELSE "retry"

Decide(p, verdict) ==
    process' = [process EXCEPT ![p].pc = "settle", ![p].verdict = verdict]

\* The recipient may be gone, opted out or out of reach of the ticket by now,
\* and a store failure counts as a transient attempt.
Compose(p) ==
    /\ AtStep(p, "compose")
    /\ \/ Goto(p, "send")
       \/ Decide(p, "skipped")
       \/ "compose" \in StoreFails /\ Decide(p, Transient(Current(p)))
    /\ UNCHANGED <<outbox, notification, emailOn, stops, sentVars>>

Converse(e, copies) ==
    /\ accepted' = [accepted EXCEPT ![e] = @ + copies]
    /\ tries' = [tries EXCEPT ![e] = @ + 1]
    /\ since' = [since EXCEPT ![e] = 0]

\* Fault: an unknown outcome counts as transient.
SendRetryingUnknown(p) ==
    /\ AtStep(p, "send")
    /\ LET e == Current(p).email IN
          \/ Converse(e, 1) /\ Decide(p, "sent")
          \/ \E copies \in {0, 1} : Converse(e, copies) /\ Decide(p, Transient(Current(p)))
          \/ Converse(e, 0) /\ Decide(p, "failed")
    /\ UNCHANGED <<outbox, notification, emailOn, stops>>

\* The mail server accepts the message and says so; it accepts it, or never
\* gets it, and no reply arrives, so the outcome is unknown; or it refuses it.
Send(p) ==
    /\ AtStep(p, "send")
    /\ LET e == Current(p).email IN
          \/ Converse(e, 1) /\ Decide(p, "sent")
          \/ \E copies \in {0, 1} : Converse(e, copies) /\ Decide(p, "failed")
          \/ Converse(e, 0) /\ Decide(p, Transient(Current(p)))
          \/ Converse(e, 0) /\ Decide(p, "failed")
    /\ UNCHANGED <<outbox, notification, emailOn, stops>>

\* Fault: a retry forgets to store the attempt it follows.
SettledUncounted(row, claim, verdict) ==
    CASE verdict = "sent"    -> [row EXCEPT !.status = "sent", !.attempts = @ + 1]
      [] verdict = "skipped" -> [row EXCEPT !.status = "skipped"]
      [] verdict = "failed"  -> [row EXCEPT !.status = "failed",
                                            !.attempts = claim.attempts + 1]
      [] verdict = "retry"   -> [row EXCEPT !.status = "pending",
                                            !.wait = Backoff[claim.attempts + 1]]

SettledRow(row, claim, verdict) ==
    CASE verdict = "sent"    -> [row EXCEPT !.status = "sent", !.attempts = @ + 1]
      [] verdict = "skipped" -> [row EXCEPT !.status = "skipped"]
      [] verdict = "failed"  -> [row EXCEPT !.status = "failed",
                                            !.attempts = claim.attempts + 1]
      [] verdict = "retry"   -> [status   |-> "pending",
                                 attempts |-> claim.attempts + 1,
                                 wait     |-> Backoff[claim.attempts + 1]]

\* A settlement applies only to a row that is still claimed; the sender goes
\* on to the next row whether or not it applied.
Settle(p) ==
    /\ AtStep(p, "settle")
    /\ LET e == Current(p).email IN
          \/ outbox' = IF outbox[e].status = "sending"
                       THEN [outbox EXCEPT ![e] =
                               SettledRow(@, Current(p), process[p].verdict)]
                       ELSE outbox
          \/ "settle" \in StoreFails /\ UNCHANGED outbox
    /\ process' = [process EXCEPT ![p] =
          LET rest == Tail(process[p].batch)
          IN [Resting EXCEPT !.pc = IF rest = << >> THEN "idle" ELSE "compose",
                             !.batch = rest]]
    /\ UNCHANGED <<notification, emailOn, stops, sentVars>>

\* Skipping or claiming fails, and the pass with it; nothing is written.
FailPass(p) ==
    /\ "pass" \in StoreFails
    /\ AtStep(p, "skip") \/ AtStep(p, "claim")
    /\ Goto(p, "idle")
    /\ UNCHANGED <<outbox, notification, emailOn, stops, sentVars>>

(***************************************************************************)
(* Processes stop at any point, by a crash or a shutdown, and start again. *)
(***************************************************************************)
Stop(p) ==
    /\ stops < MaxStops
    /\ ~AtStep(p, "down")
    /\ process' = [process EXCEPT ![p] = Down]
    /\ stops' = stops + 1
    /\ UNCHANGED <<outbox, notification, emailOn, sentVars>>

\* Fault: interrupted rows return to pending.
StartRequeueing(p) ==
    /\ AtStep(p, "down")
    /\ process' = [process EXCEPT ![p] = Resting]
    /\ outbox' = [e \in Emails |-> [outbox[e] EXCEPT
                     !.status = IF @ = "sending" THEN "pending" ELSE @]]
    /\ UNCHANGED <<notification, emailOn, stops, sentVars>>

\* Fault: a sender starts without recovering.
StartUnrecovered(p) ==
    /\ AtStep(p, "down")
    /\ process' = [process EXCEPT ![p] = Resting]
    /\ UNCHANGED <<outbox, notification, emailOn, stops, sentVars>>

\* AbandonInFlight; a failure of it is logged and the sender runs anyway.
Start(p) ==
    /\ AtStep(p, "down")
    /\ process' = [process EXCEPT ![p] = Resting]
    /\ \/ outbox' = [e \in Emails |-> [outbox[e] EXCEPT
                        !.status = IF @ = "sending" THEN "failed" ELSE @]]
       \/ "recover" \in StoreFails /\ UNCHANGED outbox
    /\ UNCHANGED <<notification, emailOn, stops, sentVars>>

Sender(p) ==
    \/ BeginPass(p) \/ SkipPending(p) \/ ClaimDue(p) \/ Compose(p)
    \/ Send(p) \/ Settle(p) \/ FailPass(p)

OutboxNext ==
    \/ \E e \in Emails : Notify(e) \/ Cascade(e)
    \/ SwitchEmail
    \/ ElapseTick
    \/ \E p \in Processes : Sender(p) \/ Stop(p) \/ Start(p)

OutboxSpec == OutboxInit /\ [][OutboxNext]_outboxVars

\* Run calls Pass at every tick of its ticker, time passes, and a stopped
\* server is restarted (docker-compose.yml: restart: unless-stopped).
\* Nothing else is fair: notifications, deletions and switches may never come.
FairOutboxSpec ==
    /\ OutboxSpec
    /\ WF_outboxVars(ElapseTick)
    /\ \A p \in Processes : WF_outboxVars(Sender(p)) /\ WF_outboxVars(Start(p))

(***************************************************************************)
(* Properties.                                                             *)
(***************************************************************************)

\* Rows, claims and counters are well formed: in particular a claim never
\* exceeds its batch (ClaimDue's limit), and the attempts that index the
\* backoff stay within it (failAttempt).
OutboxTypeOK ==
    /\ outbox \in [Emails -> [status   : Statuses,
                              attempts : 0..(Retries + 1),
                              wait     : (-MaxOverdue)..Horizon]]
    /\ notification \in [Emails -> {"future", "stored", "deleted"}]
    /\ emailOn \in BOOLEAN
    /\ process \in [Processes -> [pc : Steps, batch : BoundedSeq(Claims, Batch),
                                  verdict : Verdicts]]
    /\ stops \in 0..MaxStops
    /\ accepted \in [Emails -> Nat]
    /\ tries \in [Emails -> Nat]
    /\ since \in [Emails -> 0..Horizon]

\* At most one sender holds a claim on a row, whatever crashes, restarts and
\* failed writes come between claiming and settling: "a claimed row is owned
\* by exactly one caller until it is settled" (ClaimDue).
NoSharedClaims ==
    \A p, q \in Processes : p # q =>
        \A i \in DOMAIN process[p].batch, j \in DOMAIN process[q].batch :
            process[p].batch[i].email # process[q].batch[j].email

\* A message is offered to the mail server at most once per backoff step plus
\* the first time, across restarts: the attempts are stored with the row.
TriesBounded == \A e \in Emails : tries[e] <= Retries + 1

\* A retry waits out its backoff, counted from the end of the previous
\* conversation, whichever process makes it and whatever failed in between.
RetriesWait ==
    [][\A e \in Emails :
          tries'[e] > tries[e] /\ tries[e] > 0 => since[e] >= Backoff[tries[e]]
      ]_outboxVars

\* The outbox implements what email delivery promises.  A claimed row is still
\* open, and a row deleted with its notification is dropped.
Outcome(status) ==
    CASE status = "absent" -> "none"
      [] status \in {"pending", "sending"} -> "open"
      [] status = "removed" -> "dropped"
      [] OTHER -> status

Delivery == INSTANCE EmailDelivery
              WITH outcome <- [e \in Emails |-> Outcome(outbox[e].status)],
                   copies  <- accepted

DeliveryImplemented == Delivery!DeliverySpec

\* Every email is settled in the end, or its notification is deleted, although
\* processes stop between claiming and settling: retries run out, a restart
\* fails what was in flight, and switched-off mail is skipped.
EmailsSettle ==
    \A e \in Emails :
        outbox[e].status = "pending" ~> outbox[e].status \in Settled \cup {"removed"}

\* "A row found in this state at startup was interrupted mid-send"
\* (notification_email.go:26-27): what a restart fails was being sent.
AbandonedWereBeingSent ==
    [][\A e \in Emails, p \in Processes :
          /\ AtStep(p, "down") /\ process'[p].pc = "idle"
          /\ outbox[e].status = "sending" /\ outbox'[e].status = "failed"
          => tries[e] > outbox[e].attempts]_outboxVars

\* "deliver settles one claimed row: skipped, sent, rescheduled, or failed"
\* (notification_email.go:210).
ClaimsSettle ==
    \A e \in Emails : outbox[e].status = "sending" ~> outbox[e].status # "sending"
=============================================================================
