------------------------- MODULE EmailOutboxProofs -------------------------
(***************************************************************************)
(* The safety of the outbox for every number of emails and processes,      *)
(* every batch size and backoff, and any faults of the store: types, one   *)
(* holder per claim, bounded and spaced attempts, and that the outbox      *)
(* implements EmailDelivery.                                               *)
(*                                                                         *)
(* What makes it inductive is what a claim in a sender's batch knows: its  *)
(* row may be failed by a restart or deleted with its notification         *)
(* meanwhile, but nobody else sends it, so until its own conversation no   *)
(* copy was accepted and the attempts stored with it bound the tries.      *)
(***************************************************************************)
EXTENDS EmailOutbox, SequenceTheorems, TLAPS

\* What a row can become while a sender holds a claim on it.
Live == {"sending", "failed", "removed"}

RestOver(e) == tries[e] > 0 => since[e] >= Backoff[tries[e]]
RestPlanned(e) ==
    tries[e] > 0 => \/ since[e] >= Backoff[tries[e]]
                    \/ since[e] + outbox[e].wait >= Backoff[tries[e]]

RowSound(e) ==
    /\ accepted[e] <= 1 /\ tries[e] <= Retries + 1
    /\ notification[e] = "future" <=> outbox[e].status = "absent"
    /\ outbox[e].status = "absent" =>
          outbox[e].attempts = 0 /\ accepted[e] = 0 /\ tries[e] = 0
    /\ outbox[e].status = "pending" =>
          /\ outbox[e].attempts <= Retries /\ tries[e] <= outbox[e].attempts
          /\ accepted[e] = 0 /\ RestPlanned(e)
    /\ outbox[e].status = "sending" => outbox[e].attempts <= Retries
    /\ outbox[e].status = "sent" => accepted[e] = 1
    /\ outbox[e].status = "skipped" => accepted[e] = 0

Unsent(claim) ==
    /\ accepted[claim.email] = 0
    /\ tries[claim.email] <= claim.attempts
    /\ RestOver(claim.email)

Decided(claim, verdict) ==
    /\ verdict # "none"
    /\ tries[claim.email] <= claim.attempts + 1
    /\ verdict = "sent" => accepted[claim.email] = 1
    /\ verdict \in {"skipped", "retry"} => accepted[claim.email] = 0
    /\ verdict = "retry" => claim.attempts < Retries

ClaimSound(p, i) ==
    /\ outbox[process[p].batch[i].email].status \in Live
    /\ IF i = 1 /\ AtStep(p, "settle") THEN Decided(process[p].batch[i], process[p].verdict)
                                       ELSE Unsent(process[p].batch[i])

BatchSound(p) ==
    /\ process[p].batch = << >> <=> process[p].pc \in {"down", "idle", "skip", "claim"}
    /\ \A i \in DOMAIN process[p].batch : ClaimSound(p, i)
    /\ \A i, j \in DOMAIN process[p].batch :
          process[p].batch[i].email = process[p].batch[j].email => i = j

OutboxInv ==
    /\ OutboxTypeOK
    /\ \A e \in Emails : RowSound(e)
    /\ \A p \in Processes : BatchSound(p)
    /\ NoSharedClaims

(***************************************************************************)
(* The backoff and the batches.                                            *)
(***************************************************************************)

\* Waits are positive, grow, and stay below the horizon.
LEMMA Waits ==
    /\ Retries \in Nat /\ Horizon \in Nat /\ MaxOverdue \in Nat /\ MaxStops \in Nat
    /\ \A i \in 1..Retries : Backoff[i] \in Nat /\ 0 < Backoff[i] /\ Backoff[i] < Horizon
    /\ \A i, j \in 1..Retries : i <= j => Backoff[i] <= Backoff[j]
<1>1. /\ Retries \in Nat
      /\ \A i \in 1..Retries : Backoff[i] \in Nat /\ 0 < Backoff[i]
      /\ \A i, j \in 1..Retries : i <= j => Backoff[i] <= Backoff[j]
    BY BackoffAssumption DEF Retries
<1> QED
    BY <1>1, BoundsAssumption DEF Horizon

LEMMA Batches ==
    ASSUME NEW S, NEW n \in Nat, NEW b
    PROVE  b \in BoundedSeq(S, n) <=> b \in Seq(S) /\ Len(b) <= n
<1>1. ASSUME b \in BoundedSeq(S, n) PROVE b \in Seq(S) /\ Len(b) <= n
    <2>1. PICK m \in 0..n : b \in [1..m -> S]
        BY <1>1 DEF BoundedSeq, SeqOf
    <2> QED
        BY <2>1
<1>2. ASSUME b \in Seq(S), Len(b) <= n PROVE b \in BoundedSeq(S, n)
    <2>1. Len(b) \in 0..n /\ b \in [1..Len(b) -> S]
        BY <1>2
    <2> QED
        BY <2>1 DEF BoundedSeq, SeqOf
<1> QED
    BY <1>1, <1>2

ProcessRow == [pc : Steps, batch : Seq(Claims), verdict : Verdicts]

\* The type of the processes, their batches as sequences.
LEMMA ProcessTypes ==
    ASSUME NEW f
    PROVE  f \in [Processes -> [pc : Steps, batch : BoundedSeq(Claims, Batch), verdict : Verdicts]]
           <=> /\ f \in [Processes -> ProcessRow]
               /\ \A p \in Processes : Len(f[p].batch) <= Batch
<1>1. \A b : b \in BoundedSeq(Claims, Batch) <=> b \in Seq(Claims) /\ Len(b) <= Batch
    BY Batches, BatchAssumption
<1> DEFINE Bounded == BoundedSeq(Claims, Batch)
<1>2. ASSUME NEW p \in Processes, f[p] \in [pc : Steps, batch : Bounded, verdict : Verdicts]
      PROVE  f[p] \in ProcessRow /\ Len(f[p].batch) <= Batch
    BY <1>1, <1>2 DEF ProcessRow
<1>3. ASSUME NEW p \in Processes, f[p] \in ProcessRow, Len(f[p].batch) <= Batch
      PROVE  f[p] \in [pc : Steps, batch : Bounded, verdict : Verdicts]
    BY <1>1, <1>3 DEF ProcessRow
<1> HIDE DEF Bounded
<1> QED
    <2>1. ASSUME f \in [Processes -> [pc : Steps, batch : Bounded, verdict : Verdicts]]
          PROVE  /\ f \in [Processes -> ProcessRow]
                 /\ \A p \in Processes : Len(f[p].batch) <= Batch
        BY <2>1, <1>2
    <2>2. ASSUME f \in [Processes -> ProcessRow],
                 \A p \in Processes : Len(f[p].batch) <= Batch
          PROVE  f \in [Processes -> [pc : Steps, batch : Bounded, verdict : Verdicts]]
        BY <2>2, <1>3
    <2> QED
        BY <2>1, <2>2 DEF Bounded

\* What the provers need of the types.
OutboxRow == [status : Statuses, attempts : 0..(Retries + 1), wait : (-MaxOverdue)..Horizon]

LEMMA Types ==
    ASSUME OutboxTypeOK
    PROVE  /\ outbox \in [Emails -> OutboxRow]
           /\ process \in [Processes -> ProcessRow]
           /\ \A p \in Processes : Len(process[p].batch) <= Batch
           /\ \A p \in Processes : \A i \in DOMAIN process[p].batch :
                 process[p].batch[i].email \in Emails /\ process[p].batch[i].attempts \in 0..Retries
<1>1. /\ process \in [Processes -> ProcessRow]
      /\ \A p \in Processes : Len(process[p].batch) <= Batch
    BY ProcessTypes DEF OutboxTypeOK
<1>2. outbox \in [Emails -> OutboxRow]
    BY DEF OutboxTypeOK, OutboxRow
<1>3. ASSUME NEW p \in Processes, NEW i \in DOMAIN process[p].batch
      PROVE  process[p].batch[i].email \in Emails /\ process[p].batch[i].attempts \in 0..Retries
    <2>1. process[p].batch \in Seq(Claims)
        BY <1>1 DEF ProcessRow
    <2>2. process[p].batch[i] \in Claims
        BY <2>1, <1>3
    <2> QED
        BY <2>2 DEF Claims
<1> QED
    BY <1>1, <1>2, <1>3

(***************************************************************************)
(* What a step leaves alone.                                               *)
(***************************************************************************)

\* The batch of a process that does not move stays sound if the rows it claims
\* stay live, and nobody mails them.
LEMMA OtherBatches ==
    ASSUME OutboxInv, NEW q \in Processes, process'[q] = process[q],
           \A i \in DOMAIN process[q].batch :
              LET e == process[q].batch[i].email IN
              /\ outbox'[e].status \in Live
              /\ accepted'[e] = accepted[e] /\ tries'[e] = tries[e]
              /\ since'[e] \in Int /\ since'[e] >= since[e]
    PROVE  BatchSound(q)'
<1>1. /\ BatchSound(q)
      /\ \A i \in DOMAIN process[q].batch :
            process[q].batch[i].email \in Emails /\ process[q].batch[i].attempts \in 0..Retries
    BY Types DEF OutboxInv
<1>2. ASSUME NEW i \in DOMAIN process[q].batch PROVE ClaimSound(q, i)'
    <2>1. PICK c : c = process[q].batch[i]
        OBVIOUS
    <2>2. c \in Claims
        <3>1. process[q].batch \in Seq(Claims)
            BY Types DEF OutboxInv, ProcessRow
        <3> QED
            BY <3>1, <2>1, <1>2
    <2>3. PICK e \in Emails : e = c.email
        BY <2>2 DEF Claims
    <2>4. ClaimSound(q, i)
        BY <1>1 DEF BatchSound
    <2>5. /\ outbox'[e].status \in Live /\ accepted'[e] = accepted[e] /\ tries'[e] = tries[e]
          /\ since'[e] \in Int /\ since'[e] >= since[e]
        BY <2>1, <2>3
    <2>6. since[e] \in Int /\ tries[e] \in Nat /\ c.attempts \in 0..Retries
        BY <2>2, <2>3, Waits DEF OutboxInv, OutboxTypeOK, Claims
    <2>7. Unsent(c) => Unsent(c)'
        <3>1. ASSUME tries[e] > 0, tries[e] <= c.attempts PROVE Backoff[tries[e]] \in Int
            BY <3>1, <2>6, Waits
        <3> QED
            BY <2>3, <2>5, <2>6, <3>1 DEF Unsent, RestOver
    <2>8. Decided(c, process[q].verdict) => Decided(c, process[q].verdict)'
        BY <2>3, <2>5 DEF Decided
    <2> QED
        BY <2>1, <2>3, <2>4, <2>5, <2>7, <2>8 DEF ClaimSound, AtStep
<1> QED
    BY <1>1, <1>2 DEF BatchSound

\* The rest of the types, which most steps leave alone.
RestTyped ==
    /\ notification \in [Emails -> {"future", "stored", "deleted"}]
    /\ emailOn \in BOOLEAN
    /\ stops \in 0..MaxStops
    /\ accepted \in [Emails -> Nat] /\ tries \in [Emails -> Nat]
    /\ since \in [Emails -> 0..Horizon]

\* One process moves: it is enough to look at its own batch, at the rows, and
\* at what it has in common with the others.
LEMMA OneMoves ==
    ASSUME OutboxInv, NEW p \in Processes, NEW row \in ProcessRow, Len(row.batch) <= Batch,
           process' = [process EXCEPT ![p] = row],
           outbox' \in [Emails -> OutboxRow], RestTyped',
           \A e \in Emails : RowSound(e)', BatchSound(p)',
           \A q \in Processes \ {p} : \A i \in DOMAIN process[q].batch :
              LET e == process[q].batch[i].email IN
              /\ outbox'[e].status \in Live
              /\ accepted'[e] = accepted[e] /\ tries'[e] = tries[e]
              /\ since'[e] \in Int /\ since'[e] >= since[e],
           \A q \in Processes \ {p} : \A i \in DOMAIN row.batch, j \in DOMAIN process[q].batch :
              row.batch[i].email # process[q].batch[j].email
    PROVE  OutboxInv'
<1>1. /\ process \in [Processes -> ProcessRow]
      /\ \A q \in Processes : Len(process[q].batch) <= Batch
    BY Types DEF OutboxInv
<1>2. /\ process'[p] = row
      /\ \A q \in Processes \ {p} : process'[q] = process[q]
    BY <1>1
<1>3. /\ process' \in [Processes -> ProcessRow]
      /\ \A q \in Processes : Len(process'[q].batch) <= Batch
    BY <1>1, <1>2
<1>4. process' \in [Processes -> [pc : Steps, batch : BoundedSeq(Claims, Batch), verdict : Verdicts]]
    BY <1>3, ProcessTypes
<1>5. OutboxTypeOK'
    BY <1>4 DEF OutboxTypeOK, RestTyped, OutboxRow
<1>6. ASSUME NEW q \in Processes PROVE BatchSound(q)'
    <2>1. CASE q = p
        BY <2>1
    <2>2. CASE q # p
        BY <2>2, <1>2, OtherBatches
    <2> QED
        BY <2>1, <2>2
<1>7. NoSharedClaims'
    <2> SUFFICES ASSUME NEW q \in Processes, NEW r \in Processes, q # r,
                        NEW i \in DOMAIN process'[q].batch, NEW j \in DOMAIN process'[r].batch
                 PROVE  process'[q].batch[i].email # process'[r].batch[j].email
        BY DEF NoSharedClaims
    <2>1. CASE q = p
        BY <2>1, <1>2
    <2>2. CASE r = p
        BY <2>2, <1>2
    <2>3. CASE q # p /\ r # p
        BY <2>3, <1>2 DEF OutboxInv, NoSharedClaims
    <2> QED
        BY <2>1, <2>2, <2>3
<1> QED
    BY <1>5, <1>6, <1>7 DEF OutboxInv

\* A claim is on a live row, and its email's counters are typed.
LEMMA ClaimedRow ==
    ASSUME OutboxInv, NEW p \in Processes, NEW i \in DOMAIN process[p].batch
    PROVE  /\ process[p].batch[i].email \in Emails
           /\ outbox[process[p].batch[i].email].status \in Live
           /\ since[process[p].batch[i].email] \in Int
           /\ since[process[p].batch[i].email] >= since[process[p].batch[i].email]
<1>1. process[p].batch[i].email \in Emails
    BY Types DEF OutboxInv
<1>2. since[process[p].batch[i].email] \in Int
    BY <1>1, Waits DEF OutboxInv, OutboxTypeOK
<1> QED
    BY <1>1, <1>2 DEF OutboxInv, BatchSound, ClaimSound

\* A process moves without touching the rows, keeping its batch or dropping it.
LEMMA OnlyMoves ==
    ASSUME OutboxInv, NEW p \in Processes, NEW row \in ProcessRow,
           row.batch \in {process[p].batch, << >>},
           process' = [process EXCEPT ![p] = row],
           UNCHANGED <<outbox, notification, accepted, tries, since>>,
           emailOn' \in BOOLEAN, stops' \in 0..MaxStops, BatchSound(p)'
    PROVE  OutboxInv'
<1>1. Len(row.batch) <= Batch
    BY Types, BatchAssumption DEF OutboxInv
<1>2. outbox' \in [Emails -> OutboxRow] /\ RestTyped'
    BY Types DEF OutboxInv, OutboxTypeOK, RestTyped
<1>3. \A e \in Emails : RowSound(e)'
    BY DEF OutboxInv, RowSound, RestPlanned
<1>4. ASSUME NEW q \in Processes \ {p}, NEW i \in DOMAIN process[q].batch
      PROVE  LET e == process[q].batch[i].email IN
             /\ outbox'[e].status \in Live
             /\ accepted'[e] = accepted[e] /\ tries'[e] = tries[e]
             /\ since'[e] \in Int /\ since'[e] >= since[e]
    BY <1>4, ClaimedRow
<1>5. \A q \in Processes \ {p} : \A i \in DOMAIN row.batch, j \in DOMAIN process[q].batch :
         row.batch[i].email # process[q].batch[j].email
    BY DEF OutboxInv, NoSharedClaims
<1> QED
    BY <1>1, <1>2, <1>3, <1>4, <1>5, OneMoves

\* A batch that is kept stays sound when only its head's verdict is new.
LEMMA KeptBatch ==
    ASSUME OutboxInv, NEW p \in Processes, process'[p].batch = process[p].batch,
           UNCHANGED <<outbox, accepted, tries, since>>,
           process[p].pc \in {"compose", "send"},
           \/ process'[p].pc \in {"compose", "send"}
           \/ process'[p].pc = "settle" /\ Decided(process[p].batch[1], process'[p].verdict)
    PROVE  BatchSound(p)'
<1>1. BatchSound(p)
    BY DEF OutboxInv
<1>2. ASSUME NEW i \in DOMAIN process[p].batch PROVE ClaimSound(p, i)'
    <2>1. Unsent(process[p].batch[i]) /\ outbox[process[p].batch[i].email].status \in Live
        BY <1>1 DEF BatchSound, ClaimSound, AtStep
    <2>2. PICK c : c = process[p].batch[i]
        OBVIOUS
    <2>3. process'[p].batch[i] = c /\ Unsent(c)'
        BY <2>1, <2>2 DEF Unsent, RestOver
    <2>4. CASE process'[p].pc = "settle" /\ i = 1
        <3>1. Decided(c, process'[p].verdict)
            BY <2>2, <2>4
        <3>2. PICK v : v = process'[p].verdict
            OBVIOUS
        <3>3. Decided(c, v)'
            BY <3>1, <3>2 DEF Decided
        <3> QED
            BY <2>1, <2>2, <2>3, <2>4, <3>1 DEF ClaimSound, AtStep, Decided
    <2>5. CASE ~(process'[p].pc = "settle" /\ i = 1)
        BY <2>1, <2>2, <2>3, <2>5 DEF ClaimSound, AtStep
    <2> QED
        BY <2>4, <2>5
<1> QED
    BY <1>1, <1>2 DEF BatchSound

\* A process without a batch.
LEMMA NoBatch ==
    ASSUME NEW p \in Processes, process'[p].batch = << >>,
           process'[p].pc \in {"down", "idle", "skip", "claim"}
    PROVE  BatchSound(p)'
BY DEF BatchSound

(***************************************************************************)
(* The steps of a sender.                                                  *)
(***************************************************************************)

LEMMA Rows ==
    ASSUME OutboxInv, NEW p \in Processes
    PROVE  /\ process[p] \in ProcessRow
           /\ \A pc \in Steps : [process[p] EXCEPT !.pc = pc] \in ProcessRow
           /\ \A v \in Verdicts :
                 [process[p] EXCEPT !.pc = "settle", !.verdict = v] \in ProcessRow
           /\ Down \in ProcessRow /\ Resting \in ProcessRow
<1>1. process[p] \in ProcessRow
    BY Types DEF OutboxInv
<1>2. << >> \in Seq(Claims)
    OBVIOUS
<1> QED
    BY <1>1, <1>2 DEF ProcessRow, Down, Resting, Steps, Verdicts

\* A sender that works on a batch has one.
LEMMA Working ==
    ASSUME OutboxInv, NEW p \in Processes, process[p].pc \in {"compose", "send", "settle"}
    PROVE  /\ process[p].batch \in Seq(Claims) /\ process[p].batch # << >>
           /\ 1 \in DOMAIN process[p].batch
           /\ Current(p) = process[p].batch[1]
           /\ Current(p) \in Claims
<1>1. process[p].batch # << >>
    BY DEF OutboxInv, BatchSound
<1>2. process[p].batch \in Seq(Claims)
    BY Types DEF OutboxInv, ProcessRow
<1> QED
    BY <1>1, <1>2 DEF Current

LEMMA PassSound ==
    ASSUME OutboxInv, NEW p \in Processes, BeginPass(p) \/ FailPass(p)
    PROVE  OutboxInv'
<1>1. PICK pc \in {"claim", "skip", "idle"} :
         process' = [process EXCEPT ![p] = [process[p] EXCEPT !.pc = pc]]
    BY DEF BeginPass, FailPass, Goto
<1>2. process[p].pc \in {"idle", "skip", "claim"}
    BY DEF BeginPass, FailPass, AtStep
<1>3. process[p] \in ProcessRow /\ [process[p] EXCEPT !.pc = pc] \in ProcessRow
    BY Rows DEF Steps
<1>4. process[p].batch = << >>
    BY <1>2 DEF OutboxInv, BatchSound
<1>5. process'[p].batch = << >> /\ process'[p].pc = pc
    BY <1>1, <1>3, <1>4, Types DEF OutboxInv, ProcessRow
<1>6. BatchSound(p)'
    BY <1>5, NoBatch
<1> QED
    BY <1>1, <1>3, <1>6, OnlyMoves
    DEF BeginPass, FailPass, sentVars, OutboxInv, OutboxTypeOK, ProcessRow

LEMMA StopSound ==
    ASSUME OutboxInv, NEW p \in Processes, Stop(p)
    PROVE  OutboxInv'
<1>1. Down \in ProcessRow /\ Down.batch = << >> /\ Down.pc = "down"
    BY Rows DEF Down
<1>2. process'[p] = Down
    BY Types DEF Stop, OutboxInv
<1>3. BatchSound(p)'
    BY <1>1, <1>2, NoBatch
<1>4. stops' \in 0..MaxStops
    BY Waits DEF Stop, OutboxInv, OutboxTypeOK
<1> QED
    BY <1>1, <1>3, <1>4, OnlyMoves DEF Stop, sentVars, OutboxInv, OutboxTypeOK

LEMMA ComposeSound ==
    ASSUME OutboxInv, NEW p \in Processes, Compose(p)
    PROVE  OutboxInv'
<1>1. /\ Current(p) = process[p].batch[1] /\ Current(p) \in Claims
      /\ 1 \in DOMAIN process[p].batch /\ process[p].pc = "compose"
    BY Working DEF Compose, AtStep
<1>2. Unsent(Current(p))
    BY <1>1 DEF OutboxInv, BatchSound, ClaimSound, AtStep
<1>3. process \in [Processes -> ProcessRow] /\ process[p] \in ProcessRow
    BY Types DEF OutboxInv
<1>4. UNCHANGED <<outbox, notification, accepted, tries, since, emailOn, stops>>
    BY DEF Compose, sentVars
<1>5. CASE Goto(p, "send")
    <2>1. process' = [process EXCEPT ![p] = [process[p] EXCEPT !.pc = "send"]]
        BY <1>5 DEF Goto
    <2>2. [process[p] EXCEPT !.pc = "send"] \in ProcessRow
        BY Rows DEF Steps
    <2>3. process'[p].batch = process[p].batch /\ process'[p].pc = "send"
        BY <1>3, <2>1 DEF ProcessRow
    <2>4. BatchSound(p)'
        BY <1>1, <1>4, <2>3, KeptBatch
    <2> QED
        BY <1>3, <1>4, <2>1, <2>2, <2>4, OnlyMoves DEF ProcessRow, OutboxInv, OutboxTypeOK
<1>6. ASSUME NEW v \in {"skipped", "failed", "retry"}, Decide(p, v),
             v = "retry" => Current(p).attempts < Retries
      PROVE  OutboxInv'
    <2>1. process' = [process EXCEPT ![p] = [process[p] EXCEPT !.pc = "settle", !.verdict = v]]
        BY <1>6 DEF Decide
    <2>2. [process[p] EXCEPT !.pc = "settle", !.verdict = v] \in ProcessRow
        BY Rows DEF Verdicts
    <2>3. /\ process'[p].batch = process[p].batch
          /\ process'[p].pc = "settle" /\ process'[p].verdict = v
        BY <1>3, <2>1 DEF ProcessRow
    <2>4. Decided(Current(p), v)
        BY <1>1, <1>2, <1>6, Waits DEF Decided, Unsent, Claims, OutboxInv, OutboxTypeOK
    <2>5. BatchSound(p)'
        BY <1>1, <1>4, <2>3, <2>4, KeptBatch
    <2> QED
        BY <1>3, <1>4, <2>1, <2>2, <2>5, OnlyMoves DEF ProcessRow, OutboxInv, OutboxTypeOK
<1>7. Transient(Current(p)) \in {"failed", "retry"}
      /\ (Transient(Current(p)) = "retry" => Current(p).attempts < Retries)
    BY <1>1, Waits DEF Transient, Claims
<1> QED
    BY <1>5, <1>6, <1>7 DEF Compose

\* A conversation is of a row still owned: nobody else has a claim on it.
LEMMA SendSound ==
    ASSUME OutboxInv, NEW p \in Processes, Send(p)
    PROVE  OutboxInv'
<1>1. /\ Current(p) = process[p].batch[1] /\ Current(p) \in Claims
      /\ 1 \in DOMAIN process[p].batch /\ process[p].pc = "send"
    BY Working DEF Send, AtStep
<1>2. Unsent(Current(p))
    BY <1>1 DEF OutboxInv, BatchSound, ClaimSound, AtStep
<1>3. process \in [Processes -> ProcessRow] /\ process[p] \in ProcessRow
    BY Types DEF OutboxInv
<1>4. UNCHANGED <<outbox, notification, emailOn, stops>>
    BY DEF Send
<1>5. PICK e \in Emails : e = Current(p).email
    BY <1>1 DEF Claims
<1>6. PICK copies \in {0, 1}, v \in {"sent", "failed", "retry"} :
         /\ Converse(e, copies) /\ Decide(p, v)
         /\ v = "sent" => copies = 1
         /\ v = "retry" => copies = 0 /\ Current(p).attempts < Retries
    <2>1. Transient(Current(p)) \in {"failed", "retry"}
          /\ (Transient(Current(p)) = "retry" => Current(p).attempts < Retries)
        BY <1>1, Waits DEF Transient, Claims
    <2> QED
        BY <1>5, <2>1 DEF Send
<1>7. /\ accepted' = [accepted EXCEPT ![e] = copies]
      /\ tries' = [tries EXCEPT ![e] = tries[e] + 1] /\ since' = [since EXCEPT ![e] = 0]
      /\ tries[e] <= Current(p).attempts /\ accepted[e] = 0
      /\ tries[e] \in Nat /\ Current(p).attempts \in 0..Retries /\ Retries \in Nat
    <2>1. tries[e] <= Current(p).attempts /\ accepted[e] = 0
        BY <1>2, <1>5 DEF Unsent
    <2>2. tries[e] \in Nat /\ Current(p).attempts \in 0..Retries /\ Retries \in Nat
        BY <1>1, <1>5, Waits DEF Claims, OutboxInv, OutboxTypeOK
    <2>3. /\ accepted' = [accepted EXCEPT ![e] = accepted[e] + copies]
          /\ tries' = [tries EXCEPT ![e] = tries[e] + 1] /\ since' = [since EXCEPT ![e] = 0]
        BY <1>5, <1>6 DEF Converse
    <2>4. accepted[e] + copies = copies
        BY <2>1
    <2> QED
        BY <2>1, <2>2, <2>3, <2>4
<1>8. /\ accepted \in [Emails -> Nat] /\ tries \in [Emails -> Nat]
      /\ since \in [Emails -> 0..Horizon] /\ Horizon \in Nat
    BY Waits DEF OutboxInv, OutboxTypeOK
<1>9. RestTyped'
    BY <1>4, <1>7, <1>8 DEF RestTyped, OutboxInv, OutboxTypeOK
<1>10. outbox[e].status \in Live
    BY <1>1, <1>5 DEF OutboxInv, BatchSound, ClaimSound
<1>11. ASSUME NEW f \in Emails PROVE RowSound(f)'
    <2>1. CASE f = e
        BY <1>4, <1>7, <1>8, <1>10, <2>1 DEF OutboxInv, RowSound, Live
    <2>2. CASE f # e
        BY <1>4, <1>7, <1>8, <2>2 DEF OutboxInv, RowSound, RestPlanned
    <2> QED
        BY <2>1, <2>2
<1>12. PICK row \in ProcessRow : /\ process' = [process EXCEPT ![p] = row]
                                 /\ row.batch = process[p].batch
                                 /\ row.pc = "settle" /\ row.verdict = v
    <2>1. [process[p] EXCEPT !.pc = "settle", !.verdict = v] \in ProcessRow
        BY Rows DEF Verdicts
    <2> QED
        BY <1>3, <1>6, <2>1 DEF Decide, ProcessRow
<1>13. process'[p] = row
    BY <1>3, <1>12
<1>14. ASSUME NEW i \in DOMAIN process[p].batch PROVE ClaimSound(p, i)'
    <2>1. PICK c : c = process[p].batch[i]
        OBVIOUS
    <2>2. CASE i = 1
        <3>1. c = Current(p) /\ c.email = e
            BY <1>1, <1>5, <2>1, <2>2
        <3>2. Decided(c, v)'
            BY <1>6, <1>7, <1>8, <3>1 DEF Decided
        <3>3. process'[p].batch[i] = c /\ process'[p].verdict = v /\ process'[p].pc = "settle"
            BY <1>12, <1>13, <2>1
        <3> QED
            BY <1>4, <1>10, <2>2, <3>1, <3>2, <3>3 DEF ClaimSound, AtStep, Decided
    <2>3. CASE i # 1
        <3>1. c.email \in Emails /\ c.email # e
            BY <1>1, <1>5, <2>1, <2>3, Types DEF OutboxInv, BatchSound
        <3>2. Unsent(c) /\ outbox[c.email].status \in Live
            BY <1>1, <2>1, <2>3 DEF OutboxInv, BatchSound, ClaimSound, AtStep
        <3>3. Unsent(c)'
            BY <1>7, <1>8, <3>1, <3>2 DEF Unsent, RestOver
        <3>4. process'[p].batch[i] = c
            BY <1>12, <1>13, <2>1
        <3> QED
            BY <1>4, <2>3, <3>2, <3>3, <3>4 DEF ClaimSound, AtStep
    <2> QED
        BY <2>2, <2>3
<1>15. BatchSound(p)'
    BY <1>1, <1>12, <1>13, <1>14 DEF OutboxInv, BatchSound
<1>16. ASSUME NEW q \in Processes \ {p}, NEW i \in DOMAIN process[q].batch
       PROVE  LET f == process[q].batch[i].email IN
              /\ outbox'[f].status \in Live
              /\ accepted'[f] = accepted[f] /\ tries'[f] = tries[f]
              /\ since'[f] \in Int /\ since'[f] >= since[f]
    <2>1. process[q].batch[i].email # e
        BY <1>1, <1>5, <1>16 DEF OutboxInv, NoSharedClaims
    <2> QED
        BY <1>4, <1>7, <1>8, <2>1, <1>16, ClaimedRow
<1>17. \A q \in Processes \ {p} : \A i \in DOMAIN row.batch, j \in DOMAIN process[q].batch :
          row.batch[i].email # process[q].batch[j].email
    BY <1>12 DEF OutboxInv, NoSharedClaims
<1>18. Len(row.batch) <= Batch /\ outbox' \in [Emails -> OutboxRow]
    BY <1>4, <1>12, Types DEF OutboxInv
<1> QED
    BY <1>9, <1>11, <1>12, <1>15, <1>16, <1>17, <1>18, OneMoves

\* The settlement of a claim keeps its row sound, or makes a retry that waits.
LEMMA SettledSound ==
    ASSUME OutboxInv, NEW e \in Emails, NEW c \in Claims, NEW v \in Verdicts,
           c.email = e, outbox[e].status = "sending", Decided(c, v),
           outbox'[e] = SettledRow(outbox[e], c, v),
           UNCHANGED <<notification, sentVars>>
    PROVE  /\ outbox'[e] \in OutboxRow
           /\ RowSound(e)'
<1>1. /\ outbox[e] \in OutboxRow /\ tries[e] \in Nat /\ since[e] \in 0..Horizon
      /\ c.attempts \in 0..Retries /\ accepted[e] \in Nat
    BY Types DEF OutboxInv, OutboxTypeOK, Claims
<1>2. RowSound(e) /\ outbox[e].attempts <= Retries /\ notification[e] # "future"
    BY DEF OutboxInv, RowSound
<1>3. UNCHANGED <<notification, accepted, tries, since>>
    BY DEF sentVars
<1>4. CASE v = "sent"
    <2>1. outbox'[e] = [outbox[e] EXCEPT !.status = "sent", !.attempts = outbox[e].attempts + 1]
        BY <1>4 DEF SettledRow
    <2>2. outbox[e].attempts + 1 \in 0..(Retries + 1)
        BY <1>1, <1>2, Waits DEF OutboxRow
    <2>3. outbox'[e] \in OutboxRow /\ outbox'[e].status = "sent"
        BY <1>1, <2>1, <2>2 DEF OutboxRow, Statuses
    <2> QED
        BY <1>2, <1>3, <1>4, <2>3 DEF RowSound, Decided
<1>5. CASE v = "skipped"
    <2>1. outbox'[e] = [outbox[e] EXCEPT !.status = "skipped"]
        BY <1>5 DEF SettledRow
    <2>2. outbox'[e] \in OutboxRow /\ outbox'[e].status = "skipped"
        BY <1>1, <2>1 DEF OutboxRow, Statuses
    <2> QED
        BY <1>2, <1>3, <1>5, <2>2 DEF RowSound, Decided
<1>6. CASE v = "failed"
    <2>1. outbox'[e] = [outbox[e] EXCEPT !.status = "failed", !.attempts = c.attempts + 1]
        BY <1>6 DEF SettledRow
    <2>2. c.attempts + 1 \in 0..(Retries + 1)
        BY <1>1, Waits
    <2>3. outbox'[e] \in OutboxRow /\ outbox'[e].status = "failed"
        BY <1>1, <2>1, <2>2 DEF OutboxRow, Statuses
    <2> QED
        BY <1>2, <1>3, <2>3 DEF RowSound
<1>7. CASE v = "retry"
    <2>1. PICK n \in 1..Retries : n = c.attempts + 1
        BY <1>1, <1>7, Waits DEF Decided
    <2>2. outbox'[e] = [status |-> "pending", attempts |-> n, wait |-> Backoff[n]]
        BY <1>7, <2>1 DEF SettledRow
    <2>3. Backoff[n] \in Nat /\ Backoff[n] < Horizon
        BY <2>1, Waits
    <2>4. outbox'[e] \in OutboxRow
        BY <2>1, <2>2, <2>3, Waits DEF OutboxRow, Statuses
    <2>5. tries[e] <= n /\ accepted[e] = 0
        BY <1>1, <1>7, <2>1 DEF Decided
    <2>6. RestPlanned(e)'
        <3>1. ASSUME tries[e] > 0 PROVE Backoff[tries[e]] <= Backoff[n] /\ Backoff[tries[e]] \in Nat
            BY <1>1, <2>1, <2>5, <3>1, Waits
        <3> QED
            BY <1>1, <1>3, <2>2, <2>3, <3>1, Waits DEF RestPlanned
    <2> QED
        BY <1>1, <1>2, <1>3, <2>1, <2>2, <2>4, <2>5, <2>6, Waits DEF RowSound
<1> QED
    BY <1>4, <1>5, <1>6, <1>7 DEF Decided, Verdicts

LEMMA SettleSound ==
    ASSUME OutboxInv, NEW p \in Processes, Settle(p)
    PROVE  OutboxInv'
<1>1. /\ process[p].batch \in Seq(Claims) /\ process[p].batch # << >>
      /\ Current(p) = process[p].batch[1] /\ Current(p) \in Claims
      /\ 1 \in DOMAIN process[p].batch /\ process[p].pc = "settle"
    BY Working DEF Settle, AtStep
<1>2. Decided(Current(p), process[p].verdict)
    BY <1>1 DEF OutboxInv, BatchSound, ClaimSound, AtStep
<1>3. PICK e \in Emails : e = Current(p).email
    BY <1>1 DEF Claims
<1>4. PICK v \in Verdicts : v = process[p].verdict
    BY Rows DEF ProcessRow
<1>5. UNCHANGED <<notification, emailOn, stops, sentVars>>
    BY DEF Settle
<1>6. /\ outbox \in [Emails -> OutboxRow]
      /\ \A f \in Emails : outbox'[f] = outbox[f] \/ (f = e /\ outbox[e].status = "sending"
                              /\ outbox'[e] = SettledRow(outbox[e], Current(p), v))
      /\ outbox' = [f \in Emails |-> outbox'[f]]
    BY <1>3, <1>4, Types DEF Settle, OutboxInv
<1>7. ASSUME NEW f \in Emails PROVE outbox'[f] \in OutboxRow /\ RowSound(f)'
    <2>1. CASE outbox'[f] = outbox[f]
        BY <1>5, <1>6, <2>1 DEF OutboxInv, RowSound, RestPlanned, sentVars
    <2>2. CASE f = e /\ outbox[e].status = "sending"
               /\ outbox'[e] = SettledRow(outbox[e], Current(p), v)
        BY <1>1, <1>2, <1>3, <1>4, <1>5, <2>2, SettledSound
    <2> QED
        BY <1>6, <2>1, <2>2
<1>8. outbox' \in [Emails -> OutboxRow]
    BY <1>6, <1>7
<1>9. /\ Tail(process[p].batch) \in Seq(Claims)
      /\ Len(Tail(process[p].batch)) = Len(process[p].batch) - 1
      /\ \A i \in 1..Len(Tail(process[p].batch)) : Tail(process[p].batch)[i] = process[p].batch[i + 1]
    BY <1>1, HeadTailProperties
<1>10. PICK row \in ProcessRow :
          /\ process' = [process EXCEPT ![p] = row]
          /\ row.batch = Tail(process[p].batch)
          /\ row.pc = IF row.batch = << >> THEN "idle" ELSE "compose"
    <2>1. PICK rest \in Seq(Claims), pc \in Steps :
             rest = Tail(process[p].batch) /\ pc = IF rest = << >> THEN "idle" ELSE "compose"
        BY <1>9 DEF Steps
    <2>2. process' = [process EXCEPT ![p] = [Resting EXCEPT !.pc = pc, !.batch = rest]]
        BY <2>1 DEF Settle
    <2>3. PICK idle \in ProcessRow : idle = Resting
        BY Rows
    <2>4. PICK row \in ProcessRow : row = [idle EXCEPT !.pc = pc, !.batch = rest]
        BY DEF ProcessRow
    <2>5. row.pc = pc /\ row.batch = rest
        BY <2>4 DEF ProcessRow
    <2> QED
        BY <2>1, <2>2, <2>3, <2>4, <2>5
<1>11. process'[p] = row
    BY <1>10, Types DEF OutboxInv
<1>12. \A i \in DOMAIN row.batch :
          i + 1 \in DOMAIN process[p].batch /\ i + 1 # 1
             /\ row.batch[i] = process[p].batch[i + 1]
    BY <1>1, <1>9, <1>10
<1>13. ASSUME NEW i \in DOMAIN row.batch PROVE ClaimSound(p, i)'
    <2>1. PICK c : c = row.batch[i] /\ c = process[p].batch[i + 1]
        BY <1>12
    <2>2. c.email \in Emails /\ c.email # e
        BY <1>1, <1>3, <1>12, <2>1, Types DEF OutboxInv, BatchSound
    <2>3. Unsent(c) /\ outbox[c.email].status \in Live
        BY <1>1, <1>12, <2>1 DEF OutboxInv, BatchSound, ClaimSound
    <2>4. outbox'[c.email].status \in Live
        BY <1>6, <2>2, <2>3
    <2>5. Unsent(c)'
        BY <1>5, <2>3 DEF Unsent, RestOver, sentVars
    <2> QED
        BY <1>10, <1>11, <2>1, <2>4, <2>5 DEF ClaimSound, AtStep
<1>14. BatchSound(p)'
    <2>1. \A i, j \in DOMAIN row.batch : row.batch[i].email = row.batch[j].email => i = j
        <3> SUFFICES ASSUME NEW i \in DOMAIN row.batch, NEW j \in DOMAIN row.batch,
                            row.batch[i].email = row.batch[j].email
                     PROVE  i = j
            OBVIOUS
        <3>1. i + 1 = j + 1
            BY <1>12 DEF OutboxInv, BatchSound
        <3>2. i \in Nat /\ j \in Nat
            BY <1>9, <1>10
        <3> QED
            BY <3>1, <3>2
    <2>2. process'[p].batch = row.batch /\ process'[p].pc = row.pc
        BY <1>11
    <2>3. row.batch = << >> <=> row.pc \in {"down", "idle", "skip", "claim"}
        BY <1>10
    <2> QED
        BY <1>13, <2>1, <2>2, <2>3 DEF BatchSound
<1>15. ASSUME NEW q \in Processes \ {p}, NEW i \in DOMAIN process[q].batch
       PROVE  LET f == process[q].batch[i].email IN
              /\ outbox'[f].status \in Live
              /\ accepted'[f] = accepted[f] /\ tries'[f] = tries[f]
              /\ since'[f] \in Int /\ since'[f] >= since[f]
    <2>1. process[q].batch[i].email # e
        BY <1>1, <1>3, <1>15 DEF OutboxInv, NoSharedClaims
    <2> QED
        BY <1>5, <1>6, <2>1, <1>15, ClaimedRow DEF sentVars
<1>16. \A q \in Processes \ {p} : \A i \in DOMAIN row.batch, j \in DOMAIN process[q].batch :
          row.batch[i].email # process[q].batch[j].email
    BY <1>12 DEF OutboxInv, NoSharedClaims
<1>17. Len(row.batch) <= Batch /\ RestTyped'
    <2>1. Len(process[p].batch) \in Nat /\ Len(process[p].batch) <= Batch
        BY <1>1, Types DEF OutboxInv
    <2>2. Len(row.batch) <= Batch
        BY <1>9, <1>10, <2>1, BatchAssumption
    <2> QED
        BY <1>5, <2>2 DEF OutboxInv, OutboxTypeOK, RestTyped, sentVars
<1> QED
    BY <1>7, <1>8, <1>10, <1>14, <1>15, <1>16, <1>17, OneMoves

(***************************************************************************)
(* The rest of the system.                                                 *)
(***************************************************************************)

LEMMA NobodyMoves ==
    ASSUME OutboxInv, UNCHANGED process,
           outbox' \in [Emails -> OutboxRow], RestTyped',
           \A e \in Emails : RowSound(e)',
           \A q \in Processes : \A i \in DOMAIN process[q].batch :
              LET e == process[q].batch[i].email IN
              /\ outbox'[e].status \in Live
              /\ accepted'[e] = accepted[e] /\ tries'[e] = tries[e]
              /\ since'[e] \in Int /\ since'[e] >= since[e]
    PROVE  OutboxInv'
<1>1. OutboxTypeOK'
    BY DEF OutboxInv, OutboxTypeOK, RestTyped, OutboxRow
<1>2. \A q \in Processes : BatchSound(q)'
    BY OtherBatches
<1>3. NoSharedClaims'
    BY DEF OutboxInv, NoSharedClaims
<1> QED
    BY <1>1, <1>2, <1>3 DEF OutboxInv

LEMMA NotifySound ==
    ASSUME OutboxInv, NEW e \in Emails, Notify(e)
    PROVE  OutboxInv'
<1>1. /\ outbox \in [Emails -> OutboxRow]
      /\ notification \in [Emails -> {"future", "stored", "deleted"}]
    BY Types DEF OutboxInv, OutboxTypeOK
<1>2. /\ outbox[e].status = "absent" /\ outbox[e].attempts = 0
      /\ accepted[e] = 0 /\ tries[e] = 0
    BY DEF OutboxInv, RowSound, Notify
<1>3. /\ UNCHANGED <<emailOn, process, stops, accepted, tries, since>>
      /\ outbox' = [outbox EXCEPT ![e].status = "pending"]
      /\ notification' = [notification EXCEPT ![e] = "stored"]
    BY DEF Notify, sentVars
<1>4. /\ outbox'[e] = [outbox[e] EXCEPT !.status = "pending"]
      /\ outbox'[e] \in OutboxRow
      /\ outbox'[e].status = "pending" /\ outbox'[e].attempts = 0
      /\ notification'[e] = "stored"
      /\ \A f \in Emails \ {e} : outbox'[f] = outbox[f] /\ notification'[f] = notification[f]
    BY <1>1, <1>2, <1>3 DEF OutboxRow, Statuses
<1>5. outbox' \in [Emails -> OutboxRow] /\ RestTyped'
    BY <1>1, <1>3, <1>4 DEF RestTyped, OutboxInv, OutboxTypeOK
<1>6. ASSUME NEW f \in Emails PROVE RowSound(f)'
    <2>1. CASE f = e
        BY <1>2, <1>3, <1>4, <2>1, Waits DEF RowSound, RestPlanned
    <2>2. CASE f # e
        BY <1>3, <1>4, <2>2 DEF OutboxInv, RowSound, RestPlanned
    <2> QED
        BY <2>1, <2>2
<1>7. ASSUME NEW q \in Processes, NEW i \in DOMAIN process[q].batch
      PROVE  LET f == process[q].batch[i].email IN
             /\ outbox'[f].status \in Live
             /\ accepted'[f] = accepted[f] /\ tries'[f] = tries[f]
             /\ since'[f] \in Int /\ since'[f] >= since[f]
    <2>1. process[q].batch[i].email # e
        BY <1>2, <1>7, ClaimedRow DEF Live
    <2> QED
        BY <1>3, <1>4, <2>1, <1>7, ClaimedRow
<1> QED
    BY <1>3, <1>5, <1>6, <1>7, NobodyMoves

LEMMA CascadeOrSwitchSound ==
    ASSUME OutboxInv, (\E e \in Emails : Cascade(e)) \/ SwitchEmail
    PROVE  OutboxInv'
<1>1. UNCHANGED <<outbox, process, stops, accepted, tries, since>>
    BY DEF Cascade, SwitchEmail, sentVars
<1>2. notification \in [Emails -> {"future", "stored", "deleted"}]
    BY DEF OutboxInv, OutboxTypeOK
<1>3. notification' \in [Emails -> {"future", "stored", "deleted"}]
      /\ \A f \in Emails : notification'[f] = "future" <=> notification[f] = "future"
    BY <1>2 DEF Cascade, SwitchEmail
<1>4. emailOn' \in BOOLEAN
    BY Zenon DEF Cascade, SwitchEmail, OutboxInv, OutboxTypeOK
<1>5. outbox' \in [Emails -> OutboxRow] /\ RestTyped'
    BY <1>1, <1>3, <1>4, Types DEF RestTyped, OutboxInv, OutboxTypeOK
<1>6. \A f \in Emails : RowSound(f)'
    BY <1>1, <1>3 DEF OutboxInv, RowSound, RestPlanned
<1>7. ASSUME NEW q \in Processes, NEW i \in DOMAIN process[q].batch
      PROVE  LET f == process[q].batch[i].email IN
             /\ outbox'[f].status \in Live
             /\ accepted'[f] = accepted[f] /\ tries'[f] = tries[f]
             /\ since'[f] \in Int /\ since'[f] >= since[f]
    BY <1>1, <1>7, ClaimedRow
<1> QED
    BY <1>1, <1>5, <1>6, <1>7, NobodyMoves

\* A tick shortens a wait by what it adds to the rest, so a planned rest stays
\* planned; beyond the horizon every rest is over.
LEMMA ElapseTickSound ==
    ASSUME OutboxInv, ElapseTick
    PROVE  OutboxInv'
<1>1. /\ outbox \in [Emails -> OutboxRow] /\ since \in [Emails -> 0..Horizon]
      /\ tries \in [Emails -> Nat]
    BY Types DEF OutboxInv, OutboxTypeOK
<1>2. UNCHANGED <<notification, emailOn, process, stops, accepted, tries>>
    BY DEF ElapseTick
<1>3. ASSUME NEW e \in Emails
      PROVE  /\ outbox'[e] \in OutboxRow
             /\ outbox'[e].status = outbox[e].status /\ outbox'[e].attempts = outbox[e].attempts
             /\ outbox'[e].wait >= outbox[e].wait - 1
             /\ since'[e] \in 0..Horizon /\ since'[e] >= since[e]
             /\ since'[e] = since[e] + 1 \/ since'[e] = Horizon
    <2>1. PICK w : w = IF outbox[e].wait > -MaxOverdue THEN outbox[e].wait - 1 ELSE outbox[e].wait
        OBVIOUS
    <2>2. outbox[e].wait \in (-MaxOverdue)..Horizon
        BY <1>1 DEF OutboxRow
    <2>3. w \in (-MaxOverdue)..Horizon /\ w >= outbox[e].wait - 1
        BY <2>1, <2>2, Waits
    <2>4. outbox'[e] = [outbox[e] EXCEPT !.wait = w]
        BY <2>1 DEF ElapseTick
    <2>5. since'[e] = IF since[e] < Horizon THEN since[e] + 1 ELSE Horizon
        BY DEF ElapseTick
    <2>6. since[e] \in 0..Horizon
        BY <1>1
    <2>7. /\ outbox'[e] \in OutboxRow /\ outbox'[e].wait = w
          /\ outbox'[e].status = outbox[e].status /\ outbox'[e].attempts = outbox[e].attempts
        BY <1>1, <2>3, <2>4 DEF OutboxRow
    <2> QED
        BY <2>3, <2>5, <2>6, <2>7, Waits
<1>4. ASSUME NEW e \in Emails, RestPlanned(e), tries[e] <= Retries PROVE RestPlanned(e)'
    <2>1. CASE tries[e] = 0
        BY <1>2, <2>1 DEF RestPlanned
    <2>2. CASE tries[e] > 0
        <3>1. tries[e] \in 1..Retries
            BY <1>1, <1>4, <2>2, Waits
        <3>2. Backoff[tries[e]] \in Nat /\ Backoff[tries[e]] < Horizon
            BY <3>1, Waits
        <3>3. outbox[e].wait \in Int /\ outbox'[e].wait \in Int /\ since[e] \in Int
            BY <1>1, <1>3, Waits DEF OutboxRow
        <3>4. since'[e] \in Int /\ Horizon \in Int
            BY <1>3, Waits
        <3> QED
            BY <1>2, <1>3, <1>4, <2>2, <3>2, <3>3, <3>4 DEF RestPlanned
    <2> QED
        BY <1>1, <2>1, <2>2
<1>5. outbox' \in [Emails -> OutboxRow] /\ since' \in [Emails -> 0..Horizon]
    <2>1. /\ outbox' = [e \in Emails |-> outbox'[e]] /\ since' = [e \in Emails |-> since'[e]]
        BY DEF ElapseTick
    <2> QED
        BY <1>3, <2>1
<1>6. ASSUME NEW e \in Emails PROVE RowSound(e)'
    <2>1. RowSound(e) /\ tries[e] \in Nat /\ outbox[e].attempts \in Nat /\ Retries \in Nat
        BY <1>1, Waits DEF OutboxInv, OutboxRow
    <2>2. outbox[e].status = "pending" => RestPlanned(e)'
        BY <1>4, <2>1 DEF RowSound
    <2> QED
        BY <1>2, <1>3, <2>1, <2>2 DEF RowSound
<1>7. RestTyped'
    BY <1>2, <1>5 DEF RestTyped, OutboxInv, OutboxTypeOK
<1>8. ASSUME NEW q \in Processes, NEW i \in DOMAIN process[q].batch
      PROVE  LET f == process[q].batch[i].email IN
             /\ outbox'[f].status \in Live
             /\ accepted'[f] = accepted[f] /\ tries'[f] = tries[f]
             /\ since'[f] \in Int /\ since'[f] >= since[f]
    BY <1>2, <1>3, <1>8, ClaimedRow
<1> QED
    BY <1>2, <1>5, <1>6, <1>7, <1>8, NobodyMoves

\* A row whose status alone is rewritten, to one that a store call may write.
LEMMA Restatused ==
    ASSUME OutboxInv, NEW e \in Emails, NEW status \in {"skipped", "failed", "removed"},
           outbox'[e] = [outbox[e] EXCEPT !.status = status],
           outbox[e].status # "absent",
           status = "skipped" => outbox[e].status = "pending",
           UNCHANGED <<notification, accepted, tries, since>>
    PROVE  outbox'[e] \in OutboxRow /\ RowSound(e)' /\ outbox'[e].status = status
<1>1. outbox[e] \in OutboxRow /\ RowSound(e)
    BY Types DEF OutboxInv
<1>2. outbox'[e] \in OutboxRow /\ outbox'[e].status = status
    BY <1>1 DEF OutboxRow, Statuses
<1> QED
    BY <1>1, <1>2 DEF RowSound

LEMMA SkipPendingSound ==
    ASSUME OutboxInv, NEW p \in Processes, SkipPending(p)
    PROVE  OutboxInv'
<1>1. outbox \in [Emails -> OutboxRow] /\ process \in [Processes -> ProcessRow]
    BY Types DEF OutboxInv
<1>2. UNCHANGED <<notification, emailOn, stops, accepted, tries, since>>
    BY DEF SkipPending, sentVars
<1>3. ASSUME NEW e \in Emails
      PROVE  outbox'[e] \in OutboxRow /\ RowSound(e)'
             /\ (outbox[e].status # "pending" => outbox'[e] = outbox[e])
    <2>1. outbox[e] \in OutboxRow
        BY <1>1
    <2>2. CASE outbox[e].status = "pending"
        <3>1. outbox'[e] = [outbox[e] EXCEPT !.status = "skipped"]
            BY <2>2 DEF SkipPending
        <3> QED
            BY <1>2, <2>2, <3>1, Restatused
    <2>3. CASE outbox[e].status # "pending"
        <3>1. outbox'[e] = [outbox[e] EXCEPT !.status = outbox[e].status]
            BY <2>3 DEF SkipPending
        <3>2. outbox'[e] = outbox[e]
            BY <2>1, <3>1 DEF OutboxRow
        <3> QED
            BY <1>2, <2>1, <3>2 DEF OutboxInv, RowSound, RestPlanned
    <2> QED
        BY <2>2, <2>3
<1>4. outbox' \in [Emails -> OutboxRow]
    <2>1. outbox' = [e \in Emails |-> outbox'[e]]
        BY DEF SkipPending
    <2> QED
        BY <1>3, <2>1
<1>5. PICK row \in ProcessRow : /\ process' = [process EXCEPT ![p] = row]
                                /\ row.batch = << >> /\ row.pc = "idle"
    <2>1. process[p].batch = << >>
        BY DEF SkipPending, AtStep, OutboxInv, BatchSound
    <2>2. [process[p] EXCEPT !.pc = "idle"] \in ProcessRow
        BY Rows DEF Steps
    <2>3. process' = [process EXCEPT ![p] = [process[p] EXCEPT !.pc = "idle"]]
        BY DEF SkipPending, Goto
    <2> QED
        BY <1>1, <2>1, <2>2, <2>3 DEF ProcessRow
<1>6. BatchSound(p)'
    BY <1>1, <1>5, NoBatch
<1>7. ASSUME NEW q \in Processes, NEW i \in DOMAIN process[q].batch
      PROVE  LET f == process[q].batch[i].email IN
             /\ outbox'[f].status \in Live
             /\ accepted'[f] = accepted[f] /\ tries'[f] = tries[f]
             /\ since'[f] \in Int /\ since'[f] >= since[f]
    BY <1>2, <1>3, <1>7, ClaimedRow DEF Live
<1>8. Len(row.batch) <= Batch /\ RestTyped'
    BY <1>2, <1>5, BatchAssumption DEF RestTyped, OutboxInv, OutboxTypeOK
<1>9. \A q \in Processes \ {p} : \A i \in DOMAIN row.batch, j \in DOMAIN process[q].batch :
         row.batch[i].email # process[q].batch[j].email
    BY <1>5
<1> QED
    BY <1>3, <1>4, <1>5, <1>6, <1>7, <1>8, <1>9, OneMoves

\* A restart fails the rows in flight, those of a running process too: its
\* claims stay live, and its settlement finds nothing to settle.
LEMMA StartSound ==
    ASSUME OutboxInv, NEW p \in Processes, Start(p)
    PROVE  OutboxInv'
<1>1. outbox \in [Emails -> OutboxRow] /\ process \in [Processes -> ProcessRow]
    BY Types DEF OutboxInv
<1>2. UNCHANGED <<notification, emailOn, stops, accepted, tries, since>>
    BY DEF Start, sentVars
<1>3. ASSUME NEW e \in Emails
      PROVE  outbox'[e] \in OutboxRow /\ RowSound(e)'
             /\ (outbox'[e] = outbox[e] \/ outbox'[e].status = "failed")
    <2>1. outbox[e] \in OutboxRow
        BY <1>1
    <2>2. CASE outbox'[e] = [outbox[e] EXCEPT !.status = "failed"] /\ outbox[e].status = "sending"
        BY <1>2, <2>2, Restatused
    <2>3. CASE outbox'[e] = outbox[e]
        BY <1>2, <2>1, <2>3 DEF OutboxInv, RowSound, RestPlanned
    <2>4. outbox'[e] = [outbox[e] EXCEPT !.status = outbox[e].status] => outbox'[e] = outbox[e]
        BY <2>1 DEF OutboxRow
    <2> QED
        BY <2>2, <2>3, <2>4 DEF Start
<1>4. outbox' \in [Emails -> OutboxRow]
    <2>1. outbox' = [e \in Emails |-> outbox'[e]]
        BY <1>1 DEF Start
    <2> QED
        BY <1>3, <2>1
<1>5. /\ Resting \in ProcessRow /\ Resting.batch = << >> /\ Resting.pc = "idle"
      /\ process' = [process EXCEPT ![p] = Resting]
    BY Rows DEF Start, Resting, Down
<1>6. BatchSound(p)'
    BY <1>1, <1>5, NoBatch
<1>7. ASSUME NEW q \in Processes, NEW i \in DOMAIN process[q].batch
      PROVE  LET f == process[q].batch[i].email IN
             /\ outbox'[f].status \in Live
             /\ accepted'[f] = accepted[f] /\ tries'[f] = tries[f]
             /\ since'[f] \in Int /\ since'[f] >= since[f]
    BY <1>2, <1>3, <1>7, ClaimedRow DEF Live
<1>8. Len(Resting.batch) <= Batch /\ RestTyped'
    BY <1>2, <1>5, BatchAssumption DEF RestTyped, OutboxInv, OutboxTypeOK
<1>9. \A q \in Processes \ {p} : \A i \in DOMAIN Resting.batch, j \in DOMAIN process[q].batch :
         Resting.batch[i].email # process[q].batch[j].email
    BY <1>5
<1> QED
    BY <1>3, <1>4, <1>5, <1>6, <1>7, <1>8, <1>9, OneMoves

\* A claim takes rows that were due: pending, so nobody held them, and with
\* their rest over.
LEMMA ClaimDueSound ==
    ASSUME OutboxInv, NEW p \in Processes, ClaimDue(p)
    PROVE  OutboxInv'
<1>1. outbox \in [Emails -> OutboxRow] /\ process \in [Processes -> ProcessRow]
    BY Types DEF OutboxInv
<1>2. UNCHANGED <<notification, emailOn, stops, accepted, tries, since>>
    BY DEF ClaimDue, sentVars
<1>3. PICK order \in FirstDue :
         /\ outbox' = [e \in Emails |-> [outbox[e] EXCEPT
                          !.status = IF Orphaned(e) THEN "removed"
                                     ELSE IF e \in Range(order) THEN "sending" ELSE @]]
         /\ process' = [process EXCEPT ![p] =
               [pc |-> IF order = << >> THEN "idle" ELSE "compose",
                batch |-> [i \in 1..Len(order) |->
                             [email |-> order[i], attempts |-> outbox[order[i]].attempts]],
                verdict |-> "none"]]
    BY DEF ClaimDue
<1>4. order \in Seq(Due) /\ Len(order) <= Batch /\ Len(order) \in Nat
    BY Batches, BatchAssumption DEF FirstDue
<1>5. \A i \in 1..Len(order) :
         /\ order[i] \in Due /\ order[i] \in Emails /\ order[i] \in Range(order)
         /\ outbox[order[i]].status = "pending"
         /\ outbox[order[i]].wait <= 0 /\ ~Orphaned(order[i])
    BY <1>4 DEF Due, Range
<1>6. \A i, j \in 1..Len(order) : order[i] = order[j] => i = j
    <2> SUFFICES ASSUME NEW i \in 1..Len(order), NEW j \in 1..Len(order), i < j
                 PROVE  order[i] # order[j]
        BY <1>4
    <2>1. Before(order[i], order[j])
        <3>1. InOrder(order)
            BY DEF FirstDue
        <3>2. DOMAIN order = 1..Len(order)
            BY <1>4
        <3> QED
            BY <3>1, <3>2 DEF InOrder
    <2>2. \A e \in Emails : ~Before(e, e)
        <3>1. ASSUME NEW e \in Emails PROVE e \in Nat /\ outbox[e].wait \in Int
            BY <1>1, EmailsAssumption, Waits DEF OutboxRow
        <3> QED
            BY <3>1 DEF Before
    <2> QED
        BY <1>5, <2>1, <2>2
<1>7. ASSUME NEW e \in Emails
      PROVE  /\ outbox'[e] \in OutboxRow /\ RowSound(e)'
             /\ outbox'[e] = outbox[e] \/ outbox'[e].status = "removed"
                   \/ (e \in Range(order) /\ outbox'[e].status = "sending")
             /\ e \in Range(order) => outbox'[e].status = "sending"
    <2>1. outbox[e] \in OutboxRow /\ RowSound(e)
        BY <1>1 DEF OutboxInv
    <2>2. CASE Orphaned(e)
        <3>1. outbox'[e] = [outbox[e] EXCEPT !.status = "removed"]
            BY <1>3, <2>2
        <3>2. e \notin Range(order)
            BY <1>4, <1>5, <2>2 DEF Range
        <3> QED
            BY <1>2, <2>2, <3>1, <3>2, Restatused DEF Orphaned
    <2>3. CASE e \in Range(order) /\ ~Orphaned(e)
        <3>1. outbox'[e] = [outbox[e] EXCEPT !.status = "sending"]
            BY <1>3, <2>3
        <3>2. outbox[e].status = "pending"
            BY <1>4, <1>5, <2>3 DEF Range
        <3>3. /\ outbox'[e] \in OutboxRow /\ outbox'[e].status = "sending"
              /\ outbox'[e].attempts = outbox[e].attempts
            BY <2>1, <3>1 DEF OutboxRow, Statuses
        <3> QED
            BY <1>2, <2>1, <2>3, <3>2, <3>3 DEF RowSound
    <2>4. CASE e \notin Range(order) /\ ~Orphaned(e)
        <3>1. outbox'[e] = [outbox[e] EXCEPT !.status = outbox[e].status]
            BY <1>3, <2>4
        <3>2. outbox'[e] = outbox[e]
            BY <2>1, <3>1 DEF OutboxRow
        <3> QED
            BY <1>2, <2>1, <2>4, <3>2 DEF RowSound, RestPlanned
    <2> QED
        BY <2>2, <2>3, <2>4
<1>8. outbox' \in [Emails -> OutboxRow]
    BY <1>3, <1>7
<1>9. PICK batch \in Seq(Claims) :
         /\ batch = [i \in 1..Len(order) |->
                       [email |-> order[i], attempts |-> outbox[order[i]].attempts]]
         /\ Len(batch) = Len(order)
         /\ \A i \in 1..Len(order) :
               /\ batch[i].email = order[i]
               /\ batch[i].attempts = outbox[order[i]].attempts
    <2>1. ASSUME NEW i \in 1..Len(order)
          PROVE  [email |-> order[i], attempts |-> outbox[order[i]].attempts] \in Claims
        BY <1>1, <1>5, Waits DEF Claims, OutboxInv, RowSound, OutboxRow
    <2>2. PICK n \in Nat : n = Len(order)
        BY <1>4
    <2>3. PICK batch : batch = [i \in 1..n |->
                                  [email |-> order[i], attempts |-> outbox[order[i]].attempts]]
        OBVIOUS
    <2>4. batch \in [1..n -> Claims]
        BY <2>1, <2>2, <2>3
    <2>5. batch \in Seq(Claims) /\ Len(batch) = n
        BY <2>4
    <2>6. \A i \in 1..n : batch[i] = [email |-> order[i], attempts |-> outbox[order[i]].attempts]
        BY <2>3
    <2> QED
        BY <2>2, <2>3, <2>5, <2>6
<1>10. PICK row \in ProcessRow :
          /\ process' = [process EXCEPT ![p] = row] /\ row.batch = batch
          /\ row.pc = IF batch = << >> THEN "idle" ELSE "compose"
    <2>1. PICK pc \in Steps : pc = IF order = << >> THEN "idle" ELSE "compose"
        BY DEF Steps
    <2>2. [pc |-> pc, batch |-> batch, verdict |-> "none"] \in ProcessRow
        BY DEF ProcessRow, Verdicts
    <2>3. process' = [process EXCEPT ![p] = [pc |-> pc, batch |-> batch, verdict |-> "none"]]
        BY <1>3, <1>9, <2>1
    <2>4. order = << >> <=> batch = << >>
        BY <1>4, <1>9
    <2> QED
        BY <2>1, <2>2, <2>3, <2>4
<1>11. process'[p].batch = batch /\ process'[p].pc = row.pc
    BY <1>1, <1>10
<1>12. ASSUME NEW i \in DOMAIN batch PROVE ClaimSound(p, i)'
    <2>1. i \in 1..Len(order)
        BY <1>9
    <2>2. PICK e \in Emails : e = order[i]
        BY <1>5, <2>1
    <2>3. PICK c : c = batch[i] /\ c.email = e /\ c.attempts = outbox[e].attempts
        BY <1>9, <2>1, <2>2
    <2>4. outbox'[e].status = "sending"
        BY <1>5, <1>7, <2>1, <2>2
    <2>5. /\ RowSound(e) /\ outbox[e].status = "pending" /\ outbox[e].wait <= 0
          /\ outbox[e].wait \in Int /\ since[e] \in Int /\ tries[e] \in Nat
          /\ outbox[e].attempts \in Nat
        BY <1>1, <1>5, <2>1, <2>2, Waits DEF OutboxInv, OutboxTypeOK, OutboxRow
    <2>6. tries[e] > 0 => since[e] >= Backoff[tries[e]]
        <3>1. ASSUME tries[e] > 0 PROVE Backoff[tries[e]] \in Int
            BY <2>5, <3>1, Waits DEF RowSound
        <3> QED
            BY <2>5, <3>1 DEF RowSound, RestPlanned
    <2>7. Unsent(c)'
        BY <1>2, <2>3, <2>5, <2>6 DEF RowSound, Unsent, RestOver
    <2> QED
        BY <1>10, <1>11, <2>3, <2>4, <2>7 DEF ClaimSound, AtStep, Live
<1>13. BatchSound(p)'
    <2>1. row.pc \in {"down", "idle", "skip", "claim"} <=> batch = << >>
        BY <1>10
    <2>2. \A i, j \in DOMAIN batch : batch[i].email = batch[j].email => i = j
        BY <1>6, <1>9
    <2> QED
        BY <1>11, <1>12, <2>1, <2>2 DEF BatchSound
<1>14. ASSUME NEW q \in Processes, NEW i \in DOMAIN process[q].batch
       PROVE  /\ LET f == process[q].batch[i].email IN
                 /\ outbox'[f].status \in Live
                 /\ accepted'[f] = accepted[f] /\ tries'[f] = tries[f]
                 /\ since'[f] \in Int /\ since'[f] >= since[f]
              /\ outbox[process[q].batch[i].email].status # "pending"
    BY <1>2, <1>7, <1>14, ClaimedRow DEF Live
<1>15. \A q \in Processes \ {p} : \A i \in DOMAIN row.batch, j \in DOMAIN process[q].batch :
          row.batch[i].email # process[q].batch[j].email
    BY <1>5, <1>9, <1>10, <1>14
<1>16. Len(row.batch) <= Batch /\ RestTyped'
    BY <1>2, <1>4, <1>9, <1>10 DEF RestTyped, OutboxInv, OutboxTypeOK
<1> QED
    BY <1>7, <1>8, <1>10, <1>13, <1>14, <1>15, <1>16, OneMoves

(***************************************************************************)
(* The theorems.                                                           *)
(***************************************************************************)

LEMMA OutboxInitSound == OutboxInit => OutboxInv
<1> SUFFICES ASSUME OutboxInit PROVE OutboxInv
    OBVIOUS
<1>1. /\ Down \in ProcessRow /\ Down.batch = << >> /\ Down.pc = "down" /\ Len(Down.batch) = 0
    <2>1. << >> \in Seq(Claims)
        OBVIOUS
    <2> QED
        BY <2>1 DEF Down, ProcessRow, Steps, Verdicts
<1>2. /\ process \in [Processes -> ProcessRow]
      /\ \A p \in Processes : process[p] = Down /\ Len(process[p].batch) <= Batch
    BY <1>1, BatchAssumption DEF OutboxInit
<1>3. outbox \in [Emails -> OutboxRow]
    <2>1. [status |-> "absent", attempts |-> 0, wait |-> 0] \in OutboxRow
        BY Waits DEF OutboxRow, Statuses
    <2> QED
        BY <2>1 DEF OutboxInit
<1>4. OutboxTypeOK
    <2>1. 0 \in 0..MaxStops /\ 0 \in 0..Horizon
        BY Waits
    <2> QED
        BY <1>2, <1>3, <2>1, ProcessTypes DEF OutboxInit, OutboxTypeOK, OutboxRow
<1>5. \A e \in Emails : RowSound(e)
    BY Waits DEF OutboxInit, RowSound
<1>6. \A p \in Processes : BatchSound(p)
    BY <1>1, <1>2 DEF BatchSound
<1>7. NoSharedClaims
    BY <1>1, <1>2 DEF NoSharedClaims
<1> QED
    BY <1>4, <1>5, <1>6, <1>7 DEF OutboxInv

LEMMA OutboxNextSound == OutboxInv /\ [OutboxNext]_outboxVars => OutboxInv'
<1> SUFFICES ASSUME OutboxInv, [OutboxNext]_outboxVars PROVE OutboxInv'
    OBVIOUS
<1>1. CASE UNCHANGED outboxVars
    <2>1. UNCHANGED <<outbox, notification, emailOn, process, stops, accepted, tries, since>>
        BY <1>1 DEF outboxVars
    <2>2. outbox' \in [Emails -> OutboxRow] /\ RestTyped' /\ \A e \in Emails : RowSound(e)'
        BY <2>1, Types DEF OutboxInv, OutboxTypeOK, RestTyped, RowSound, RestPlanned
    <2>3. ASSUME NEW q \in Processes, NEW i \in DOMAIN process[q].batch
          PROVE  LET f == process[q].batch[i].email IN
                 /\ outbox'[f].status \in Live
                 /\ accepted'[f] = accepted[f] /\ tries'[f] = tries[f]
                 /\ since'[f] \in Int /\ since'[f] >= since[f]
        BY <2>1, <2>3, ClaimedRow
    <2> QED
        BY <2>1, <2>2, <2>3, NobodyMoves
<1>2. ASSUME NEW e \in Emails, Notify(e) \/ Cascade(e) PROVE OutboxInv'
    BY <1>2, NotifySound, CascadeOrSwitchSound
<1>3. CASE SwitchEmail
    BY <1>3, CascadeOrSwitchSound
<1>4. CASE ElapseTick
    BY <1>4, ElapseTickSound
<1>5. ASSUME NEW p \in Processes, Sender(p) PROVE OutboxInv'
    BY <1>5, PassSound, SkipPendingSound, ClaimDueSound, ComposeSound, SendSound, SettleSound
    DEF Sender
<1>6. ASSUME NEW p \in Processes, Stop(p) \/ Start(p) PROVE OutboxInv'
    BY <1>6, StopSound, StartSound
<1> QED
    BY <1>1, <1>2, <1>3, <1>4, <1>5, <1>6 DEF OutboxNext

\* The inductive invariant of the outbox: types, the safety properties and
\* what a batch in flight knows of the rows it claimed (ClaimDue, deliver).
THEOREM OutboxInvHolds == OutboxSpec => []OutboxInv
<1> QED
    BY OutboxInitSound, OutboxNextSound, PTL DEF OutboxSpec

\* Rows, batches and counters stay in range for every backoff and batch size
\* (ClaimDue's limit, failAttempt's index).
THEOREM OutboxTyped == OutboxSpec => []OutboxTypeOK
<1>1. OutboxInv => OutboxTypeOK
    BY DEF OutboxInv
<1> QED
    BY <1>1, OutboxInvHolds, PTL

\* However many processes run, stop and recover, a row is claimed by one sender
\* (ClaimDue).
THEOREM ClaimsNotShared == OutboxSpec => []NoSharedClaims
<1>1. OutboxInv => NoSharedClaims
    BY DEF OutboxInv
<1> QED
    BY <1>1, OutboxInvHolds, PTL

\* No email is offered more often than its backoff allows (failAttempt).
THEOREM TriesStayBounded == OutboxSpec => []TriesBounded
<1>1. OutboxInv => TriesBounded
    BY DEF OutboxInv, RowSound, TriesBounded
<1> QED
    BY <1>1, OutboxInvHolds, PTL

\* Only Send converses, and with one email.
LEMMA WhoSends ==
    ASSUME OutboxInv, OutboxNext, NEW e \in Emails, tries'[e] # tries[e] \/ accepted'[e] # accepted[e]
    PROVE  \E p \in Processes : Send(p) /\ Current(p).email = e
<1>1. PICK p \in Processes : Send(p)
    BY DEF OutboxNext, Notify, Cascade, SwitchEmail, ElapseTick, Sender, BeginPass, SkipPending,
        ClaimDue, Compose, Settle, FailPass, Stop, Start, sentVars
<1>2. PICK copies \in {0, 1} : Converse(Current(p).email, copies)
    BY <1>1 DEF Send
<1> QED
    BY <1>1, <1>2 DEF Converse, OutboxInv, OutboxTypeOK

\* A retry waits out its backoff whichever process makes it and whatever failed
\* in between (Reschedule, the due condition of ClaimDue).
THEOREM RetriesDoWait == OutboxSpec => RetriesWait
<1>1. ASSUME OutboxInv, OutboxNext, NEW e \in Emails, tries'[e] > tries[e], tries[e] > 0
      PROVE  since[e] >= Backoff[tries[e]]
    <2>1. tries[e] \in Nat
        BY <1>1 DEF OutboxInv, OutboxTypeOK
    <2>2. PICK p \in Processes : Send(p) /\ Current(p).email = e
        BY <1>1, <2>1, WhoSends
    <2>3. Unsent(Current(p))
        BY <1>1, <2>2, Working DEF Send, AtStep, OutboxInv, BatchSound, ClaimSound
    <2> QED
        BY <1>1, <2>2, <2>3 DEF Unsent, RestOver
<1>2. OutboxInv /\ [OutboxNext]_outboxVars =>
         [\A e \in Emails :
             tries'[e] > tries[e] /\ tries[e] > 0 => since[e] >= Backoff[tries[e]]]_outboxVars
    BY <1>1
<1> QED
    BY <1>2, OutboxInvHolds, PTL DEF OutboxSpec, RetriesWait

(***************************************************************************)
(* The refinement.                                                         *)
(***************************************************************************)

\* What a step may do to one email, read off its row and its copies.
Promised(e) ==
    \/ /\ accepted'[e] = accepted[e]
       /\ \/ Outcome(outbox'[e].status) = Outcome(outbox[e].status)
          \/ outbox[e].status = "absent" /\ outbox'[e].status = "pending"
          \/ outbox[e].status # "absent" /\ outbox'[e].status = "removed"
          \/ /\ outbox[e].status \in {"pending", "sending"}
             /\ \/ outbox'[e].status = "sent" /\ accepted[e] = 1
                \/ outbox'[e].status = "skipped" /\ accepted[e] = 0
                \/ outbox'[e].status = "failed"
    \/ /\ accepted[e] = 0 /\ accepted'[e] = 1
       /\ outbox[e].status \in Live /\ outbox'[e].status = outbox[e].status

LEMMA PromisedSteps ==
    ASSUME OutboxInv, OutboxNext, NEW e \in Emails
    PROVE  Promised(e)
<1>1. outbox \in [Emails -> OutboxRow] /\ outbox[e] \in OutboxRow
    BY Types DEF OutboxInv
<1>2. CASE UNCHANGED <<outbox, accepted>>
    BY <1>2 DEF Promised
<1>3. ASSUME NEW f \in Emails, Notify(f) PROVE Promised(e)
    <2>1. outbox[f].status = "absent"
        BY <1>3 DEF Notify, OutboxInv, RowSound
    <2> QED
        BY <1>1, <1>3, <2>1 DEF Notify, sentVars, Promised, OutboxRow
<1>4. CASE ElapseTick
    BY <1>1, <1>4 DEF ElapseTick, Promised, OutboxRow
<1>5. ASSUME NEW p \in Processes, SkipPending(p) PROVE Promised(e)
    <2>1. outbox[e].status = "pending" => accepted[e] = 0
        BY DEF OutboxInv, RowSound
    <2> QED
        BY <1>1, <1>5, <2>1 DEF SkipPending, sentVars, Promised, OutboxRow
<1>6. ASSUME NEW p \in Processes, ClaimDue(p) PROVE Promised(e)
    <2>1. PICK order \in FirstDue :
             outbox'[e] = [outbox[e] EXCEPT
                 !.status = IF Orphaned(e) THEN "removed"
                            ELSE IF e \in Range(order) THEN "sending" ELSE outbox[e].status]
        BY <1>6 DEF ClaimDue
    <2>2. outbox'[e].status = IF Orphaned(e) THEN "removed"
                              ELSE IF e \in Range(order) THEN "sending" ELSE outbox[e].status
        BY <1>1, <2>1 DEF OutboxRow
    <2>3. e \in Range(order) => outbox[e].status = "pending"
        <3>1. order \in Seq(Due)
            BY Batches, BatchAssumption DEF FirstDue
        <3> QED
            BY <3>1 DEF Range, Due
    <2>4. accepted' = accepted
        BY <1>6 DEF ClaimDue, sentVars
    <2> QED
        BY <2>2, <2>3, <2>4 DEF Promised, Orphaned, Outcome
<1>7. ASSUME NEW p \in Processes, Send(p) PROVE Promised(e)
    <2>1. outbox' = outbox
        BY <1>7 DEF Send
    <2>2. CASE accepted'[e] = accepted[e]
        BY <2>1, <2>2 DEF Promised
    <2>3. CASE accepted'[e] # accepted[e]
        <3>1. PICK copies \in {0, 1} : Converse(Current(p).email, copies)
            BY <1>7 DEF Send
        <3>2. Current(p).email = e /\ accepted'[e] = accepted[e] + copies
            BY <2>3, <3>1 DEF Converse, OutboxInv, OutboxTypeOK
        <3>3. accepted[e] = 0 /\ outbox[e].status \in Live
            BY <1>7, <3>2, Working DEF Send, AtStep, OutboxInv, BatchSound, ClaimSound, Unsent
        <3> QED
            BY <2>1, <2>3, <3>2, <3>3 DEF Promised
    <2> QED
        BY <2>2, <2>3
<1>8. ASSUME NEW p \in Processes, Settle(p) PROVE Promised(e)
    <2>1. PICK c \in Claims, v \in Verdicts : c = Current(p) /\ v = process[p].verdict
        BY <1>8, Working, Rows DEF Settle, AtStep, ProcessRow
    <2>2. Decided(c, v)
        BY <1>8, <2>1, Working DEF Settle, AtStep, OutboxInv, BatchSound, ClaimSound
    <2>3. accepted' = accepted
        BY <1>8 DEF Settle, sentVars
    <2>4. CASE outbox' = outbox
        BY <2>3, <2>4 DEF Promised
    <2>5. CASE outbox[c.email].status = "sending" /\ e = c.email
               /\ outbox'[e] = SettledRow(outbox[e], c, v)
        <3>1. outbox'[e].status = CASE v = "sent" -> "sent" [] v = "skipped" -> "skipped"
                                    [] v = "failed" -> "failed" [] v = "retry" -> "pending"
            BY <1>1, <2>2, <2>5 DEF SettledRow, OutboxRow, Decided, Verdicts
        <3> QED
            BY <2>2, <2>3, <2>5, <3>1 DEF Promised, Decided, Outcome, Verdicts
    <2>6. CASE outbox'[e] = outbox[e]
        BY <2>3, <2>6 DEF Promised
    <2> QED
        BY <1>1, <1>8, <2>1, <2>4, <2>5, <2>6 DEF Settle
<1>9. ASSUME NEW p \in Processes, Start(p) PROVE Promised(e)
    <2>1. accepted' = accepted
        BY <1>9 DEF Start, sentVars
    <2>2. \/ outbox' = outbox
          \/ outbox'[e] = [outbox[e] EXCEPT
                !.status = IF outbox[e].status = "sending" THEN "failed" ELSE outbox[e].status]
        BY <1>9 DEF Start
    <2> QED
        BY <1>1, <2>1, <2>2 DEF Promised, OutboxRow
<1> QED
    BY <1>2, <1>3, <1>4, <1>5, <1>6, <1>7, <1>8, <1>9
    DEF OutboxNext, Sender, Cascade, SwitchEmail, BeginPass, Compose, FailPass, Stop, sentVars

\* The outbox with its senders, crashes and restarts implements EmailDelivery:
\* an outcome is recorded once and truthfully, and at most one copy is accepted.
THEOREM OutboxDelivers == OutboxSpec => DeliveryImplemented
<1> DEFINE Recorded == [e \in Emails |-> Outcome(outbox[e].status)]
<1>1. OutboxInit => Delivery!DeliveryInit
    BY DEF OutboxInit, Delivery!DeliveryInit, Outcome
<1>2. ASSUME OutboxInv, OutboxNext PROVE Delivery!DeliveryNext
    <2> SUFFICES ASSUME NEW e \in Emails
                 PROVE  \/ Delivery!Delivered(e)
                        \/ /\ accepted'[e] = accepted[e]
                           /\ \/ Delivery!Unrecorded(e) \/ Delivery!Queued(e)
                              \/ Delivery!Settled(e) \/ Delivery!Dropped(e)
        BY DEF Delivery!DeliveryNext
    <2>1. Promised(e)
        BY <1>2, PromisedSteps
    <2>2. outbox[e].status \in Statuses
        BY <1>2, Types DEF OutboxInv, OutboxRow
    <2>3. Recorded[e] = Outcome(outbox[e].status) /\ Recorded'[e] = Outcome(outbox'[e].status)
        OBVIOUS
    <2> QED
        BY <2>1, <2>2, <2>3
        DEF Promised, Live, Statuses, Outcome, Delivery!Delivered, Delivery!Unrecorded,
            Delivery!Queued, Delivery!Settled, Delivery!Dropped
<1>3. OutboxInv /\ [OutboxNext]_outboxVars => [Delivery!DeliveryNext]_(Delivery!deliveryVars)
    <2>1. UNCHANGED outboxVars => UNCHANGED Delivery!deliveryVars
        BY DEF outboxVars, Delivery!deliveryVars
    <2> QED
        BY <1>2, <2>1
<1> QED
    BY <1>1, <1>3, OutboxInvHolds, PTL DEF OutboxSpec, DeliveryImplemented, Delivery!DeliverySpec

(***************************************************************************)
(* No claim is stranded while settlements and recoveries are stored.       *)
(***************************************************************************)

InHand(e) == \E p \in Processes : \E i \in DOMAIN process[p].batch :
                process[p].batch[i].email = e

\* A claimed row is in the batch of a sender that runs, or a process is down
\* whose start will fail it (AbandonInFlight).
ClaimsInHand == \A e \in Emails :
    outbox[e].status = "sending" => InHand(e) \/ \E p \in Processes : AtStep(p, "down")

\* A row in hand before a step in which no batch changes is in hand after it.
LEMMA StillInHand ==
    ASSUME OutboxInv, ClaimsInHand, NEW e \in Emails, outbox[e].status = "sending",
           NEW p \in Processes, ~AtStep(p, "down"), process' \in [Processes -> ProcessRow],
           \A q \in Processes \ {p} : process'[q] = process[q],
           \/ \E i \in DOMAIN process'[p].batch : process'[p].batch[i].email = e
           \/ \A i \in DOMAIN process[p].batch : process[p].batch[i].email # e
    PROVE  InHand(e)' \/ \E q \in Processes : AtStep(q, "down")'
<1>1. CASE \E q \in Processes : AtStep(q, "down")
    <2>1. PICK q \in Processes : AtStep(q, "down")
        BY <1>1
    <2>2. AtStep(q, "down")'
        BY <2>1 DEF AtStep
    <2> QED
        BY <2>2
<1>2. CASE InHand(e)
    <2>1. PICK q \in Processes : \E i \in DOMAIN process[q].batch : process[q].batch[i].email = e
        BY <1>2 DEF InHand
    <2>2. CASE q = p
        BY <2>1, <2>2 DEF InHand
    <2>3. CASE q # p
        BY <2>1, <2>3 DEF InHand
    <2> QED
        BY <2>2, <2>3
<1> QED
    BY <1>1, <1>2 DEF ClaimsInHand

\* Settling takes the head off the batch, and only the head.
LEMMA SettleHolds ==
    ASSUME OutboxInv, ClaimsInHand, NEW p \in Processes, Settle(p), "settle" \notin StoreFails
    PROVE  ClaimsInHand'
<1>1. /\ process[p].batch \in Seq(Claims) /\ process[p].batch # << >>
      /\ Current(p) = process[p].batch[1] /\ Current(p) \in Claims
    BY Working DEF Settle, AtStep
<1>2. PICK c \in Claims, v \in Verdicts : c = Current(p) /\ v = process[p].verdict
    BY <1>1, Rows DEF ProcessRow
<1>3. c.email \in Emails /\ outbox \in [Emails -> OutboxRow]
    BY <1>2, Types DEF Claims, OutboxInv
<1>4. Decided(c, v)
    BY <1>1, <1>2 DEF Settle, AtStep, OutboxInv, BatchSound, ClaimSound
<1>5. outbox' = IF outbox[c.email].status = "sending"
                THEN [outbox EXCEPT ![c.email] = SettledRow(outbox[c.email], c, v)]
                ELSE outbox
    BY <1>2 DEF Settle
<1>6. outbox'[c.email].status # "sending"
    <2>1. PICK row : row = SettledRow(outbox[c.email], c, v)
        OBVIOUS
    <2>2. row.status \in {"sent", "skipped", "failed", "pending"}
        BY <1>3, <1>4, <2>1 DEF SettledRow, OutboxRow, Decided, Verdicts
    <2>3. CASE outbox[c.email].status = "sending"
        <3>1. outbox' = [outbox EXCEPT ![c.email] = row]
            BY <1>5, <2>1, <2>3
        <3> QED
            BY <1>3, <2>2, <3>1
    <2>4. CASE outbox[c.email].status # "sending"
        BY <1>5, <2>4
    <2> QED
        BY <2>3, <2>4
<1>7. \A e \in Emails \ {c.email} : outbox'[e] = outbox[e]
    BY <1>3, <1>5
<1>8. PICK rest : rest = Tail(process[p].batch)
    OBVIOUS
<1>9. /\ rest \in Seq(Claims) /\ Len(rest) = Len(process[p].batch) - 1
      /\ \A i \in DOMAIN rest : i + 1 \in DOMAIN process[p].batch /\ rest[i] = process[p].batch[i + 1]
    BY <1>1, <1>8
<1>10. PICK row \in ProcessRow : /\ row.batch = rest
                                 /\ process' = [process EXCEPT ![p] = row]
    <2>1. PICK pc \in Steps :
             process' = [process EXCEPT ![p] = [Resting EXCEPT !.pc = pc, !.batch = rest]]
        BY <1>8 DEF Settle, Steps
    <2>2. [Resting EXCEPT !.pc = pc, !.batch = rest] \in ProcessRow
        BY <1>9 DEF Resting, Down, ProcessRow, Verdicts
    <2>3. [Resting EXCEPT !.pc = pc, !.batch = rest].batch = rest
        BY DEF Resting, Down
    <2> QED
        BY <2>1, <2>2, <2>3
<1>11. process \in [Processes -> ProcessRow]
    BY Types DEF OutboxInv
<1>12. /\ process' \in [Processes -> ProcessRow] /\ process'[p].batch = rest
       /\ \A q \in Processes \ {p} : process'[q] = process[q]
    BY <1>10, <1>11
<1>13. ASSUME NEW e \in Emails, outbox'[e].status = "sending"
       PROVE  InHand(e)' \/ \E q \in Processes : AtStep(q, "down")'
    <2>1. e # c.email /\ outbox[e].status = "sending"
        BY <1>6, <1>7, <1>13
    <2>2. ASSUME NEW i \in DOMAIN process[p].batch, process[p].batch[i].email = e
          PROVE  \E j \in DOMAIN process'[p].batch : process'[p].batch[j].email = e
        <3>1. i # 1
            BY <1>1, <1>2, <2>1, <2>2
        <3>2. i - 1 \in DOMAIN rest /\ rest[i - 1] = process[p].batch[i]
            BY <1>1, <1>9, <3>1
        <3> QED
            BY <1>12, <2>2, <3>2
    <2>3. ~AtStep(p, "down")
        BY DEF Settle, AtStep
    <2> QED
        BY <1>12, <2>1, <2>2, <2>3, StillInHand
<1> QED
    BY <1>13 DEF ClaimsInHand

\* Claiming fills the batch of a sender that had none with what it claims.
LEMMA ClaimHolds ==
    ASSUME OutboxInv, ClaimsInHand, NEW p \in Processes, ClaimDue(p)
    PROVE  ClaimsInHand'
<1>1. PICK order \in FirstDue :
         /\ outbox' = [e \in Emails |-> [outbox[e] EXCEPT
                !.status = IF Orphaned(e) THEN "removed"
                           ELSE IF e \in Range(order) THEN "sending" ELSE outbox[e].status]]
         /\ process' = [process EXCEPT ![p] =
                [pc |-> IF order = << >> THEN "idle" ELSE "compose",
                 batch |-> [i \in 1..Len(order) |->
                              [email |-> order[i], attempts |-> outbox[order[i]].attempts]],
                 verdict |-> "none"]]
    BY DEF ClaimDue
<1>2. outbox \in [Emails -> OutboxRow] /\ process \in [Processes -> ProcessRow]
    BY Types DEF OutboxInv
<1>3. order \in Seq(Due)
    BY Batches, BatchAssumption DEF FirstDue
<1>4. process'[p].batch = [i \in 1..Len(order) |->
                              [email |-> order[i], attempts |-> outbox[order[i]].attempts]]
    BY <1>1, <1>2
<1>5. process[p].batch = << >> /\ ~AtStep(p, "down")
    BY DEF ClaimDue, AtStep, OutboxInv, BatchSound
<1>6. ASSUME NEW e \in Emails, outbox'[e].status = "sending"
      PROVE  InHand(e)' \/ \E q \in Processes : AtStep(q, "down")'
    <2>1. CASE e \in Range(order)
        <3>1. PICK i \in DOMAIN order : order[i] = e
            BY <2>1 DEF Range
        <3>2. i \in DOMAIN process'[p].batch /\ process'[p].batch[i].email = e
            BY <1>3, <1>4, <3>1
        <3> QED
            BY <3>2 DEF InHand
    <2>2. CASE e \notin Range(order)
        <3>1. outbox[e].status = "sending"
            BY <1>1, <1>2, <1>6, <2>2 DEF OutboxRow
        <3>2. CASE \E q \in Processes : AtStep(q, "down")
            <4>1. PICK q \in Processes : AtStep(q, "down")
                BY <3>2
            <4>2. q # p
                BY <1>5, <4>1
            <4>3. process'[q] = process[q]
                BY <1>1, <1>2, <4>2
            <4>4. AtStep(q, "down")'
                BY <4>1, <4>3 DEF AtStep
            <4> QED
                BY <4>4
        <3>3. CASE InHand(e)
            <4>1. PICK q \in Processes :
                     \E i \in DOMAIN process[q].batch : process[q].batch[i].email = e
                BY <3>3 DEF InHand
            <4>2. q # p
                BY <1>5, <4>1
            <4>3. process'[q] = process[q]
                BY <1>1, <1>2, <4>2
            <4> QED
                BY <4>1, <4>3 DEF InHand
        <3> QED
            BY <3>1, <3>2, <3>3 DEF ClaimsInHand
    <2> QED
        BY <2>1, <2>2
<1> QED
    BY <1>6 DEF ClaimsInHand

\* A step that neither claims nor moves a batch keeps what is in hand.
LEMMA QuietHolds ==
    ASSUME OutboxInv, ClaimsInHand,
           \A e \in Emails : outbox'[e].status = "sending" => outbox[e].status = "sending",
           \A p \in Processes : /\ process'[p].batch = process[p].batch
                                /\ AtStep(p, "down") => AtStep(p, "down")'
    PROVE  ClaimsInHand'
<1>1. \A e \in Emails : InHand(e) => InHand(e)'
    BY DEF InHand
<1> QED
    BY <1>1 DEF ClaimsInHand

LEMMA HandNext ==
    ASSUME OutboxInv, ClaimsInHand, [OutboxNext]_outboxVars,
           "settle" \notin StoreFails, "recover" \notin StoreFails
    PROVE  ClaimsInHand'
<1>1. outbox \in [Emails -> OutboxRow] /\ process \in [Processes -> ProcessRow]
    BY Types DEF OutboxInv
<1>2. CASE UNCHANGED outboxVars
    <2>1. outbox' = outbox /\ process' = process
        BY <1>2 DEF outboxVars
    <2> QED
        BY <2>1, QuietHolds DEF AtStep
<1>3. ASSUME NEW e \in Emails, Notify(e) \/ Cascade(e) PROVE ClaimsInHand'
    <2>1. process' = process
        BY <1>3 DEF Notify, Cascade
    <2>2. \A f \in Emails : outbox'[f].status = "sending" => outbox[f].status = "sending"
        BY <1>1, <1>3 DEF Notify, Cascade, OutboxRow
    <2> QED
        BY <2>1, <2>2, QuietHolds DEF AtStep
<1>4. CASE SwitchEmail \/ ElapseTick
    <2>1. process' = process
        BY <1>4 DEF SwitchEmail, ElapseTick
    <2>2. \A f \in Emails : outbox'[f].status = "sending" => outbox[f].status = "sending"
        BY <1>1, <1>4 DEF SwitchEmail, ElapseTick, OutboxRow
    <2> QED
        BY <2>1, <2>2, QuietHolds DEF AtStep
<1>5. ASSUME NEW p \in Processes, BeginPass(p) \/ SkipPending(p) \/ FailPass(p)
                                  \/ Compose(p) \/ Send(p)
      PROVE  ClaimsInHand'
    <2>1. PICK row : /\ process' = [process EXCEPT ![p] = row]
                     /\ row.batch = process[p].batch
        <3>1. \A pc : [process[p] EXCEPT !.pc = pc].batch = process[p].batch
            BY <1>1 DEF ProcessRow
        <3>2. \A v : [process[p] EXCEPT !.pc = "settle", !.verdict = v].batch = process[p].batch
            BY <1>1 DEF ProcessRow
        <3>3. \/ \E pc : process' = [process EXCEPT ![p] = [process[p] EXCEPT !.pc = pc]]
              \/ \E v : process' = [process EXCEPT
                              ![p] = [process[p] EXCEPT !.pc = "settle", !.verdict = v]]
            <4>1. CASE BeginPass(p) \/ SkipPending(p) \/ FailPass(p)
                BY <4>1 DEF BeginPass, SkipPending, FailPass, Goto
            <4>2. CASE Compose(p)
                BY <4>2 DEF Compose, Goto, Decide
            <4>3. CASE Send(p)
                BY <4>3 DEF Send, Decide
            <4> QED
                BY <1>5, <4>1, <4>2, <4>3
        <3>4. CASE \E pc : process' = [process EXCEPT ![p] = [process[p] EXCEPT !.pc = pc]]
            BY <3>1, <3>4
        <3>5. CASE \E v : process' = [process EXCEPT
                              ![p] = [process[p] EXCEPT !.pc = "settle", !.verdict = v]]
            BY <3>2, <3>5
        <3> QED
            BY <3>3, <3>4, <3>5
    <2>2. ~AtStep(p, "down")
        BY <1>5 DEF BeginPass, SkipPending, FailPass, Compose, Send, AtStep
    <2>3. \A q \in Processes : /\ process'[q].batch = process[q].batch
                               /\ AtStep(q, "down") => AtStep(q, "down")'
        BY <1>1, <2>1, <2>2 DEF AtStep
    <2>4. \A f \in Emails : outbox'[f].status = "sending" => outbox[f].status = "sending"
        BY <1>1, <1>5 DEF BeginPass, SkipPending, FailPass, Compose, Send, OutboxRow
    <2> QED
        BY <2>3, <2>4, QuietHolds
<1>6. ASSUME NEW p \in Processes, ClaimDue(p) PROVE ClaimsInHand'
    BY <1>6, ClaimHolds
<1>7. ASSUME NEW p \in Processes, Settle(p) PROVE ClaimsInHand'
    BY <1>7, SettleHolds
<1>8. ASSUME NEW p \in Processes, Stop(p) PROVE ClaimsInHand'
    <2>1. process'[p] = Down
        BY <1>1, <1>8 DEF Stop
    <2>2. AtStep(p, "down")'
        BY <2>1 DEF AtStep, Down
    <2> QED
        BY <2>2 DEF ClaimsInHand
<1>9. ASSUME NEW p \in Processes, Start(p) PROVE ClaimsInHand'
    <2>1. outbox' = [e \in Emails |-> [outbox[e] EXCEPT
                        !.status = IF outbox[e].status = "sending" THEN "failed"
                                   ELSE outbox[e].status]]
        BY <1>9 DEF Start
    <2>2. \A e \in Emails : outbox'[e].status # "sending"
        BY <1>1, <2>1 DEF OutboxRow
    <2> QED
        BY <2>2 DEF ClaimsInHand
<1> QED
    BY <1>2, <1>3, <1>4, <1>5, <1>6, <1>7, <1>8, <1>9 DEF OutboxNext, Sender

\* While the statements that settle and recover are stored, no row is stranded
\* as sending: some sender still has it, or the start of a process that is down
\* fails it (deliver, AbandonInFlight).  Without them it can be: ClaimsSettle.
THEOREM ClaimsNeverStranded ==
    ASSUME "settle" \notin StoreFails, "recover" \notin StoreFails
    PROVE  OutboxSpec => []ClaimsInHand
<1>1. OutboxInit => ClaimsInHand
    BY DEF OutboxInit, ClaimsInHand
<1>2. OutboxInv /\ ClaimsInHand /\ [OutboxNext]_outboxVars => ClaimsInHand'
    BY HandNext
<1> QED
    BY <1>1, <1>2, OutboxInvHolds, PTL DEF OutboxSpec
=============================================================================
