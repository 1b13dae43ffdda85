----------------------- MODULE BackgroundPassesProofs -----------------------
(***************************************************************************)
(* The safety of the background passes for every number of tickets and     *)
(* passes, every page size and every window.                               *)
(*                                                                         *)
(* What a pass holds is old, and the invariant says how old: its clock is  *)
(* not ahead of the clock, and the activity by which it judges a ticket is *)
(* not later than the ticket's.  Activity only grows, so whatever a pass   *)
(* found silent then has moved since the alerts before it.                 *)
(***************************************************************************)
EXTENDS BackgroundPasses, FiniteSetTheorems, WellFoundedInduction, SequenceTheorems, TLAPS

RowSound(row) ==
    /\ row.activity <= now
    /\ row.held # None => row.held <= now
    /\ row.due <= Target + (IF row.held = None THEN now ELSE row.held)

HoldSound(pass) ==
    /\ pass.at # "off" => pass.now <= now
    /\ pass.at = "remind" => pass.now >= pass.page[Current(pass)] + Days - 1

AlertSound(pass) ==
    /\ pass.at # "off" => pass.now <= now
    /\ pass.at = "facts" =>
          \A t \in DOMAIN pass.page : pass.page[t].activity <= ticket[t].activity
    /\ pass.at \in {"breach", "quiet"} =>
          \A t \in DOMAIN pass.page :
              pass.page[t].quietSince # None => pass.page[t].quietSince <= ticket[t].activity

PassesInv ==
    /\ PassesTypeOK
    /\ AlertedOncePerPeriod
    /\ \A t \in Tickets : RowSound(ticket[t])
    /\ \A p \in HoldPasses : HoldSound(holdPass[p])
    /\ \A p \in AlertPasses : AlertSound(alertPass[p])

(***************************************************************************)
(* Pages.                                                                  *)
(***************************************************************************)

LEMMA Numbers ==
    /\ NTickets \in Nat /\ PageSize \in Nat /\ PageSize > 0 /\ Days \in Nat /\ Days > 0
    /\ Quiet \in Nat /\ Target \in Nat /\ MaxTime \in Nat /\ None \notin Nat
    /\ Tickets \subseteq Nat /\ Instants \subseteq Nat /\ 0 \in Instants
BY PassesAssumption DEF Tickets, Instants

Below == {pair \in Nat \X Nat : pair[1] < pair[2]}

LEMMA NumbersDescend == IsWellFoundedOn(Below, Nat)
BY NatLessThanWellFounded DEF OpToRel, Below

LEMMA BelowPairs == \A x, y \in Nat : <<x, y>> \in Below <=> x < y
BY DEF Below

LEMMA FiniteTickets == \A S \in SUBSET Tickets : IsFiniteSet(S)
<1>1. NTickets \in Int /\ 1 \in Int
    BY Numbers
<1>2. IsFiniteSet(Tickets)
    BY <1>1, FS_Interval DEF Tickets
<1> QED
    BY <1>2, FS_Subset

\* The least ticket of a page is on it.
LEMMA LeastTicket ==
    ASSUME NEW S \in SUBSET Tickets, S # {}
    PROVE  Min(S) \in S
<1>1. S \subseteq Nat
    BY Numbers
<1>2. PICK x \in S : \A y \in S : <<y, x>> \notin Below
    BY <1>1, WFMin, NumbersDescend
<1>3. ASSUME NEW y \in S PROVE x =< y
    <2>1. x \in Nat /\ y \in Nat
        BY <1>1
    <2>2. ~(y < x)
        BY <1>2, <2>1, BelowPairs, Zenon
    <2> QED
        BY <2>1, <2>2
<1> QED
    BY <1>3 DEF Min

LEMMA GreatestTicket ==
    ASSUME NEW S \in SUBSET Tickets, S # {}
    PROVE  \E m \in S : \A y \in S : y <= m
<1> DEFINE T == {n \in Nat : NTickets - n \in S}
<1>1. NTickets \in Nat /\ \A x \in S : x \in Nat /\ x <= NTickets
    BY Numbers DEF Tickets
<1>2. \A x \in S : NTickets - x \in T
    BY <1>1
<1>3. T \subseteq Nat /\ T # {}
    BY <1>2
<1>4. PICK n \in T : \A k \in T : <<k, n>> \notin Below
    BY <1>3, WFMin, NumbersDescend
<1>5. ASSUME NEW k \in T PROVE n <= k
    <2>1. n \in Nat /\ k \in Nat
        BY <1>3
    <2>2. ~(k < n)
        BY <1>4, <2>1, BelowPairs, Zenon
    <2> QED
        BY <2>1, <2>2
<1>6. \A y \in S : y <= NTickets - n
    BY <1>1, <1>2, <1>3, <1>5
<1> QED
    BY <1>6

\* A page has no more tickets than its size (the LIMIT of the two queries).
LEMMA PageBounded ==
    ASSUME NEW S \in SUBSET Tickets, NEW after \in Nat
    PROVE  /\ PageAbove(S, after) \in SUBSET Tickets
           /\ Cardinality(PageAbove(S, after)) <= PageSize
<1> PICK page : page = PageAbove(S, after)
    OBVIOUS
<1>1. page \in SUBSET S
    BY DEF PageAbove
<1>2. IsFiniteSet(S)
    BY FiniteTickets
<1>3. ASSUME page = {} PROVE Cardinality(page) <= PageSize
    BY <1>3, FS_EmptySet, Numbers
<1>4. ASSUME page # {} PROVE Cardinality(page) <= PageSize
    <2>1. PICK m \in page : \A t \in page : t <= m
        BY <1>1, <1>4, GreatestTicket
    <2> PICK below : below = {u \in S : after < u /\ u <= m}
        OBVIOUS
    <2>2. page \subseteq below /\ below \subseteq S
        BY <2>1 DEF PageAbove
    <2>3. Cardinality(below) <= PageSize
        BY <2>1 DEF PageAbove
    <2>4. IsFiniteSet(below) /\ IsFiniteSet(page)
        BY <1>2, <2>2, FS_Subset
    <2>5. Cardinality(page) <= Cardinality(below)
        BY <2>2, <2>4, FS_Subset
    <2>6. Cardinality(page) \in Nat /\ Cardinality(below) \in Nat
        BY <2>4, FS_CardinalityType
    <2>7. PageSize \in Nat
        BY Numbers
    <2> QED
        BY <2>3, <2>5, <2>6, <2>7
<1>5. page \in SUBSET Tickets
    BY <1>1
<1> QED
    BY <1>3, <1>4, <1>5

LEMMA PageOf ==
    ASSUME NEW Facts, NEW S \in SUBSET Tickets, S # {}, Cardinality(S) <= PageSize,
           NEW f \in [S -> Facts]
    PROVE  f \in PagesOf(Facts)
<1>1. IsFiniteSet(S)
    BY FiniteTickets
<1>2. Cardinality(S) \in 1..PageSize
    BY <1>1, FS_CardinalityType, FS_EmptySet, Numbers
<1> QED
    BY <1>2 DEF PagesOf

LEMMA PageFields ==
    ASSUME NEW Facts, NEW f \in PagesOf(Facts)
    PROVE  /\ DOMAIN f \in SUBSET Tickets /\ DOMAIN f # {} /\ Cardinality(DOMAIN f) <= PageSize
           /\ f \in [DOMAIN f -> Facts] /\ Min(DOMAIN f) \in DOMAIN f
<1>1. PICK S \in SUBSET Tickets : Cardinality(S) \in 1..PageSize /\ f \in [S -> Facts]
    BY DEF PagesOf
<1>2. S # {}
    BY <1>1, FS_EmptySet
<1> QED
    BY <1>1, <1>2, LeastTicket, Numbers

LEMMA InstantsOf ==
    ASSUME NEW q \in Seq(Instants)
    PROVE  \A i \in DOMAIN q : q[i] \in Nat /\ q[i] \in Instants
<1>1. \A i \in DOMAIN q : q[i] \in Instants
    OBVIOUS
<1> QED
    BY <1>1, Numbers

LEMMA CandidatePage ==
    ASSUME NEW f \in PagesOf(Candidate), NEW t \in DOMAIN f
    PROVE  t \in Tickets /\ f[t] \in Candidate /\ f[t].activity \in Nat
<1>1. t \in Tickets /\ f[t] \in Candidate
    BY PageFields
<1>2. f[t].activity \in Instants
    BY <1>1 DEF Candidate
<1> QED
    BY <1>1, <1>2, Numbers

LEMMA VerdictPage ==
    ASSUME NEW f \in PagesOf(Verdict), NEW t \in DOMAIN f
    PROVE  /\ t \in Tickets /\ f[t].breached \in BOOLEAN
           /\ f[t].quietSince # None => f[t].quietSince \in Nat
<1>1. t \in Tickets /\ f[t] \in Verdict
    BY PageFields
<1>2. f[t].quietSince \in Instants \cup {None} /\ f[t].breached \in BOOLEAN
    BY <1>1 DEF Verdict
<1> QED
    BY <1>1, <1>2, Numbers

\* What a pass turns to after a read.
LEMMA TurnedPass ==
    ASSUME NEW Facts, NEW pass, pass.now \in Instants, NEW next,
           NEW S \in SUBSET Tickets, Cardinality(S) <= PageSize, NEW f \in [S -> Facts]
    PROVE  \/ Turned(pass, next, f) = Off
           \/ /\ Turned(pass, next, f) \in Handling({next}, Facts)
              /\ Turned(pass, next, f).now = pass.now /\ Turned(pass, next, f).page = f
<1>1. CASE S = {}
    BY <1>1 DEF Turned
<1>2. CASE S # {}
    <2>1. PICK turned : turned = [at |-> next, now |-> pass.now, page |-> f,
                                  full |-> Cardinality(DOMAIN f) = PageSize]
        OBVIOUS
    <2>2. f \in PagesOf(Facts)
        BY <1>2, PageOf
    <2>3. turned \in Handling({next}, Facts) /\ turned.now = pass.now /\ turned.page = f
        BY <2>1, <2>2 DEF Handling
    <2>4. Turned(pass, next, f) = turned
        BY <1>2, <2>1 DEF Turned
    <2> QED
        BY <2>3, <2>4
<1> QED
    BY <1>1, <1>2

\* What a pass turns to after a ticket.
LEMMA JudgedPass ==
    ASSUME NEW Facts, NEW steps, NEW pass \in Handling(steps, Facts), NEW next
    PROVE  \/ Judged(pass, next) = Off
           \/ /\ Judged(pass, next) \in Reading /\ Judged(pass, next).now = pass.now
           \/ /\ Judged(pass, next) \in Handling({next}, Facts)
              /\ Judged(pass, next).now = pass.now
              /\ DOMAIN Judged(pass, next).page \subseteq DOMAIN pass.page
              /\ \A t \in DOMAIN Judged(pass, next).page :
                    Judged(pass, next).page[t] = pass.page[t]
<1>1. /\ pass.page \in PagesOf(Facts) /\ pass.now \in Instants /\ pass.full \in BOOLEAN
      /\ DOMAIN pass.page \in SUBSET Tickets /\ Cardinality(DOMAIN pass.page) <= PageSize
      /\ pass.page \in [DOMAIN pass.page -> Facts] /\ Current(pass) \in DOMAIN pass.page
    BY PageFields DEF Handling, Current
<1> DEFINE left == DOMAIN pass.page \ {Current(pass)}
<1>2. CASE left # {}
    <2>1. PICK rest : rest = [t \in left |-> pass.page[t]]
        OBVIOUS
    <2>2. left \in SUBSET Tickets /\ Cardinality(left) <= PageSize
        <3>1. IsFiniteSet(DOMAIN pass.page)
            BY <1>1, FiniteTickets
        <3>2. Cardinality(left) <= Cardinality(DOMAIN pass.page)
              /\ Cardinality(left) \in Nat /\ Cardinality(DOMAIN pass.page) \in Nat
            BY <3>1, FS_Subset, FS_CardinalityType
        <3> QED
            BY <1>1, <3>2, Numbers
    <2>3. rest \in PagesOf(Facts)
        <3>1. rest \in [left -> Facts]
            BY <1>1, <2>1
        <3> QED
            BY <1>2, <2>2, <3>1, PageOf
    <2>4. PICK judged : judged = [pass EXCEPT !.at = next, !.page = rest]
        OBVIOUS
    <2>5. /\ judged \in Handling({next}, Facts) /\ judged.now = pass.now
          /\ judged.page = rest
        BY <2>3, <2>4 DEF Handling
    <2>6. Judged(pass, next) = judged
        BY <1>2, <2>1, <2>4 DEF Judged
    <2> QED
        BY <2>1, <2>5, <2>6
<1>3. CASE left = {} /\ pass.full
    <2>1. PICK judged : judged = [at |-> "list", now |-> pass.now, after |-> Current(pass)]
        OBVIOUS
    <2>2. Current(pass) \in 0..NTickets
        BY <1>1, Numbers DEF Tickets
    <2>3. judged \in Reading /\ judged.now = pass.now
        BY <1>1, <2>1, <2>2 DEF Reading
    <2>4. Judged(pass, next) = judged
        BY <1>3, <2>1 DEF Judged
    <2> QED
        BY <2>3, <2>4
<1>4. CASE left = {} /\ ~pass.full
    BY <1>4 DEF Judged
<1> QED
    BY <1>2, <1>3, <1>4

LEMMA HoldStates ==
    ASSUME NEW s \in HoldPassStates
    PROVE  /\ s.at \in {"off", "list", "judge", "remind"}
           /\ s.at = "off" => s = Off
           /\ s.at = "list" => s \in Reading
           /\ s.at \in {"judge", "remind"} => s \in Handling({"judge", "remind"}, Instants)
BY DEF HoldPassStates, Off, Reading, Handling

LEMMA AlertStates ==
    ASSUME NEW s \in AlertPassStates
    PROVE  /\ s.at \in {"off", "list", "facts", "breach", "quiet"}
           /\ s.at = "off" => s = Off
           /\ s.at = "list" => s \in Reading
           /\ s.at = "facts" => s \in Handling({"facts"}, Candidate)
           /\ s.at \in {"breach", "quiet"} => s \in Handling({"breach", "quiet"}, Verdict)
BY DEF AlertPassStates, Off, Reading, Handling

(***************************************************************************)
(* What keeps the invariant.                                               *)
(***************************************************************************)

\* Everything but the alert passes and the clock: tickets move on, alerts stay.
LEMMA TicketsMove ==
    ASSUME PassesInv, UNCHANGED <<alertPass, now, running>>,
           ticket' \in [Tickets -> TicketRow], notices' \in [Tickets -> [Kinds -> Seq(Instants)]],
           holdPass' \in [HoldPasses -> HoldPassStates], changes' \in Nat, alertRuns' \in Nat,
           \A t \in Tickets : RowSound(ticket'[t]),
           \A t \in Tickets : /\ ticket[t].activity <= ticket'[t].activity
                              /\ ticket'[t].open => ticket[t].open,
           \A t \in Tickets : /\ notices'[t].breached = notices[t].breached
                              /\ notices'[t].noMovement = notices[t].noMovement,
           \A p \in HoldPasses : HoldSound(holdPass'[p])
    PROVE  PassesInv'
<1>1. PassesTypeOK'
    BY DEF PassesInv, PassesTypeOK
<1>2. \A t \in Tickets : ticket[t].activity \in Nat /\ ticket'[t].activity \in Nat
    BY Numbers DEF PassesInv, PassesTypeOK, TicketRow
<1>3. AlertedOncePerPeriod'
    <2> SUFFICES ASSUME NEW t \in Tickets
                 PROVE  /\ Len(notices'[t].breached) <= 1
                        /\ ticket'[t].open =>
                              \A i, j \in DOMAIN notices'[t].noMovement :
                                  i < j => notices'[t].noMovement[i] < ticket'[t].activity
        BY DEF AlertedOncePerPeriod
    <2>1. notices[t].noMovement \in Seq(Instants)
        BY DEF PassesInv, PassesTypeOK, Kinds
    <2>2. \A i \in DOMAIN notices[t].noMovement : notices[t].noMovement[i] \in Nat
        BY <2>1, InstantsOf
    <2>3. Len(notices[t].breached) <= 1
        BY DEF PassesInv, AlertedOncePerPeriod
    <2>4. ASSUME ticket'[t].open, NEW i \in DOMAIN notices[t].noMovement,
                 NEW j \in DOMAIN notices[t].noMovement, i < j
          PROVE  notices[t].noMovement[i] < ticket'[t].activity
        <3>1. notices[t].noMovement[i] < ticket[t].activity
            BY <2>4 DEF PassesInv, AlertedOncePerPeriod
        <3> QED
            BY <1>2, <2>2, <3>1
    <2> QED
        BY <2>3, <2>4
<1>4. \A t \in Tickets : RowSound(ticket[t])'
    BY DEF RowSound
<1>5. \A p \in HoldPasses : HoldSound(holdPass[p])'
    BY DEF HoldSound, Current
<1>6. ASSUME NEW p \in AlertPasses PROVE AlertSound(alertPass[p])'
    <2>1. alertPass[p] \in AlertPassStates /\ AlertSound(alertPass[p])
        BY DEF PassesInv, PassesTypeOK
    <2>2. CASE alertPass[p].at \in {"off", "list"}
        BY <2>1, <2>2 DEF AlertSound
    <2>3. CASE alertPass[p].at = "facts"
        <3>1. alertPass[p].page \in PagesOf(Candidate)
            BY <2>1, <2>3, AlertStates DEF Handling
        <3>2. ASSUME NEW t \in DOMAIN alertPass[p].page
              PROVE  alertPass[p].page[t].activity <= ticket'[t].activity
            <4>1. t \in Tickets /\ alertPass[p].page[t].activity \in Nat
                BY <3>1, CandidatePage
            <4>2. alertPass[p].page[t].activity <= ticket[t].activity
                BY <2>1, <2>3 DEF AlertSound
            <4> QED
                BY <1>2, <4>1, <4>2
        <3> QED
            BY <2>1, <2>3, <3>2 DEF AlertSound
    <2>4. CASE alertPass[p].at \in {"breach", "quiet"}
        <3>1. alertPass[p].page \in PagesOf(Verdict)
            BY <2>1, <2>4, AlertStates DEF Handling
        <3>2. ASSUME NEW t \in DOMAIN alertPass[p].page, alertPass[p].page[t].quietSince # None
              PROVE  alertPass[p].page[t].quietSince <= ticket'[t].activity
            <4>1. t \in Tickets /\ alertPass[p].page[t].quietSince \in Nat
                BY <3>1, <3>2, VerdictPage
            <4>2. alertPass[p].page[t].quietSince <= ticket[t].activity
                BY <2>1, <2>4, <3>2 DEF AlertSound
            <4> QED
                BY <1>2, <4>1, <4>2
        <3> QED
            BY <2>1, <2>4, <3>2 DEF AlertSound
    <2> QED
        BY <2>1, <2>2, <2>3, <2>4, AlertStates
<1> QED
    BY <1>1, <1>3, <1>4, <1>5, <1>6 DEF PassesInv

\* One expiry pass goes on and nothing else changes.
LEMMA HoldPassGoes ==
    ASSUME PassesInv, NEW p \in HoldPasses, NEW s \in HoldPassStates, HoldSound(s),
           GoHold(p, s), UNCHANGED <<ticket, notices>>
    PROVE  PassesInv'
<1>1. /\ holdPass' \in [HoldPasses -> HoldPassStates]
      /\ \A q \in HoldPasses : HoldSound(holdPass'[q])
    BY DEF GoHold, PassesInv, PassesTypeOK
<1>2. \A t \in Tickets : ticket[t].activity \in Nat
    BY Numbers DEF PassesInv, PassesTypeOK, TicketRow
<1>3. /\ ticket' \in [Tickets -> TicketRow] /\ notices' \in [Tickets -> [Kinds -> Seq(Instants)]]
      /\ changes' \in Nat /\ alertRuns' \in Nat /\ UNCHANGED <<alertPass, now, running>>
      /\ \A t \in Tickets : RowSound(ticket'[t])
    BY DEF GoHold, bounds, PassesInv, PassesTypeOK
<1>4. \A t \in Tickets : /\ ticket[t].activity <= ticket'[t].activity
                         /\ ticket'[t].open => ticket[t].open
                         /\ notices'[t].breached = notices[t].breached
                         /\ notices'[t].noMovement = notices[t].noMovement
    BY <1>2
<1> QED
    BY <1>1, <1>3, <1>4, TicketsMove

\* One alert pass goes on; what it writes keeps to once per period.
LEMMA AlertPassGoes ==
    ASSUME PassesInv, NEW p \in AlertPasses, NEW s \in AlertPassStates, AlertSound(s),
           GoAlert(p, s), notices' \in [Tickets -> [Kinds -> Seq(Instants)]],
           alertRuns' \in Nat, AlertedOncePerPeriod'
    PROVE  PassesInv'
<1>1. /\ alertPass' \in [AlertPasses -> AlertPassStates]
      /\ \A q \in AlertPasses : AlertSound(alertPass'[q])
      /\ UNCHANGED <<ticket, holdPass, now, running, changes>>
    BY DEF GoAlert, PassesInv, PassesTypeOK
<1>2. PassesTypeOK'
    BY <1>1 DEF PassesInv, PassesTypeOK
<1>3. \A q \in AlertPasses : AlertSound(alertPass[q])'
    BY <1>1 DEF AlertSound
<1>4. \A q \in HoldPasses : HoldSound(holdPass[q])'
    BY <1>1 DEF HoldSound, PassesInv
<1>5. \A t \in Tickets : RowSound(ticket[t])'
    BY <1>1 DEF RowSound, PassesInv
<1> QED
    BY <1>2, <1>3, <1>4, <1>5 DEF PassesInv

\* After a ticket, an expiry pass is between tickets.
LEMMA HoldJudged ==
    ASSUME PassesInv, NEW p \in HoldPasses, holdPass[p].at \in {"judge", "remind"}
    PROVE  /\ Judged(holdPass[p], "judge") \in HoldPassStates
           /\ HoldSound(Judged(holdPass[p], "judge"))
           /\ Judged(holdPass[p], "judge").at # "remind"
<1>1. holdPass[p] \in Handling({"judge", "remind"}, Instants) /\ holdPass[p].now <= now
    BY HoldStates DEF PassesInv, PassesTypeOK, HoldSound
<1>2. PICK s : s = Judged(holdPass[p], "judge")
    OBVIOUS
<1>3. \/ s = Off
      \/ s \in Reading /\ s.now = holdPass[p].now
      \/ s \in Handling({"judge"}, Instants) /\ s.now = holdPass[p].now
    BY <1>1, <1>2, JudgedPass
<1>4. s \in HoldPassStates /\ s.at # "remind"
    BY <1>3 DEF HoldPassStates, Handling, Reading, Off
<1>5. HoldSound(s)
    BY <1>1, <1>3, <1>4 DEF HoldSound, Off
<1> QED
    BY <1>2, <1>4, <1>5

\* After a ticket, an alert pass judges the next by the verdict it has.
LEMMA AlertJudged ==
    ASSUME PassesInv, NEW p \in AlertPasses, alertPass[p].at \in {"breach", "quiet"}
    PROVE  /\ Judged(alertPass[p], "breach") \in AlertPassStates
           /\ AlertSound(Judged(alertPass[p], "breach"))
<1>1. /\ alertPass[p] \in Handling({"breach", "quiet"}, Verdict) /\ alertPass[p].now <= now
      /\ \A t \in DOMAIN alertPass[p].page :
             alertPass[p].page[t].quietSince # None
                 => alertPass[p].page[t].quietSince <= ticket[t].activity
    BY AlertStates DEF PassesInv, PassesTypeOK, AlertSound
<1>2. PICK pass \in Handling({"breach", "quiet"}, Verdict) : pass = alertPass[p]
    BY <1>1
<1>3. PICK s : /\ s = Judged(pass, "breach")
               /\ \/ s = Off
                  \/ s \in Reading /\ s.now = pass.now
                  \/ /\ s \in Handling({"breach"}, Verdict) /\ s.now = pass.now
                     /\ DOMAIN s.page \subseteq DOMAIN pass.page
                     /\ \A t \in DOMAIN s.page : s.page[t] = pass.page[t]
    BY JudgedPass
<1>4. s \in AlertPassStates
    BY <1>3 DEF AlertPassStates, Handling
<1>5. AlertSound(s)
    <2>1. CASE s = Off
        BY <2>1 DEF AlertSound, Off
    <2>2. CASE s \in Reading /\ s.now = pass.now
        BY <1>1, <1>2, <2>2 DEF AlertSound, Reading
    <2>3. CASE /\ s \in Handling({"breach"}, Verdict) /\ s.now = pass.now
               /\ DOMAIN s.page \subseteq DOMAIN pass.page
               /\ \A t \in DOMAIN s.page : s.page[t] = pass.page[t]
        <3>1. s.at = "breach"
            BY <2>3 DEF Handling
        <3> QED
            BY <1>1, <1>2, <2>3, <3>1 DEF AlertSound
    <2> QED
        BY <1>3, <2>1, <2>2, <2>3
<1> QED
    BY <1>2, <1>3, <1>4, <1>5

(***************************************************************************)
(* Hold expiry.                                                            *)
(***************************************************************************)

LEMMA StartHoldPassSound ==
    ASSUME PassesInv, NEW p \in HoldPasses, StartHoldPass(p)
    PROVE  PassesInv'
<1>1. PICK s : s = [at |-> "list", now |-> now, after |-> 0]
    OBVIOUS
<1>2. now \in Instants /\ now \in Nat /\ 0 \in 0..NTickets
    BY Numbers DEF PassesInv, PassesTypeOK
<1>3. s \in HoldPassStates /\ s.at = "list" /\ s.now = now
    BY <1>1, <1>2 DEF HoldPassStates, Reading
<1>4. HoldSound(s)
    BY <1>2, <1>3 DEF HoldSound
<1>5. GoHold(p, s) /\ UNCHANGED <<ticket, notices>>
    BY <1>1 DEF StartHoldPass
<1> QED
    BY <1>3, <1>4, <1>5, HoldPassGoes

LEMMA ListHeldSound ==
    ASSUME PassesInv, NEW p \in HoldPasses, ListHeld(p)
    PROVE  PassesInv' /\ holdPass'[p].at # "remind"
<1>1. /\ holdPass[p] \in Reading /\ holdPass[p].now <= now
      /\ holdPass[p].now \in Instants /\ holdPass[p].after \in Nat
    BY HoldStates, Numbers DEF ListHeld, PassesInv, PassesTypeOK, HoldSound, Reading
<1>2. PICK S : S = HeldPage(holdPass[p].after)
    OBVIOUS
<1>3. S \in SUBSET Tickets /\ Cardinality(S) <= PageSize /\ S \subseteq Held
    <2>1. Held \in SUBSET Tickets
        BY DEF Held
    <2> QED
        BY <1>1, <1>2, <2>1, PageBounded DEF HeldPage, PageAbove
<1>4. PICK f : f = [t \in S |-> ticket[t].held]
    OBVIOUS
<1>5. f \in [S -> Instants]
    <2>1. \A t \in Held : ticket[t].held \in Instants
        BY DEF Held, PassesInv, PassesTypeOK, TicketRow
    <2> QED
        BY <1>3, <1>4, <2>1
<1>6. PICK s : /\ s = Turned(holdPass[p], "judge", f)
               /\ \/ s = Off
                  \/ s \in Handling({"judge"}, Instants) /\ s.now = holdPass[p].now
    BY <1>1, <1>3, <1>5, TurnedPass
<1>7. s \in HoldPassStates /\ s.at # "remind"
    BY <1>6 DEF HoldPassStates, Handling, Off
<1>8. HoldSound(s)
    BY <1>1, <1>6, <1>7 DEF HoldSound, Off
<1>9. GoHold(p, s) /\ UNCHANGED <<ticket, notices>>
    BY <1>2, <1>4, <1>6 DEF ListHeld
<1>10. holdPass'[p] = s
    BY <1>9 DEF GoHold, PassesInv, PassesTypeOK
<1> QED
    BY <1>7, <1>8, <1>9, <1>10, HoldPassGoes

\* A pass that is done with a ticket without a trace.
LEMMA JudgedOnly ==
    ASSUME PassesInv, NEW p \in HoldPasses, holdPass[p].at \in {"judge", "remind"},
           GoHold(p, Judged(holdPass[p], "judge")), UNCHANGED <<ticket, notices>>
    PROVE  PassesInv'
BY HoldJudged, HoldPassGoes

LEMMA CloseExpiredSound ==
    ASSUME PassesInv, NEW p \in HoldPasses, NEW t \in Tickets, CloseExpired(p, t)
    PROVE  PassesInv'
<1>1. holdPass[p].at = "judge"
    BY DEF CloseExpired, Judging
<1>2. CASE UNCHANGED ticket
    BY <1>1, <1>2, JudgedOnly DEF CloseExpired
<1>3. CASE /\ ticket[t].held = Since(p)
           /\ ticket' = [ticket EXCEPT ![t].open = FALSE, ![t].held = None]
    <2>1. /\ ticket \in [Tickets -> TicketRow] /\ ticket[t] \in TicketRow
          /\ RowSound(ticket[t]) /\ now \in Nat
        BY Numbers DEF PassesInv, PassesTypeOK
    <2>2. PICK row : row = [ticket[t] EXCEPT !.open = FALSE, !.held = None]
        OBVIOUS
    <2>3. /\ row \in TicketRow /\ row.open = FALSE /\ row.held = None
          /\ row.activity = ticket[t].activity /\ row.due = ticket[t].due
        BY <2>1, <2>2 DEF TicketRow
    <2>4. ticket' = [ticket EXCEPT ![t] = row]
        BY <1>3, <2>1, <2>2
    <2>5. RowSound(row)
        <3>1. /\ ticket[t].due \in 0..Target + MaxTime /\ ticket[t].held \in Instants \cup {None}
            BY <2>1 DEF TicketRow
        <3>2. ticket[t].due \in Nat /\ Target \in Nat
            BY <3>1, Numbers
        <3>3. ticket[t].held # None => ticket[t].held \in Nat
            BY <3>1, Numbers
        <3> QED
            BY <2>1, <2>3, <3>2, <3>3 DEF RowSound
    <2>6. /\ ticket' \in [Tickets -> TicketRow] /\ \A u \in Tickets : RowSound(ticket'[u])
          /\ \A u \in Tickets : ticket'[u].activity = ticket[u].activity
          /\ \A u \in Tickets : ticket'[u].open => ticket[u].open
        BY <2>1, <2>3, <2>4, <2>5 DEF PassesInv
    <2>7. \A u \in Tickets : ticket[u].activity <= ticket'[u].activity
        <3>1. \A u \in Tickets : ticket[u].activity \in Nat
            BY <2>1, Numbers DEF TicketRow
        <3> QED
            BY <2>6, <3>1
    <2>8. PICK s \in HoldPassStates : s = Judged(holdPass[p], "judge") /\ HoldSound(s)
        BY <1>1, HoldJudged
    <2>9. /\ holdPass' \in [HoldPasses -> HoldPassStates]
          /\ \A q \in HoldPasses : HoldSound(holdPass'[q])
          /\ changes' \in Nat /\ alertRuns' \in Nat
          /\ UNCHANGED <<alertPass, now, running, notices>>
          /\ notices' \in [Tickets -> [Kinds -> Seq(Instants)]]
        BY <2>8 DEF CloseExpired, GoHold, bounds, PassesInv, PassesTypeOK
    <2> QED
        BY <2>6, <2>7, <2>9, TicketsMove
<1> QED
    BY <1>2, <1>3 DEF CloseExpired

LEMMA NotDueSound ==
    ASSUME PassesInv, NEW p \in HoldPasses, NEW t \in Tickets, NotDue(p, t)
    PROVE  PassesInv'
BY JudgedOnly DEF NotDue, Judging

\* The state a check leaves behind when nobody was reminded yet.
LEMMA ToRemindState ==
    ASSUME PassesInv, NEW p \in HoldPasses, holdPass[p].at = "judge", ToRemind(p)
    PROVE  \E s \in HoldPassStates :
              /\ s = [holdPass[p] EXCEPT !.at = "remind"] /\ HoldSound(s)
              /\ s.at = "remind" /\ s.page = holdPass[p].page
<1>1. PICK pass \in Handling({"judge", "remind"}, Instants) : pass = holdPass[p] /\ pass.now <= now
    BY HoldStates DEF PassesInv, PassesTypeOK, HoldSound
<1>2. PICK s : s = [pass EXCEPT !.at = "remind"]
    OBVIOUS
<1>3. /\ s \in Handling({"judge", "remind"}, Instants)
      /\ s.at = "remind" /\ s.page = pass.page /\ s.now = pass.now
    BY <1>2 DEF Handling
<1>4. pass.now >= pass.page[Min(DOMAIN pass.page)] + Days - 1
    BY <1>1 DEF ToRemind, Since, Current
<1>5. HoldSound(s)
    BY <1>1, <1>3, <1>4 DEF HoldSound, Current
<1> s \in HoldPassStates
    BY <1>3 DEF HoldPassStates
<1>7. s = [holdPass[p] EXCEPT !.at = "remind"]
    BY <1>1, <1>2
<1>8. s.at = "remind" /\ s.page = holdPass[p].page
    BY <1>1, <1>3
<1> WITNESS s \in HoldPassStates
<1> QED
    BY <1>5, <1>7, <1>8

LEMMA CheckReminderSound ==
    ASSUME PassesInv, NEW p \in HoldPasses, NEW t \in Tickets, CheckReminder(p, t)
    PROVE  PassesInv'
<1>1. holdPass[p].at = "judge" /\ ToRemind(p)
    BY DEF CheckReminder, Judging
<1>2. CASE GoHold(p, Judged(holdPass[p], "judge"))
    BY <1>1, <1>2, JudgedOnly DEF CheckReminder
<1>3. CASE GoHold(p, [holdPass[p] EXCEPT !.at = "remind"])
    BY <1>1, <1>3, ToRemindState, HoldPassGoes DEF CheckReminder
<1> QED
    BY <1>2, <1>3 DEF CheckReminder

\* A notice of one kind leaves the other kinds as they were.
LEMMA NotedOf ==
    ASSUME PassesInv, NEW t \in Tickets, NEW kind \in Kinds, NEW at \in Instants,
           Notify(t, kind, at)
    PROVE  /\ notices' \in [Tickets -> [Kinds -> Seq(Instants)]]
           /\ notices'[t][kind] = Append(notices[t][kind], at)
           /\ \A u \in Tickets, k \in Kinds :
                 u # t \/ k # kind => notices'[u][k] = notices[u][k]
<1>1. notices \in [Tickets -> [Kinds -> Seq(Instants)]]
    BY DEF PassesInv, PassesTypeOK
<1>2. PICK q \in Seq(Instants) : q = Append(notices[t][kind], at)
    <2>1. PICK old \in Seq(Instants) : old = notices[t][kind]
        BY <1>1
    <2> QED
        BY <2>1, AppendProperties
<1>3. notices' = [notices EXCEPT ![t][kind] = q]
    BY <1>2 DEF Notify
<1> QED
    BY <1>1, <1>2, <1>3

LEMMA RemindSound ==
    ASSUME PassesInv, NEW p \in HoldPasses, NEW t \in Tickets, Remind(p, t)
    PROVE  PassesInv'
<1>1. holdPass[p].at = "remind"
    BY DEF Remind
<1>2. CASE UNCHANGED notices
    BY <1>1, <1>2, JudgedOnly DEF Remind
<1>3. CASE Notify(t, "reminder", holdPass[p].now)
    <2>1. holdPass[p].now \in Instants
        BY <1>1, HoldStates DEF PassesInv, PassesTypeOK, Handling
    <2>2. /\ notices' \in [Tickets -> [Kinds -> Seq(Instants)]]
          /\ \A u \in Tickets : /\ notices'[u].breached = notices[u].breached
                                /\ notices'[u].noMovement = notices[u].noMovement
        BY <1>3, <2>1, NotedOf DEF Kinds
    <2>3. PICK s \in HoldPassStates : s = Judged(holdPass[p], "judge") /\ HoldSound(s)
        BY <1>1, HoldJudged
    <2>4. /\ holdPass' \in [HoldPasses -> HoldPassStates]
          /\ \A q \in HoldPasses : HoldSound(holdPass'[q])
          /\ changes' \in Nat /\ alertRuns' \in Nat
          /\ UNCHANGED <<alertPass, now, running, ticket>>
          /\ ticket' \in [Tickets -> TicketRow] /\ \A u \in Tickets : RowSound(ticket'[u])
        BY <2>3 DEF Remind, GoHold, bounds, PassesInv, PassesTypeOK
    <2>5. \A u \in Tickets : ticket[u].activity <= ticket'[u].activity
        <3>1. \A u \in Tickets : ticket[u].activity \in Nat
            BY Numbers DEF PassesInv, PassesTypeOK, TicketRow
        <3> QED
            BY <2>4, <3>1
    <2> QED
        BY <2>2, <2>4, <2>5, TicketsMove
<1> QED
    BY <1>2, <1>3 DEF Remind

LEMMA RequesterUnreachableSound ==
    ASSUME PassesInv, NEW p \in HoldPasses, NEW t \in Tickets, RequesterUnreachable(p, t)
    PROVE  PassesInv'
BY JudgedOnly DEF RequesterUnreachable

LEMMA AbortHoldPassSound ==
    ASSUME PassesInv, NEW p \in HoldPasses, AbortHoldPass(p)
    PROVE  PassesInv'
<1>1. Off \in HoldPassStates /\ HoldSound(Off)
    BY DEF HoldPassStates, HoldSound, Off
<1> QED
    BY <1>1, HoldPassGoes DEF AbortHoldPass

(***************************************************************************)
(* Alerts.                                                                 *)
(***************************************************************************)

\* An alert pass that writes nothing.
LEMMA AlertPassReads ==
    ASSUME PassesInv, NEW p \in AlertPasses, NEW s \in AlertPassStates, AlertSound(s),
           GoAlert(p, s), UNCHANGED notices, alertRuns' \in Nat
    PROVE  PassesInv'
<1>1. UNCHANGED ticket
    BY DEF GoAlert
<1>2. AlertedOncePerPeriod'
    BY <1>1 DEF PassesInv, AlertedOncePerPeriod
<1>3. notices' \in [Tickets -> [Kinds -> Seq(Instants)]]
    BY DEF PassesInv, PassesTypeOK
<1> QED
    BY <1>2, <1>3, AlertPassGoes

LEMMA StartAlertPassSound ==
    ASSUME PassesInv, NEW p \in AlertPasses, StartAlertPass(p)
    PROVE  PassesInv'
<1>1. PICK s : s = [at |-> "list", now |-> now, after |-> 0]
    OBVIOUS
<1>2. now \in Instants /\ now \in Nat /\ 0 \in 0..NTickets /\ alertRuns \in Nat
    BY Numbers DEF PassesInv, PassesTypeOK
<1>3. s \in AlertPassStates /\ s.at = "list" /\ s.now = now
    BY <1>1, <1>2 DEF AlertPassStates, Reading
<1>4. AlertSound(s)
    BY <1>2, <1>3 DEF AlertSound
<1>5. GoAlert(p, s) /\ UNCHANGED notices /\ alertRuns' \in Nat
    BY <1>1, <1>2 DEF StartAlertPass
<1> QED
    BY <1>3, <1>4, <1>5, AlertPassReads

LEMMA ListCandidatesSound ==
    ASSUME PassesInv, NEW p \in AlertPasses, ListCandidates(p)
    PROVE  PassesInv'
<1>1. /\ alertPass[p] \in Reading /\ alertPass[p].now <= now
      /\ alertPass[p].now \in Instants /\ alertPass[p].after \in Nat
    BY AlertStates, Numbers DEF ListCandidates, PassesInv, PassesTypeOK, AlertSound, Reading
<1>2. PICK S : S = PageAbove(Open, alertPass[p].after)
    OBVIOUS
<1>3. S \in SUBSET Tickets /\ Cardinality(S) <= PageSize
    <2>1. Open \in SUBSET Tickets
        BY DEF Open
    <2> QED
        BY <1>1, <1>2, <2>1, PageBounded
<1>4. PICK f : f = [t \in S |-> [held |-> ticket[t].held, activity |-> ticket[t].activity]]
    OBVIOUS
<1>5. f \in [S -> Candidate] /\ \A t \in S : f[t].activity = ticket[t].activity
    <2>1. \A t \in Tickets : /\ ticket[t].held \in Instants \cup {None}
                             /\ ticket[t].activity \in Instants
        BY DEF PassesInv, PassesTypeOK, TicketRow
    <2> QED
        BY <1>3, <1>4, <2>1 DEF Candidate
<1>6. PICK s : /\ s = Turned(alertPass[p], "facts", f)
               /\ \/ s = Off
                  \/ /\ s \in Handling({"facts"}, Candidate) /\ s.now = alertPass[p].now
                     /\ s.page = f
    <2>1. f \in [S -> Candidate]
        BY <1>5
    <2>2. PICK pass : pass = alertPass[p] /\ pass.now \in Instants
        BY <1>1
    <2>3. \/ Turned(pass, "facts", f) = Off
          \/ /\ Turned(pass, "facts", f) \in Handling({"facts"}, Candidate)
             /\ Turned(pass, "facts", f).now = pass.now /\ Turned(pass, "facts", f).page = f
        BY <1>3, <2>1, <2>2, TurnedPass
    <2> QED
        BY <2>2, <2>3
<1>7. s \in AlertPassStates
    BY <1>6 DEF AlertPassStates
<1>8. AlertSound(s)
    <2>1. CASE s = Off
        BY <2>1 DEF AlertSound, Off
    <2>2. CASE /\ s \in Handling({"facts"}, Candidate) /\ s.now = alertPass[p].now
               /\ s.page = f
        <3>1. s.at = "facts" /\ DOMAIN f = S
            BY <1>5, <2>2 DEF Handling
        <3>2. \A t \in S : f[t].activity \in Nat
            BY <1>5, Numbers DEF Candidate
        <3> QED
            BY <1>1, <1>5, <2>2, <3>1, <3>2 DEF AlertSound
    <2> QED
        BY <1>6, <2>1, <2>2
<1>9. GoAlert(p, s) /\ UNCHANGED notices /\ alertRuns' \in Nat
    BY <1>2, <1>4, <1>6 DEF ListCandidates, PassesInv, PassesTypeOK
<1> QED
    BY <1>7, <1>8, <1>9, AlertPassReads

\* What a pass calls the last activity of a ticket is one the ticket had.
LEMMA ReadFactsSound ==
    ASSUME PassesInv, NEW p \in AlertPasses, ReadFacts(p)
    PROVE  PassesInv'
<1>1. PICK pass \in Handling({"facts"}, Candidate) :
         /\ pass = alertPass[p] /\ pass.now <= now
         /\ \A t \in DOMAIN pass.page : pass.page[t].activity <= ticket[t].activity
    BY AlertStates DEF ReadFacts, PassesInv, PassesTypeOK, AlertSound
<1>2. PICK rows \in PagesOf(Candidate) : rows = pass.page
    BY <1>1 DEF Handling
<1>3. PICK last \in [DOMAIN rows -> Instants] :
         /\ \A t \in DOMAIN rows : last[t] \in {rows[t].activity, ticket[t].activity}
         /\ GoAlert(p, [pass EXCEPT !.at = "breach", !.page = [t \in DOMAIN rows |->
                [breached   |-> ResolveNow(t, pass.now) >= ticket[t].due,
                 quietSince |-> IF rows[t].held = None /\ pass.now >= last[t] + Quiet
                                  THEN last[t] ELSE None]]])
    BY <1>1, <1>2 DEF ReadFacts
<1>4. PICK f : f = [t \in DOMAIN rows |->
                [breached   |-> ResolveNow(t, pass.now) >= ticket[t].due,
                 quietSince |-> IF rows[t].held = None /\ pass.now >= last[t] + Quiet
                                  THEN last[t] ELSE None]]
    OBVIOUS
<1>5. /\ f \in [DOMAIN rows -> Verdict]
      /\ \A t \in DOMAIN rows : f[t].quietSince # None => f[t].quietSince = last[t]
    <2>1. ASSUME NEW t \in DOMAIN rows
          PROVE  f[t] \in Verdict /\ (f[t].quietSince # None => f[t].quietSince = last[t])
        <3>1. f[t] = [breached   |-> ResolveNow(t, pass.now) >= ticket[t].due,
                      quietSince |-> IF rows[t].held = None /\ pass.now >= last[t] + Quiet
                                       THEN last[t] ELSE None]
            BY <1>4
        <3>2. (ResolveNow(t, pass.now) >= ticket[t].due) \in BOOLEAN
            OBVIOUS
        <3> QED
            BY <3>1, <3>2 DEF Verdict
    <2> QED
        BY <1>4, <2>1
<1>6. f \in PagesOf(Verdict)
    <2>1. DOMAIN rows \in SUBSET Tickets /\ DOMAIN rows # {} /\ Cardinality(DOMAIN rows) <= PageSize
        BY PageFields
    <2> QED
        BY <1>5, <2>1, PageOf
<1>7. PICK s : s = [pass EXCEPT !.at = "breach", !.page = f]
    OBVIOUS
<1>8. /\ s \in Handling({"breach", "quiet"}, Verdict)
      /\ s.at = "breach" /\ s.now = pass.now /\ s.page = f
    BY <1>6, <1>7 DEF Handling
<1>9. s \in AlertPassStates
    BY <1>8 DEF AlertPassStates
<1>10. ASSUME NEW t \in DOMAIN f, f[t].quietSince # None
       PROVE  f[t].quietSince <= ticket[t].activity
    <2>1. t \in DOMAIN rows /\ f[t].quietSince = last[t]
        BY <1>5, <1>10
    <2>2. rows[t].activity \in Nat /\ ticket[t].activity \in Nat
        <3>1. t \in Tickets /\ rows[t].activity \in Nat
            BY <2>1, CandidatePage
        <3> QED
            BY <3>1, Numbers DEF PassesInv, PassesTypeOK, TicketRow
    <2>3. rows[t].activity <= ticket[t].activity
        BY <1>1, <1>2, <2>1
    <2> QED
        BY <1>3, <2>1, <2>2, <2>3
<1>11. AlertSound(s)
    BY <1>1, <1>8, <1>10 DEF AlertSound
<1>12. GoAlert(p, s) /\ UNCHANGED notices /\ alertRuns' \in Nat
    BY <1>3, <1>4, <1>7 DEF ReadFacts, PassesInv, PassesTypeOK
<1> QED
    BY <1>9, <1>11, <1>12, AlertPassReads

\* The breach of a ticket is reported once.
LEMMA BreachOnce ==
    ASSUME PassesInv, NEW t \in Tickets, NEW at \in Instants,
           AppendAlert(t, "breached", 0, at), UNCHANGED ticket
    PROVE  notices' \in [Tickets -> [Kinds -> Seq(Instants)]] /\ AlertedOncePerPeriod'
<1>0. notices \in [Tickets -> [Kinds -> Seq(Instants)]]
    BY DEF PassesInv, PassesTypeOK
<1>1. CASE UNCHANGED notices
    BY <1>0, <1>1 DEF PassesInv, AlertedOncePerPeriod
<1>2. CASE ~Notified(t, "breached", 0) /\ Notify(t, "breached", at)
    <2>1. PICK old \in Seq(Instants) : old = notices[t].breached
        BY <1>0 DEF Kinds
    <2>2. Len(old) = 0
        <3>1. \A i \in DOMAIN old : old[i] \in Nat
            BY InstantsOf
        <3>2. DOMAIN old = {}
            BY <1>2, <2>1, <3>1 DEF Notified
        <3> QED
            BY <3>2
    <2>3. /\ notices' \in [Tickets -> [Kinds -> Seq(Instants)]]
          /\ notices'[t].breached = Append(old, at)
          /\ \A u \in Tickets : /\ notices'[u].noMovement = notices[u].noMovement
                                /\ u # t => notices'[u].breached = notices[u].breached
        BY <1>2, <2>1, NotedOf DEF Kinds
    <2>4. Len(notices'[t].breached) <= 1
        <3>1. Len(Append(old, at)) <= 1
            BY <2>2, AppendProperties
        <3> QED
            BY <2>3, <3>1
    <2>5. ASSUME NEW u \in Tickets
          PROVE  /\ Len(notices'[u].breached) <= 1
                 /\ ticket'[u].open =>
                       \A i, j \in DOMAIN notices'[u].noMovement :
                           i < j => notices'[u].noMovement[i] < ticket'[u].activity
        <3>1. /\ Len(notices[u].breached) <= 1
              /\ ticket[u].open =>
                    \A i, j \in DOMAIN notices[u].noMovement :
                        i < j => notices[u].noMovement[i] < ticket[u].activity
            BY DEF PassesInv, AlertedOncePerPeriod
        <3>2. /\ notices'[u].noMovement = notices[u].noMovement
              /\ u # t => notices'[u].breached = notices[u].breached
            BY <2>3, Zenon
        <3>3. Len(notices'[u].breached) <= 1
            <4>1. CASE u = t
                BY <2>4, <4>1
            <4>2. CASE u # t
                BY <3>1, <3>2, <4>2
            <4> QED
                BY <4>1, <4>2
        <3>4. ticket' = ticket
            OBVIOUS
        <3> QED
            BY <3>1, <3>2, <3>3, <3>4, Zenon
    <2> QED
        BY <2>3, <2>5 DEF AlertedOncePerPeriod
<1> QED
    BY <1>1, <1>2 DEF AppendAlert

\* A period of silence is reported once: the alerts before this one are older
\* than the activity it counts from.
LEMMA SilenceOnce ==
    ASSUME PassesInv, NEW t \in Tickets, NEW at \in Instants, NEW last \in Nat,
           last <= ticket[t].activity, AppendAlert(t, "noMovement", last, at), UNCHANGED ticket
    PROVE  notices' \in [Tickets -> [Kinds -> Seq(Instants)]] /\ AlertedOncePerPeriod'
<1>0. notices \in [Tickets -> [Kinds -> Seq(Instants)]] /\ ticket[t].activity \in Nat
    BY Numbers DEF PassesInv, PassesTypeOK, TicketRow
<1>1. CASE UNCHANGED notices
    BY <1>0, <1>1 DEF PassesInv, AlertedOncePerPeriod
<1>2. CASE ~Notified(t, "noMovement", last) /\ Notify(t, "noMovement", at)
    <2>1. PICK old \in Seq(Instants) : old = notices[t].noMovement
        BY <1>0 DEF Kinds
    <2>2. \A i \in DOMAIN old : old[i] \in Nat /\ old[i] < ticket[t].activity
        <3>1. \A i \in DOMAIN old : old[i] \in Nat
            BY InstantsOf
        <3>2. \A i \in DOMAIN old : ~(old[i] >= last)
            BY <1>2, <2>1 DEF Notified
        <3> QED
            BY <1>0, <3>1, <3>2
    <2>3. /\ notices' \in [Tickets -> [Kinds -> Seq(Instants)]]
          /\ notices'[t].noMovement = Append(old, at)
          /\ \A u \in Tickets : /\ notices'[u].breached = notices[u].breached
                                /\ u # t => notices'[u].noMovement = notices[u].noMovement
        BY <1>2, <2>1, NotedOf DEF Kinds
    <2>4. PICK new \in Seq(Instants) : new = Append(old, at)
        BY AppendProperties
    <2>5. /\ Len(old) \in Nat /\ Len(new) = Len(old) + 1
          /\ \A i \in 1..Len(old) : new[i] = old[i]
        BY <2>4, AppendProperties
    <2>6. \A i, j \in DOMAIN new : i < j => new[i] < ticket[t].activity
        BY <2>2, <2>5
    <2>7. \A i, j \in DOMAIN notices'[t].noMovement :
              i < j => notices'[t].noMovement[i] < ticket'[t].activity
        BY <2>3, <2>4, <2>6
    <2>8. ASSUME NEW u \in Tickets
          PROVE  /\ Len(notices'[u].breached) <= 1
                 /\ ticket'[u].open =>
                       \A i, j \in DOMAIN notices'[u].noMovement :
                           i < j => notices'[u].noMovement[i] < ticket'[u].activity
        <3>1. /\ Len(notices[u].breached) <= 1
              /\ ticket[u].open =>
                    \A i, j \in DOMAIN notices[u].noMovement :
                        i < j => notices[u].noMovement[i] < ticket[u].activity
            BY DEF PassesInv, AlertedOncePerPeriod
        <3>2. /\ notices'[u].breached = notices[u].breached
              /\ u # t => notices'[u].noMovement = notices[u].noMovement
            BY <2>3, Zenon
        <3>3. ticket' = ticket
            OBVIOUS
        <3>4. CASE u = t
            BY <2>7, <3>1, <3>2, <3>4, Zenon
        <3>5. CASE u # t
            BY <3>1, <3>2, <3>3, <3>5, Zenon
        <3> QED
            BY <3>4, <3>5
    <2> QED
        BY <2>3, <2>8 DEF AlertedOncePerPeriod
<1> QED
    BY <1>1, <1>2 DEF AppendAlert

\* The pass at a ticket: its own clock, and a verdict from the ticket's past.
LEMMA AlertAtTicket ==
    ASSUME PassesInv, NEW p \in AlertPasses, NEW t \in Tickets, NEW at \in {"breach", "quiet"},
           Alerting(p, t, at)
    PROVE  /\ alertPass[p].at = at /\ alertPass[p].now \in Instants
           /\ alertPass[p] \in Handling({"breach", "quiet"}, Verdict)
           /\ alertPass[p].page[t].quietSince # None =>
                 /\ alertPass[p].page[t].quietSince \in Nat
                 /\ alertPass[p].page[t].quietSince <= ticket[t].activity
<1>1. /\ alertPass[p].at = at /\ Current(alertPass[p]) = t
      /\ alertPass[p] \in Handling({"breach", "quiet"}, Verdict)
      /\ \A u \in DOMAIN alertPass[p].page :
             alertPass[p].page[u].quietSince # None
                 => alertPass[p].page[u].quietSince <= ticket[u].activity
    BY AlertStates DEF Alerting, PassesInv, PassesTypeOK, AlertSound
<1>2. alertPass[p].page \in PagesOf(Verdict) /\ alertPass[p].now \in Instants
    BY <1>1 DEF Handling
<1>3. t \in DOMAIN alertPass[p].page
    BY <1>1, <1>2, PageFields DEF Current
<1> QED
    BY <1>1, <1>2, <1>3, VerdictPage

LEMMA AlertBreachSound ==
    ASSUME PassesInv, NEW p \in AlertPasses, NEW t \in Tickets, AlertBreach(p, t)
    PROVE  PassesInv'
<1>1. PICK pass \in Handling({"breach", "quiet"}, Verdict) :
         pass = alertPass[p] /\ pass.now \in Instants /\ AlertSound(pass) /\ pass.at = "breach"
    BY AlertAtTicket DEF AlertBreach, PassesInv
<1>2. PICK s : s = [pass EXCEPT !.at = "quiet"]
    OBVIOUS
<1>3. /\ s \in Handling({"breach", "quiet"}, Verdict)
      /\ s.at = "quiet" /\ s.now = pass.now /\ s.page = pass.page
    BY <1>2 DEF Handling
<1>4. s \in AlertPassStates /\ AlertSound(s)
    BY <1>1, <1>3 DEF AlertPassStates, AlertSound
<1>5. GoAlert(p, s) /\ UNCHANGED ticket /\ alertRuns' \in Nat
    BY <1>1, <1>2 DEF AlertBreach, GoAlert, PassesInv, PassesTypeOK
<1>6. CASE UNCHANGED notices
    BY <1>4, <1>5, <1>6, AlertPassReads
<1>7. CASE AppendAlert(t, "breached", 0, pass.now)
    BY <1>1, <1>4, <1>5, <1>7, BreachOnce, AlertPassGoes
<1> QED
    BY <1>1, <1>6, <1>7 DEF AlertBreach

LEMMA AlertNoMovementSound ==
    ASSUME PassesInv, NEW p \in AlertPasses, NEW t \in Tickets, AlertNoMovement(p, t)
    PROVE  PassesInv'
<1>1. /\ alertPass[p].at = "quiet" /\ alertPass[p].now \in Instants
      /\ alertPass[p].page[t].quietSince # None =>
            /\ alertPass[p].page[t].quietSince \in Nat
            /\ alertPass[p].page[t].quietSince <= ticket[t].activity
    BY AlertAtTicket DEF AlertNoMovement
<1>2. PICK s \in AlertPassStates : s = Judged(alertPass[p], "breach") /\ AlertSound(s)
    BY <1>1, AlertJudged
<1>3. GoAlert(p, s) /\ UNCHANGED ticket /\ alertRuns' \in Nat
    BY <1>2 DEF AlertNoMovement, GoAlert, PassesInv, PassesTypeOK
<1>4. CASE UNCHANGED notices
    BY <1>2, <1>3, <1>4, AlertPassReads
<1>5. CASE /\ alertPass[p].page[t].quietSince # None
           /\ AppendAlert(t, "noMovement", alertPass[p].page[t].quietSince, alertPass[p].now)
    <2>1. notices' \in [Tickets -> [Kinds -> Seq(Instants)]] /\ AlertedOncePerPeriod'
        BY <1>1, <1>3, <1>5, SilenceOnce
    <2> QED
        BY <1>2, <1>3, <2>1, AlertPassGoes
<1> QED
    BY <1>4, <1>5 DEF AlertNoMovement

LEMMA AssigneeUnreachableSound ==
    ASSUME PassesInv, NEW p \in AlertPasses, NEW t \in Tickets, AssigneeUnreachable(p, t)
    PROVE  PassesInv'
<1>1. alertPass[p].at = "breach"
    BY DEF AssigneeUnreachable, Alerting
<1>2. PICK s \in AlertPassStates : s = Judged(alertPass[p], "breach") /\ AlertSound(s)
    BY <1>1, AlertJudged
<1>3. GoAlert(p, s) /\ UNCHANGED notices /\ alertRuns' \in Nat
    BY <1>2 DEF AssigneeUnreachable, PassesInv, PassesTypeOK
<1> QED
    BY <1>2, <1>3, AlertPassReads

LEMMA AbortAlertPassSound ==
    ASSUME PassesInv, NEW p \in AlertPasses, AbortAlertPass(p)
    PROVE  PassesInv'
<1>1. Off \in AlertPassStates /\ AlertSound(Off)
    BY DEF AlertPassStates, AlertSound, Off
<1>2. GoAlert(p, Off) /\ UNCHANGED notices /\ alertRuns' \in Nat
    BY DEF AbortAlertPass, PassesInv, PassesTypeOK
<1> QED
    BY <1>1, <1>2, AlertPassReads

(***************************************************************************)
(* The people and the clock.                                               *)
(***************************************************************************)

LEMMA ChangeSound ==
    ASSUME PassesInv, NEW t \in Tickets, NEW row \in TicketRow, RowSound(row),
           ticket[t].activity <= row.activity, row.open => ticket[t].open, Change(t, row)
    PROVE  PassesInv'
<1>1. /\ ticket \in [Tickets -> TicketRow] /\ \A u \in Tickets : RowSound(ticket[u])
      /\ ticket' = [ticket EXCEPT ![t] = row]
    BY DEF Change, PassesInv, PassesTypeOK
<1>2. /\ ticket' \in [Tickets -> TicketRow] /\ ticket'[t] = row
      /\ \A u \in Tickets : u # t => ticket'[u] = ticket[u]
    BY <1>1
<1>3. ASSUME NEW u \in Tickets
      PROVE  /\ RowSound(ticket'[u]) /\ ticket[u].activity <= ticket'[u].activity
             /\ ticket'[u].open => ticket[u].open
    <2>1. ticket[u].activity \in Nat
        BY <1>1, Numbers DEF TicketRow
    <2>2. CASE u = t
        BY <1>2, <2>2
    <2>3. CASE u # t
        BY <1>1, <1>2, <2>1, <2>3
    <2> QED
        BY <2>2, <2>3
<1>4. /\ notices' \in [Tickets -> [Kinds -> Seq(Instants)]]
      /\ holdPass' \in [HoldPasses -> HoldPassStates]
      /\ changes' \in Nat /\ alertRuns' \in Nat
      /\ UNCHANGED <<notices, alertPass, now, running>>
      /\ \A p \in HoldPasses : HoldSound(holdPass'[p])
    BY DEF Change, PassesInv, PassesTypeOK
<1> QED
    BY <1>2, <1>3, <1>4, TicketsMove

\* The fields of a ticket, as numbers.
LEMMA RowFields ==
    ASSUME PassesInv, NEW t \in Tickets
    PROVE  /\ ticket[t] \in TicketRow /\ RowSound(ticket[t])
           /\ now \in Instants /\ now \in Nat /\ now <= MaxTime
           /\ ticket[t].activity \in Nat /\ ticket[t].due \in Nat
           /\ ticket[t].held # None => ticket[t].held \in Nat
           /\ Target \in Nat /\ MaxTime \in Nat /\ None \notin Nat
           /\ ticket[t].open \in BOOLEAN /\ ticket[t].held \in Instants \cup {None}
<1>1. ticket[t] \in TicketRow /\ RowSound(ticket[t]) /\ now \in Instants
    BY DEF PassesInv, PassesTypeOK
<1>2. /\ ticket[t].activity \in Instants /\ ticket[t].due \in 0..Target + MaxTime
      /\ ticket[t].held \in Instants \cup {None} /\ ticket[t].open \in BOOLEAN
    BY <1>1 DEF TicketRow
<1>3. now <= MaxTime
    BY <1>1, Numbers DEF Instants
<1> QED
    BY <1>1, <1>2, <1>3, Numbers

LEMMA PutOnHoldSound ==
    ASSUME PassesInv, NEW t \in Tickets, PutOnHold(t)
    PROVE  PassesInv'
<1>1. PICK old \in TicketRow : old = ticket[t]
    BY RowFields
<1>2. PICK row : row = [old EXCEPT !.held = now, !.activity = now]
    OBVIOUS
<1>3. /\ row \in TicketRow /\ row.open = old.open /\ row.held = now
      /\ row.activity = now /\ row.due = old.due
    BY <1>1, <1>2, RowFields DEF TicketRow
<1>4. old.open /\ old.held = None /\ Change(t, row)
    BY <1>1, <1>2 DEF PutOnHold, Open, Held
<1>5. RowSound(row) /\ old.activity <= row.activity
    BY <1>1, <1>3, <1>4, RowFields DEF RowSound
<1> QED
    BY <1>1, <1>3, <1>4, <1>5, ChangeSound

LEMMA EndHoldSound ==
    ASSUME PassesInv, NEW t \in Tickets, EndHold(t)
    PROVE  PassesInv'
<1>1. PICK old \in TicketRow : old = ticket[t]
    BY RowFields
<1>2. PICK row : row = [old EXCEPT !.held = None, !.activity = now,
                                   !.due = old.due + (now - old.held)]
    OBVIOUS
<1>3. old.held # None /\ Change(t, row)
    BY <1>1, <1>2 DEF EndHold, Held
<1>4. /\ old.held \in Nat /\ old.held <= now /\ old.due \in Nat
      /\ old.due <= Target + old.held
    BY <1>1, <1>3, RowFields DEF RowSound
<1>5. /\ old.due + (now - old.held) \in 0..Target + MaxTime
      /\ old.due + (now - old.held) <= Target + now
    BY <1>4, RowFields
<1>6. /\ row \in TicketRow /\ row.open = old.open /\ row.held = None
      /\ row.activity = now /\ row.due <= Target + now
    BY <1>1, <1>2, <1>5, RowFields DEF TicketRow
<1>7. RowSound(row) /\ old.activity <= row.activity
    BY <1>1, <1>6, RowFields DEF RowSound
<1> QED
    BY <1>1, <1>3, <1>6, <1>7, ChangeSound

LEMMA WorkSound ==
    ASSUME PassesInv, NEW t \in Tickets, Work(t)
    PROVE  PassesInv'
<1>1. PICK old \in TicketRow : old = ticket[t]
    BY RowFields
<1>2. PICK row : row = [old EXCEPT !.activity = now]
    OBVIOUS
<1>3. /\ row \in TicketRow /\ row.open = old.open /\ row.held = old.held
      /\ row.activity = now /\ row.due = old.due
    BY <1>1, <1>2, RowFields DEF TicketRow
<1>4. Change(t, row)
    BY <1>1, <1>2 DEF Work
<1>5. RowSound(row) /\ old.activity <= row.activity
    BY <1>1, <1>3, RowFields DEF RowSound
<1> QED
    BY <1>1, <1>3, <1>4, <1>5, ChangeSound

LEMMA ResolveSound ==
    ASSUME PassesInv, NEW t \in Tickets, Resolve(t)
    PROVE  PassesInv'
<1>1. PICK old \in TicketRow : old = ticket[t]
    BY RowFields
<1>2. PICK row : row = [old EXCEPT !.open = FALSE, !.held = None]
    OBVIOUS
<1>3. /\ row \in TicketRow /\ ~row.open /\ row.held = None
      /\ row.activity = old.activity /\ row.due = old.due
    BY <1>1, <1>2 DEF TicketRow
<1>4. Change(t, row)
    BY <1>1, <1>2 DEF Resolve
<1>5. RowSound(row) /\ old.activity <= row.activity
    BY <1>1, <1>3, RowFields DEF RowSound
<1> QED
    BY <1>1, <1>3, <1>4, <1>5, ChangeSound

\* The clock of a pass that runs is an instant.
LEMMA HoldClock ==
    ASSUME NEW s \in HoldPassStates, s.at # "off"
    PROVE  s.now \in Nat
<1>1. s.now \in Instants
    <2>1. CASE s \in Reading
        BY <2>1 DEF Reading
    <2>2. CASE s \in Handling({"judge", "remind"}, Instants)
        BY <2>2 DEF Handling
    <2> QED
        BY <2>1, <2>2, HoldStates
<1> QED
    BY <1>1, Numbers

LEMMA AlertClock ==
    ASSUME NEW s \in AlertPassStates, s.at # "off"
    PROVE  s.now \in Nat
<1>1. s.now \in Instants
    <2>1. CASE s \in Reading
        BY <2>1 DEF Reading
    <2>2. CASE s \in Handling({"facts"}, Candidate) \/ s \in Handling({"breach", "quiet"}, Verdict)
        BY <2>2 DEF Handling
    <2> QED
        BY <2>1, <2>2, AlertStates
<1> QED
    BY <1>1, Numbers

LEMMA TickSound ==
    ASSUME PassesInv, Tick
    PROVE  PassesInv'
<1>1. /\ now \in Nat /\ now' = now + 1 /\ now' \in Instants
      /\ UNCHANGED <<ticket, notices, holdPass, alertPass, running, changes, alertRuns>>
    BY Numbers DEF Tick, bounds, PassesInv, PassesTypeOK, Instants
<1>2. PassesTypeOK' /\ AlertedOncePerPeriod'
    BY <1>1 DEF PassesInv, PassesTypeOK, AlertedOncePerPeriod
<1>3. ASSUME NEW t \in Tickets PROVE RowSound(ticket[t])'
    BY <1>1, RowFields DEF RowSound
<1>4. ASSUME NEW p \in HoldPasses PROVE HoldSound(holdPass[p])'
    <2>1. holdPass[p].at # "off" => holdPass[p].now \in Nat
        BY HoldClock DEF PassesInv, PassesTypeOK
    <2>2. PICK pass : pass = holdPass[p] /\ HoldSound(pass)
        BY DEF PassesInv
    <2>3. pass.at # "off" => pass.now <= now'
        BY <1>1, <2>1, <2>2 DEF HoldSound
    <2>4. pass.at = "remind" => pass.now >= pass.page[Min(DOMAIN pass.page)] + Days - 1
        BY <2>2 DEF HoldSound, Current
    <2>5. holdPass'[p] = pass
        BY <1>1, <2>2
    <2> QED
        BY <2>3, <2>4, <2>5 DEF HoldSound, Current
<1>5. ASSUME NEW p \in AlertPasses PROVE AlertSound(alertPass[p])'
    <2>1. alertPass[p].at # "off" => alertPass[p].now \in Nat
        BY AlertClock DEF PassesInv, PassesTypeOK
    <2>2. PICK pass : pass = alertPass[p] /\ AlertSound(pass)
        BY DEF PassesInv
    <2>3. pass.at # "off" => pass.now <= now'
        BY <1>1, <2>1, <2>2 DEF AlertSound
    <2>4. alertPass'[p] = pass /\ ticket' = ticket
        BY <1>1, <2>2
    <2> QED
        BY <2>2, <2>3, <2>4 DEF AlertSound
<1> QED
    BY <1>2, <1>3, <1>4, <1>5 DEF PassesInv

(***************************************************************************)
(* The theorems.                                                           *)
(***************************************************************************)

LEMMA InitSound == Init => PassesInv
<1> SUFFICES ASSUME Init PROVE PassesInv
    OBVIOUS
<1>1. PICK sc \in Scenarios, held \in [Tickets -> {None, 0}] :
         /\ running = sc.passes /\ changes = sc.changes /\ alertRuns = sc.alertRuns
         /\ ticket = [t \in Tickets |-> [open |-> t \in sc.open, held |-> held[t],
                                         activity |-> 0, due |-> Target]]
    BY DEF Init
<1>2. running \subseteq HoldPasses \cup AlertPasses /\ changes \in Nat /\ alertRuns \in Nat
    BY <1>1, PassesAssumption
<1>3. now = 0 /\ now \in Instants
    BY Numbers DEF Init
<1>4. ASSUME NEW t \in Tickets PROVE ticket[t] \in TicketRow /\ RowSound(ticket[t])
    <2>1. PICK row : row = [open |-> t \in sc.open, held |-> held[t], activity |-> 0, due |-> Target]
        OBVIOUS
    <2>2. (t \in sc.open) \in BOOLEAN /\ held[t] \in {None, 0} /\ 0 \in Instants
        BY Numbers
    <2>3. Target \in 0..Target + MaxTime
        BY Numbers
    <2>4. row \in TicketRow
        BY <2>1, <2>2, <2>3 DEF TicketRow
    <2>5. RowSound(row)
        BY <1>3, <2>1, <2>2, Numbers DEF RowSound
    <2> QED
        BY <1>1, <2>1, <2>4, <2>5
<1>5. /\ notices \in [Tickets -> [Kinds -> Seq(Instants)]]
      /\ \A t \in Tickets, k \in Kinds : notices[t][k] = <<>>
    BY DEF Init
<1>6. /\ holdPass \in [HoldPasses -> HoldPassStates] /\ \A p \in HoldPasses : holdPass[p] = Off
      /\ alertPass \in [AlertPasses -> AlertPassStates] /\ \A p \in AlertPasses : alertPass[p] = Off
    BY DEF Init, HoldPassStates, AlertPassStates
<1>7. ticket \in [Tickets -> TicketRow]
    BY <1>1, <1>4
<1>8. PassesTypeOK
    BY <1>2, <1>3, <1>5, <1>6, <1>7 DEF PassesTypeOK
<1>9. AlertedOncePerPeriod
    <2>1. \A t \in Tickets : notices[t].breached = <<>> /\ notices[t].noMovement = <<>>
        BY <1>5 DEF Kinds
    <2>2. Len(<<>>) <= 1 /\ DOMAIN <<>> = {}
        OBVIOUS
    <2> QED
        BY <2>1, <2>2 DEF AlertedOncePerPeriod
<1>10. \A p \in HoldPasses : HoldSound(holdPass[p])
    BY <1>6 DEF HoldSound, Off
<1>11. \A p \in AlertPasses : AlertSound(alertPass[p])
    BY <1>6 DEF AlertSound, Off
<1> QED
    BY <1>4, <1>8, <1>9, <1>10, <1>11 DEF PassesInv

LEMMA StepSound == PassesInv /\ [Next]_vars => PassesInv'
<1> SUFFICES ASSUME PassesInv, [Next]_vars PROVE PassesInv'
    OBVIOUS
<1>1. ASSUME NEW p \in HoldPasses, StartHoldPass(p) \/ ListHeld(p) \/ AbortHoldPass(p)
      PROVE  PassesInv'
    BY <1>1, StartHoldPassSound, ListHeldSound, AbortHoldPassSound
<1>2. ASSUME NEW p \in HoldPasses, NEW t \in Tickets, JudgeHold(p, t) \/ RemindOf(p, t)
      PROVE  PassesInv'
    BY <1>2, CloseExpiredSound, NotDueSound, CheckReminderSound, RemindSound,
       RequesterUnreachableSound DEF JudgeHold, RemindOf
<1>3. ASSUME NEW p \in AlertPasses,
             StartAlertPass(p) \/ ListCandidates(p) \/ ReadFacts(p) \/ AbortAlertPass(p)
      PROVE  PassesInv'
    BY <1>3, StartAlertPassSound, ListCandidatesSound, ReadFactsSound, AbortAlertPassSound
<1>4. ASSUME NEW p \in AlertPasses, NEW t \in Tickets,
             AlertBreach(p, t) \/ AlertNoMovement(p, t) \/ AssigneeUnreachable(p, t)
      PROVE  PassesInv'
    BY <1>4, AlertBreachSound, AlertNoMovementSound, AssigneeUnreachableSound
<1>5. ASSUME NEW t \in Tickets, PutOnHold(t) \/ EndHold(t) \/ Work(t) \/ Resolve(t)
      PROVE  PassesInv'
    BY <1>5, PutOnHoldSound, EndHoldSound, WorkSound, ResolveSound
<1>6. CASE Tick
    BY <1>6, TickSound
<1>7. CASE UNCHANGED vars
    <2>1. /\ ticket' = ticket /\ notices' = notices /\ holdPass' = holdPass
          /\ alertPass' = alertPass /\ now' = now /\ running' = running
          /\ changes' = changes /\ alertRuns' = alertRuns
        BY <1>7 DEF vars, bounds
    <2> QED
        BY <2>1 DEF PassesInv, PassesTypeOK, AlertedOncePerPeriod, RowSound, HoldSound,
                    AlertSound, Current
<1> QED
    BY <1>1, <1>2, <1>3, <1>4, <1>5, <1>6, <1>7 DEF Next

\* What the passes hold is old, and never ahead of the clock or of the ticket.
THEOREM PassesInvHolds == Spec => []PassesInv
<1> QED
    BY InitSound, StepSound, PTL DEF Spec

\* Every variable keeps its type: pages never outgrow the LIMIT of the queries,
\* and a deadline moves no further than the clock (hold_expiry.go, alerts.go).
THEOREM PassesTypes == Spec => []PassesTypeOK
<1>1. PassesInv => PassesTypeOK
    BY DEF PassesInv
<1> QED
    BY <1>1, PassesInvHolds, PTL

\* However many passes overlap, a breach is announced once, and between two
\* announcements of silence on an open ticket somebody moved it
\* (AppendOperationalAlert).
THEOREM AlertsOncePerPeriod == Spec => []AlertedOncePerPeriod
<1>1. PassesInv => AlertedOncePerPeriod
    BY DEF PassesInv
<1> QED
    BY <1>1, PassesInvHolds, PTL

(***************************************************************************)
(* One process that expires holds.  A pass about to remind has looked for  *)
(* an earlier reminder, and only another pass could have written one since.*)
(***************************************************************************)

OneExpiry ==
    /\ \A p, q \in running \cap HoldPasses : p = q
    /\ \A p \in HoldPasses : holdPass[p] # Off => p \in running
    /\ \A p \in HoldPasses :
          holdPass[p].at = "remind" => ~Notified(Current(holdPass[p]), "reminder", Since(p))

\* What a pass at a ticket knows of it.
LEMMA HoldAtTicket ==
    ASSUME PassesInv, NEW p \in HoldPasses, holdPass[p].at \in {"judge", "remind"}
    PROVE  /\ Current(holdPass[p]) \in Tickets /\ Since(p) \in Nat /\ Since(p) # None
           /\ holdPass[p].now \in Nat /\ holdPass[p].now <= now /\ holdPass[p] # Off
<1>1. PICK pass \in Handling({"judge", "remind"}, Instants) : pass = holdPass[p] /\ pass.now <= now
    BY HoldStates DEF PassesInv, PassesTypeOK, HoldSound
<1>2. pass.page \in PagesOf(Instants) /\ pass.now \in Nat
    BY Numbers DEF Handling
<1>3. /\ Min(DOMAIN pass.page) \in Tickets
      /\ pass.page[Min(DOMAIN pass.page)] \in Instants
    BY <1>2, PageFields
<1>4. holdPass[p] # Off
    BY DEF Off
<1> QED
    BY <1>1, <1>2, <1>3, <1>4, Numbers DEF Current, Since

\* The only pass there is goes on, and not to remind.
LEMMA OnePassGoes ==
    ASSUME PassesInv, OneExpiry, NEW p \in HoldPasses, p \in running,
           NEW s, s.at # "remind", GoHold(p, s)
    PROVE  OneExpiry'
<1>1. /\ holdPass'[p] = s /\ running' = running
      /\ \A q \in HoldPasses : q # p => holdPass'[q] = holdPass[q]
    BY DEF GoHold, PassesInv, PassesTypeOK
<1>2. ASSUME NEW q \in HoldPasses, q # p PROVE holdPass'[q] = Off
    BY <1>1, <1>2 DEF OneExpiry
<1>3. \A q \in HoldPasses : holdPass'[q].at # "remind"
    BY <1>1, <1>2 DEF Off
<1>4. \A q \in HoldPasses : holdPass'[q] # Off => q \in running'
    BY <1>1, <1>2
<1>5. \A q, r \in running' \cap HoldPasses : q = r
    BY <1>1 DEF OneExpiry
<1> QED
    BY <1>3, <1>4, <1>5 DEF OneExpiry

\* No expiry pass moves, and nobody is reminded.
LEMMA OthersMove ==
    ASSUME PassesInv, OneExpiry, holdPass' = holdPass, running' = running,
           \A t \in Tickets : notices'[t].reminder = notices[t].reminder
    PROVE  OneExpiry'
<1>1. ASSUME NEW p \in HoldPasses, holdPass[p].at = "remind"
      PROVE  ~Notified(Current(holdPass[p]), "reminder", Since(p))'
    <2>1. ~Notified(Current(holdPass[p]), "reminder", Since(p))
        BY <1>1 DEF OneExpiry
    <2>2. Current(holdPass[p]) \in Tickets
        BY <1>1, HoldAtTicket
    <2>3. Current(holdPass[p])' = Current(holdPass[p]) /\ Since(p)' = Since(p)
        BY DEF Current, Since
    <2>4. PICK t \in Tickets : t = Current(holdPass[p])
        BY <2>2
    <2>5. notices'[t]["reminder"] = notices[t]["reminder"]
        OBVIOUS
    <2> QED
        BY <2>1, <2>3, <2>4, <2>5 DEF Notified
<1>2. \A p \in HoldPasses : holdPass'[p] # Off => p \in running'
    BY DEF OneExpiry
<1>3. \A q, r \in running' \cap HoldPasses : q = r
    BY DEF OneExpiry
<1> QED
    BY <1>1, <1>2, <1>3 DEF OneExpiry

\* The pass that looked for a reminder and found none.
LEMMA ChecksFirst ==
    ASSUME PassesInv, OneExpiry, NEW p \in HoldPasses, NEW t \in Tickets, CheckReminder(p, t)
    PROVE  OneExpiry'
<1>1. /\ holdPass[p].at = "judge" /\ Current(holdPass[p]) = t /\ ToRemind(p)
      /\ notices' = notices
    BY DEF CheckReminder, Judging
<1>2. p \in running
    BY <1>1, HoldAtTicket DEF OneExpiry
<1>3. CASE GoHold(p, Judged(holdPass[p], "judge"))
    BY <1>1, <1>2, <1>3, HoldJudged, OnePassGoes
<1>4. CASE /\ ~Notified(t, "reminder", Since(p))
           /\ GoHold(p, [holdPass[p] EXCEPT !.at = "remind"])
    <2>1. PICK s \in HoldPassStates :
             s = [holdPass[p] EXCEPT !.at = "remind"] /\ s.page = holdPass[p].page
        BY <1>1, ToRemindState
    <2>2. /\ holdPass'[p] = s /\ running' = running
          /\ \A q \in HoldPasses : q # p => holdPass'[q] = holdPass[q]
        BY <1>4, <2>1 DEF GoHold, PassesInv, PassesTypeOK
    <2>3. ASSUME NEW q \in HoldPasses, q # p PROVE holdPass'[q] = Off
        BY <1>2, <2>2, <2>3 DEF OneExpiry
    <2>4. Current(holdPass[p])' = t /\ Since(p)' = Since(p)
        BY <1>1, <2>1, <2>2 DEF Current, Since
    <2>5. ~Notified(Current(holdPass[p]), "reminder", Since(p))'
        BY <1>1, <1>4, <2>4 DEF Notified
    <2>6. \A q \in HoldPasses :
              holdPass'[q].at = "remind"
                  => ~Notified(Current(holdPass[q]), "reminder", Since(q))'
        BY <2>3, <2>5 DEF Off
    <2>7. \A q \in HoldPasses : holdPass'[q] # Off => q \in running'
        BY <1>2, <2>2, <2>3
    <2>8. \A q, r \in running' \cap HoldPasses : q = r
        BY <2>2 DEF OneExpiry
    <2> QED
        BY <2>6, <2>7, <2>8 DEF OneExpiry
<1> QED
    BY <1>3, <1>4 DEF CheckReminder

\* An alert pass leaves the holds and their reminders alone.
LEMMA AlertsLeaveHolds ==
    ASSUME PassesInv, NEW p \in AlertPasses, NEW t \in Tickets,
           AlertBreach(p, t) \/ AlertNoMovement(p, t) \/ AssigneeUnreachable(p, t)
    PROVE  /\ ticket' = ticket /\ holdPass' = holdPass /\ running' = running
           /\ \A u \in Tickets : notices'[u].reminder = notices[u].reminder
<1>1. ticket' = ticket /\ holdPass' = holdPass /\ running' = running
    BY DEF AlertBreach, AlertNoMovement, AssigneeUnreachable, GoAlert
<1>2. \/ notices' = notices
      \/ Notify(t, "breached", alertPass[p].now) /\ alertPass[p].at = "breach"
      \/ Notify(t, "noMovement", alertPass[p].now) /\ alertPass[p].at = "quiet"
    BY DEF AlertBreach, AlertNoMovement, AssigneeUnreachable, AppendAlert, Alerting
<1>3. CASE notices' = notices
    BY <1>1, <1>3
<1>4. CASE /\ alertPass[p].at \in {"breach", "quiet"}
           /\ \E kind \in {"breached", "noMovement"} : Notify(t, kind, alertPass[p].now)
    <2>1. PICK kind \in {"breached", "noMovement"} : Notify(t, kind, alertPass[p].now)
        BY <1>4
    <2>2. alertPass[p].now \in Instants
        BY <1>4, AlertStates DEF PassesInv, PassesTypeOK, Handling
    <2>3. \A u \in Tickets : notices'[u]["reminder"] = notices[u]["reminder"]
        BY <2>1, <2>2, NotedOf DEF Kinds
    <2> QED
        BY <1>1, <2>3
<1> QED
    BY <1>1, <1>2, <1>3, <1>4

LEMMA OneExpiryStep == PassesInv /\ OneExpiry /\ [Next]_vars => OneExpiry'
<1> SUFFICES ASSUME PassesInv, OneExpiry, [Next]_vars PROVE OneExpiry'
    OBVIOUS
<1>1. ASSUME NEW p \in HoldPasses, StartHoldPass(p) PROVE OneExpiry'
    <2>1. PICK s : s = [at |-> "list", now |-> now, after |-> 0]
        OBVIOUS
    <2>2. GoHold(p, s) /\ p \in running /\ s.at # "remind"
        BY <1>1, <2>1 DEF StartHoldPass
    <2> QED
        BY <2>2, OnePassGoes
<1>2. ASSUME NEW p \in HoldPasses, ListHeld(p) PROVE OneExpiry'
    <2>1. PICK s : GoHold(p, s)
        BY <1>2 DEF ListHeld
    <2>2. holdPass'[p] = s /\ s.at # "remind"
        BY <1>2, <2>1, ListHeldSound DEF GoHold, PassesInv, PassesTypeOK
    <2>3. p \in running
        BY <1>2 DEF ListHeld, OneExpiry, Off
    <2> QED
        BY <2>1, <2>2, <2>3, OnePassGoes
<1>3. ASSUME NEW p \in HoldPasses, AbortHoldPass(p) PROVE OneExpiry'
    <2>1. GoHold(p, Off) /\ p \in running /\ Off.at # "remind"
        BY <1>3 DEF AbortHoldPass, OneExpiry, Off
    <2> QED
        BY <2>1, OnePassGoes
<1>4. ASSUME NEW p \in HoldPasses, NEW t \in Tickets, JudgeHold(p, t) \/ RemindOf(p, t)
      PROVE  OneExpiry'
    <2>1. CASE CheckReminder(p, t)
        BY <2>1, ChecksFirst
    <2>2. CASE CloseExpired(p, t) \/ NotDue(p, t) \/ RemindOf(p, t)
        <3>1. /\ holdPass[p].at \in {"judge", "remind"}
              /\ GoHold(p, Judged(holdPass[p], "judge"))
            BY <2>2 DEF CloseExpired, NotDue, RemindOf, Remind, RequesterUnreachable, Judging
        <3>2. p \in running
            BY <3>1, HoldAtTicket DEF OneExpiry
        <3> QED
            BY <3>1, <3>2, HoldJudged, OnePassGoes
    <2> QED
        BY <1>4, <2>1, <2>2 DEF JudgeHold
<1>5. ASSUME NEW p \in AlertPasses,
             StartAlertPass(p) \/ ListCandidates(p) \/ ReadFacts(p) \/ AbortAlertPass(p)
      PROVE  OneExpiry'
    <2>1. holdPass' = holdPass /\ running' = running /\ notices' = notices
        BY <1>5 DEF StartAlertPass, ListCandidates, ReadFacts, AbortAlertPass, GoAlert
    <2> QED
        BY <2>1, OthersMove
<1>6. ASSUME NEW p \in AlertPasses, NEW t \in Tickets,
             AlertBreach(p, t) \/ AlertNoMovement(p, t) \/ AssigneeUnreachable(p, t)
      PROVE  OneExpiry'
    BY <1>6, AlertsLeaveHolds, OthersMove
<1>7. ASSUME NEW t \in Tickets, PutOnHold(t) \/ EndHold(t) \/ Work(t) \/ Resolve(t)
      PROVE  OneExpiry'
    <2>1. holdPass' = holdPass /\ running' = running /\ notices' = notices
        BY <1>7 DEF PutOnHold, EndHold, Work, Resolve, Change
    <2> QED
        BY <2>1, OthersMove
<1>8. CASE Tick \/ UNCHANGED vars
    <2>1. holdPass' = holdPass /\ running' = running /\ notices' = notices
        BY <1>8 DEF Tick, vars
    <2> QED
        BY <2>1, OthersMove
<1> QED
    BY <1>1, <1>2, <1>3, <1>4, <1>5, <1>6, <1>7, <1>8 DEF Next

\* A pass closes the hold it read, at its own clock, after the whole window.
LEMMA ClosesExpired ==
    ASSUME PassesInv, NEW p \in HoldPasses, NEW u \in Tickets, CloseExpired(p, u),
           NEW t \in Tickets, ticket[t].open, ~ticket'[t].open
    PROVE  ticket[t].held # None /\ now >= ticket[t].held + Days
<1>1. holdPass[p].at = "judge" /\ holdPass[p].now >= Since(p) + Days
    BY DEF CloseExpired, Judging, Expired
<1>2. t = u /\ ticket[t].held = Since(p)
    BY DEF CloseExpired, PassesInv, PassesTypeOK
<1>3. now \in Nat
    BY Numbers DEF PassesInv, PassesTypeOK
<1> QED
    BY <1>1, <1>2, <1>3, HoldAtTicket, Numbers

\* A pass reminds of the hold it read, when due, and, where it is the only one
\* that expires holds, nobody did before.
LEMMA RemindsDue ==
    ASSUME PassesInv, NEW p \in HoldPasses, NEW u \in Tickets, Remind(p, u),
           NEW t \in Tickets, notices'[t].reminder # notices[t].reminder
    PROVE  /\ ticket[t].held # None /\ now >= ticket[t].held + Days - 1
           /\ OneExpiry => ~Notified(t, "reminder", ticket[t].held)
<1>1. /\ holdPass[p].at = "remind" /\ Current(holdPass[p]) = u
      /\ ticket[u].held = Since(p) /\ Notify(u, "reminder", holdPass[p].now)
    BY DEF Remind
<1>2. holdPass[p].now \in Instants
    BY <1>1, HoldStates DEF PassesInv, PassesTypeOK, Handling
<1>3. t = u
    BY <1>1, <1>2, NotedOf DEF Kinds
<1>4. OneExpiry => ~Notified(u, "reminder", Since(p))
    BY <1>1 DEF OneExpiry
<1>5. holdPass[p].now >= Since(p) + Days - 1
    BY <1>1 DEF PassesInv, HoldSound, Since
<1>6. now \in Nat /\ Days \in Nat
    BY Numbers DEF PassesInv, PassesTypeOK
<1>7. now >= Since(p) + Days - 1
    <2>1. Since(p) \in Nat /\ holdPass[p].now \in Nat /\ holdPass[p].now <= now
        BY <1>1, HoldAtTicket
    <2> QED
        BY <1>5, <1>6, <2>1
<1> QED
    BY <1>1, <1>3, <1>4, <1>7, HoldAtTicket

\* What a step tells or closes, it tells of or closes a hold that ran.
LEMMA ExpiryStep ==
    ASSUME PassesInv, Next, NEW t \in Tickets
    PROVE  /\ notices'[t].reminder # notices[t].reminder =>
                 /\ ticket[t].held # None /\ now >= ticket[t].held + Days - 1
                 /\ OneExpiry => ~Notified(t, "reminder", ticket[t].held)
           /\ ticket[t].open /\ ~ticket'[t].open /\ holdPass' # holdPass =>
                 ticket[t].held # None /\ now >= ticket[t].held + Days
<1>1. CASE \E p \in HoldPasses : StartHoldPass(p) \/ ListHeld(p) \/ AbortHoldPass(p)
    <2>1. ticket' = ticket /\ notices' = notices
        BY <1>1 DEF StartHoldPass, ListHeld, AbortHoldPass
    <2> QED
        BY <2>1
<1>2. ASSUME NEW p \in HoldPasses, NEW u \in Tickets, JudgeHold(p, u) \/ RemindOf(p, u)
      PROVE  /\ notices'[t].reminder # notices[t].reminder =>
                   /\ ticket[t].held # None /\ now >= ticket[t].held + Days - 1
                   /\ OneExpiry => ~Notified(t, "reminder", ticket[t].held)
             /\ ticket[t].open /\ ~ticket'[t].open /\ holdPass' # holdPass =>
                   ticket[t].held # None /\ now >= ticket[t].held + Days
    <2>1. CASE CloseExpired(p, u)
        <3>1. notices' = notices
            BY <2>1 DEF CloseExpired
        <3> QED
            BY <2>1, <3>1, ClosesExpired
    <2>2. CASE Remind(p, u)
        <3>1. ticket' = ticket
            BY <2>2 DEF Remind
        <3> QED
            BY <2>2, <3>1, RemindsDue
    <2>3. CASE NotDue(p, u) \/ CheckReminder(p, u) \/ RequesterUnreachable(p, u)
        <3>1. ticket' = ticket /\ notices' = notices
            BY <2>3 DEF NotDue, CheckReminder, RequesterUnreachable
        <3> QED
            BY <3>1
    <2> QED
        BY <1>2, <2>1, <2>2, <2>3 DEF JudgeHold, RemindOf
<1>3. CASE \E p \in AlertPasses :
              StartAlertPass(p) \/ ListCandidates(p) \/ ReadFacts(p) \/ AbortAlertPass(p)
    <2>1. ticket' = ticket /\ notices' = notices
        BY <1>3 DEF StartAlertPass, ListCandidates, ReadFacts, AbortAlertPass, GoAlert
    <2> QED
        BY <2>1
<1>4. CASE \E p \in AlertPasses, u \in Tickets :
              AlertBreach(p, u) \/ AlertNoMovement(p, u) \/ AssigneeUnreachable(p, u)
    BY <1>4, AlertsLeaveHolds
<1>5. CASE \/ \E u \in Tickets : PutOnHold(u) \/ EndHold(u) \/ Work(u) \/ Resolve(u)
           \/ Tick
    <2>1. holdPass' = holdPass /\ notices' = notices
        BY <1>5 DEF PutOnHold, EndHold, Work, Resolve, Change, Tick
    <2> QED
        BY <2>1
<1> QED
    BY <1>1, <1>2, <1>3, <1>4, <1>5 DEF Next

\* Where one process at a time expires holds, a reminder is the first of its
\* hold and comes when due, and a closing ends a hold that ran its whole window
\* (remindRequester and expire in hold_expiry.go).
THEOREM ExpiryMeets ==
    ASSUME \A s \in Scenarios : \A p, q \in s.passes \cap HoldPasses : p = q
    PROVE  Spec => ExpiryMeetsItsHold
<1>1. Init => OneExpiry
    <2> SUFFICES ASSUME Init PROVE OneExpiry
        OBVIOUS
    <2>1. \A p \in HoldPasses : holdPass[p] = Off
        BY DEF Init
    <2>2. \A p, q \in running \cap HoldPasses : p = q
        BY DEF Init
    <2> QED
        BY <2>1, <2>2 DEF OneExpiry, Off
<1>2. PassesInv /\ OneExpiry /\ [Next]_vars =>
         [\A t \in Tickets :
            LET since == ticket[t].held IN
            /\ notices'[t].reminder # notices[t].reminder =>
                  /\ since # None /\ now >= since + Days - 1
                  /\ ~Notified(t, "reminder", since)
            /\ ticket[t].open /\ ~ticket'[t].open /\ holdPass' # holdPass =>
                  since # None /\ now >= since + Days]_vars
    BY ExpiryStep
<1> QED
    BY <1>1, <1>2, OneExpiryStep, PassesInvHolds, PTL DEF Spec, ExpiryMeetsItsHold

\* However many processes expire holds, a reminder comes when the hold on
\* record is due, and a closing ends a hold that ran its whole window.
ExpiryActsOnRunHolds ==
    [][\A t \in Tickets :
         LET since == ticket[t].held IN
         /\ notices'[t].reminder # notices[t].reminder =>
               since # None /\ now >= since + Days - 1
         /\ ticket[t].open /\ ~ticket'[t].open /\ holdPass' # holdPass =>
               since # None /\ now >= since + Days]_vars

\* The hold write compares the hold and the reminder looks at it again
\* (remindRequester and expire in hold_expiry.go), which is enough for any
\* number of processes.
THEOREM ExpiryActsInTime == Spec => ExpiryActsOnRunHolds
<1>1. PassesInv /\ [Next]_vars =>
         [\A t \in Tickets :
            LET since == ticket[t].held IN
            /\ notices'[t].reminder # notices[t].reminder =>
                  since # None /\ now >= since + Days - 1
            /\ ticket[t].open /\ ~ticket'[t].open /\ holdPass' # holdPass =>
                  since # None /\ now >= since + Days]_vars
    BY ExpiryStep
<1> QED
    BY <1>1, PassesInvHolds, PTL DEF Spec, ExpiryActsOnRunHolds

(***************************************************************************)
(* How many reminders of one hold the gap before the reminder lets         *)
(* through: one for each process, never more.                              *)
(***************************************************************************)

\* The positions of the entries of q that are not before x.
AtLeast(q, x) == {i \in DOMAIN q : q[i] >= x}

LEMMA AtLeastFinite ==
    ASSUME NEW q \in Seq(Instants), NEW x
    PROVE  IsFiniteSet(AtLeast(q, x)) /\ Cardinality(AtLeast(q, x)) \in Nat
<1>1. AtLeast(q, x) \subseteq 1..Len(q) /\ Len(q) \in Nat
    BY DEF AtLeast
<1>2. IsFiniteSet(1..Len(q))
    BY <1>1, FS_Interval
<1> QED
    BY <1>1, <1>2, FS_Subset, FS_CardinalityType

\* The later the instant, the fewer entries are not before it.
LEMMA AtLeastShrinks ==
    ASSUME NEW q \in Seq(Instants), NEW x \in Nat, NEW y \in Nat, x <= y
    PROVE  Cardinality(AtLeast(q, y)) <= Cardinality(AtLeast(q, x))
<1>1. AtLeast(q, y) \subseteq AtLeast(q, x)
    BY InstantsOf DEF AtLeast
<1> QED
    BY <1>1, AtLeastFinite, FS_Subset

LEMMA AtLeastAppended ==
    ASSUME NEW q \in Seq(Instants), NEW v \in Instants, NEW x
    PROVE  Cardinality(AtLeast(Append(q, v), x)) <= Cardinality(AtLeast(q, x)) + 1
<1> DEFINE long == Append(q, v)
<1>1. /\ long \in Seq(Instants) /\ Len(q) \in Nat /\ Len(long) = Len(q) + 1
      /\ \A i \in 1..Len(q) : long[i] = q[i]
    BY AppendProperties
<1>2. DOMAIN long = 1..Len(long) /\ DOMAIN q = 1..Len(q)
    BY <1>1
<1> HIDE DEF long
<1>3. AtLeast(long, x) \subseteq AtLeast(q, x) \cup {Len(q) + 1}
    BY <1>1, <1>2 DEF AtLeast
<1>4. /\ IsFiniteSet(AtLeast(q, x) \cup {Len(q) + 1})
      /\ Cardinality(AtLeast(q, x) \cup {Len(q) + 1}) <= Cardinality(AtLeast(q, x)) + 1
    <2>1. PICK S : S = AtLeast(q, x) /\ IsFiniteSet(S) /\ Cardinality(S) \in Nat
        BY AtLeastFinite
    <2>2. /\ IsFiniteSet(S \cup {Len(q) + 1})
          /\ Cardinality(S \cup {Len(q) + 1}) =
                IF Len(q) + 1 \in S THEN Cardinality(S) ELSE Cardinality(S) + 1
        BY <2>1, FS_AddElement
    <2>3. Cardinality(S \cup {Len(q) + 1}) <= Cardinality(S) + 1
        BY <2>1, <2>2
    <2> QED
        BY <2>1, <2>2, <2>3
<1>5. Cardinality(AtLeast(q, x) \cup {Len(q) + 1}) \in Nat /\ Cardinality(AtLeast(q, x)) \in Nat
    BY <1>4, AtLeastFinite, FS_CardinalityType
<1>6. /\ Cardinality(AtLeast(long, x)) <= Cardinality(AtLeast(q, x) \cup {Len(q) + 1})
      /\ Cardinality(AtLeast(long, x)) \in Nat
    BY <1>1, <1>3, <1>4, FS_Subset, AtLeastFinite
<1> QED
    BY <1>4, <1>5, <1>6 DEF long

\* The processes that expire holds, and those among them that have decided to
\* remind of the hold in force.
Runners == running \cap HoldPasses
Reminding(t) ==
    {p \in HoldPasses : /\ holdPass[p].at = "remind" /\ Current(holdPass[p]) = t
                        /\ Since(p) = ticket[t].held}

RemindersSince(t, x) == AtLeast(notices[t]["reminder"], x)

\* Once a hold was reminded of, nobody new decides to remind of it, so the
\* reminders it has and those still to come are no more than the processes.
\* Between two holds it is enough to count the reminders of this instant.
Bounded(t) ==
    LET since == ticket[t].held IN
    IF since = None
      THEN Cardinality(RemindersSince(t, now)) <= Cardinality(Runners)
      ELSE \/ RemindersSince(t, since) = {}
           \/ Cardinality(RemindersSince(t, since)) + Cardinality(Reminding(t))
                 <= Cardinality(Runners)

RemindInv ==
    /\ \A p \in HoldPasses : holdPass[p] # Off => p \in running
    /\ \A p \in HoldPasses : holdPass[p].at = "remind" => Days >= 2
    /\ \A t \in Tickets : Bounded(t)

RemindersPerProcess ==
    \A t \in Tickets :
        ticket[t].held # None =>
            Cardinality(RemindersSince(t, ticket[t].held)) <= Cardinality(Runners)

\* The sizes the bound speaks of.
LEMMA RunnersFinite ==
    ASSUME IsFiniteSet(HoldPasses)
    PROVE  /\ IsFiniteSet(Runners) /\ Cardinality(Runners) \in Nat
           /\ \A S \in SUBSET Runners :
                 /\ IsFiniteSet(S) /\ Cardinality(S) \in Nat
                 /\ Cardinality(S) <= Cardinality(Runners)
<1>1. IsFiniteSet(Runners)
    BY FS_Subset DEF Runners
<1> QED
    BY <1>1, FS_Subset, FS_CardinalityType

LEMMA RemindingRuns ==
    ASSUME RemindInv, NEW t \in Tickets
    PROVE  Reminding(t) \in SUBSET Runners
BY DEF RemindInv, Reminding, Runners, Off

\* A reminder of a hold in force is written by a pass that decided to.
LEMMA BoundedNow ==
    ASSUME PassesInv, RemindInv, IsFiniteSet(HoldPasses), NEW t \in Tickets,
           ticket[t].held # None
    PROVE  Cardinality(RemindersSince(t, ticket[t].held)) <= Cardinality(Runners)
<1>1. notices[t]["reminder"] \in Seq(Instants)
    BY DEF PassesInv, PassesTypeOK, Kinds
<1>2. PICK n \in Nat, m \in Nat, k \in Nat :
         /\ n = Cardinality(RemindersSince(t, ticket[t].held))
         /\ m = Cardinality(Runners) /\ k = Cardinality(Reminding(t))
    BY <1>1, AtLeastFinite, RunnersFinite, RemindingRuns DEF RemindersSince
<1>3. RemindersSince(t, ticket[t].held) = {} => n = 0
    BY <1>2, FS_EmptySet
<1>4. RemindersSince(t, ticket[t].held) = {} \/ n + k <= m
    BY <1>2 DEF RemindInv, Bounded
<1>5. n <= m
    BY <1>2, <1>3, <1>4
<1> QED
    BY <1>2, <1>5

\* Nothing of a ticket's hold and reminders changes, and no pass decides to
\* remind of it: the bound stays.
LEMMA StaysBounded ==
    ASSUME PassesInv, PassesInv', RemindInv, IsFiniteSet(HoldPasses), NEW t \in Tickets,
           notices'[t]["reminder"] = notices[t]["reminder"],
           ticket'[t].held = ticket[t].held, running' = running, now <= now',
           Reminding(t)' \subseteq Reminding(t)
    PROVE  Bounded(t)'
<1>1. PICK q \in Seq(Instants) : q = notices[t]["reminder"]
    BY DEF PassesInv, PassesTypeOK, Kinds
<1>2. now \in Nat /\ now' \in Nat
    BY Numbers DEF PassesInv, PassesTypeOK
<1>3. Runners' = Runners /\ \A x : RemindersSince(t, x)' = AtLeast(q, x)
    BY <1>1 DEF Runners, RemindersSince
<1>4. Cardinality(Runners) \in Nat
    BY RunnersFinite
<1>5. Bounded(t) /\ \A x : RemindersSince(t, x) = AtLeast(q, x)
    BY <1>1 DEF RemindInv, RemindersSince
<1>6. CASE ticket[t].held = None
    <2>1. Cardinality(AtLeast(q, now)) <= Cardinality(Runners)
        BY <1>5, <1>6 DEF Bounded
    <2>2. Cardinality(AtLeast(q, now')) <= Cardinality(AtLeast(q, now))
        BY <1>2, AtLeastShrinks
    <2>3. Cardinality(AtLeast(q, now)) \in Nat /\ Cardinality(AtLeast(q, now')) \in Nat
        BY AtLeastFinite
    <2>4. Cardinality(AtLeast(q, now')) <= Cardinality(Runners)
        BY <1>4, <2>1, <2>2, <2>3
    <2> QED
        BY <1>3, <1>6, <2>4 DEF Bounded, RemindersSince
<1>7. CASE ticket[t].held # None
    <2>1. PICK since : since = ticket[t].held
        OBVIOUS
    <2>2. CASE AtLeast(q, since) = {}
        BY <1>3, <1>7, <2>1, <2>2 DEF Bounded
    <2>3. CASE AtLeast(q, since) # {}
        <3>1. Cardinality(AtLeast(q, since)) + Cardinality(Reminding(t)) <= Cardinality(Runners)
            BY <1>5, <1>7, <2>1, <2>3 DEF Bounded
        <3>2. /\ Cardinality(Reminding(t)) \in Nat
              /\ Cardinality(Reminding(t)') \in Nat
              /\ Cardinality(Reminding(t)') <= Cardinality(Reminding(t))
            BY RunnersFinite, RemindingRuns, FS_Subset, FS_CardinalityType
        <3>3. Cardinality(AtLeast(q, since)) \in Nat
            BY AtLeastFinite
        <3>4. Cardinality(AtLeast(q, since)) + Cardinality(Reminding(t)') <= Cardinality(Runners)
            BY <1>4, <3>1, <3>2, <3>3
        <3> QED
            BY <1>3, <1>7, <2>1, <3>4 DEF Bounded
    <2> QED
        BY <2>2, <2>3
<1> QED
    BY <1>6, <1>7

\* A hold ends: what was told of it was told to it, and that is bounded.
LEMMA EndsBounded ==
    ASSUME PassesInv, RemindInv, IsFiniteSet(HoldPasses), NEW t \in Tickets,
           notices'[t]["reminder"] = notices[t]["reminder"],
           ticket[t].held # None, ticket'[t].held = None, running' = running, now' = now
    PROVE  Bounded(t)'
<1>1. PICK q \in Seq(Instants) : q = notices[t]["reminder"]
    BY DEF PassesInv, PassesTypeOK, Kinds
<1>2. now \in Nat /\ ticket[t].held \in Nat /\ ticket[t].held <= now
    BY RowFields DEF RowSound
<1>3. Cardinality(AtLeast(q, ticket[t].held)) <= Cardinality(Runners)
    BY <1>1, BoundedNow DEF RemindersSince
<1>4. Cardinality(AtLeast(q, now)) <= Cardinality(AtLeast(q, ticket[t].held))
    BY <1>2, AtLeastShrinks
<1>5. /\ Cardinality(Runners) \in Nat /\ Cardinality(AtLeast(q, now)) \in Nat
      /\ Cardinality(AtLeast(q, ticket[t].held)) \in Nat
    BY AtLeastFinite, RunnersFinite
<1>6. Cardinality(AtLeast(q, now)) <= Cardinality(Runners)
    BY <1>3, <1>4, <1>5
<1> QED
    BY <1>1, <1>6 DEF Bounded, RemindersSince, Runners

\* A hold starts: no pass can have decided to remind of it yet.
LEMMA StartsBounded ==
    ASSUME PassesInv, RemindInv, IsFiniteSet(HoldPasses), NEW t \in Tickets,
           notices' = notices, holdPass' = holdPass,
           ticket[t].held = None, ticket'[t].held = now, running' = running
    PROVE  Bounded(t)'
<1>1. PICK q \in Seq(Instants) : q = notices[t]["reminder"]
    BY DEF PassesInv, PassesTypeOK, Kinds
<1>2. Cardinality(AtLeast(q, now)) <= Cardinality(Runners)
    BY <1>1 DEF RemindInv, Bounded, RemindersSince
<1>3. Reminding(t)' = {}
    <2> SUFFICES ASSUME NEW p \in HoldPasses, holdPass[p].at = "remind", Since(p) = now
                 PROVE  FALSE
        BY DEF Reminding, Since, Current
    <2>1. /\ Since(p) \in Nat /\ holdPass[p].now \in Nat /\ holdPass[p].now <= now
          /\ holdPass[p].now >= Since(p) + Days - 1
        BY HoldAtTicket DEF PassesInv, HoldSound, Since
    <2>2. Days >= 2 /\ Days \in Nat
        BY Numbers DEF RemindInv
    <2> QED
        BY <2>1, <2>2
<1>4. /\ Cardinality({}) = 0 /\ Cardinality(Runners) \in Nat
      /\ Cardinality(AtLeast(q, now)) \in Nat
    BY FS_EmptySet, AtLeastFinite, RunnersFinite
<1>5. Cardinality(AtLeast(q, now)) + Cardinality(Reminding(t)') <= Cardinality(Runners)
    BY <1>2, <1>3, <1>4
<1>6. now # None
    BY RowFields
<1> QED
    BY <1>1, <1>5, <1>6 DEF Bounded, RemindersSince, Runners

\* A reminder is written: there is one more, and one fewer to come.
LEMMA RemindedBounded ==
    ASSUME PassesInv, RemindInv, IsFiniteSet(HoldPasses), NEW t \in Tickets,
           NEW p \in Reminding(t), NEW v \in Instants,
           notices'[t]["reminder"] = Append(notices[t]["reminder"], v),
           ticket' = ticket, running' = running, ticket[t].held # None,
           Reminding(t)' \subseteq Reminding(t) \ {p}
    PROVE  Bounded(t)'
<1>1. PICK q \in Seq(Instants) : q = notices[t]["reminder"]
    BY DEF PassesInv, PassesTypeOK, Kinds
<1>2. PICK since : since = ticket[t].held
    OBVIOUS
<1>3. PICK S : S = Reminding(t)
    OBVIOUS
<1>4. /\ IsFiniteSet(S) /\ Cardinality(S) \in Nat
      /\ Cardinality(S) <= Cardinality(Runners) /\ Cardinality(Runners) \in Nat
    BY <1>3, RunnersFinite, RemindingRuns
<1>5. /\ IsFiniteSet(S \ {p}) /\ Cardinality(S \ {p}) = Cardinality(S) - 1
    BY <1>3, <1>4, FS_RemoveElement
<1>6. /\ Cardinality(Reminding(t)') \in Nat
      /\ Cardinality(Reminding(t)') <= Cardinality(S) - 1
    BY <1>3, <1>5, FS_Subset, FS_CardinalityType
<1>7. PICK long \in Seq(Instants) : long = Append(q, v)
    BY AppendProperties
<1>8. PICK n \in Nat, m \in Nat :
         /\ n = Cardinality(AtLeast(q, since)) /\ m = Cardinality(AtLeast(long, since))
         /\ m <= n + 1
    BY <1>7, AtLeastFinite, AtLeastAppended
<1>9. AtLeast(q, since) = {} => n = 0
    BY <1>8, FS_EmptySet
<1>10. AtLeast(q, since) = {} \/ n + Cardinality(S) <= Cardinality(Runners)
    BY <1>1, <1>2, <1>3, <1>8 DEF RemindInv, Bounded, RemindersSince
<1>11. m + Cardinality(Reminding(t)') <= Cardinality(Runners)
    BY <1>4, <1>6, <1>8, <1>9, <1>10
<1> QED
    BY <1>1, <1>2, <1>7, <1>8, <1>11 DEF Bounded, RemindersSince, Runners

\* A pass that goes anywhere but to a reminder decides to remind of nothing.
LEMMA PassLeaves ==
    ASSUME PassesInv, NEW p \in HoldPasses, NEW s, s.at # "remind", GoHold(p, s),
           NEW t \in Tickets, ticket'[t].held = ticket[t].held
    PROVE  Reminding(t)' \subseteq Reminding(t) \ {p}
<1>1. /\ holdPass'[p] = s /\ \A q \in HoldPasses : q # p => holdPass'[q] = holdPass[q]
    BY DEF GoHold, PassesInv, PassesTypeOK
<1> SUFFICES ASSUME NEW q \in HoldPasses, holdPass'[q].at = "remind", Current(holdPass'[q]) = t,
                    Since(q)' = ticket[t].held
             PROVE  q \in Reminding(t) /\ q # p
    BY DEF Reminding, Current
<1>2. q # p /\ holdPass'[q] = holdPass[q]
    BY <1>1
<1>3. Since(q)' = Since(q)
    BY <1>2 DEF Since, Current
<1> QED
    BY <1>2, <1>3 DEF Reminding

\* A pass goes on, elsewhere than to a reminder, and tells nobody.
LEMMA RemindInvGoes ==
    ASSUME PassesInv, PassesInv', RemindInv, IsFiniteSet(HoldPasses),
           NEW p \in HoldPasses, p \in running, NEW s, s.at # "remind", GoHold(p, s),
           notices' = notices,
           \A t \in Tickets : ticket'[t].held \in {ticket[t].held, None}
    PROVE  RemindInv'
<1>1. /\ holdPass'[p] = s /\ \A q \in HoldPasses : q # p => holdPass'[q] = holdPass[q]
      /\ running' = running /\ now' = now
    BY DEF GoHold, PassesInv, PassesTypeOK
<1>2. now <= now'
    BY <1>1, Numbers DEF PassesInv, PassesTypeOK
<1>3. ASSUME NEW t \in Tickets PROVE Bounded(t)'
    <2>1. CASE ticket'[t].held = ticket[t].held
        BY <1>1, <1>2, <2>1, PassLeaves, StaysBounded
    <2>2. CASE ticket[t].held # None /\ ticket'[t].held = None
        BY <1>1, <2>2, EndsBounded
    <2> QED
        BY <2>1, <2>2
<1>4. \A q \in HoldPasses : holdPass'[q] # Off => q \in running'
    BY <1>1 DEF RemindInv
<1>5. \A q \in HoldPasses : holdPass'[q].at = "remind" => Days >= 2
    BY <1>1 DEF RemindInv
<1> QED
    BY <1>3, <1>4, <1>5 DEF RemindInv

\* A step that leaves the expiry passes and their reminders alone.
LEMMA RemindInvStays ==
    ASSUME PassesInv, PassesInv', RemindInv, IsFiniteSet(HoldPasses),
           holdPass' = holdPass, running' = running, now <= now',
           \A t \in Tickets : /\ notices'[t]["reminder"] = notices[t]["reminder"]
                              /\ \/ ticket'[t].held = ticket[t].held
                                 \/ Bounded(t)'
    PROVE  RemindInv'
<1>1. ASSUME NEW t \in Tickets PROVE Bounded(t)'
    <2>1. CASE ticket'[t].held = ticket[t].held
        <3>1. Reminding(t)' = Reminding(t)
            BY <2>1 DEF Reminding, Since, Current
        <3> QED
            BY <2>1, <3>1, StaysBounded
    <2> QED
        BY <2>1
<1>2. \A q \in HoldPasses : holdPass'[q] # Off => q \in running'
    BY DEF RemindInv
<1>3. \A q \in HoldPasses : holdPass'[q].at = "remind" => Days >= 2
    BY DEF RemindInv
<1> QED
    BY <1>1, <1>2, <1>3 DEF RemindInv

\* The decision to remind: only of a hold nobody was reminded of.
LEMMA CheckBounded ==
    ASSUME PassesInv, PassesInv', RemindInv, IsFiniteSet(HoldPasses),
           NEW p \in HoldPasses, NEW u \in Tickets, CheckReminder(p, u)
    PROVE  RemindInv'
<1>1. /\ holdPass[p].at = "judge" /\ Current(holdPass[p]) = u /\ ToRemind(p)
      /\ UNCHANGED <<ticket, notices>>
    BY DEF CheckReminder, Judging
<1>2. p \in running
    BY <1>1, HoldAtTicket DEF RemindInv
<1>3. CASE GoHold(p, Judged(holdPass[p], "judge"))
    <2>1. \A t \in Tickets : ticket'[t].held \in {ticket[t].held, None}
        BY <1>1
    <2> QED
        BY <1>1, <1>2, <1>3, <2>1, HoldJudged, RemindInvGoes
<1>4. CASE /\ ~Notified(u, "reminder", Since(p))
           /\ GoHold(p, [holdPass[p] EXCEPT !.at = "remind"])
    <2>1. PICK s \in HoldPassStates :
             /\ s = [holdPass[p] EXCEPT !.at = "remind"]
             /\ s.at = "remind" /\ s.page = holdPass[p].page
        BY <1>1, ToRemindState
    <2>2. /\ holdPass'[p] = s /\ \A q \in HoldPasses : q # p => holdPass'[q] = holdPass[q]
          /\ running' = running /\ now' = now
        BY <1>4, <2>1 DEF GoHold, PassesInv, PassesTypeOK
    <2>3. Current(holdPass'[p]) = u /\ Since(p)' = Since(p)
        BY <1>1, <2>1, <2>2 DEF Current, Since
    <2>4. now <= now'
        BY <2>2, Numbers DEF PassesInv, PassesTypeOK
    <2>5. ASSUME NEW t \in Tickets PROVE Bounded(t)'
        <3>1. CASE t = u /\ ticket[t].held = Since(p)
            <4>1. RemindersSince(t, Since(p)) = {}
                BY <1>4, <3>1 DEF Notified, RemindersSince, AtLeast
            <4>2. ticket[t].held # None
                BY <1>1, <3>1, HoldAtTicket
            <4>3. RemindersSince(t, Since(p))' = RemindersSince(t, Since(p))
                BY <1>1, <2>3 DEF RemindersSince
            <4> QED
                BY <1>1, <2>3, <3>1, <4>1, <4>2, <4>3 DEF Bounded, RemindersSince
        <3>2. CASE ~(t = u /\ ticket[t].held = Since(p))
            <4> SUFFICES Reminding(t)' \subseteq Reminding(t)
                BY <1>1, <2>2, <2>4, StaysBounded
            <4> SUFFICES ASSUME NEW q \in HoldPasses, holdPass'[q].at = "remind",
                                Current(holdPass'[q]) = t, Since(q)' = ticket[t].held
                         PROVE  q \in Reminding(t)
                BY <1>1 DEF Reminding, Current
            <4>1. q # p
                BY <2>3, <3>2
            <4>2. holdPass'[q] = holdPass[q] /\ Since(q)' = Since(q)
                BY <2>2, <4>1 DEF Since, Current
            <4> QED
                BY <4>2 DEF Reminding
        <3> QED
            BY <3>1, <3>2
    <2>6. \A q \in HoldPasses : holdPass'[q] # Off => q \in running'
        BY <1>2, <2>2 DEF RemindInv
    <2>7. \A q \in HoldPasses : holdPass'[q].at = "remind" => Days >= 2
        BY <1>1 DEF ToRemind
    <2> QED
        BY <2>5, <2>6, <2>7 DEF RemindInv
<1> QED
    BY <1>3, <1>4 DEF CheckReminder

\* The reminder itself, if the hold is still the one the pass read.
LEMMA RemindBounded ==
    ASSUME PassesInv, PassesInv', RemindInv, IsFiniteSet(HoldPasses),
           NEW p \in HoldPasses, NEW u \in Tickets, Remind(p, u)
    PROVE  RemindInv'
<1>1. /\ holdPass[p].at = "remind" /\ Current(holdPass[p]) = u
      /\ GoHold(p, Judged(holdPass[p], "judge")) /\ ticket' = ticket
    BY DEF Remind
<1>2. p \in running
    BY <1>1, HoldAtTicket DEF RemindInv
<1>3. PICK s : s = Judged(holdPass[p], "judge") /\ s.at # "remind"
    BY <1>1, HoldJudged
<1>4. CASE notices' = notices
    BY <1>1, <1>2, <1>3, <1>4, RemindInvGoes
<1>5. CASE ticket[u].held = Since(p) /\ Notify(u, "reminder", holdPass[p].now)
    <2>1. holdPass[p].now \in Instants
        BY <1>1, HoldStates DEF PassesInv, PassesTypeOK, Handling
    <2>2. /\ notices'[u]["reminder"] = Append(notices[u]["reminder"], holdPass[p].now)
          /\ \A t \in Tickets : t # u => notices'[t]["reminder"] = notices[t]["reminder"]
        BY <1>5, <2>1, NotedOf DEF Kinds
    <2>3. /\ holdPass'[p] = s /\ \A q \in HoldPasses : q # p => holdPass'[q] = holdPass[q]
          /\ running' = running /\ now' = now
        BY <1>1, <1>3 DEF GoHold, PassesInv, PassesTypeOK
    <2>4. now <= now'
        BY <2>3, Numbers DEF PassesInv, PassesTypeOK
    <2>5. ASSUME NEW t \in Tickets PROVE Bounded(t)'
        <3>1. Reminding(t)' \subseteq Reminding(t) \ {p}
            BY <1>1, <1>3, PassLeaves
        <3>2. CASE t = u
            <4>1. p \in Reminding(t) /\ ticket[t].held # None
                BY <1>1, <1>5, <3>2, HoldAtTicket DEF Reminding
            <4> QED
                BY <1>1, <2>1, <2>2, <2>3, <3>1, <3>2, <4>1, RemindedBounded
        <3>3. CASE t # u
            BY <1>1, <2>2, <2>3, <2>4, <3>1, <3>3, StaysBounded
        <3> QED
            BY <3>2, <3>3
    <2>6. \A q \in HoldPasses : holdPass'[q] # Off => q \in running'
        BY <1>2, <2>3 DEF RemindInv
    <2>7. \A q \in HoldPasses : holdPass'[q].at = "remind" => Days >= 2
        BY <1>3, <2>3 DEF RemindInv
    <2> QED
        BY <2>5, <2>6, <2>7 DEF RemindInv
<1> QED
    BY <1>4, <1>5 DEF Remind

\* Every step keeps the bound.
LEMMA RemindStep ==
    ASSUME IsFiniteSet(HoldPasses), PassesInv, RemindInv, [Next]_vars
    PROVE  RemindInv'
<1>0. PassesInv' /\ now \in Nat
    BY StepSound, Numbers DEF PassesInv, PassesTypeOK
<1>1. ASSUME NEW p \in HoldPasses, StartHoldPass(p) \/ AbortHoldPass(p) PROVE RemindInv'
    <2>1. PICK s : GoHold(p, s) /\ s.at # "remind"
        BY <1>1 DEF StartHoldPass, AbortHoldPass, Off
    <2>2. p \in running /\ UNCHANGED <<ticket, notices>>
        BY <1>1 DEF StartHoldPass, AbortHoldPass, RemindInv
    <2> QED
        BY <1>0, <2>1, <2>2, RemindInvGoes
<1>2. ASSUME NEW p \in HoldPasses, ListHeld(p) PROVE RemindInv'
    <2>1. PICK s : GoHold(p, s)
        BY <1>2 DEF ListHeld
    <2>2. s.at # "remind"
        BY <1>2, <2>1, ListHeldSound DEF GoHold, PassesInv, PassesTypeOK
    <2>3. p \in running /\ UNCHANGED <<ticket, notices>>
        BY <1>2 DEF ListHeld, RemindInv, Off
    <2> QED
        BY <1>0, <2>1, <2>2, <2>3, RemindInvGoes
<1>3. ASSUME NEW p \in HoldPasses, NEW u \in Tickets, JudgeHold(p, u) \/ RemindOf(p, u)
      PROVE  RemindInv'
    <2>1. CASE CheckReminder(p, u)
        BY <1>0, <2>1, CheckBounded
    <2>2. CASE Remind(p, u)
        BY <1>0, <2>2, RemindBounded
    <2>3. CASE CloseExpired(p, u) \/ NotDue(p, u) \/ RequesterUnreachable(p, u)
        <3>1. /\ holdPass[p].at \in {"judge", "remind"} /\ notices' = notices
              /\ GoHold(p, Judged(holdPass[p], "judge"))
            BY <2>3 DEF CloseExpired, NotDue, RequesterUnreachable, Judging
        <3>2. p \in running
            BY <3>1, HoldAtTicket DEF RemindInv
        <3>3. ticket' = ticket \/ ticket' = [ticket EXCEPT ![u].open = FALSE, ![u].held = None]
            BY <2>3 DEF CloseExpired, NotDue, RequesterUnreachable
        <3>4. \A t \in Tickets : ticket'[t].held \in {ticket[t].held, None}
            BY <3>3 DEF PassesInv, PassesTypeOK, TicketRow
        <3> QED
            BY <1>0, <3>1, <3>2, <3>4, HoldJudged, RemindInvGoes
    <2> QED
        BY <1>3, <2>1, <2>2, <2>3 DEF JudgeHold, RemindOf
<1>4. ASSUME NEW p \in AlertPasses,
             StartAlertPass(p) \/ ListCandidates(p) \/ ReadFacts(p) \/ AbortAlertPass(p)
      PROVE  RemindInv'
    <2>1. UNCHANGED <<ticket, holdPass, now, running, notices>>
        BY <1>4 DEF StartAlertPass, ListCandidates, ReadFacts, AbortAlertPass, GoAlert
    <2>2. now <= now'
        BY <1>0, <2>1
    <2> QED
        BY <1>0, <2>1, <2>2, RemindInvStays
<1>5. ASSUME NEW p \in AlertPasses, NEW u \in Tickets,
             AlertBreach(p, u) \/ AlertNoMovement(p, u) \/ AssigneeUnreachable(p, u)
      PROVE  RemindInv'
    <2>1. /\ UNCHANGED <<ticket, holdPass, now, running>>
          /\ \A t \in Tickets : notices'[t].reminder = notices[t].reminder
        BY <1>5, AlertsLeaveHolds
        DEF AlertBreach, AlertNoMovement, AssigneeUnreachable, GoAlert
    <2>2. now <= now'
        BY <1>0, <2>1
    <2> QED
        BY <1>0, <2>1, <2>2, RemindInvStays
<1>6. ASSUME NEW u \in Tickets, PutOnHold(u) \/ EndHold(u) \/ Work(u) \/ Resolve(u)
      PROVE  RemindInv'
    <2>1. /\ UNCHANGED <<notices, holdPass, now, running>>
          /\ \A t \in Tickets : t # u => ticket'[t] = ticket[t]
        BY <1>6 DEF PutOnHold, EndHold, Work, Resolve, Change, PassesInv, PassesTypeOK
    <2>2. PICK old \in TicketRow : old = ticket[u]
        BY RowFields
    <2>3. \/ old.held = None /\ ticket'[u].held = now
          \/ ticket'[u].held = None
          \/ ticket'[u].held = old.held
        <3>1. PICK row : /\ ticket' = [ticket EXCEPT ![u] = row]
                         /\ \/ old.held = None /\ row.held = now
                            \/ row.held = None
                            \/ row.held = old.held
            <4>1. CASE PutOnHold(u)
                <5>1. PICK row : row = [old EXCEPT !.held = now, !.activity = now]
                    OBVIOUS
                <5>2. row.held = now
                    BY <5>1 DEF TicketRow
                <5>3. ticket' = [ticket EXCEPT ![u] = row] /\ old.held = None
                    BY <2>2, <4>1, <5>1 DEF PutOnHold, Change, Open, Held
                <5> QED
                    BY <5>2, <5>3
            <4>2. CASE EndHold(u)
                <5>1. PICK row : row = [old EXCEPT !.held = None, !.activity = now,
                                               !.due = old.due + (now - old.held)]
                    OBVIOUS
                <5>2. row.held = None
                    BY <5>1 DEF TicketRow
                <5>3. ticket' = [ticket EXCEPT ![u] = row]
                    BY <2>2, <4>2, <5>1 DEF EndHold, Change
                <5> QED
                    BY <5>2, <5>3
            <4>3. CASE Work(u)
                <5>1. PICK row : row = [old EXCEPT !.activity = now]
                    OBVIOUS
                <5>2. row.held = old.held
                    BY <5>1 DEF TicketRow
                <5>3. ticket' = [ticket EXCEPT ![u] = row]
                    BY <2>2, <4>3, <5>1 DEF Work, Change
                <5> QED
                    BY <5>2, <5>3
            <4>4. CASE Resolve(u)
                <5>1. PICK row : row = [old EXCEPT !.open = FALSE, !.held = None]
                    OBVIOUS
                <5>2. row.held = None
                    BY <5>1 DEF TicketRow
                <5>3. ticket' = [ticket EXCEPT ![u] = row]
                    BY <2>2, <4>4, <5>1 DEF Resolve, Change
                <5> QED
                    BY <5>2, <5>3
            <4> QED
                BY <1>6, <4>1, <4>2, <4>3, <4>4
        <3> QED
            BY <3>1 DEF PassesInv, PassesTypeOK
    <2>4. ticket'[u].held = ticket[u].held \/ Bounded(u)'
        BY <2>1, <2>2, <2>3, StartsBounded, EndsBounded
    <2>5. now <= now'
        BY <1>0, <2>1
    <2>6. ASSUME NEW t \in Tickets
          PROVE  ticket'[t].held = ticket[t].held \/ Bounded(t)'
        BY <2>1, <2>4
    <2> QED
        BY <1>0, <2>1, <2>5, <2>6, RemindInvStays
<1>7. CASE Tick \/ UNCHANGED vars
    <2>1. UNCHANGED <<ticket, holdPass, running, notices>> /\ now <= now'
        BY <1>0, <1>7 DEF Tick, vars
    <2> QED
        BY <1>0, <2>1, RemindInvStays
<1> QED
    BY <1>1, <1>2, <1>3, <1>4, <1>5, <1>6, <1>7 DEF Next

\* No hold is reminded of more often than there are processes that expire
\* holds, though each looks for an earlier reminder outside the transaction
\* that writes its own (remindRequester in hold_expiry.go).
THEOREM RemindersBoundedByProcesses ==
    ASSUME IsFiniteSet(HoldPasses)
    PROVE  Spec => []RemindersPerProcess
<1>1. Init => RemindInv
    <2> SUFFICES ASSUME Init PROVE RemindInv
        OBVIOUS
    <2>1. \A p \in HoldPasses : holdPass[p] = Off
        BY DEF Init
    <2>2. ASSUME NEW t \in Tickets PROVE Bounded(t)
        <3>1. notices[t]["reminder"] = <<>>
            BY DEF Init, Kinds
        <3>2. \A x : RemindersSince(t, x) = {}
            BY <3>1 DEF RemindersSince, AtLeast
        <3>3. Cardinality({}) = 0 /\ Cardinality(Runners) \in Nat
            BY FS_EmptySet, RunnersFinite
        <3> QED
            BY <3>2, <3>3 DEF Bounded
    <2> QED
        BY <2>1, <2>2 DEF RemindInv, Off
<1>2. PassesInv /\ RemindInv /\ [Next]_vars => RemindInv'
    BY RemindStep
<1>3. PassesInv /\ RemindInv => RemindersPerProcess
    BY BoundedNow DEF RemindersPerProcess
<1> QED
    BY <1>1, <1>2, <1>3, PassesInvHolds, PTL DEF Spec
=============================================================================
