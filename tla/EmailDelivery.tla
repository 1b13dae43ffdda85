--------------------------- MODULE EmailDelivery ---------------------------
(***************************************************************************)
(* What email delivery promises for each notification: at most one copy    *)
(* reaches the recipient, a recorded outcome is final, and it never claims *)
(* a delivery that did not happen, or denies one that did by calling it    *)
(* skipped.  How often and when a delivery is tried is left open.          *)
(***************************************************************************)
EXTENDS Naturals

CONSTANT Emails

VARIABLES
    outcome,   \* per email: what the system records about it
    copies     \* per email: the copies the mail server accepted

deliveryVars == <<outcome, copies>>


DeliveryInit ==
    /\ outcome = [e \in Emails |-> "none"]
    /\ copies = [e \in Emails |-> 0]

Unrecorded(e) == outcome'[e] = outcome[e]

Queued(e) == outcome[e] = "none" /\ outcome'[e] = "open"

\* An outcome is recorded once, and agrees with what reached the recipient.
\* Failed promises nothing: the copy may or may not have arrived.
Settled(e) ==
    /\ outcome[e] = "open"
    /\ \/ outcome'[e] = "sent" /\ copies[e] = 1
       \/ outcome'[e] = "skipped" /\ copies[e] = 0
       \/ outcome'[e] = "failed"

\* The notification is gone, and its record with it.
Dropped(e) == outcome[e] # "none" /\ outcome'[e] = "dropped"

\* A first copy arrives, while nothing denies it.
Delivered(e) ==
    /\ copies[e] = 0 /\ copies'[e] = 1
    /\ outcome[e] \in {"open", "failed", "dropped"}
    /\ Unrecorded(e)

DeliveryNext ==
    \A e \in Emails :
        \/ Delivered(e)
        \/ /\ copies'[e] = copies[e]
           /\ Unrecorded(e) \/ Queued(e) \/ Settled(e) \/ Dropped(e)

DeliverySpec == DeliveryInit /\ [][DeliveryNext]_deliveryVars
=============================================================================
