------------------------- MODULE MCBackgroundPasses --------------------------
(***************************************************************************)
(* Instances of BackgroundPasses for TLC.                                  *)
(***************************************************************************)
EXTENDS BackgroundPasses

\* Holds expire over two pages; two alert passes overlap over one ticket; and
\* one pass of each kind runs beside the other.
CONSTANTS h1, a1, a2
Scenario(p, o, c, a) ==
    [passes |-> p, open |-> o, changes |-> c, alertRuns |-> a]
HoldsAndAlerts ==
    {Scenario({h1}, {1, 2}, 2, 0), Scenario({a1, a2}, {1}, 1, 2),
     Scenario({h1, a1}, {1}, 1, 1), Scenario({a1}, {1, 2}, 1, 1)}
=============================================================================
