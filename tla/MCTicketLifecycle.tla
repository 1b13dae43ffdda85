------------------------- MODULE MCTicketLifecycle -------------------------
(***************************************************************************)
(* Instances of TicketLifecycle for TLC.                                   *)
(***************************************************************************)
EXTENDS TicketLifecycle, TLC

\* A claim, then a manual task whose completion resolves the ticket.
ClaimThenResolve == <<"claim", "manual_task", "resolve">>

\* Routed at creation, a requester form, then a claim behind which the ticket
\* is routed again and closed.
RoutedForms == <<"least_loaded", "requester_form", "claim", "least_loaded", "close">>

RequestSymmetry == Permutations(Requests)
AgentSymmetry == Permutations(Agents)
BothSymmetry == RequestSymmetry \cup AgentSymmetry
=============================================================================
