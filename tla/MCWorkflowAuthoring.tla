------------------------ MODULE MCWorkflowAuthoring ------------------------
(***************************************************************************)
(* Instances of WorkflowAuthoring for TLC.                                 *)
(***************************************************************************)
EXTENDS WorkflowAuthoring, TLC

AuthoringSymmetry == Permutations(Tabs) \cup Permutations(Categories)
=============================================================================
