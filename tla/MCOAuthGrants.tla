---------------------------- MODULE MCOAuthGrants ---------------------------
(***************************************************************************)
(* Small instances of OAuthGrants.                                         *)
(***************************************************************************)
EXTENDS OAuthGrants, TLC

Symmetry == Permutations(Clients) \cup Permutations(Codes) \cup Permutations(Requests)
=============================================================================
