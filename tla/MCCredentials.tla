---------------------------- MODULE MCCredentials ----------------------------
(***************************************************************************)
(* Instances of Credentials for TLC.                                       *)
(***************************************************************************)
EXTENDS Credentials, TLC

CredentialsSymmetry ==
    Permutations(Links) \cup Permutations(Sessions) \cup Permutations(Requests)
=============================================================================
