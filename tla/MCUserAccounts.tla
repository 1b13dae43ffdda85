--------------------------- MODULE MCUserAccounts ---------------------------
(***************************************************************************)
(* Instances of UserAccounts for TLC.                                      *)
(***************************************************************************)
EXTENDS UserAccounts, TLC

AccountSymmetry ==
    Permutations(People) \cup Permutations(Emails) \cup Permutations(Subjects)
        \cup Permutations(Requests)
=============================================================================
