--------------------------- MODULE MCEmailOutbox ---------------------------
(***************************************************************************)
(* Small instances of EmailOutbox: the constants a .cfg cannot write.      *)
(* The emails are numbered, because claims are ordered by id.              *)
(***************************************************************************)
EXTENDS EmailOutbox

OneRetry == <<1>>
TwoRetries == <<1, 2>>
=============================================================================
