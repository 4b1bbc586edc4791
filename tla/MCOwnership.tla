---------------------------- MODULE MCOwnership ----------------------------
(***************************************************************************)
(* Small instances of the controller with the history of lapses for TLC.   *)
(***************************************************************************)
EXTENDS MCController, KCLRunOwnership
=============================================================================
