---------------------------- MODULE MCPickStages ----------------------------
(***************************************************************************)
(* Small instance of PickStages.                                           *)
(***************************************************************************)
EXTENDS PickStages
=============================================================================
