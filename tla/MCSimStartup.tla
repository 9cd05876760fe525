---------------------------- MODULE MCSimStartup ----------------------------
(***************************************************************************)
(* SimStartup has no constants and is finite.                              *)
(***************************************************************************)
EXTENDS SimStartup
=============================================================================
