------------------------------ MODULE PickJobs ------------------------------
(***************************************************************************)
(* What the pick-and-place node promises, without threads, flags or locks: *)
(* it remembers the last on-table detection it accepted, works on one      *)
(* detection at a time, always on the one it last accepted when it starts, *)
(* and never starts more than twice on the same accepted detection.        *)
(*                                                                         *)
(* "Twice" and not "once": the code may copy a detection before the        *)
(* callback that stored it raises new_cube_available_, and then starts     *)
(* again on it.  PickPlaceNode implements this specification.              *)
(***************************************************************************)
EXTENDS Naturals

CONSTANTS TablePose, Color

OnTableDetection == [pose : TablePose, color : Color]

VARIABLES
  accepted,   \* the last accepted detection: a set of at most one
  starts,     \* times a job was started on it
  job         \* the detection being worked on: a set of at most one

jobVars == <<accepted, starts, job>>

Init == accepted = {} /\ starts = 0 /\ job = {}

Accept(d) ==
  /\ accepted' = {d} /\ starts' = 0
  /\ UNCHANGED job

Start ==
  /\ job = {} /\ accepted # {}
  /\ starts < 2
  /\ job' = accepted
  /\ starts' = starts + 1
  /\ UNCHANGED accepted

Finish ==
  /\ job # {}
  /\ job' = {}
  /\ UNCHANGED <<accepted, starts>>

Next == (\E d \in OnTableDetection : Accept(d)) \/ Start \/ Finish

Spec == Init /\ [][Next]_jobVars
=============================================================================
