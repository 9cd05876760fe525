--------------------------- MODULE MCRobotServices ---------------------------
(* Two services that write the same parameter; three calls, so that it is  *)
(* set, set again and fails to be set; two recovery goals.                 *)
EXTENDS RobotServices

Services == {"SetForceTorqueCollisionBehavior", "SetFullCollisionBehavior"}
==============================================================================
