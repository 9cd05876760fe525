----------------------- MODULE MCGripperActionServer -----------------------
(***************************************************************************)
(* Small instances of GripperActionServer: a move of executeCommand, and   *)
(* gripper_action goals in and out of range, of which the first is a move  *)
(* or a grasp by the width it finds.                                       *)
(***************************************************************************)
EXTENDS GripperActionServer

MCGoal == {"move", "half", "wide"}
MCTask == [g \in MCGoal |-> IF g = "move" THEN "move" ELSE "gripper_action"]
MCTarget == [g \in MCGoal |-> CASE g = "move" -> 0 [] g = "half" -> 1 [] OTHER -> 3]
=============================================================================
