--------------------------- MODULE MCPickPlaceNode ---------------------------
(***************************************************************************)
(* A small instance of PickPlaceNode: two poses on the table, one off it,  *)
(* a colour with a bin of its own, a colour without one and the fallback.  *)
(***************************************************************************)
EXTENDS PickPlaceNode

MCPose == {"p1", "p2", "off", "origin"}
MCTablePose == {"p1", "p2"}
MCColor == {"", "green", "black", "purple"}
MCBin == {"green_bin", "black_bin"}
MCBinPoses == [c \in {"green", "black"} |-> IF c = "green" THEN "green_bin" ELSE "black_bin"]

Det(p, c) == [pose |-> p, color |-> c]

(* An empty array, arrays with one cube on the table, and one whose first  *)
(* cube is off the table and hides the second.                             *)
MCMessages ==
  { << >>, <<Det("p1", "green")>>, <<Det("p2", "purple")>>,
    <<Det("off", "green"), Det("p1", "green")>> }
=============================================================================
