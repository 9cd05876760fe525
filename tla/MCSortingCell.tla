--------------------------- MODULE MCSortingCell ---------------------------
(***************************************************************************)
(* A small instance of SortingCell: two spots, a green cube on the table   *)
(* and a red one that the spawner may bring.                               *)
(***************************************************************************)
EXTENDS SortingCell

MCSpot == {"near", "far"}
MCCube == {"g", "r"}
MCColor == {"green", "red_low"}
MCRank == [c \in MCColor |-> IF c = "green" THEN 1 ELSE 2]
MCShown == [c \in MCCube |-> IF c = "g" THEN {"green"} ELSE {"red_low"}]
MCHides == {{"near"}}
MCBin == {"green_bin", "red_bin"}
MCBinOfColor == [c \in MCColor |-> IF c = "green" THEN "green_bin" ELSE "red_bin"]
MCFirstCubes == {[g |-> "near", r |-> "unborn"]}
=============================================================================
