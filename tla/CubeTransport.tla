--------------------------- MODULE CubeTransport ---------------------------
(***************************************************************************)
(* What the stages of a pick promise: a cube is taken from the table and   *)
(* let go in a bin.  It is let go anywhere else only after a pipeline that *)
(* held it has failed.                                                     *)
(***************************************************************************)
EXTENDS Naturals

CONSTANT N   \* cubes on the table at the start

VARIABLES
  table,    \* cubes on the table
  held,     \* cubes in the hand
  bin,      \* cubes let go in a bin
  trouble   \* a pipeline has failed since the last cube was taken

vars == <<table, held, bin, trouble>>

Init == table = N /\ held = 0 /\ bin = 0 /\ trouble = FALSE

Take ==
  /\ table > 0 /\ held = 0
  /\ table' = table - 1 /\ held' = 1
  /\ trouble' \in BOOLEAN
  /\ UNCHANGED bin

Place ==
  /\ held = 1
  /\ held' = 0 /\ bin' = bin + 1
  /\ UNCHANGED <<table, trouble>>

Fail ==
  /\ trouble' = TRUE
  /\ UNCHANGED <<table, held, bin>>

(* A cube dropped elsewhere, back on the table or out of reach. *)
Drop ==
  /\ held = 1 /\ trouble
  /\ held' = 0
  /\ table' \in {table, table + 1}
  /\ UNCHANGED <<bin, trouble>>

(* A failing pipeline may drop the cube by the failing step itself. *)
DropAndFail ==
  /\ held = 1
  /\ held' = 0 /\ trouble' = TRUE
  /\ \/ table' \in {table, table + 1} /\ UNCHANGED bin
     \/ bin' = bin + 1 /\ UNCHANGED table

Next == Take \/ Place \/ Fail \/ Drop \/ DropAndFail

Spec == Init /\ [][Next]_vars
=============================================================================
