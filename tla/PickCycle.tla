----------------------------- MODULE PickCycle -----------------------------
(***************************************************************************)
(* The hand-over between the callback and the MTC thread of the            *)
(* pick-and-place node, without the mutex, the planning scene and the      *)
(* shutdown: a detection is checked, stored and announced, and the MTC     *)
(* thread copies it, lowers the flag, marks the pipeline as executing,     *)
(* reads the target once more for the bin, and ends the pipeline.          *)
(* PickPlaceNode implements this cycle, SortingCell composes it with the   *)
(* camera, the vision node and the table.                                  *)
(***************************************************************************)
CONSTANTS
  Detection,   \* detections on the table
  Bin,         \* the bins of the known colours
  BinOf        \* of each detection: the bin its colour selects

VARIABLES
  executor,             \* the node's callback: idle, checked or stored
  first_detection,      \* what it checked and has not stored
  target,               \* target_cube_pose and target_cube_color
  new_cube_available_,
  mtc,                  \* the MTC thread: poll, copied, cleared or running
  job,                  \* its copy of the target
  place                 \* none, or the bin it read for it

cycleVars == <<executor, first_detection, target, new_cube_available_, mtc, job, place>>

Init ==
  /\ executor = "idle" /\ first_detection = {}
  /\ target = {} /\ new_cube_available_ = FALSE
  /\ mtc = "poll" /\ job = {} /\ place = {}

Checks(d) ==
  /\ executor = "idle" /\ mtc # "running"
  /\ executor' = "checked" /\ first_detection' = {d}
  /\ UNCHANGED <<target, new_cube_available_, mtc, job, place>>

Stores ==
  /\ executor = "checked"
  /\ executor' = "stored"
  /\ target' = first_detection /\ first_detection' = {}
  /\ UNCHANGED <<new_cube_available_, mtc, job, place>>

Flags ==
  /\ executor = "stored"
  /\ executor' = "idle" /\ new_cube_available_' = TRUE
  /\ UNCHANGED <<first_detection, target, mtc, job, place>>

Copies ==
  /\ mtc = "poll" /\ new_cube_available_
  /\ mtc' = "copied" /\ job' = target
  /\ UNCHANGED <<executor, first_detection, target, new_cube_available_, place>>

Clears ==
  /\ mtc = "copied"
  /\ mtc' = "cleared" /\ new_cube_available_' = FALSE
  /\ UNCHANGED <<executor, first_detection, target, job, place>>

Marks ==
  /\ mtc = "cleared"
  /\ mtc' = "running"
  /\ UNCHANGED <<executor, first_detection, target, new_cube_available_, job, place>>

(* The bin is not that of the copy but of what is the target by now.  It is*)
(* read without the mutex: while the callback holds a checked detection it *)
(* may be writing it, and any bin may be selected.                         *)
Reads ==
  /\ mtc = "running" /\ place = {}
  /\ \/ \E d \in target : place' = {BinOf[d]}
     \/ executor = "checked" /\ \E b \in Bin : place' = {b}
  /\ UNCHANGED <<executor, first_detection, target, new_cube_available_, mtc, job>>

Ends ==
  /\ mtc = "running" /\ place # {}
  /\ mtc' = "poll" /\ job' = {} /\ place' = {}
  /\ UNCHANGED <<executor, first_detection, target, new_cube_available_>>

Next ==
  \/ \E d \in Detection : Checks(d)
  \/ Stores \/ Flags \/ Copies \/ Clears \/ Marks \/ Reads \/ Ends

Spec == Init /\ [][Next]_cycleVars
=============================================================================
