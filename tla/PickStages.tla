----------------------------- MODULE PickStages -----------------------------
(***************************************************************************)
(* The stages of one pick-and-place pipeline (mtc.cpp) and what they leave *)
(* behind for the next one when planning or execution fails half way.      *)
(*                                                                         *)
(* The two threads hand a job over as in PickPlaceNode; here a job is its  *)
(* fifteen stages, over the planning scene that the detection callback     *)
(* also writes.  MoveIt is external: its scene, the arm and the fingers    *)
(* are one record, planning runs the stages on a copy of it, execution     *)
(* runs them on the record itself.  So are the cubes: a close takes the    *)
(* cube at a pose that still holds, an open lets it fall where the arm is. *)
(***************************************************************************)
EXTENDS Naturals, Sequences

CONSTANTS
  N,          \* cubes on the table at the start
  MaxFaults   \* failures of MoveIt, of a controller or of a scene update

ASSUME BoundsAssumption == N \in Nat /\ MaxFaults \in Nat

Place == {"home", "above_cube", "at_cube", "above_bin", "at_bin", "between"}

(* What target_cube may touch: the hand's links, work_table, the bins. *)
Contact == {"hand", "table", "bins"}

(* world: where the scene has the object target_cube; a cube that is       *)
(* attached to the hand may be in the world as well.                       *)
Scene == [world : {"absent", "table", "bin"}, attached : SUBSET {"cube"},
          acm : SUBSET Contact, arm : Place, fingers : {"open", "closed"}]

VARIABLES
  scene,                \* external: MoveIt's planning scene and robot state
  callback,             \* the detection callback: idle, or what it does next
  new_cube_available_,
  pipeline_executing_,
  mtc,                  \* the MTC thread: poll, copied, cleared, marked, plan or
                        \* execute
  stage,                \* number of the stage to execute next
  result,               \* how the last pipeline ended
  \* external: the cubes
  table, held, bin,     \* cubes on the table, in the hand, in the bins
  good,                 \* the copies of a pose at which a cube still lies
  faults,
  trouble               \* history: a pipeline failed since the last grasp

nodeVars == <<callback, new_cube_available_, pipeline_executing_>>
mtcVars == <<mtc, stage, result>>
cubeVars == <<table, held, bin, good>>
vars == <<scene, nodeVars, mtcVars, cubeVars, faults, trouble>>

----------------------------------------------------------------------------
(***************************************************************************)
(* One operator per stage, named after the function that adds it: what the *)
(* stage makes of the scene s.                                             *)
(***************************************************************************)
addCurrentStateStage(s) == s
addApproachStage(s) == [s EXCEPT !.arm = "above_cube"]
addGripperOpenStage(s) == [s EXCEPT !.fingers = "open"]
addPreGraspStage(s) == [s EXCEPT !.arm = "at_cube"]
addAllowCollisionStage(s) == [s EXCEPT !.acm = @ \cup {"hand", "table", "bins"}]
addGripperCloseStage(s) == [s EXCEPT !.fingers = "closed"]
addAttachObjectStage(s) == [s EXCEPT !.attached = {"cube"}, !.world = "absent"]
addLiftStage(s) == [s EXCEPT !.arm = "above_cube"]
addPlaceApproachStage(s) == [s EXCEPT !.arm = "above_bin"]
(* Mutant: the descent into the bin does not move. *)
StaysAboveBin(s) == s
addPlaceDescentStage(s) == [s EXCEPT !.arm = "at_bin"]
addDetachObjectStage(s) == [s EXCEPT !.attached = {}, !.world = "bin"]
addGripperReleaseStage(s) == [s EXCEPT !.fingers = "open"]
addPostPlaceRetreatStage(s) == [s EXCEPT !.arm = "above_bin"]
(* Mutant: the contacts that are taken back are the other ones. *)
KeepsHandContact(s) == [s EXCEPT !.acm = @ \ {"table", "bins"}]
addDisallowCollisionStage(s) == [s EXCEPT !.acm = @ \ {"hand"}]
returnHomeStage(s) == [s EXCEPT !.arm = "home"]

Last == 15

(* Mutant: the gripper closes before contact with the cube is allowed. *)
ClosesFirst(k, s) ==
  CASE k = 1 -> addCurrentStateStage(s)   [] k = 2 -> addApproachStage(s)
    [] k = 3 -> addGripperOpenStage(s)    [] k = 4 -> addPreGraspStage(s)
    [] k = 5 -> addGripperCloseStage(s)   [] k = 6 -> addAllowCollisionStage(s)
    [] k = 7 -> addAttachObjectStage(s)   [] k = 8 -> addLiftStage(s)
    [] k = 9 -> addPlaceApproachStage(s)  [] k = 10 -> addPlaceDescentStage(s)
    [] k = 11 -> addDetachObjectStage(s)  [] k = 12 -> addGripperReleaseStage(s)
    [] k = 13 -> addPostPlaceRetreatStage(s)
    [] k = 14 -> addDisallowCollisionStage(s)
    [] OTHER -> returnHomeStage(s)

(* The order in which initializeMTC adds them. *)
After(k, s) ==
  CASE k = 1 -> addCurrentStateStage(s)    [] k = 2 -> addApproachStage(s)
    [] k = 3 -> addGripperOpenStage(s)     [] k = 4 -> addPreGraspStage(s)
    [] k = 5 -> addAllowCollisionStage(s)  [] k = 6 -> addGripperCloseStage(s)
    [] k = 7 -> addAttachObjectStage(s)    [] k = 8 -> addLiftStage(s)
    [] k = 9 -> addPlaceApproachStage(s)   [] k = 10 -> addPlaceDescentStage(s)
    [] k = 11 -> addDetachObjectStage(s)   [] k = 12 -> addGripperReleaseStage(s)
    [] k = 13 -> addPostPlaceRetreatStage(s)
    [] k = 14 -> addDisallowCollisionStage(s)
    [] OTHER -> returnHomeStage(s)

(* A stage that fails may have moved the arm somewhere on its way, the     *)
(* fingers all the way, and the scene all the way.                         *)
Partly(k, s) ==
  LET t == After(k, s)
  IN  {s, t} \cup (IF t.arm # s.arm THEN {[s EXCEPT !.arm = "between"]} ELSE {})

----------------------------------------------------------------------------
(***************************************************************************)
(* MoveIt's rules, as far as the stages depend on them.  The hand touches  *)
(* the object when it carries it, or when its fingers close around it.     *)
(***************************************************************************)
Lies(s) ==
  CASE s.arm = "at_cube" -> s.world = "table"
    [] s.arm = "at_bin" -> s.world = "bin"
    [] OTHER -> FALSE

Touches(s) == s.attached # {} \/ (s.fingers = "closed" /\ Lies(s))

Clear(s) ==
  /\ Touches(s) => "hand" \in s.acm
  /\ s.attached # {} /\ s.arm = "at_cube" => "table" \in s.acm
  /\ s.attached # {} /\ s.arm = "at_bin" => "bins" \in s.acm

(* The scene before stage k + 1, when stages 1 to k succeed. *)
Planned(s) ==
  LET p[k \in 0 .. Last] == IF k = 0 THEN s ELSE After(k, p[k - 1])
  IN  p

(* No state on the way is in forbidden contact, and there is an object to  *)
(* attach.                                                                 *)
Feasible(s) ==
  /\ \A k \in 0 .. Last : Clear(Planned(s)[k])
  /\ s.attached # {} \/ s.world # "absent"

(* An object in the world where the attached one is taken: MoveIt may or   *)
(* may not see the two collide.                                            *)
MayCollide(s) == \E k \in 0 .. Last : Planned(s)[k].attached # {} /\ Lies(Planned(s)[k])

----------------------------------------------------------------------------
(***************************************************************************)
(* External: what the fingers do to the cubes.                             *)
(***************************************************************************)
Closes(t) == scene.fingers = "open" /\ t.fingers = "closed"
Opens(t) == scene.fingers = "closed" /\ t.fingers = "open"
Grasps(t) == Closes(t) /\ scene.arm = "at_cube" /\ "job" \in good

(* Where a cube may end up that is let go at a place. *)
LandsIn == [home |-> {"lost"}, above_cube |-> {"table", "lost"}, at_cube |-> {"table"},
            above_bin |-> {"bin", "lost"}, at_bin |-> {"bin"},
            between |-> {"table", "bin", "lost"}]

(* A grasp takes the cube away from any other copy of its pose. *)
MoveCubes(t) ==
  \/ /\ Grasps(t)
     /\ held' = 1 /\ table' = table - 1
     /\ good' \in {g \in SUBSET (good \ {"job"}) : g # {} => table > 1}
     /\ UNCHANGED bin
  \/ /\ Opens(t) /\ held = 1
     /\ held' = 0
     /\ \E where \in LandsIn[scene.arm] :
          /\ table' = IF where = "table" THEN table + 1 ELSE table
          /\ bin' = IF where = "bin" THEN bin + 1 ELSE bin
     /\ UNCHANGED good
  \/ /\ ~Grasps(t) /\ ~(Opens(t) /\ held = 1)
     /\ UNCHANGED cubeVars

Init ==
  /\ scene \in [world : {"absent"}, attached : {{}}, acm : {{}}, arm : {"home"},
                fingers : {"open", "closed"}]
  /\ callback = "idle"
  /\ new_cube_available_ = FALSE /\ pipeline_executing_ = FALSE
  /\ mtc = "poll" /\ stage = 1 /\ result = "none"
  /\ table = N /\ held = 0 /\ bin = 0 /\ good = {}
  /\ faults = 0 /\ trouble = FALSE

Fault == faults < MaxFaults /\ faults' = faults + 1

----------------------------------------------------------------------------
(***************************************************************************)
(* cubePoseCallback: the test of pipeline_executing_, the target, the      *)
(* planning scene and then the flag; a pipeline may start in between.  A   *)
(* cube still between the closed fingers is also seen.                     *)
(***************************************************************************)
Detect ==
  /\ callback = "idle" /\ ~pipeline_executing_
  /\ \/ table > 0 /\ good' = good \cup {"callback"}
     \/ held = 1 /\ scene.arm = "at_cube" /\ UNCHANGED good
  /\ callback' = "store"
  /\ UNCHANGED <<scene, new_cube_available_, pipeline_executing_, mtcVars,
                 table, held, bin, faults, trouble>>

StoreTarget ==
  /\ callback = "store" /\ callback' = "update"
  /\ good' = (good \ {"callback", "target"}) \cup
               (IF "callback" \in good THEN {"target"} ELSE {})
  /\ UNCHANGED <<scene, new_cube_available_, pipeline_executing_, mtcVars,
                 table, held, bin, faults, trouble>>

RaiseFlag ==
  /\ callback = "update" /\ callback' = "idle"
  /\ new_cube_available_' = TRUE
  /\ UNCHANGED <<pipeline_executing_, mtcVars, cubeVars, trouble>>

updatePlanningScene ==
  /\ RaiseFlag
  /\ scene' = [scene EXCEPT !.world = "table"]
  /\ UNCHANGED faults

updatePlanningSceneFails == RaiseFlag /\ Fault /\ UNCHANGED scene

----------------------------------------------------------------------------
(***************************************************************************)
(* The MTC thread: a job, its plan, its stages, and the end of the job.    *)
(***************************************************************************)
CopyTarget ==
  /\ mtc = "poll" /\ new_cube_available_
  /\ mtc' = "copied"
  /\ good' = (good \ {"job"}) \cup (IF "target" \in good THEN {"job"} ELSE {})
  /\ UNCHANGED <<scene, nodeVars, stage, result, table, held, bin, faults, trouble>>

ClearFlag ==
  /\ mtc = "copied" /\ mtc' = "cleared"
  /\ new_cube_available_' = FALSE
  /\ UNCHANGED <<scene, callback, pipeline_executing_, stage, result, cubeVars, faults, trouble>>

MarkExecuting ==
  /\ mtc = "cleared" /\ mtc' = "marked"
  /\ pipeline_executing_' = TRUE
  /\ UNCHANGED <<scene, callback, new_cube_available_, stage, result, cubeVars, faults, trouble>>

(* The goals of the two MoveTo stages: the copied pose and a bin. *)
SetGoals ==
  /\ mtc = "marked" /\ mtc' = "plan"
  /\ UNCHANGED <<scene, nodeVars, stage, result, cubeVars, faults, trouble>>

Prepare == CopyTarget \/ ClearFlag \/ MarkExecuting \/ SetGoals

EndJob(r) ==
  /\ mtc' = "poll" /\ result' = r /\ stage' = 1
  /\ pipeline_executing_' = FALSE
  /\ UNCHANGED <<callback, new_cube_available_>>

planSucceeds ==
  /\ mtc = "plan" /\ Feasible(scene)
  /\ mtc' = "execute"
  /\ UNCHANGED <<scene, nodeVars, stage, result, cubeVars, faults, trouble>>

planFails ==
  /\ mtc = "plan"
  /\ EndJob("planning failed")
  /\ \/ (~Feasible(scene) \/ MayCollide(scene)) /\ UNCHANGED faults
     \/ Fault
  /\ UNCHANGED <<scene, cubeVars, trouble>>

Execute ==
  /\ mtc = "execute" /\ stage <= Last
  /\ scene' = After(stage, scene)
  /\ MoveCubes(scene')
  /\ trouble' = IF Grasps(scene') THEN FALSE ELSE trouble
  /\ stage' = stage + 1
  /\ UNCHANGED <<nodeVars, mtc, result, faults>>

(* Mutant: a failed execution takes the allowed contacts back. *)
ExecuteFailsAndResets ==
  /\ mtc = "execute" /\ stage <= Last
  /\ Fault
  /\ \E t \in Partly(stage, scene) :
       MoveCubes(t) /\ scene' = [t EXCEPT !.acm = {}]
  /\ EndJob("execution failed")
  /\ trouble' = TRUE

ExecuteFails ==
  /\ mtc = "execute" /\ stage <= Last
  /\ Fault
  /\ scene' \in Partly(stage, scene)
  /\ MoveCubes(scene')
  /\ EndJob("execution failed")
  /\ trouble' = TRUE

ExecuteSucceeds ==
  /\ mtc = "execute" /\ stage = Last + 1
  /\ EndJob("success")
  /\ UNCHANGED <<scene, cubeVars, faults, trouble>>

----------------------------------------------------------------------------
CallbackNext == Detect \/ StoreTarget \/ updatePlanningScene \/ updatePlanningSceneFails

MtcNext ==
  \/ Prepare \/ planSucceeds \/ planFails
  \/ Execute \/ ExecuteFails \/ ExecuteSucceeds

Next == CallbackNext \/ MtcNext

(* Fairness: the vision node goes on publishing what lies on the table,    *)
(* both threads are scheduled, and MoveIt's calls return.                  *)
Spec == Init /\ [][Next]_vars /\ WF_vars(CallbackNext) /\ WF_vars(MtcNext)

----------------------------------------------------------------------------
(***************************************************************************)
(* Properties.                                                             *)
(***************************************************************************)
TypeOK ==
  /\ scene \in Scene
  /\ callback \in {"idle", "store", "update"}
  /\ new_cube_available_ \in BOOLEAN /\ pipeline_executing_ \in BOOLEAN
  /\ mtc \in {"poll", "copied", "cleared", "marked", "plan", "execute"}
  /\ stage \in 1 .. Last + 1
  /\ result \in {"none", "success", "planning failed", "execution failed"}
  /\ table \in Nat /\ held \in {0, 1} /\ bin \in Nat
  /\ good \subseteq {"callback", "target", "job"}
  /\ faults \in Nat /\ trouble \in BOOLEAN

(* Wherever a pipeline fails, whatever the callback writes to the scene    *)
(* meanwhile and whatever earlier pipelines left, the hand is not in       *)
(* contact with the cube while the scene forbids it: that is no reason for *)
(* refusing the next plan, though a cube left attached may be one.         *)
(* (addAllowCollisionStage before the close, addDisallowCollisionStage     *)
(* after the retreat; planAndExecute leaves the scene as it is)            *)
NoForbiddenContact == Clear(scene)

(* A pipeline that runs to its end repairs what failed ones left behind:   *)
(* nothing is held or believed to be, the fingers are open, contact is     *)
(* forbidden again and the arm is at home.                                 *)
(* (the last five stages of initializeMTC)                                 *)
SuccessRestores ==
  result = "success" /\ mtc # "execute" =>
    /\ scene.attached = {} /\ held = 0
    /\ scene.fingers = "open" /\ scene.arm = "home"
    /\ "hand" \notin scene.acm

(* A cube is let go in a bin, or a pipeline failed since it was taken.     *)
(* (the order of the stages between the close and the release)             *)
Transport == INSTANCE CubeTransport
ImplementsCubeTransport == Transport!Spec

(* The two threads hand a job over as PickPlaceNode's and SortingCell's do.*)
(* A target has been stored once it was announced or a job was made of it. *)
Stored == \/ callback = "update" \/ new_cube_available_
          \/ mtc # "poll" \/ result # "none"

Cycle == INSTANCE PickCycle WITH
  Detection <- {"cube"}, Bin <- {"bin"}, BinOf <- [cube |-> "bin"],
  executor <- [idle |-> "idle", store |-> "checked", update |-> "stored"][callback],
  first_detection <- IF callback = "store" THEN {"cube"} ELSE {},
  target <- IF Stored THEN {"cube"} ELSE {},
  mtc <- IF mtc \in {"marked", "plan", "execute"} THEN "running" ELSE mtc,
  job <- IF mtc # "poll" THEN {"cube"} ELSE {},
  place <- IF mtc \in {"plan", "execute"} THEN {"bin"} ELSE {}

ImplementsPickCycle == Cycle!Spec

(* Failures that come to an end do not end the sorting: the table is       *)
(* emptied, unless a failed pipeline left a cube attached in the scene,    *)
(* which no code takes off again before the next plan.                     *)
(* (planAndExecute only logs a failure; cubePoseCallback's flag retries)   *)
Stranded == mtc = "poll" /\ scene.attached # {}
TableIsEmptied == table > 0 ~> table = 0 \/ Stranded

----------------------------------------------------------------------------
(***************************************************************************)
(* The inductive invariant: what stage k finds when the ones before it     *)
(* succeeded, and what holds wherever a pipeline stopped.                  *)
(***************************************************************************)
(* The stages before it have been executed, and nothing else moved. *)
StageInv == mtc # "execute" => stage = 1

(* The flag is up until the thread clears it, and the pipeline is marked   *)
(* exactly from then on until the job ends.                                *)
HandOverInv ==
  /\ mtc = "copied" => new_cube_available_
  /\ pipeline_executing_ <=> mtc \in {"marked", "plan", "execute"}

ArmInv ==
  mtc = "execute" =>
    /\ stage \in {3, 4, 9} => scene.arm = "above_cube"
    /\ stage \in 5 .. 8 => scene.arm = "at_cube"
    /\ stage \in {10, 14, 15} => scene.arm = "above_bin"
    /\ stage \in 11 .. 13 => scene.arm = "at_bin"
    /\ stage = 16 => scene.arm = "home"

FingersInv ==
  mtc = "execute" =>
    /\ stage \in 4 .. 6 \cup 13 .. 16 => scene.fingers = "open"
    /\ stage \in 7 .. 12 => scene.fingers = "closed"

ContactInv ==
  mtc = "execute" =>
    /\ stage \in 6 .. 14 => scene.acm = Contact
    /\ stage \in 15 .. 16 => "hand" \notin scene.acm
    /\ stage \in 12 .. 16 => scene.attached = {}

(* Only a stage that comes after the permission attaches the cube or       *)
(* closes the fingers around it.                                           *)
LeftoverInv ==
  /\ scene.attached # {} => scene.acm = Contact
  /\ scene.fingers = "closed" /\ scene.arm \in {"at_cube", "at_bin"} => "hand" \in scene.acm

CubesInv ==
  /\ held = 1 => scene.fingers = "closed"
  /\ held = 1 /\ ~trouble => mtc = "execute" /\ stage \in 7 .. 12
  /\ good # {} => table > 0

IInv ==
  /\ TypeOK /\ StageInv /\ HandOverInv /\ ArmInv /\ FingersInv /\ ContactInv
  /\ LeftoverInv /\ CubesInv /\ SuccessRestores
=============================================================================
