--------------------------- MODULE PickPlaceNode ---------------------------
(***************************************************************************)
(* The pick-and-place node of franka_pick_place: one process, three        *)
(* threads that share it.                                                  *)
(*                                                                         *)
(*   - the executor thread takes detection messages from a subscription of *)
(*     depth one and runs cubePoseCallback;                                *)
(*   - the MTC thread started by initializeMTC polls a flag and runs one   *)
(*     pick-and-place pipeline at a time;                                  *)
(*   - the main thread waits for the executor and then returns from main.  *)
(*                                                                         *)
(* They communicate through target_cube_pose/target_cube_color (written    *)
(* under cube_mutex_, once read without it) and two atomic flags.  MoveIt  *)
(* and its planning scene are external: planning, execution and scene      *)
(* updates may each succeed or fail.                                       *)
(*                                                                         *)
(* The node's destructor is no part of the model: loadRobotModel and every *)
(* PipelinePlanner keep shared_from_this() in the node's own mtc_task_, so *)
(* the node outlives main's pointer to it.  shutdown_requested_, which     *)
(* only the destructor raises, stays down, and nobody joins the MTC thread.*)
(***************************************************************************)
EXTENDS Naturals, Sequences

CONSTANTS
  Pose,          \* poses a detection can have
  TablePose,     \* those inside the table box of isOnTable
  DefaultPose,   \* the value of a default-constructed Pose
  Color,         \* colour names a detection can have
  NoColor,       \* the empty string a default-constructed std::string holds
  Bin,           \* poses of the bins
  bin_poses,     \* the map filled by initializeBinPoses
  DefaultColor,  \* "black", the colour whose bin is the fallback
  Messages       \* the detection arrays the vision node may publish

Detection == [pose : Pose, color : Color]

ASSUME PoseAssumption ==
  /\ TablePose \subseteq Pose
  /\ DefaultPose \in Pose \ TablePose
ASSUME ColorAssumption ==
  /\ NoColor \in Color
  /\ DefaultColor \in DOMAIN bin_poses
  /\ DOMAIN bin_poses \subseteq Color
  /\ \A c \in DOMAIN bin_poses : bin_poses[c] \in Bin
ASSUME MessagesAssumption ==
  /\ Messages \subseteq Seq(Detection)
  /\ \A m \in Messages : m # << >> => m[1] \in Detection

VARIABLES
  rosOk,                \* rclcpp::ok(): no SIGINT yet
  main,                 \* the main thread, after it started the other two
  inbox,                \* the subscription's queue: at most one message
  executor,             \* where the executor thread stands
  first_detection,      \* the callback's local copy of detections[0]
  target,               \* target_cube_pose and target_cube_color
  new_cube_available_,
  pipeline_executing_,
  cube_in_scene,
  mtc,                  \* where the MTC thread stands
  cube,                 \* its locals cube_pose and cube_color
  goal,                 \* the "goal" of the two MoveTo stages: none or one pose
  \* history, read by no guard
  copies,               \* times the MTC thread has copied this target
  lateStores,           \* stores while pipeline_executing_ is up, this time
  disturbed             \* a store since the MTC thread's last copy

callbackVars == <<executor, first_detection>>
sharedVars == <<target, new_cube_available_, pipeline_executing_, cube_in_scene>>
mtcVars == <<mtc, cube, goal>>
mainVars == <<rosOk, main>>
history == <<copies, lateStores, disturbed>>
vars == <<callbackVars, sharedVars, mtcVars, mainVars, history, inbox>>

----------------------------------------------------------------------------
(***************************************************************************)
(* Pure helpers of the node.                                               *)
(***************************************************************************)
isOnTable(pose) == pose \in TablePose

getBinPoseForColor(color) ==
  IF color \in DOMAIN bin_poses THEN bin_poses[color] ELSE bin_poses[DefaultColor]

Init ==
  /\ rosOk = TRUE /\ main = "join"
  /\ inbox = {}
  /\ executor = "test"
  /\ first_detection = [pose |-> DefaultPose, color |-> NoColor]
  /\ target = [pose |-> DefaultPose, color |-> NoColor]
  /\ new_cube_available_ = FALSE /\ pipeline_executing_ = FALSE
  /\ cube_in_scene = FALSE
  /\ mtc = "poll"
  /\ cube = [pose |-> DefaultPose, color |-> NoColor]
  /\ goal = [approach |-> {}, place |-> {}]
  /\ copies = 0 /\ lateStores = 0 /\ disturbed = FALSE

----------------------------------------------------------------------------
(***************************************************************************)
(* The vision node publishes; a queue of depth one keeps the last message. *)
(***************************************************************************)
Publish(m) ==
  /\ rosOk
  /\ inbox' = {m}
  /\ UNCHANGED <<callbackVars, sharedVars, mtcVars, mainVars, history>>

(***************************************************************************)
(* SingleThreadedExecutor::spin: test the context, wait for work or for    *)
(* shutdown, run one callback, test again.                                 *)
(***************************************************************************)
SpinTest ==
  /\ executor = "test"
  /\ executor' = IF rosOk THEN "wait" ELSE "returned"
  /\ UNCHANGED <<first_detection, sharedVars, mtcVars, mainVars, history, inbox>>

SpinWake ==
  /\ executor = "wait" /\ ~rosOk
  /\ executor' = "test"
  /\ UNCHANGED <<first_detection, sharedVars, mtcVars, mainVars, history, inbox>>

(* Mutant: off-table detections pass. *)
AcceptsAnywhere(msg) == msg # << >> /\ ~pipeline_executing_

(* Mutant: detections pass while a pipeline executes. *)
AcceptsAlways(msg) == msg # << >> /\ isOnTable(msg[1].pose)

(***************************************************************************)
(* cubePoseCallback.  Only the first detection of an array is looked at.   *)
(***************************************************************************)
Accepted(msg) == msg # << >> /\ ~pipeline_executing_ /\ isOnTable(msg[1].pose)

CallbackIgnores(msg) ==
  /\ executor = "wait"
  /\ msg \in inbox /\ ~Accepted(msg)
  /\ inbox' = {}
  /\ executor' = "test"
  /\ UNCHANGED <<first_detection, sharedVars, mtcVars, mainVars, history>>

CallbackAccepts(msg) ==
  /\ executor = "wait"
  /\ msg \in inbox /\ Accepted(msg)
  /\ inbox' = {}
  /\ first_detection' = msg[1]
  /\ executor' = "lock"
  /\ UNCHANGED <<sharedVars, mtcVars, mainVars, history>>

(***************************************************************************)
(* The two assignments under cube_mutex_: the lock is taken, then both     *)
(* fields are written.  In between, a reader that does not take the lock   *)
(* can see a half-written colour.  Copy, the other critical section, is    *)
(* one step, so only this one needs to be held across steps.               *)
(***************************************************************************)
CallbackLocks ==
  /\ executor = "lock"
  /\ executor' = "store"
  /\ UNCHANGED <<first_detection, sharedVars, mtcVars, mainVars, history, inbox>>

CallbackStores ==
  /\ executor = "store"
  /\ target' = first_detection
  /\ executor' = "scene"
  /\ copies' = 0
  /\ lateStores' = IF pipeline_executing_ THEN lateStores + 1 ELSE lateStores
  /\ disturbed' = TRUE
  /\ UNCHANGED <<first_detection, new_cube_available_, pipeline_executing_,
                 cube_in_scene, mtcVars, mainVars, inbox>>

(***************************************************************************)
(* updatePlanningScene: a blocking service call; its result is recorded in *)
(* cube_in_scene and otherwise ignored.                                    *)
(***************************************************************************)
updatePlanningScene(success) ==
  /\ executor = "scene"
  /\ cube_in_scene' = success
  /\ executor' = "flag"
  /\ UNCHANGED <<first_detection, target, new_cube_available_, pipeline_executing_,
                 mtcVars, mainVars, history, inbox>>

(* Mutant: the callback renews the scene until the last cube was taken.    *)
FlagsWhenTaken ==
  /\ executor = "flag"
  /\ new_cube_available_' = TRUE
  /\ executor' = IF new_cube_available_ THEN "scene" ELSE "test"
  /\ UNCHANGED <<first_detection, target, pipeline_executing_, cube_in_scene,
                 mtcVars, mainVars, history, inbox>>

CallbackFlags ==
  /\ executor = "flag"
  /\ new_cube_available_' = TRUE
  /\ executor' = "test"
  /\ UNCHANGED <<first_detection, target, pipeline_executing_, cube_in_scene,
                 mtcVars, mainVars, history, inbox>>

----------------------------------------------------------------------------
(***************************************************************************)
(* The MTC thread: while (rclcpp::ok() && !shutdown_requested_) { ... },   *)
(* whose second condition always holds.  A turn that finds the flag down   *)
(* sleeps and polls again: it changes nothing, so it is no step of its own.*)
(***************************************************************************)
Stopping == ~rosOk

MtcReturns ==
  /\ mtc = "poll" /\ Stopping
  /\ mtc' = "returned"
  /\ UNCHANGED <<callbackVars, sharedVars, cube, goal, mainVars, history, inbox>>

(* Mutant: the thread also waits for the cube to be in the scene. *)
WaitsForScene ==
  /\ mtc = "poll" /\ ~Stopping
  /\ new_cube_available_ /\ cube_in_scene
  /\ mtc' = "copy"
  /\ UNCHANGED <<callbackVars, sharedVars, cube, goal, mainVars, history, inbox>>

MtcSeesFlag ==
  /\ mtc = "poll" /\ ~Stopping
  /\ new_cube_available_
  /\ mtc' = "copy"
  /\ UNCHANGED <<callbackVars, sharedVars, cube, goal, mainVars, history, inbox>>

(* Mutant: only the pose is copied under the lock. *)
CopiesPoseOnly ==
  /\ mtc = "copy"
  /\ executor # "store"
  /\ cube' = [cube EXCEPT !.pose = target.pose]
  /\ mtc' = "clear"
  /\ copies' = copies + 1
  /\ disturbed' = FALSE
  /\ UNCHANGED <<callbackVars, sharedVars, goal, mainVars, lateStores, inbox>>

MtcCopies ==
  /\ mtc = "copy"
  /\ executor # "store"     \* cube_mutex_ is free
  /\ cube' = target
  /\ mtc' = "clear"
  /\ copies' = copies + 1
  /\ disturbed' = FALSE
  /\ UNCHANGED <<callbackVars, sharedVars, goal, mainVars, lateStores, inbox>>

(* Mutant: the flag is not cleared. *)
KeepsFlag ==
  /\ mtc = "clear"
  /\ mtc' = "mark"
  /\ UNCHANGED <<callbackVars, sharedVars, cube, goal, mainVars, history, inbox>>

MtcClears ==
  /\ mtc = "clear"
  /\ new_cube_available_' = FALSE
  /\ mtc' = "mark"
  /\ UNCHANGED <<callbackVars, target, pipeline_executing_, cube_in_scene, cube,
                 goal, mainVars, history, inbox>>

MtcMarks ==
  /\ mtc = "mark"
  /\ pipeline_executing_' = TRUE
  /\ mtc' = "approach"
  /\ lateStores' = 0
  /\ UNCHANGED <<callbackVars, target, new_cube_available_, cube_in_scene, cube,
                 goal, mainVars, copies, disturbed, inbox>>

setApproachStage ==
  /\ mtc = "approach"
  /\ goal' = [goal EXCEPT !.approach = {cube.pose}]
  /\ mtc' = "place"
  /\ UNCHANGED <<callbackVars, sharedVars, cube, mainVars, history, inbox>>

(* Mutant: the colour of the message the callback last took. *)
ColorOfMessage == {first_detection.color}

(***************************************************************************)
(* setPlaceApproachStage reads target_cube_color itself, without the       *)
(* mutex.  While the callback is inside its critical section the string    *)
(* may be half written, and a half-written name selects any bin (an        *)
(* unknown one selects the fallback).                                      *)
(***************************************************************************)
ColorsRead == IF executor = "store" THEN DOMAIN bin_poses ELSE {target.color}

setPlaceApproachStage(color) ==
  /\ mtc = "place"
  /\ color \in ColorsRead
  /\ goal' = [goal EXCEPT !.place = {getBinPoseForColor(color)}]
  /\ mtc' = "plan"
  /\ UNCHANGED <<callbackVars, sharedVars, cube, mainVars, history, inbox>>

(***************************************************************************)
(* planAndExecute: no solution ends the pipeline, a solution is executed,  *)
(* and an execution that fails is only logged.                             *)
(***************************************************************************)
PlanFails ==
  /\ mtc = "plan"
  /\ mtc' = "unmark"
  /\ UNCHANGED <<callbackVars, sharedVars, cube, goal, mainVars, history, inbox>>

PlanSucceeds ==
  /\ mtc = "plan"
  /\ mtc' = "execute"
  /\ UNCHANGED <<callbackVars, sharedVars, cube, goal, mainVars, history, inbox>>

ExecutionEnds ==
  /\ mtc = "execute"
  /\ mtc' = "unmark"
  /\ UNCHANGED <<callbackVars, sharedVars, cube, goal, mainVars, history, inbox>>

MtcUnmarks ==
  /\ mtc = "unmark"
  /\ pipeline_executing_' = FALSE
  /\ mtc' = "poll"
  /\ UNCHANGED <<callbackVars, target, new_cube_available_, cube_in_scene, cube,
                 goal, mainVars, history, inbox>>

----------------------------------------------------------------------------
(***************************************************************************)
(* main(): join the executor thread, rclcpp::shutdown(), return.  With the *)
(* process the MTC thread ends wherever it is.                             *)
(***************************************************************************)
Interrupt ==
  /\ rosOk
  /\ rosOk' = FALSE
  /\ UNCHANGED <<callbackVars, sharedVars, mtcVars, main, history, inbox>>

MainJoinsExecutor ==
  /\ main = "join" /\ executor = "returned"
  /\ main' = "return"
  /\ rosOk' = FALSE
  /\ UNCHANGED <<callbackVars, sharedVars, mtcVars, history, inbox>>

MainReturns ==
  /\ main = "return"
  /\ main' = "exited"
  /\ UNCHANGED <<callbackVars, sharedVars, mtcVars, rosOk, history, inbox>>

Finished == main = "exited" /\ UNCHANGED vars

CallbackNext ==
  \/ SpinTest \/ SpinWake
  \/ \E msg \in Messages : CallbackIgnores(msg) \/ CallbackAccepts(msg)
  \/ CallbackLocks \/ CallbackStores
  \/ \E success \in BOOLEAN : updatePlanningScene(success)
  \/ CallbackFlags

MtcNext ==
  /\ main # "exited"
  /\ \/ MtcReturns \/ MtcSeesFlag \/ MtcCopies \/ MtcClears \/ MtcMarks
     \/ setApproachStage
     \/ \E color \in Color : setPlaceApproachStage(color)
     \/ PlanFails \/ PlanSucceeds \/ ExecutionEnds \/ MtcUnmarks

MainNext == MainJoinsExecutor \/ MainReturns

Next ==
  \/ \E m \in Messages : Publish(m)
  \/ Interrupt
  \/ CallbackNext \/ MtcNext \/ MainNext
  \/ Finished

(***************************************************************************)
(* Fairness: the operating system schedules every thread that can run, and *)
(* the external calls (scene update, plan, execute) return.  The callback  *)
(* holds cube_mutex_ for two assignments and then blocks in a service call,*)
(* so a thread waiting for the mutex gets it (strong fairness).  Nothing   *)
(* makes the vision node publish or the user interrupt.                    *)
(***************************************************************************)
Fairness ==
  /\ WF_vars(CallbackNext)
  /\ WF_vars(MtcNext) /\ SF_vars(main # "exited" /\ MtcCopies)
  /\ WF_vars(MainNext)

Spec == Init /\ [][Next]_vars /\ Fairness

----------------------------------------------------------------------------
(***************************************************************************)
(* Properties.                                                             *)
(***************************************************************************)
Preparing == {"approach", "place", "plan", "execute", "unmark"}
JobRunning == mtc \in {"clear", "mark"} \cup Preparing

TypeOK ==
  /\ rosOk \in BOOLEAN /\ main \in {"join", "return", "exited"}
  /\ inbox \subseteq Messages
  /\ executor \in {"test", "wait", "lock", "store", "scene", "flag", "returned"}
  /\ first_detection \in Detection /\ target \in Detection /\ cube \in Detection
  /\ new_cube_available_ \in BOOLEAN /\ pipeline_executing_ \in BOOLEAN
  /\ cube_in_scene \in BOOLEAN
  /\ mtc \in {"poll", "copy", "clear", "mark", "returned"} \cup Preparing
  /\ goal \in [approach : SUBSET Pose, place : SUBSET Bin]
  /\ copies \in Nat /\ lateStores \in Nat /\ disturbed \in BOOLEAN

(* The arm is only ever sent above a pose that passed isOnTable, whatever  *)
(* the order in which the callback, the flag and the copy interleave.      *)
(* (cubePoseCallback's early return; the hand-over in initializeMTC)       *)
GoalOnTable == goal.approach \subseteq TablePose

(* While pipeline_executing_ is up, the target is overwritten at most once:*)
(* only a callback that was already past the check can still store.        *)
(* (cubePoseCallback:82 against initializeMTC:57)                          *)
AtMostOneLateStore == pipeline_executing_ => lateStores <= 1

(* One stored detection starts at most two pipelines: the one that copied  *)
(* it before its own notification, and the one that notification starts.   *)
(* (new_cube_available_: initializeMTC:36-55, cubePoseCallback:103)        *)
AtMostTwoRuns == copies <= 2

(* If nothing was stored since the copy, the bin the cube is brought to is *)
(* the bin of the colour that was copied together with the pose.           *)
(* (setPlaceApproachStage reads target_cube_color, not the local copy)     *)
PlacedByItsColor ==
  mtc \in {"plan", "execute"} /\ ~disturbed /\ executor # "store" =>
    /\ goal.approach = {cube.pose}
    /\ goal.place = {getBinPoseForColor(cube.color)}

(* A raised flag is always answered: a pipeline starts, unless the node is *)
(* stopping.  A notification cleared between the copy and line 55 is       *)
(* answered by the pipeline that cleared it.                               *)
FlagIsAnswered == new_cube_available_ ~> (pipeline_executing_ \/ Stopping)

(* An interrupted process ends: the callback in progress comes to its end, *)
(* whatever the MTC thread has left of its pipeline, and neither waits for *)
(* the other.  The pipeline may be cut off: main does not wait for it.     *)
(* (cubePoseCallback:96-103, main.cpp:19-22)                               *)
ProcessEnds == ~rosOk ~> (main = "exited")

(* The node implements PickJobs.  The job begins with the copy under the   *)
(* lock and ends when pipeline_executing_ is lowered.                      *)
Jobs == INSTANCE PickJobs WITH
  accepted <- IF target.pose = DefaultPose THEN {} ELSE {target},
  starts <- copies,
  job <- IF JobRunning THEN {cube} ELSE {}

ImplementsPickJobs == Jobs!Spec

(* The node implements PickCycle, the node that SortingCell composes with  *)
(* camera and table: the mutex, the scene update, the bin lookup and the   *)
(* shutdown add no hand-over that the composition does not have.           *)
KnownBins == {bin_poses[c] : c \in DOMAIN bin_poses}

BinChosen == mtc \in {"plan", "execute", "unmark"}

Cycle == INSTANCE PickCycle WITH
  Detection <- [pose : TablePose, color : Color],
  Bin <- KnownBins,
  BinOf <- [d \in [pose : TablePose, color : Color] |-> getBinPoseForColor(d.color)],
  executor <- CASE executor \in {"lock", "store"} -> "checked"
                [] executor \in {"scene", "flag"} -> "stored"
                [] OTHER -> "idle",
  first_detection <- IF executor \in {"lock", "store"} THEN {first_detection} ELSE {},
  target <- IF target.pose = DefaultPose THEN {} ELSE {target},
  mtc <- CASE mtc = "clear" -> "copied"
           [] mtc = "mark" -> "cleared"
           [] mtc \in Preparing -> "running"
           [] OTHER -> "poll",
  job <- IF JobRunning THEN {cube} ELSE {},
  place <- IF BinChosen THEN goal.place ELSE {}

ImplementsPickCycle == Cycle!Spec

----------------------------------------------------------------------------
(***************************************************************************)
(* The inductive invariant: what each thread may rely on at each point.    *)
(***************************************************************************)
(* A pose that reaches the target, the local copy or the goal was checked. *)
PosesInv ==
  /\ executor \in {"lock", "store", "scene", "flag"} => isOnTable(first_detection.pose)
  /\ new_cube_available_ \/ JobRunning \/ executor \in {"scene", "flag"} =>
       isOnTable(target.pose)
  /\ target.pose = DefaultPose \/ isOnTable(target.pose)
  /\ mtc \in {"copy", "clear"} => new_cube_available_
  /\ JobRunning => isOnTable(cube.pose)
  /\ GoalOnTable

(* A callback before its store uses up the one late store that is allowed. *)
LateInv ==
  /\ pipeline_executing_ <=> mtc \in Preparing
  /\ pipeline_executing_ => lateStores <= IF executor \in {"lock", "store"} THEN 0 ELSE 1

(* The second copy needs the notification of the callback that stored the  *)
(* target, and a callback raises it once.                                  *)
FlagSpent == mtc # "copy" /\ (new_cube_available_ => mtc = "clear")

CopiesInv ==
  /\ copies <= 2
  /\ copies = 2 => FlagSpent /\ executor \notin {"scene", "flag"}
  /\ copies = 1 /\ executor \in {"scene", "flag"} => FlagSpent

MatchInv ==
  /\ JobRunning /\ ~disturbed => cube = target
  /\ mtc \in {"place", "plan", "execute", "unmark"} => goal.approach = {cube.pose}
  /\ BinChosen => \E b \in KnownBins : goal.place = {b}
  /\ PlacedByItsColor

(* main does not go on while a callback runs. *)
ThreadsInv == main # "join" => executor = "returned"

IInv == TypeOK /\ PosesInv /\ LateInv /\ CopiesInv /\ MatchInv /\ ThreadsInv

----------------------------------------------------------------------------
(***************************************************************************)
(* What the repository says and the code does not do.                      *)
(***************************************************************************)

(* mtc.cpp:58 logs "Pipeline execution started - cube tracking disabled":  *)
(* once the flag is up the tracked target should not change.               *)
TrackingDisabled == [][pipeline_executing_ => target' = target]_vars
=============================================================================
