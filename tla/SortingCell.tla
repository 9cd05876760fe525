---------------------------- MODULE SortingCell ----------------------------
(***************************************************************************)
(* The whole cell: cubes on the table, the camera above it, the vision     *)
(* node, the pick-and-place node and the script that spawns cubes.         *)
(*                                                                         *)
(* The pick-and-place node is PickCycle, which PickPlaceNode implements;   *)
(* the mutex, the planning scene and the shutdown are left to it.          *)
(*                                                                         *)
(* External: the camera, the arm and the physics.  The arm may hide spots  *)
(* while it works and hides none at rest; the hand covers the cube it      *)
(* carries (what shows of it is below detectCubes' smallest area).         *)
(***************************************************************************)
EXTENDS Vision, FiniteSets

CONSTANTS
  Cube,
  Shown,       \* the colour classes a cube may be seen in
  Bin,         \* the bins
  BinOfColor,  \* of each colour class: the bin getBinPoseForColor selects
  Hides,       \* the sets of spots a working arm may hide
  FirstCubes,  \* where the cubes may be when the nodes start
  MaxPlacings  \* bound: pairs of a cube and a spot where it comes to lie

ASSUME CubeAssumption == Shown \in [Cube -> (SUBSET Color) \ {{}}]
ASSUME BinAssumption == BinOfColor \in [Color -> Bin]

VARIABLES
  where,               \* of each cube: unborn, a spot, or off the table
  executor, first_detection, target, new_cube_available_, mtc, job, place, \* PickCycle's
  spawner,             \* start or spawning
  plan,                \* what the spawner has still to spawn
  \* history, read by no guard
  lain,                \* of each spot: the cubes that have lain on it
  mixed                \* another target was, or was being, stored before the bin was read

Node == INSTANCE PickCycle WITH BinOf <- [d \in Detection |-> BinOfColor[d.color]]
nodeVars == <<executor, first_detection, target, new_cube_available_, mtc, job, place>>
worldVars == <<where, lain>>
spawnerVars == <<spawner, plan>>
vars == <<visionVars, nodeVars, worldVars, spawnerVars, mixed>>

Away == {"unborn", "off"}

ASSUME PlaceAssumption == Spot \cap Away = {}
ASSUME FirstCubesAssumption == FirstCubes \subseteq [Cube -> Spot \cup {"unborn"}]

On(s) == {c \in Cube : where[c] = s}
Occupied == {s \in Spot : On(s) # {}}

Init ==
  /\ VisionInit
  /\ where \in FirstCubes
  /\ lain = [s \in Spot |-> On(s)]
  /\ Node!Init /\ mixed = FALSE
  /\ spawner = "start" /\ plan = {}

----------------------------------------------------------------------------
restVars == <<nodeVars, worldVars, spawnerVars, mixed>>

(***************************************************************************)
(* The camera sends image and cloud of one view.                           *)
(***************************************************************************)
Hidden == IF mtc = "running" THEN Hides ELSE {{}}

Views ==
  {view \in View : \E H \in Hidden : \A s \in Spot :
     \/ s \in H /\ view[s] = Arm
     \/ s \notin H /\ On(s) = {} /\ view[s] = Empty
     \/ s \notin H /\ \E c \in On(s) : view[s] \in Shown[c]}

Frame(view) ==
  /\ images' = Enqueue(images, view) /\ clouds' = Enqueue(clouds, view)
  /\ UNCHANGED <<latest_pointcloud_, inbox, restVars>>

Sees == VisionNext /\ UNCHANGED restVars

----------------------------------------------------------------------------
(***************************************************************************)
(* cubePoseCallback.  The vision node's box is the one isOnTable tests.    *)
(***************************************************************************)
CallbackIgnores(message) ==
  /\ executor = "idle" /\ message \in inbox
  /\ message = {} \/ mtc = "running"
  /\ inbox' = {}
  /\ UNCHANGED <<images, clouds, latest_pointcloud_, restVars>>

CallbackChecks(d) ==
  /\ {d} \in inbox /\ Node!Checks(d)
  /\ inbox' = {}
  /\ UNCHANGED <<images, clouds, latest_pointcloud_, worldVars, spawnerVars, mixed>>

elseVars == <<visionVars, worldVars, spawnerVars>>

CallbackStores ==
  /\ Node!Stores
  /\ mixed' = (mixed \/ (mtc # "poll" /\ place = {}))
  /\ UNCHANGED elseVars

CallbackFlags == Node!Flags /\ UNCHANGED <<elseVars, mixed>>

(***************************************************************************)
(* The MTC thread.                                                         *)
(***************************************************************************)
MtcPrepares == (Node!Copies \/ Node!Clears \/ Node!Marks) /\ UNCHANGED <<elseVars, mixed>>

MtcReads ==
  /\ Node!Reads
  /\ mixed' = (mixed \/ executor = "checked")
  /\ UNCHANGED elseVars

JobEnds == Node!Ends /\ mixed' = FALSE /\ UNCHANGED <<visionVars, spawnerVars>>

(* The cubes are now where w says. *)
Move(w) ==
  /\ where' = w
  /\ lain' = [s \in Spot |-> lain[s] \cup {c \in Cube : w[c] = s}]
  /\ Cardinality({e \in Cube \X Spot : e[1] \in lain'[e[2]]}) <= MaxPlacings

(* Outcomes of planAndExecute.  A job that succeeds puts the cube into the *)
(* bin in place.  One on a spot without a cube, one that finds no plan and *)
(* one that closes beside the cube change nothing.  A carried cube may fall*)
(* back on the table; one that falls beside it is off it like one in a bin.*)
Targeted(c) == \E d \in job : where[c] = d.spot

JobSucceeds(c) == JobEnds /\ Targeted(c) /\ Move([where EXCEPT ![c] = "off"])

JobMisses == JobEnds /\ UNCHANGED worldVars

JobDrops(c) ==
  /\ JobEnds
  /\ Targeted(c)
  /\ \E s \in Spot : Move([where EXCEPT ![c] = s])

(***************************************************************************)
(* spawn_multiple_cubes.py.  It asks for the position of every cube once,  *)
(* leaves out those whose query fails, plans free positions for as many    *)
(* new cubes as it finds room for, and then spawns them one by one.        *)
(***************************************************************************)
PlanSpawns(failed) ==
  /\ spawner = "start"
  /\ failed \subseteq {c \in Cube : where[c] \in Spot}
  /\ plan' \in {P \in SUBSET [cube : Cube, spot : Spot] :
       /\ \A e \in P : where[e.cube] = "unborn" /\ On(e.spot) \subseteq failed
       /\ \A e, f \in P : e.cube = f.cube \/ e.spot = f.spot => e = f}
  /\ spawner' = "spawning"
  /\ UNCHANGED <<visionVars, nodeVars, worldVars, mixed>>

(* A cube may not be created at all; the result only counts for the final  *)
(* message.  One created where another lies overlaps it, and either may    *)
(* stay, on or beside the other, be pushed to another spot or off the      *)
(* table.                                                                  *)
SpawnCube(e) ==
  /\ e \in plan
  /\ plan' = plan \ {e}
  /\ \/ UNCHANGED worldVars
     \/ e.spot \notin Occupied /\ Move([where EXCEPT ![e.cube] = e.spot])
     \/ /\ e.spot \in Occupied
        /\ \E f \in [On(e.spot) \cup {e.cube} -> Spot \cup {"off"}] :
             Move([c \in Cube |-> IF c \in DOMAIN f THEN f[c] ELSE where[c]])
  /\ UNCHANGED <<visionVars, nodeVars, spawner, mixed>>

----------------------------------------------------------------------------
CallbackNext ==
  \/ \E message \in inbox : CallbackIgnores(message) \/ \E d \in message : CallbackChecks(d)
  \/ CallbackStores \/ CallbackFlags

MtcNext ==
  \/ MtcPrepares \/ MtcReads
  \/ \E c \in Cube : JobSucceeds(c) \/ JobDrops(c)
  \/ JobMisses

SpawnerNext ==
  \/ \E failed \in SUBSET Cube : PlanSpawns(failed)
  \/ \E e \in plan : SpawnCube(e)

Next ==
  \/ \E view \in Views : Frame(view)
  \/ Sees \/ CallbackNext \/ MtcNext \/ SpawnerNext

(***************************************************************************)
(* Fairness: the nodes' threads run, the vision node takes from both       *)
(* subscriptions, the camera keeps sending, and a job that is tried again  *)
(* and again on a cube succeeds at last.                                   *)
(***************************************************************************)
Camera == \E view \in Views : Frame(view)

Fairness ==
  /\ WF_vars(Camera)
  /\ WF_vars(pointcloudCallback /\ UNCHANGED restVars)
  /\ WF_vars(VisionNext /\ UNCHANGED restVars /\ Len(images') < Len(images))
  /\ WF_vars(CallbackNext) /\ WF_vars(MtcNext)
  /\ \A c \in Cube : SF_vars(JobSucceeds(c))

Spec == Init /\ [][Next]_vars /\ Fairness

----------------------------------------------------------------------------
(***************************************************************************)
(* Properties.                                                             *)
(***************************************************************************)
TypeOK ==
  /\ VisionTypeOK
  /\ where \in [Cube -> Spot \cup Away]
  /\ executor \in {"idle", "checked", "stored"}
  /\ mtc \in {"poll", "copied", "cleared", "running"}
  /\ \A held \in {first_detection, target, job} : held \in {{}} \cup {{d} : d \in Detection}
  /\ place \in {{}} \cup {{b} : b \in Bin}
  /\ new_cube_available_ \in BOOLEAN
  /\ spawner \in {"start", "spawning"} /\ plan \subseteq [cube : Cube, spot : Spot]
  /\ lain \in [Spot -> SUBSET Cube] /\ mixed \in BOOLEAN

(* The colour is one in which a cube is seen that lies there, or did. *)
Honest(d) == \E c \in lain[d.spot] : d.color \in Shown[c]

(* A job brings a cube to the bin of a colour that it, or another cube that*)
(* has lain on its spot, is seen in: to that of its own colour if no other *)
(* has.  Neither the age of the image and the cloud of its detection nor   *)
(* how often they are paired differently, neither a detection that comes   *)
(* between copy and bin nor a cube on another gets it into a bin that has  *)
(* nothing to do with its spot, except when a target is stored before      *)
(* the bin is read, which is what mixed records.                           *)
(* (imageCallback pairs any image with latest_pointcloud_;                 *)
(* setPlaceApproachStage reads target_cube_color again)                    *)
Sorts(c, s, b) == where[c] = s /\ where'[c] = "off" /\ place = {b} /\ place' = {}

CubesSorted ==
  [][\A c \in Cube, s \in Spot, b \in Bin :
       Sorts(c, s, b) /\ ~mixed =>
         \E x \in lain[s] : \E color \in Shown[x] : b = BinOfColor[color]]_vars

(* README: the "System continuously monitors for new cubes and repeats":   *)
(* when no more cubes arrive, every one leaves the table, and old images   *)
(* do not keep the arm moving.  Cubes on one another are no exception.     *)
SortingEnds == <>[](Occupied = {} /\ mtc = "poll")

----------------------------------------------------------------------------
(***************************************************************************)
(* The inductive invariant: every view and every detection on its way is   *)
(* honest, and the bin is that of the job unless targets were mixed.       *)
(***************************************************************************)
HonestView(view) ==
  \A s \in Spot : view[s] \in Color => Honest([spot |-> s, color |-> view[s]])

TableInv == \A s \in Spot : On(s) \subseteq lain[s]

HonestInv ==
  /\ \A i \in DOMAIN images : HonestView(images[i])
  /\ \A message \in inbox : \A d \in message : Honest(d)
  /\ \A d \in first_detection \cup target \cup job : Honest(d)

BinInv ==
  /\ mtc # "running" => place = {}
  /\ mtc # "poll" /\ ~mixed /\ place = {} => job = target
  /\ ~mixed => \A b \in place : \E d \in job : b = BinOfColor[d.color]

IInv == TypeOK /\ TableInv /\ HonestInv /\ BinInv
=============================================================================
