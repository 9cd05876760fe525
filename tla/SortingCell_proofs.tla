------------------------- MODULE SortingCell_proofs -------------------------
(***************************************************************************)
(* Proofs about SortingCell: for any table, any cubes and colours, queues  *)
(* of any depth and an arm that hides what it likes.  The invariant IInv   *)
(* is stated in SortingCell, where TLC checks it too.                      *)
(***************************************************************************)
EXTENDS SortingCell, TLAPS

(* A subscription's queue stays within its depth, and what is in it was    *)
(* there or has just come.                                                 *)
LEMMA EnqueueKeeps ==
  ASSUME NEW queue \in Seq(View), Len(queue) <= QueueSize, NEW view \in View
  PROVE  /\ Enqueue(queue, view) \in Seq(View)
         /\ Len(Enqueue(queue, view)) <= QueueSize
         /\ \A i \in DOMAIN Enqueue(queue, view) :
              \/ Enqueue(queue, view)[i] = view
              \/ \E j \in DOMAIN queue : Enqueue(queue, view)[i] = queue[j]
<1>1. CASE Len(queue) < QueueSize
  BY <1>1, QueueAssumption DEF Enqueue
<1>2. CASE ~(Len(queue) < QueueSize)
  <2>1. Len(queue) = QueueSize /\ queue # <<>>
    BY <1>2, QueueAssumption
  <2>2. /\ Tail(queue) \in Seq(View)
        /\ Len(Tail(queue)) = Len(queue) - 1
        /\ \A i \in DOMAIN Tail(queue) : Tail(queue)[i] = queue[i + 1] /\ i + 1 \in DOMAIN queue
    BY <2>1
  <2>3. Enqueue(queue, view) = Append(Tail(queue), view)
    BY <1>2 DEF Enqueue
  <2> QED BY <2>1, <2>2, <2>3, QueueAssumption
<1> QED BY <1>1, <1>2

(* The colours of what the camera sees are those of cubes that lie there.  *)
LEMMA ViewsHonest ==
  ASSUME TypeOK, TableInv, NEW view \in Views
  PROVE  view \in View /\ HonestView(view)
<1>1. view \in View
  BY DEF Views
<1>2. ASSUME NEW s \in Spot, view[s] \in Color
      PROVE  Honest([spot |-> s, color |-> view[s]])
  <2>1. PICK H \in Hidden :
          \/ s \in H /\ view[s] = Arm
          \/ s \notin H /\ On(s) = {} /\ view[s] = Empty
          \/ s \notin H /\ \E c \in On(s) : view[s] \in Shown[c]
    BY DEF Views
  <2>2. PICK c \in On(s) : view[s] \in Shown[c]
    BY <1>2, <2>1, ViewAssumption
  <2> QED BY <2>2 DEF TableInv, Honest
<1> QED BY <1>1, <1>2 DEF HonestView

(* A spot keeps what has lain on it, so nothing honest becomes dishonest.  *)
LEMMA HonestStays ==
  ASSUME \A s \in Spot : lain[s] \subseteq lain'[s]
  PROVE  /\ \A d \in Detection : Honest(d) => Honest(d)'
         /\ \A view \in View : HonestView(view) => HonestView(view)'
<1>1. \A d \in Detection : Honest(d) => Honest(d)'
  BY DEF Honest, Detection
<1>2. \A view \in View : HonestView(view) => HonestView(view)'
  BY <1>1 DEF HonestView, Detection
<1> QED BY <1>1, <1>2

(* A step that keeps the views and detections on their way, and the node's *)
(* copies, or drops them.                                                  *)
LEMMA HonestMoves ==
  ASSUME IInv, images' = images, inbox' \subseteq inbox,
         \A d \in first_detection' \cup target' \cup job' :
           \/ d \in first_detection \cup target \cup job
           \/ \E message \in inbox : d \in message,
         \A s \in Spot : lain[s] \subseteq lain'[s]
  PROVE  HonestInv'
<1> USE DEF IInv, TypeOK, VisionTypeOK
<1>1. \A i \in DOMAIN images : images[i] \in View
  OBVIOUS
<1>2. first_detection \cup target \cup job \subseteq Detection /\ \A message \in inbox : message \subseteq Detection
  OBVIOUS
<1>3. \A i \in DOMAIN images' : HonestView(images[i])'
  BY <1>1, HonestStays DEF HonestInv
<1>4. \A d \in Detection : Honest(d) => Honest(d)'
  BY HonestStays
<1> QED BY <1>2, <1>3, <1>4 DEF HonestInv, HonestView, Honest

(* Cubes that are moved lie where cubes have lain.                         *)
LEMMA Moves ==
  ASSUME IInv, NEW w \in [Cube -> Spot \cup Away], Move(w)
  PROVE  /\ where' \in [Cube -> Spot \cup Away] /\ lain' \in [Spot -> SUBSET Cube]
         /\ TableInv' /\ \A s \in Spot : lain[s] \subseteq lain'[s]
<1>1. \A s \in Spot : lain'[s] = lain[s] \cup {c \in Cube : w[c] = s}
  BY DEF Move
<1>2. \A s \in Spot : lain[s] \in SUBSET Cube
  BY DEF IInv, TypeOK
<1>3. lain' \in [Spot -> SUBSET Cube]
  BY <1>2 DEF Move
<1>4. TableInv'
  BY <1>1 DEF Move, TableInv, On
<1> QED BY <1>1, <1>3, <1>4 DEF Move

(* Steps that do not touch the table.                                      *)
LEMMA StillTable ==
  ASSUME IInv, UNCHANGED worldVars
  PROVE  /\ where' \in [Cube -> Spot \cup Away] /\ lain' \in [Spot -> SUBSET Cube]
         /\ TableInv' /\ \A s \in Spot : lain[s] \subseteq lain'[s]
  BY DEF IInv, TypeOK, worldVars, TableInv, On

----------------------------------------------------------------------------
(* The invariant holds when the nodes start.                               *)
LEMMA InitInv == Init => IInv
<1> SUFFICES ASSUME Init PROVE IInv
  OBVIOUS
<1> USE DEF Init, VisionInit, Node!Init
<1>1. where \in [Cube -> Spot \cup Away]
  BY FirstCubesAssumption DEF Away
<1>2. VisionTypeOK
  BY QueueAssumption DEF VisionTypeOK
<1>3. TypeOK
  BY <1>1, <1>2 DEF TypeOK, On
<1>4. TableInv /\ HonestInv /\ BinInv
  BY DEF TableInv, HonestInv, BinInv
<1> QED BY <1>3, <1>4 DEF IInv

----------------------------------------------------------------------------
(* The vision node.  What it finds in an honest image is honest.           *)
LEMMA VisionStep == ASSUME IInv, Sees PROVE IInv'
<1> USE DEF IInv, restVars
<1>1. UNCHANGED <<nodeVars, worldVars, spawnerVars, mixed>> /\ VisionNext
  BY DEF Sees
<1>2. TableInv'
  BY <1>1, StillTable
<1>3. BinInv'
  BY <1>1 DEF BinInv, nodeVars
<1> USE DEF nodeVars, worldVars, spawnerVars
<1>4. VisionTypeOK' /\ HonestInv'
  <2>1. CASE pointcloudCallback
    <3>1. /\ images' = images /\ inbox' = inbox
          /\ latest_pointcloud_' \subseteq View
          /\ clouds' \in Seq(View) /\ Len(clouds') <= QueueSize
      BY <2>1, QueueAssumption DEF pointcloudCallback, TypeOK, VisionTypeOK
    <3> QED BY <1>1, <3>1 DEF TypeOK, VisionTypeOK, HonestInv, HonestView, Honest
  <2>2. ASSUME NEW missed \in SUBSET Border, imageCallback(missed)
        PROVE  VisionTypeOK' /\ HonestInv'
    <3> DEFINE image == Head(images)
    <3>1. /\ images # <<>> /\ images' = Tail(images)
          /\ UNCHANGED <<clouds, latest_pointcloud_>>
          /\ \/ inbox' = {{}}
             \/ \E d \in Found(image) : inbox' = {{d}}
      BY <2>2 DEF imageCallback, First
    <3>2. /\ images' \in Seq(View) /\ Len(images') <= QueueSize
          /\ \A i \in DOMAIN images' : i + 1 \in DOMAIN images /\ images'[i] = images[i + 1]
          /\ image \in View /\ image = images[1] /\ 1 \in DOMAIN images
      BY <3>1, QueueAssumption DEF TypeOK, VisionTypeOK
    <3>3. \A d \in Found(image) : d \in Detection /\ Honest(d)
      <4>1. HonestView(image)
        BY <3>2 DEF HonestInv
      <4> QED BY <4>1 DEF Found, Detected, HonestView, Honest, Detection
    <3>4. VisionTypeOK'
      BY <3>1, <3>2, <3>3 DEF TypeOK, VisionTypeOK
    <3>5. \A message \in inbox' : \A d \in message : Honest(d)
      BY <3>1, <3>3
    <3> QED BY <1>1, <3>2, <3>4, <3>5 DEF HonestInv, HonestView, Honest
  <2> QED BY <1>1, <2>1, <2>2 DEF VisionNext
<1>5. TypeOK'
  BY <1>1, <1>4 DEF TypeOK
<1> QED BY <1>2, <1>3, <1>4, <1>5

(* The camera.                                                             *)
LEMMA CameraStep == ASSUME IInv, NEW view \in Views, Frame(view) PROVE IInv'
<1> USE DEF IInv
<1>1. /\ images' = Enqueue(images, view) /\ clouds' = Enqueue(clouds, view)
      /\ UNCHANGED <<latest_pointcloud_, inbox, nodeVars, worldVars, spawnerVars, mixed>>
  BY DEF Frame, restVars
<1>2. view \in View /\ HonestView(view)
  BY ViewsHonest
<1>3. TableInv'
  BY <1>1, StillTable
<1>4. BinInv'
  BY <1>1 DEF BinInv, nodeVars
<1> USE DEF nodeVars, worldVars, spawnerVars
<1>5. /\ images' \in Seq(View) /\ Len(images') <= QueueSize
      /\ \A i \in DOMAIN images' : images'[i] = view \/ \E j \in DOMAIN images : images'[i] = images[j]
  BY <1>1, <1>2, EnqueueKeeps DEF TypeOK, VisionTypeOK
<1>6. clouds' \in Seq(View) /\ Len(clouds') <= QueueSize
  BY <1>1, <1>2, EnqueueKeeps DEF TypeOK, VisionTypeOK
<1>7. TypeOK'
  BY <1>1, <1>5, <1>6 DEF TypeOK, VisionTypeOK
<1>8. HonestInv'
  <2>1. \A i \in DOMAIN images' : HonestView(images'[i])
    BY <1>2, <1>5 DEF HonestInv
  <2> QED BY <1>1, <2>1 DEF HonestInv, HonestView, Honest
<1> QED BY <1>3, <1>4, <1>7, <1>8

----------------------------------------------------------------------------
(* The node's steps before a job ends: they hand detections on, and the bin*)
(* is that of the job, or the step is remembered in mixed.                 *)
LEMMA NodeStep ==
  ASSUME IInv, CallbackNext \/ MtcPrepares \/ MtcReads
  PROVE  IInv'
<1> USE DEF IInv
<1>1. UNCHANGED <<images, clouds, latest_pointcloud_, worldVars, spawnerVars>>
  BY DEF CallbackNext, CallbackIgnores, CallbackChecks, CallbackStores, CallbackFlags,
         MtcPrepares, MtcReads, elseVars, restVars, visionVars
<1>2. TableInv' /\ \A s \in Spot : lain[s] \subseteq lain'[s]
  BY <1>1, StillTable
<1>3. /\ inbox' \subseteq inbox
      /\ executor' \in {"idle", "checked", "stored"}
      /\ mtc' \in {"poll", "copied", "cleared", "running"}
      /\ \A held \in {first_detection', target', job'} : held \in {{}} \cup {{d} : d \in Detection}
      /\ \A d \in first_detection' \cup target' \cup job' :
           \/ d \in first_detection \cup target \cup job
           \/ \E message \in inbox : d \in message
      /\ place' \in {{}} \cup {{b} : b \in Bin}
      /\ new_cube_available_' \in BOOLEAN /\ mixed' \in BOOLEAN
      /\ BinInv'
  <2> USE DEF TypeOK, VisionTypeOK, BinInv
  <2>1. ASSUME NEW message \in inbox, CallbackIgnores(message) PROVE <1>3!:
    BY <2>1 DEF CallbackIgnores, restVars, nodeVars
  <2>2. ASSUME NEW message \in inbox, NEW d \in message, CallbackChecks(d) PROVE <1>3!:
    <3>1. d \in Detection
      OBVIOUS
    <3> QED BY <2>2, <3>1 DEF CallbackChecks, Node!Checks
  <2>3. CASE CallbackStores
    BY <2>3 DEF CallbackStores, Node!Stores, elseVars, visionVars
  <2>4. CASE CallbackFlags
    BY <2>4 DEF CallbackFlags, Node!Flags, elseVars, visionVars
  <2>5. CASE MtcPrepares
    BY <2>5 DEF MtcPrepares, Node!Copies, Node!Clears, Node!Marks, elseVars, visionVars
  <2>6. CASE MtcReads
    <3>1. \A d \in Detection : BinOfColor[d.color] \in Bin
      BY BinAssumption DEF Detection
    <3>2. /\ mtc = "running" /\ place = {}
          /\ mixed' = (mixed \/ executor = "checked")
          /\ UNCHANGED <<visionVars, executor, first_detection, target, new_cube_available_, mtc, job>>
      BY <2>6 DEF MtcReads, Node!Reads, elseVars
    <3>3. \/ \E d \in target : place' = {BinOfColor[d.color]}
          \/ executor = "checked" /\ \E b \in Bin : place' = {b}
      <4>1. target \subseteq Detection
        OBVIOUS
      <4>2. \/ \E d \in target : place' = {[e \in Detection |-> BinOfColor[e.color]][d]}
            \/ executor = "checked" /\ \E b \in Bin : place' = {b}
        BY <2>6 DEF MtcReads, Node!Reads
      <4> QED BY <4>1, <4>2
    <3>4. place' \in {{}} \cup {{b} : b \in Bin}
      BY <3>1, <3>3
    <3>5. BinInv'
      BY <3>2, <3>3
    <3> QED BY <3>2, <3>4, <3>5 DEF visionVars
  <2> QED BY <2>1, <2>2, <2>3, <2>4, <2>5, <2>6 DEF CallbackNext
<1>4. TypeOK'
  BY <1>1, <1>3 DEF TypeOK, VisionTypeOK, worldVars, spawnerVars
<1>5. HonestInv'
  BY <1>1, <1>2, <1>3, HonestMoves
<1> QED BY <1>2, <1>3, <1>4, <1>5

(* A job ends, with its cube in the bin, elsewhere on the table, or where  *)
(* it was.                                                                 *)
LEMMA JobStep ==
  ASSUME IInv, JobMisses \/ \E c \in Cube : JobSucceeds(c) \/ JobDrops(c)
  PROVE  IInv'
<1> USE DEF IInv
<1>1. /\ UNCHANGED <<visionVars, spawnerVars, executor, first_detection, target, new_cube_available_>>
      /\ mtc' = "poll" /\ job' = {} /\ place' = {} /\ mixed' = FALSE
  BY DEF JobMisses, JobSucceeds, JobDrops, JobEnds, Node!Ends
<1>2. /\ where' \in [Cube -> Spot \cup Away] /\ lain' \in [Spot -> SUBSET Cube]
      /\ TableInv' /\ \A s \in Spot : lain[s] \subseteq lain'[s]
  <2>1. CASE JobMisses
    BY <2>1, StillTable DEF JobMisses
  <2>2. ASSUME NEW c \in Cube, JobSucceeds(c) \/ JobDrops(c) PROVE <1>2!:
    <3>1. PICK p \in Spot \cup Away : Move([where EXCEPT ![c] = p])
      BY <2>2 DEF JobSucceeds, JobDrops, Away
    <3>2. [where EXCEPT ![c] = p] \in [Cube -> Spot \cup Away]
      BY DEF TypeOK
    <3> QED BY <3>1, <3>2, Moves
  <2> QED BY <2>1, <2>2
<1>3. TypeOK'
  BY <1>1, <1>2 DEF TypeOK, VisionTypeOK, visionVars, spawnerVars
<1>4. HonestInv'
  BY <1>1, <1>2, HonestMoves DEF visionVars
<1>5. BinInv'
  BY <1>1 DEF BinInv
<1> QED BY <1>2, <1>3, <1>4, <1>5

----------------------------------------------------------------------------
(* The spawner.                                                            *)
LEMMA SpawnStep == ASSUME IInv, SpawnerNext PROVE IInv'
<1> USE DEF IInv
<1>1. /\ UNCHANGED <<visionVars, nodeVars, mixed>>
      /\ spawner' \in {"start", "spawning"} /\ plan' \subseteq [cube : Cube, spot : Spot]
  BY DEF SpawnerNext, PlanSpawns, SpawnCube, TypeOK
<1>2. /\ where' \in [Cube -> Spot \cup Away] /\ lain' \in [Spot -> SUBSET Cube]
      /\ TableInv' /\ \A s \in Spot : lain[s] \subseteq lain'[s]
  <2>1. CASE UNCHANGED worldVars
    BY <2>1, StillTable
  <2>2. ASSUME NEW e \in plan, e.spot \notin Occupied, Move([where EXCEPT ![e.cube] = e.spot])
        PROVE  <1>2!:
    <3>1. [where EXCEPT ![e.cube] = e.spot] \in [Cube -> Spot \cup Away]
      BY DEF TypeOK
    <3> QED BY <2>2, <3>1, Moves
  <2>3. ASSUME NEW e \in plan, NEW f \in [On(e.spot) \cup {e.cube} -> Spot \cup {"off"}],
               Move([c \in Cube |-> IF c \in DOMAIN f THEN f[c] ELSE where[c]])
        PROVE  <1>2!:
    <3>1. [c \in Cube |-> IF c \in DOMAIN f THEN f[c] ELSE where[c]] \in [Cube -> Spot \cup Away]
      BY DEF TypeOK, Away
    <3> QED BY <2>3, <3>1, Moves
  <2> QED BY <2>1, <2>2, <2>3 DEF SpawnerNext, PlanSpawns, SpawnCube
<1>3. TypeOK'
  BY <1>1, <1>2 DEF TypeOK, VisionTypeOK, visionVars, nodeVars
<1>4. HonestInv'
  BY <1>1, <1>2, HonestMoves DEF visionVars, nodeVars
<1>5. BinInv'
  BY <1>1 DEF BinInv, nodeVars
<1> QED BY <1>2, <1>3, <1>4, <1>5

----------------------------------------------------------------------------
(* Nothing happens.                                                        *)
LEMMA Stutter == IInv /\ UNCHANGED vars => IInv'
  BY DEF IInv, vars, visionVars, nodeVars, worldVars, spawnerVars, TypeOK, VisionTypeOK,
     TableInv, HonestInv, HonestView, Honest, BinInv, On

(* The invariant is inductive.                                             *)
THEOREM Invariance == Spec => []IInv
<1>1. IInv /\ [Next]_vars => IInv'
  BY CameraStep, VisionStep, NodeStep, JobStep, SpawnStep, Stutter DEF Next, MtcNext
<1> QED BY <1>1, InitInv, PTL DEF Spec

(* A cube goes to the bin of a colour that a cube which has lain on its    *)
(* spot is seen in, unless a target was stored before the bin was read.    *)
(* (the pairing in imageCallback, setPlaceApproachStage)                   *)
THEOREM ColourSafety == Spec => CubesSorted
<1> DEFINE Right(c, s, b) == \E x \in lain[s] : \E color \in Shown[x] : b = BinOfColor[color]
<1>1. ASSUME IInv, [Next]_vars, NEW c \in Cube, NEW s \in Spot, NEW b \in Bin, Sorts(c, s, b), ~mixed
      PROVE  Right(c, s, b)
  <2>1. where[c] = s /\ where'[c] = "off" /\ place = {b} /\ place' = {}
    BY <1>1 DEF Sorts
  <2>2. s # "off"
    BY PlaceAssumption DEF Away
  <2>3. JobSucceeds(c)
    <3>1. ~UNCHANGED place /\ ~UNCHANGED where
      BY <2>1, <2>2
    <3>2. \E d \in Cube : JobSucceeds(d) \/ JobDrops(d)
      BY <1>1, <3>1 DEF Next, vars, Frame, Sees, restVars, CallbackNext, CallbackIgnores, CallbackChecks,
         CallbackStores, CallbackFlags, MtcNext, MtcPrepares, MtcReads, JobMisses, elseVars, nodeVars,
         worldVars, SpawnerNext, PlanSpawns, SpawnCube
    <3>3. PICK d \in Cube : JobSucceeds(d) \/ JobDrops(d)
      BY <3>2
    <3>4. PICK p \in Spot \cup {"off"} : where' = [where EXCEPT ![d] = p] /\ (p \in Spot \/ JobSucceeds(d))
      BY <3>3 DEF JobSucceeds, JobDrops, Move
    <3>5. c = d /\ p = "off"
      BY <1>1, <2>1, <2>2, <3>4 DEF IInv, TypeOK
    <3> QED BY <3>4, <3>5, PlaceAssumption DEF Away
  <2>4. PICK d \in job : s = d.spot /\ d \in Detection /\ job = {d}
    BY <1>1, <2>1, <2>3 DEF JobSucceeds, Targeted, IInv, TypeOK
  <2>5. b = BinOfColor[d.color]
    BY <1>1, <2>1, <2>4 DEF IInv, BinInv
  <2>6. Honest(d)
    BY <1>1, <2>4 DEF IInv, HonestInv
  <2> QED BY <2>4, <2>5, <2>6 DEF Honest
<1>2. IInv /\ [Next]_vars =>
        [\A c \in Cube, s \in Spot, b \in Bin : Sorts(c, s, b) /\ ~mixed => Right(c, s, b)]_vars
  BY <1>1
<1> QED BY <1>2, Invariance, PTL DEF Spec, CubesSorted

(* Every variable keeps its type; the queues keep their depth.             *)
THEOREM TypeCorrect == Spec => []TypeOK
<1>1. IInv => TypeOK
  BY DEF IInv
<1> QED BY <1>1, Invariance, PTL

(* Whatever the camera, the arm and the spawner do, the cell's node only   *)
(* takes steps of PickCycle, which is what PickPlaceNode implements: what  *)
(* it is given to check was in its inbox. (initializeMTC, cubePoseCallback)*)
THEOREM NodeInCell == Spec => Node!Spec
<1>1. Init => Node!Init
  BY DEF Init
<1>2. IInv /\ [Next]_vars => [Node!Next]_Node!cycleVars
  <2> SUFFICES ASSUME IInv, [Next]_vars PROVE [Node!Next]_Node!cycleVars
    OBVIOUS
  <2> USE DEF Node!Next, Node!cycleVars
  <2>1. CASE CallbackNext
    <3>1. ASSUME NEW message \in inbox, NEW d \in message, CallbackChecks(d)
          PROVE  Node!Next
      <4>1. d \in Detection
        BY DEF IInv, TypeOK, VisionTypeOK
      <4> QED BY <3>1, <4>1 DEF CallbackChecks
    <3>2. ASSUME NEW message \in inbox, CallbackIgnores(message)
          PROVE  UNCHANGED Node!cycleVars
      BY <3>2 DEF CallbackIgnores, restVars, nodeVars
    <3> QED BY <2>1, <3>1, <3>2 DEF CallbackNext, CallbackStores, CallbackFlags
  <2>2. CASE MtcNext
    BY <2>2 DEF MtcNext, MtcPrepares, MtcReads, JobSucceeds, JobDrops, JobMisses, JobEnds
  <2>3. CASE SpawnerNext \/ Sees \/ (\E view \in Views : Frame(view)) \/ UNCHANGED vars
    BY <2>3 DEF SpawnerNext, PlanSpawns, SpawnCube, Sees, restVars, Frame, vars, nodeVars
  <2> QED BY <2>1, <2>2, <2>3 DEF Next
<1> QED BY <1>1, <1>2, Invariance, PTL DEF Spec, Node!Spec
=============================================================================
