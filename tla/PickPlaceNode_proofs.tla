------------------------ MODULE PickPlaceNode_proofs ------------------------
(***************************************************************************)
(* Proofs about PickPlaceNode for every set of poses, colours, bins and    *)
(* messages.  The inductive invariant IInv is stated in PickPlaceNode,     *)
(* where TLC checks it too.                                                *)
(***************************************************************************)
EXTENDS PickPlaceNode, TLAPS

USE DEF callbackVars, sharedVars, mtcVars, mainVars, history, Preparing, JobRunning, BinChosen

(* Every bin a colour selects is one of the known bins, also for a colour  *)
(* without an entry. (getBinPoseForColor)                                  *)
LEMMA BinOfColor ==
  \A color \in Color : getBinPoseForColor(color) \in Bin /\ getBinPoseForColor(color) \in KnownBins
  BY ColorAssumption DEF getBinPoseForColor, KnownBins

(* The invariant holds of the constructed node.                            *)
LEMMA InitInv == Init => IInv
<1> SUFFICES ASSUME Init PROVE IInv
  OBVIOUS
<1> USE PoseAssumption, ColorAssumption DEF Init
<1>1. TypeOK
  BY DEF TypeOK, Detection
<1>2. PosesInv
  BY DEF PosesInv, GoalOnTable, isOnTable
<1>3. LateInv /\ CopiesInv /\ ThreadsInv
  BY DEF LateInv, CopiesInv, ThreadsInv, FlagSpent
<1>4. MatchInv
  BY DEF MatchInv, PlacedByItsColor
<1> QED
  BY <1>1, <1>2, <1>3, <1>4 DEF IInv

----------------------------------------------------------------------------
(* Steps of the callback, conjunct by conjunct.                            *)
LEMMA CallbackStep ==
  ASSUME IInv, CallbackNext
  PROVE  IInv'
<1> USE DEF IInv, TypeOK, PosesInv, LateInv, CopiesInv, MatchInv, ThreadsInv,
            GoalOnTable, PlacedByItsColor, FlagSpent,
            getBinPoseForColor, isOnTable
<1>1. CASE SpinTest \/ SpinWake
  BY <1>1 DEF SpinTest, SpinWake
<1>2. ASSUME NEW msg \in Messages, CallbackIgnores(msg)
      PROVE  IInv'
  BY <1>2 DEF CallbackIgnores
<1>3. ASSUME NEW msg \in Messages, CallbackAccepts(msg)
      PROVE  IInv'
  BY <1>3, MessagesAssumption DEF CallbackAccepts, Accepted
<1>4. CASE CallbackLocks
  BY <1>4 DEF CallbackLocks
<1>5. CASE CallbackStores
  BY <1>5 DEF CallbackStores
<1>6. ASSUME NEW success \in BOOLEAN, updatePlanningScene(success)
      PROVE  IInv'
  BY <1>6 DEF updatePlanningScene
<1>7. CASE CallbackFlags
  BY <1>7 DEF CallbackFlags
<1> QED
  BY <1>1, <1>2, <1>3, <1>4, <1>5, <1>6, <1>7 DEF CallbackNext

(* The copy under the lock keeps the types: the counter grows by one.      *)
LEMMA CopiesTyped == TypeOK /\ MtcCopies => TypeOK'
<1> SUFFICES ASSUME TypeOK, MtcCopies PROVE TypeOK'
  OBVIOUS
<1>1. cube' \in Detection /\ mtc' = "clear" /\ disturbed' = FALSE
  BY DEF TypeOK, MtcCopies
<1>2. copies' \in Nat
  BY DEF TypeOK, MtcCopies
<1>3. UNCHANGED <<callbackVars, sharedVars, goal, mainVars, lateStores, inbox>>
  BY DEF MtcCopies
<1> QED
  BY <1>1, <1>2, <1>3 DEF TypeOK

(* Steps of the MTC thread.                                                *)
LEMMA MtcStep ==
  ASSUME IInv, MtcNext
  PROVE  IInv'
<1> USE DEF IInv, TypeOK, PosesInv, LateInv, CopiesInv, MatchInv, ThreadsInv,
            GoalOnTable, PlacedByItsColor, FlagSpent, isOnTable
<1>1. CASE MtcReturns \/ MtcSeesFlag
  BY <1>1 DEF MtcReturns, MtcSeesFlag, Stopping
<1>2. CASE MtcCopies
  <2>1. TypeOK'
    BY <1>2, CopiesTyped DEF MtcCopies
  <2>2. PosesInv'
    BY <1>2 DEF MtcCopies
  <2>3. LateInv' /\ CopiesInv' /\ ThreadsInv'
    BY <1>2 DEF MtcCopies
  <2>4. MatchInv'
    BY <1>2 DEF MtcCopies
  <2> QED
    BY <2>1, <2>2, <2>3, <2>4
<1>3. CASE MtcClears
  <2>1. TypeOK'
    BY <1>3 DEF MtcClears
  <2>2. PosesInv'
    BY <1>3 DEF MtcClears
  <2>3. LateInv' /\ CopiesInv' /\ ThreadsInv'
    BY <1>3 DEF MtcClears
  <2>4. MatchInv'
    BY <1>3 DEF MtcClears
  <2> QED
    BY <2>1, <2>2, <2>3, <2>4
<1>8. CASE MtcMarks
  <2>1. TypeOK'
    BY <1>8 DEF MtcMarks
  <2>2. PosesInv'
    BY <1>8 DEF MtcMarks
  <2>3. LateInv' /\ CopiesInv' /\ ThreadsInv'
    BY <1>8 DEF MtcMarks
  <2>4. MatchInv'
    BY <1>8 DEF MtcMarks
  <2> QED
    BY <2>1, <2>2, <2>3, <2>4
<1>4. CASE setApproachStage
  BY <1>4, PoseAssumption DEF setApproachStage, Detection
<1>5. ASSUME NEW color \in Color, setPlaceApproachStage(color)
      PROVE  IInv'
  <2>1. goal'.place = {getBinPoseForColor(color)} /\ goal'.approach = goal.approach
    BY <1>5 DEF setPlaceApproachStage
  <2> QED
    BY <1>5, <2>1, BinOfColor DEF setPlaceApproachStage, ColorsRead
<1>6. CASE PlanFails \/ PlanSucceeds \/ ExecutionEnds
  BY <1>6 DEF PlanFails, PlanSucceeds, ExecutionEnds
<1>7. CASE MtcUnmarks
  BY <1>7 DEF MtcUnmarks
<1> QED
  BY <1>1, <1>2, <1>3, <1>4, <1>5, <1>6, <1>7, <1>8 DEF MtcNext

(* Steps of the vision node, the user and the main thread.                 *)
LEMMA OtherStep ==
  ASSUME IInv,
         \/ \E m \in Messages : Publish(m)
         \/ Interrupt \/ MainNext \/ UNCHANGED vars
  PROVE  IInv'
<1> USE DEF IInv, TypeOK, PosesInv, LateInv, CopiesInv, MatchInv, ThreadsInv,
            GoalOnTable, PlacedByItsColor, FlagSpent, isOnTable,
            getBinPoseForColor
<1>1. ASSUME NEW m \in Messages, Publish(m)
      PROVE  IInv'
  <2>1. TypeOK'
    BY <1>1 DEF Publish
  <2>2. PosesInv'
    BY <1>1 DEF Publish
  <2>3. LateInv' /\ CopiesInv' /\ ThreadsInv'
    BY <1>1 DEF Publish
  <2>4. MatchInv'
    BY <1>1 DEF Publish
  <2> QED
    BY <2>1, <2>2, <2>3, <2>4
<1>2. CASE Interrupt
  <2>1. TypeOK'
    BY <1>2 DEF Interrupt
  <2>2. PosesInv'
    BY <1>2 DEF Interrupt
  <2>3. LateInv' /\ CopiesInv' /\ ThreadsInv'
    BY <1>2 DEF Interrupt
  <2>4. MatchInv'
    BY <1>2 DEF Interrupt
  <2> QED
    BY <2>1, <2>2, <2>3, <2>4
<1>3. CASE MainNext
  <2>1. CASE MainJoinsExecutor
    BY <2>1 DEF MainJoinsExecutor
  <2>2. CASE MainReturns
    BY <2>2 DEF MainReturns
  <2> QED
    BY <1>3, <2>1, <2>2 DEF MainNext
<1>4. CASE UNCHANGED vars
  BY <1>4 DEF vars
<1> QED
  BY <1>1, <1>2, <1>3, <1>4

(* Every step of the node preserves the invariant.                         *)
LEMMA NextInv == IInv /\ [Next]_vars => IInv'
  BY CallbackStep, MtcStep, OtherStep DEF Next, Finished

(* The invariant of the node, for every value of the constants.            *)
THEOREM Invariance == Spec => []IInv
  BY InitInv, NextInv, PTL DEF Spec

(* Every variable keeps its type.                                          *)
THEOREM TypeCorrect == Spec => []TypeOK
<1>1. IInv => TypeOK
  BY DEF IInv
<1> QED
  BY <1>1, Invariance, PTL

(* The arm is only sent above poses that passed isOnTable.                 *)
THEOREM GoalSafety == Spec => []GoalOnTable
<1>1. IInv => GoalOnTable
  BY DEF IInv, PosesInv
<1> QED
  BY <1>1, Invariance, PTL

(* At most one callback overtakes pipeline_executing_.                     *)
THEOREM LateStoreBound == Spec => []AtMostOneLateStore
<1>1. IInv => AtMostOneLateStore
  BY DEF IInv, LateInv, TypeOK, AtMostOneLateStore
<1> QED
  BY <1>1, Invariance, PTL

(* A stored detection is run at most twice.                                *)
THEOREM RunBound == Spec => []AtMostTwoRuns
<1>1. IInv => AtMostTwoRuns
  BY DEF IInv, CopiesInv, AtMostTwoRuns
<1> QED
  BY <1>1, Invariance, PTL

(* Without a store since the copy the cube goes to the bin of its colour.  *)
THEOREM ColorSafety == Spec => []PlacedByItsColor
<1>1. IInv => PlacedByItsColor
  BY DEF IInv, MatchInv
<1> QED
  BY <1>1, Invariance, PTL

----------------------------------------------------------------------------
(* Refinement: the store is Accept, the copy is Start, lowering            *)
(* pipeline_executing_ is Finish, and every other step stutters.           *)
LEMMA JobsInit == Init => Jobs!Init
  BY PoseAssumption DEF Init, Jobs!Init

(* Storing the target is accepting a checked detection.                    *)
LEMMA StoreIsAccept == IInv /\ CallbackStores => Jobs!Next
<1> SUFFICES ASSUME IInv, CallbackStores PROVE Jobs!Accept(first_detection)
                                          /\ first_detection \in Jobs!OnTableDetection
  BY DEF Jobs!Next
<1>1. isOnTable(first_detection.pose) /\ first_detection \in Detection
  BY DEF IInv, PosesInv, TypeOK, CallbackStores
<1>2. first_detection \in Jobs!OnTableDetection
  BY <1>1 DEF isOnTable, Detection, Jobs!OnTableDetection
<1>3. target' = first_detection /\ target'.pose # DefaultPose
  BY <1>1, PoseAssumption DEF CallbackStores, isOnTable
<1> QED
  BY <1>2, <1>3 DEF Jobs!Accept, CallbackStores

(* The copy starts a job on the last accepted detection, at most twice.    *)
LEMMA CopyIsStart == IInv /\ IInv' /\ MtcCopies => Jobs!Next
<1> SUFFICES ASSUME IInv, IInv', MtcCopies PROVE Jobs!Start
  BY DEF Jobs!Next
<1>1. new_cube_available_ /\ isOnTable(target.pose)
  BY DEF IInv, PosesInv, MtcCopies
<1>2. target.pose # DefaultPose
  BY <1>1, PoseAssumption DEF isOnTable
<1>3. copies \in Nat /\ copies + 1 <= 2
  BY DEF IInv, TypeOK, CopiesInv, MtcCopies
<1> QED
  BY <1>2, <1>3 DEF Jobs!Start, MtcCopies

(* Lowering pipeline_executing_ ends the job.                              *)
LEMMA UnmarkIsFinish == MtcUnmarks => Jobs!Next
  BY DEF MtcUnmarks, Jobs!Next, Jobs!Finish

(* No other step changes what PickJobs sees.                               *)
LEMMA OthersStutter ==
  ASSUME [Next]_vars, ~CallbackStores, ~MtcCopies, ~MtcUnmarks
  PROVE  UNCHANGED Jobs!jobVars
<1>1. CASE CallbackNext
  BY <1>1 DEF CallbackNext, SpinTest, SpinWake, CallbackIgnores, CallbackAccepts,
              CallbackLocks, updatePlanningScene, CallbackFlags, Jobs!jobVars
<1>2. CASE MtcNext
  BY <1>2 DEF MtcNext, MtcReturns, MtcSeesFlag, MtcClears, MtcMarks, setApproachStage,
              setPlaceApproachStage, PlanFails, PlanSucceeds, ExecutionEnds, Jobs!jobVars
<1>3. CASE MainNext \/ Interrupt
  BY <1>3 DEF MainNext, MainJoinsExecutor, MainReturns, Interrupt, Jobs!jobVars
<1>4. CASE (\E m \in Messages : Publish(m)) \/ Finished \/ UNCHANGED vars
  BY <1>4 DEF Publish, Finished, vars, Jobs!jobVars
<1> QED
  BY <1>1, <1>2, <1>3, <1>4 DEF Next

(* The node with its threads, flags and lock implements PickJobs.          *)
THEOREM Refinement == Spec => ImplementsPickJobs
<1>1. IInv /\ IInv' /\ [Next]_vars => [Jobs!Next]_Jobs!jobVars
  BY StoreIsAccept, CopyIsStart, UnmarkIsFinish, OthersStutter
<1> QED
  BY <1>1, JobsInit, Invariance, PTL DEF Spec, ImplementsPickJobs, Jobs!Spec

----------------------------------------------------------------------------
(* Refinement of the composition's node.  Each step is a step of PickCycle *)
(* or changes nothing of it; the callback's check, the store and the copy  *)
(* need the invariant.                                                     *)
LEMMA CycleInit == Init => Cycle!Init
  BY PoseAssumption DEF Init, Cycle!Init, Preparing, JobRunning

(* The detection that is checked lies on the table and no pipeline runs.   *)
LEMMA AcceptIsCheck ==
  ASSUME IInv, NEW msg \in Messages, CallbackAccepts(msg)
  PROVE  Cycle!Next
<1>1. msg[1] \in [pose : TablePose, color : Color]
  BY MessagesAssumption DEF CallbackAccepts, Accepted, isOnTable, Detection
<1>2. mtc \notin Preparing
  BY DEF IInv, LateInv, CallbackAccepts, Accepted
<1>3. Cycle!Checks(msg[1])
  BY <1>2 DEF Cycle!Checks, CallbackAccepts, Preparing, JobRunning
<1> QED BY <1>1, <1>3 DEF Cycle!Next

(* What is stored is what was checked, and is not the default pose.        *)
LEMMA StoreIsStore == IInv /\ CallbackStores => Cycle!Stores
<1> SUFFICES ASSUME IInv, CallbackStores PROVE Cycle!Stores
  OBVIOUS
<1>1. first_detection.pose # DefaultPose
  BY PoseAssumption DEF IInv, PosesInv, isOnTable, CallbackStores
<1> QED BY <1>1 DEF Cycle!Stores, CallbackStores, mtcVars, Preparing, JobRunning

(* The other steps of the callback's thread.                               *)
LEMMA CallbackIsCycle == IInv /\ CallbackNext => [Cycle!Next]_Cycle!cycleVars
<1> SUFFICES ASSUME IInv, CallbackNext PROVE [Cycle!Next]_Cycle!cycleVars
  OBVIOUS
<1> USE DEF sharedVars, mtcVars, Preparing, JobRunning
<1>1. CASE SpinTest \/ SpinWake \/ CallbackLocks \/ (\E b \in BOOLEAN : updatePlanningScene(b))
  BY <1>1 DEF SpinTest, SpinWake, CallbackLocks, updatePlanningScene, Cycle!cycleVars
<1>2. CASE \E msg \in Messages : CallbackIgnores(msg)
  BY <1>2 DEF CallbackIgnores, Cycle!cycleVars
<1>3. CASE CallbackFlags
  BY <1>3 DEF CallbackFlags, Cycle!Flags, Cycle!Next
<1> QED BY <1>1, <1>2, <1>3, AcceptIsCheck, StoreIsStore DEF CallbackNext, Cycle!Next

(* The bin is that of the target, or any while the callback is writing it. *)
LEMMA PlaceIsRead ==
  ASSUME IInv, NEW color \in Color, setPlaceApproachStage(color)
  PROVE  Cycle!Reads
<1>1. /\ mtc = "place" /\ mtc' = "plan" /\ color \in ColorsRead
      /\ goal'.place = {getBinPoseForColor(color)}
      /\ UNCHANGED <<callbackVars, sharedVars, cube>>
  BY DEF setPlaceApproachStage, IInv, TypeOK
<1>2. target \in [pose : TablePose, color : Color] /\ target.pose # DefaultPose
  BY <1>1, PoseAssumption DEF IInv, TypeOK, PosesInv, isOnTable, Detection
<1>3. CASE executor = "store"
  <2>1. getBinPoseForColor(color) \in KnownBins
    BY BinOfColor
  <2> QED BY <1>1, <1>2, <1>3, <2>1 DEF Cycle!Reads
<1>4. CASE executor # "store"
  <2>1. color = target.color
    BY <1>1, <1>4 DEF ColorsRead
  <2> QED BY <1>1, <1>2, <2>1 DEF Cycle!Reads
<1> QED BY <1>3, <1>4

(* The MTC thread copies with the flag up; between the mark and lowering   *)
(* pipeline_executing_ only the choice of the bin is a step of the cycle.  *)
LEMMA MtcIsCycle == IInv /\ MtcNext => [Cycle!Next]_Cycle!cycleVars
<1> SUFFICES ASSUME IInv, MtcNext PROVE [Cycle!Next]_Cycle!cycleVars
  OBVIOUS
<1> USE DEF callbackVars, sharedVars, Preparing, JobRunning
<1>1. CASE MtcReturns \/ MtcSeesFlag
  BY <1>1 DEF MtcReturns, MtcSeesFlag, Cycle!cycleVars
<1>2. CASE MtcCopies
  <2>1. new_cube_available_ /\ target.pose # DefaultPose
    BY <1>2, PoseAssumption DEF IInv, PosesInv, isOnTable, MtcCopies
  <2> QED BY <1>2, <2>1 DEF MtcCopies, Cycle!Copies, Cycle!Next
<1>3. CASE MtcClears
  BY <1>3 DEF MtcClears, Cycle!Clears, Cycle!Next
<1>4. CASE MtcMarks
  BY <1>4 DEF MtcMarks, Cycle!Marks, Cycle!Next
<1>5. CASE setApproachStage
  BY <1>5 DEF setApproachStage, Cycle!cycleVars
<1>8. ASSUME NEW color \in Color, setPlaceApproachStage(color)
      PROVE  Cycle!Next
  BY <1>8, PlaceIsRead DEF Cycle!Next
<1>6. CASE PlanFails \/ PlanSucceeds \/ ExecutionEnds
  BY <1>6 DEF PlanFails, PlanSucceeds, ExecutionEnds, Cycle!cycleVars
<1>7. CASE MtcUnmarks
  <2>1. goal.place # {}
    BY <1>7 DEF MtcUnmarks, IInv, MatchInv
  <2> QED BY <1>7, <2>1 DEF MtcUnmarks, Cycle!Ends, Cycle!Next
<1> QED BY <1>1, <1>2, <1>3, <1>4, <1>5, <1>6, <1>7, <1>8 DEF MtcNext

(* The node of the composition is an abstraction of this one: what is      *)
(* shown of SortingCell's node holds for the threads, the flags and the    *)
(* mutex of the code. (cubePoseCallback, initializeMTC)                    *)
THEOREM CycleRefinement == Spec => ImplementsPickCycle
<1>1. IInv /\ [Next]_vars => [Cycle!Next]_Cycle!cycleVars
  <2> SUFFICES ASSUME IInv, [Next]_vars PROVE [Cycle!Next]_Cycle!cycleVars
    OBVIOUS
  <2> USE DEF callbackVars, sharedVars, mtcVars, Preparing, JobRunning
  <2>1. CASE MainNext \/ Interrupt
    BY <2>1 DEF MainNext, MainJoinsExecutor, MainReturns, Interrupt, Cycle!cycleVars
  <2>2. CASE (\E m \in Messages : Publish(m)) \/ Finished \/ UNCHANGED vars
    BY <2>2 DEF Publish, Finished, vars, Cycle!cycleVars
  <2> QED BY <2>1, <2>2, CallbackIsCycle, MtcIsCycle DEF Next
<1> QED
  BY <1>1, CycleInit, Invariance, PTL DEF Spec, ImplementsPickCycle, Cycle!Spec

----------------------------------------------------------------------------
(***************************************************************************)
(* The way down.  ProcessEnds is a liveness property, which TLC checks;    *)
(* what makes it true is that each thread has a bounded way to its end and *)
(* that nothing sends it back.                                             *)
(***************************************************************************)
CallbackSteps ==
  CASE executor = "returned" -> 0 [] executor = "test" -> 1 [] executor = "flag" -> 2
    [] executor = "scene" -> 3 [] executor = "store" -> 4 [] executor = "lock" -> 5
    [] OTHER -> 6

MtcSteps ==
  CASE mtc = "returned" -> 0 [] mtc = "poll" -> 1 [] mtc = "unmark" -> 2
    [] mtc = "execute" -> 3 [] mtc = "plan" -> 4 [] mtc = "place" -> 5
    [] mtc = "approach" -> 6 [] mtc = "mark" -> 7 [] mtc = "clear" -> 8 [] OTHER -> 9

MainSteps ==
  CASE main = "exited" -> 0 [] main = "return" -> 1 [] OTHER -> 2

(* When main returns, the MTC thread ends wherever it is. *)
ShutdownSteps == IF main = "exited" THEN 0 ELSE CallbackSteps + MtcSteps + MainSteps

(* Once ROS is shut down every step that is taken brings the process    *)
(* closer to its end: the callback and the pipeline in progress are the last.     *)
ShutdownDescends == [][~rosOk => ~rosOk' /\ ShutdownSteps' < ShutdownSteps]_vars

(* The end is that of main, at most 17 steps away.                         *)
ShutdownBound ==
  ShutdownSteps \in 0 .. 17 /\ (ShutdownSteps = 0 <=> main = "exited")

(* One thread's step lowers the sum of three counts.                       *)
LEMMA Less ==
  \A a, b, c, n \in Nat : n < a =>
    n + b + c < a + b + c /\ b + n + c < b + a + c /\ b + c + n < b + c + a
OBVIOUS

(* As long as main has not returned each thread's step lowers its count,   *)
(* and the callback's thread takes none once main has.                     *)
LEMMA ShutdownStep ==
  ASSUME IInv, Next, ~rosOk
  PROVE  (~rosOk' /\ ShutdownSteps' < ShutdownSteps) \/ UNCHANGED vars
<1>0. ASSUME main # "exited"
      PROVE  /\ ShutdownSteps = CallbackSteps + MtcSteps + MainSteps
             /\ main' # "exited" => ShutdownSteps' = CallbackSteps' + MtcSteps' + MainSteps'
  BY <1>0 DEF ShutdownSteps
<1>1. CallbackSteps \in Nat /\ MtcSteps \in Nat /\ MainSteps \in Nat
  BY DEF CallbackSteps, MtcSteps, MainSteps
<1>2. CASE CallbackNext
  <2>1. MtcSteps' = MtcSteps /\ MainSteps' = MainSteps /\ ~rosOk' /\ main' = main
    BY <1>2 DEF CallbackNext, SpinTest, SpinWake, CallbackIgnores, CallbackAccepts, CallbackLocks,
                CallbackStores, updatePlanningScene, CallbackFlags, MtcSteps, MainSteps
  <2>2. CallbackSteps' \in Nat /\ CallbackSteps' < CallbackSteps
    BY <1>2 DEF CallbackNext, SpinTest, SpinWake, CallbackIgnores, CallbackAccepts, CallbackLocks,
                CallbackStores, updatePlanningScene, CallbackFlags, CallbackSteps
  <2>4. executor # "returned"
    BY <1>2 DEF CallbackNext, SpinTest, SpinWake, CallbackIgnores, CallbackAccepts, CallbackLocks,
                CallbackStores, updatePlanningScene, CallbackFlags
  <2>5. main # "exited"
    BY <2>4 DEF IInv, ThreadsInv
  <2>3. ShutdownSteps' < ShutdownSteps
    BY <1>1, <1>0, <2>1, <2>2, <2>5, Less, Zenon
  <2> QED BY <2>1, <2>3
<1>3. CASE MtcNext
  <2>1. /\ CallbackSteps' = CallbackSteps /\ MainSteps' = MainSteps /\ ~rosOk'
        /\ main # "exited" /\ main' = main
    BY <1>3 DEF MtcNext, MtcReturns, MtcSeesFlag, MtcCopies, MtcClears, MtcMarks, setApproachStage,
                setPlaceApproachStage, PlanFails, PlanSucceeds, ExecutionEnds, MtcUnmarks,
                CallbackSteps, MainSteps
  <2>2. MtcSteps' \in Nat /\ MtcSteps' < MtcSteps
    BY <1>3 DEF MtcNext, MtcReturns, MtcSeesFlag, MtcCopies, MtcClears, MtcMarks, setApproachStage,
                setPlaceApproachStage, PlanFails, PlanSucceeds, ExecutionEnds, MtcUnmarks,
                MtcSteps, Stopping
  <2>3. ShutdownSteps' < ShutdownSteps
    BY <1>1, <1>0, <2>1, <2>2, Less, Zenon
  <2> QED BY <2>1, <2>3
<1>4. CASE MainJoinsExecutor
  <2>1. /\ CallbackSteps' = CallbackSteps /\ MtcSteps' = MtcSteps /\ ~rosOk'
        /\ main # "exited" /\ main' # "exited"
    BY <1>4 DEF MainJoinsExecutor, CallbackSteps, MtcSteps
  <2>2. MainSteps' \in Nat /\ MainSteps' < MainSteps
    BY <1>4 DEF MainJoinsExecutor, MainSteps
  <2>3. ShutdownSteps' < ShutdownSteps
    BY <1>1, <1>0, <2>1, <2>2, Less, Zenon
  <2> QED BY <2>1, <2>3
<1>6. CASE MainReturns
  <2>1. ShutdownSteps' = 0 /\ ~rosOk'
    BY <1>6 DEF MainReturns, ShutdownSteps
  <2>2. ShutdownSteps \in Nat /\ ShutdownSteps > 0
    <3>1. MainSteps = 1
      BY <1>6 DEF MainReturns, MainSteps
    <3>2. ShutdownSteps = CallbackSteps + MtcSteps + 1
      BY <1>6, <3>1 DEF MainReturns, ShutdownSteps
    <3> QED BY <1>1, <3>2
  <2> QED BY <2>1, <2>2
<1>5. CASE (\E m \in Messages : Publish(m)) \/ Interrupt \/ Finished
  BY <1>5 DEF Publish, Interrupt, Finished
<1> QED BY <1>2, <1>3, <1>4, <1>5, <1>6 DEF Next, MainNext

(* The safety half of ProcessEnds, for any messages and any moment of the  *)
(* interrupt. (main.cpp, initializeMTC, cubePoseCallback)                  *)
THEOREM ShutdownSafety == Spec => ShutdownDescends
BY ShutdownStep, Invariance, PTL DEF Spec, ShutdownDescends

(* The measure is bounded, and it is spent exactly when main has returned. *)
THEOREM ShutdownBounded == Spec => []ShutdownBound
<1>1. IInv => ShutdownBound
  <2> SUFFICES ASSUME IInv PROVE ShutdownBound
    OBVIOUS
  <2>1. CallbackSteps \in 0 .. 6 /\ MtcSteps \in 0 .. 9 /\ MainSteps \in 0 .. 2
    BY DEF CallbackSteps, MtcSteps, MainSteps
  <2>2. main # "exited" => MainSteps # 0
    BY DEF MainSteps
  <2> QED BY <2>1, <2>2 DEF ShutdownBound, ShutdownSteps
<1> QED
  BY <1>1, Invariance, PTL
=============================================================================
