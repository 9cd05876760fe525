-------------------------- MODULE PickStages_proofs --------------------------
(***************************************************************************)
(* Proofs about PickStages, for any number of cubes and of failures.       *)
(***************************************************************************)
EXTENDS PickStages, TLAPS

----------------------------------------------------------------------------
(***************************************************************************)
(* What the stages do, field by field.                                     *)
(***************************************************************************)
(* A stage makes a scene of a scene.  (the add*Stage functions)            *)
LEMMA StageType ==
  ASSUME NEW s \in Scene, NEW k \in 1 .. Last
  PROVE  After(k, s) \in Scene
  BY DEF Last, After, Scene, Place, Contact,
     addCurrentStateStage, addApproachStage, addGripperOpenStage, addPreGraspStage,
     addAllowCollisionStage, addGripperCloseStage, addAttachObjectStage, addLiftStage,
     addPlaceApproachStage, addPlaceDescentStage, addDetachObjectStage,
     addGripperReleaseStage, addPostPlaceRetreatStage, addDisallowCollisionStage,
     returnHomeStage

(* Where each stage leaves the arm.  (the six MoveTo and MoveRelative      *)
(* stages of fr3_arm)                                                      *)
LEMMA StageArm ==
  ASSUME NEW s \in Scene, NEW k \in 1 .. Last
  PROVE  After(k, s).arm = IF k \in {2, 8} THEN "above_cube"
                           ELSE IF k = 4 THEN "at_cube"
                           ELSE IF k \in {9, 13} THEN "above_bin"
                           ELSE IF k = 10 THEN "at_bin"
                           ELSE IF k = 15 THEN "home" ELSE s.arm
  BY DEF Last, After, Scene, Place,
     addCurrentStateStage, addApproachStage, addGripperOpenStage, addPreGraspStage,
     addAllowCollisionStage, addGripperCloseStage, addAttachObjectStage, addLiftStage,
     addPlaceApproachStage, addPlaceDescentStage, addDetachObjectStage,
     addGripperReleaseStage, addPostPlaceRetreatStage, addDisallowCollisionStage,
     returnHomeStage

(* What each stage does to the fingers.  (the MoveTo stages of fr3_hand)   *)
LEMMA StageFingers ==
  ASSUME NEW s \in Scene, NEW k \in 1 .. Last
  PROVE  After(k, s).fingers = IF k \in {3, 12} THEN "open"
                               ELSE IF k = 6 THEN "closed" ELSE s.fingers
  BY DEF Last, After, Scene,
     addCurrentStateStage, addApproachStage, addGripperOpenStage, addPreGraspStage,
     addAllowCollisionStage, addGripperCloseStage, addAttachObjectStage, addLiftStage,
     addPlaceApproachStage, addPlaceDescentStage, addDetachObjectStage,
     addGripperReleaseStage, addPostPlaceRetreatStage, addDisallowCollisionStage,
     returnHomeStage

(* Which stages attach and detach.  (attachObject, detachObject)           *)
LEMMA StageAttached ==
  ASSUME NEW s \in Scene, NEW k \in 1 .. Last
  PROVE  After(k, s).attached = IF k = 7 THEN {"cube"} ELSE IF k = 11 THEN {} ELSE s.attached
  BY DEF Last, After, Scene,
     addCurrentStateStage, addApproachStage, addGripperOpenStage, addPreGraspStage,
     addAllowCollisionStage, addGripperCloseStage, addAttachObjectStage, addLiftStage,
     addPlaceApproachStage, addPlaceDescentStage, addDetachObjectStage,
     addGripperReleaseStage, addPostPlaceRetreatStage, addDisallowCollisionStage,
     returnHomeStage

(* Which contacts each stage leaves allowed.  (allowCollisions)            *)
LEMMA StageContacts ==
  ASSUME NEW s \in Scene, NEW k \in 1 .. Last
  PROVE  After(k, s).acm = IF k = 5 THEN Contact
                           ELSE IF k = 14 THEN s.acm \ {"hand"} ELSE s.acm
  BY DEF Last, After, Scene, Contact,
     addCurrentStateStage, addApproachStage, addGripperOpenStage, addPreGraspStage,
     addAllowCollisionStage, addGripperCloseStage, addAttachObjectStage, addLiftStage,
     addPlaceApproachStage, addPlaceDescentStage, addDetachObjectStage,
     addGripperReleaseStage, addPostPlaceRetreatStage, addDisallowCollisionStage,
     returnHomeStage

----------------------------------------------------------------------------
(***************************************************************************)
(* The invariant.                                                          *)
(***************************************************************************)
(* The scene after a stage that failed differs from the one before in what *)
(* the stage does, or has the arm on its way.  (planAndExecute's failure)  *)
LEMMA PartlyFields ==
  ASSUME NEW s \in Scene, NEW k \in 1 .. Last, NEW t \in Partly(k, s)
  PROVE  /\ t \in Scene
         /\ t.arm \in {s.arm, After(k, s).arm, "between"}
         /\ t.fingers \in {s.fingers, After(k, s).fingers}
         /\ t.acm \in {s.acm, After(k, s).acm}
         /\ t.attached \in {s.attached, After(k, s).attached}
         /\ \/ t = s
            \/ t = After(k, s)
            \/ /\ t.fingers = s.fingers /\ t.acm = s.acm
               /\ t.attached = s.attached /\ t.arm = "between"
<1> DEFINE a == After(k, s)
<1>1. a \in Scene  BY StageType
<1>2. t = s \/ t = a \/ t = [s EXCEPT !.arm = "between"]
  BY DEF Partly
<1>3. [s EXCEPT !.arm = "between"] \in Scene  BY DEF Scene, Place
<1> HIDE DEF a
<1>4. CASE t = s  BY <1>4 DEF a
<1>5. CASE t = a  BY <1>5, <1>1 DEF a
<1>6. CASE t = [s EXCEPT !.arm = "between"]
  BY <1>6, <1>3 DEF Scene
<1>7. QED  BY <1>2, <1>4, <1>5, <1>6

LEMMA InitInv == Init => IInv
<1> SUFFICES ASSUME Init PROVE IInv  OBVIOUS
<1>1. /\ scene \in Scene /\ scene.attached = {} /\ scene.arm = "home" /\ held = 0
      /\ mtc = "poll" /\ stage = 1 /\ result = "none" /\ good = {}
      /\ pipeline_executing_ = FALSE
  BY DEF Init, Scene, Place, Contact
<1>2. TypeOK
  <2>1. callback = "idle" /\ new_cube_available_ = FALSE /\ pipeline_executing_ = FALSE
        /\ table = N /\ bin = 0 /\ faults = 0 /\ trouble = FALSE
    BY DEF Init
  <2>2. stage \in 1 .. Last + 1  BY <1>1 DEF Last
  <2>3. N \in Nat  BY BoundsAssumption
  <2>4. QED  BY <1>1, <2>1, <2>2, <2>3 DEF TypeOK
<1>3. QED
  BY <1>1, <1>2 DEF IInv, StageInv, HandOverInv, ArmInv, FingersInv, ContactInv, LeftoverInv, CubesInv,
     SuccessRestores

(* Cubes are moved by fingers only.  (external) *)
LEMMA MoveCubesInv ==
  ASSUME IInv, NEW t \in Scene, MoveCubes(t)
  PROVE  /\ table' \in Nat /\ held' \in {0, 1} /\ bin' \in Nat
         /\ good' \subseteq {"callback", "target", "job"}
         /\ good' # {} => table' > 0
         /\ held' = 1 /\ ~Grasps(t) => held = 1 /\ ~Opens(t)
<1>1. /\ table \in Nat /\ held \in {0, 1} /\ bin \in Nat
      /\ good \subseteq {"callback", "target", "job"}
      /\ good # {} => table > 0
  BY DEF IInv, TypeOK, CubesInv
<1>2. CASE /\ Grasps(t)
           /\ held' = 1 /\ table' = table - 1
           /\ good' \in {g \in SUBSET (good \ {"job"}) : g # {} => table > 1}
           /\ UNCHANGED bin
  <2>1. "job" \in good  BY <1>2 DEF Grasps
  <2>2. QED  BY <1>1, <1>2, <2>1
<1>3. CASE /\ Opens(t) /\ held = 1
           /\ held' = 0
           /\ \E where \in LandsIn[scene.arm] :
                /\ table' = IF where = "table" THEN table + 1 ELSE table
                /\ bin' = IF where = "bin" THEN bin + 1 ELSE bin
           /\ UNCHANGED good
  BY <1>1, <1>3
<1>4. CASE ~Grasps(t) /\ ~(Opens(t) /\ held = 1) /\ UNCHANGED cubeVars
  BY <1>1, <1>4 DEF cubeVars
<1>5. QED  BY <1>2, <1>3, <1>4 DEF MoveCubes

LEMMA CallbackInv == IInv /\ CallbackNext => IInv'
<1> SUFFICES ASSUME IInv, CallbackNext PROVE IInv'  OBVIOUS
<1>1. /\ scene' \in Scene /\ scene'.arm = scene.arm /\ scene'.fingers = scene.fingers
      /\ scene'.acm = scene.acm /\ scene'.attached = scene.attached
      /\ UNCHANGED <<mtcVars, pipeline_executing_, table, held, bin, trouble>>
  BY DEF CallbackNext, Detect, updatePlanningScene, updatePlanningSceneFails,
     StoreTarget, RaiseFlag, cubeVars,
     IInv, TypeOK, Scene
<1>2. /\ callback' \in {"idle", "store", "update"} /\ new_cube_available_' \in BOOLEAN
      /\ faults' \in {faults, faults + 1}
      /\ new_cube_available_ => new_cube_available_'
  BY DEF CallbackNext, Detect, updatePlanningScene, updatePlanningSceneFails,
     StoreTarget, RaiseFlag, cubeVars,
     Fault, IInv, TypeOK
<1>3. good' \subseteq {"callback", "target", "job"} /\ (good' # {} => table' > 0)
  <2>1. good \subseteq {"callback", "target", "job"} /\ (good # {} => table > 0)
    BY DEF IInv, TypeOK, CubesInv
  <2>2. CASE Detect  BY <2>1, <2>2 DEF Detect
  <2>3. CASE StoreTarget  BY <2>1, <2>3 DEF StoreTarget
  <2>4. CASE RaiseFlag  BY <2>1, <2>4 DEF RaiseFlag, cubeVars
  <2>5. QED
    BY <2>2, <2>3, <2>4 DEF CallbackNext, updatePlanningScene, updatePlanningSceneFails
<1>4. TypeOK'
  <2>0. TypeOK  BY DEF IInv
  <2>1. TypeOK /\ faults' \in Nat
    <3>1. faults \in Nat  BY <2>0 DEF TypeOK
    <3>2. QED  BY <2>0, <3>1, <1>2
  <2>2. pipeline_executing_' \in BOOLEAN /\ trouble' \in BOOLEAN
    BY <1>1, <2>1 DEF TypeOK
  <2>3. QED  BY <1>1, <1>2, <1>3, <2>1, <2>2 DEF TypeOK, mtcVars
<1>5. QED
  BY <1>1, <1>2, <1>3, <1>4 DEF IInv, StageInv, HandOverInv, ArmInv, FingersInv, ContactInv,
     LeftoverInv, CubesInv, SuccessRestores, mtcVars

LEMMA ExecuteInv == IInv /\ Execute => IInv'
<1> SUFFICES ASSUME IInv, Execute PROVE IInv'  OBVIOUS
<1>0. /\ stage \in 1 .. Last /\ scene \in Scene /\ scene' = After(stage, scene)
      /\ mtc = "execute" /\ stage' = stage + 1
      /\ trouble' = IF Grasps(scene') THEN FALSE ELSE trouble
      /\ UNCHANGED <<nodeVars, mtc, result, faults>>
  <2>1. scene \in Scene /\ stage \in 1 .. Last + 1
    BY DEF IInv, TypeOK
  <2>2. /\ stage <= Last /\ scene' = After(stage, scene)
        /\ mtc = "execute" /\ stage' = stage + 1
        /\ trouble' = IF Grasps(scene') THEN FALSE ELSE trouble
        /\ UNCHANGED <<nodeVars, mtc, result, faults>>
    BY DEF Execute
  <2>3. QED  BY <2>1, <2>2 DEF Last
<1> DEFINE t == After(stage, scene)
<1>1. t \in Scene  BY <1>0, StageType
<1>2. MoveCubes(t)  BY <1>0 DEF Execute
<1>3. /\ table' \in Nat /\ held' \in {0, 1} /\ bin' \in Nat
      /\ good' \subseteq {"callback", "target", "job"}
      /\ good' # {} => table' > 0
      /\ held' = 1 /\ ~Grasps(t) => held = 1 /\ ~Opens(t)
  <2> HIDE DEF t
  <2> QED  BY <1>1, <1>2, MoveCubesInv
<1>4. TypeOK'
  <2>1. TypeOK  BY DEF IInv
  <2>2. new_cube_available_' \in BOOLEAN /\ pipeline_executing_' \in BOOLEAN
    BY <1>0, <2>1 DEF TypeOK, nodeVars
  <2>3. trouble' \in BOOLEAN  BY <1>0, <2>1 DEF TypeOK
  <2>4. scene' \in Scene /\ callback' = callback /\ mtc' = mtc /\ result' = result
        /\ faults' = faults /\ stage' \in 1 .. Last + 1
    BY <1>0, <1>1 DEF Last, nodeVars
  <2>5. QED  BY <1>3, <2>1, <2>2, <2>3, <2>4 DEF TypeOK
<1>5. ArmInv'
  <2>1. scene'.arm = IF stage \in {2, 8} THEN "above_cube"
                     ELSE IF stage = 4 THEN "at_cube"
                     ELSE IF stage \in {9, 13} THEN "above_bin"
                     ELSE IF stage = 10 THEN "at_bin"
                     ELSE IF stage = 15 THEN "home" ELSE scene.arm
    BY <1>0, StageArm
  <2>2. stage \in 1 .. 15 /\ stage' = stage + 1 /\ mtc = "execute" /\ ArmInv
    BY <1>0 DEF IInv, Last
  <2>3. QED  BY <2>1, <2>2 DEF ArmInv
<1>6. FingersInv'
  <2>1. scene'.fingers = IF stage \in {3, 12} THEN "open"
                         ELSE IF stage = 6 THEN "closed" ELSE scene.fingers
    BY <1>0, StageFingers
  <2>2. stage \in 1 .. 15 /\ stage' = stage + 1 /\ mtc = "execute" /\ FingersInv
    BY <1>0 DEF IInv, Last
  <2>3. QED  BY <2>1, <2>2 DEF FingersInv
<1>7. ContactInv'
  <2>1. scene'.acm = IF stage = 5 THEN Contact
                     ELSE IF stage = 14 THEN scene.acm \ {"hand"} ELSE scene.acm
    BY <1>0, StageContacts
  <2>2. scene'.attached = IF stage = 7 THEN {"cube"}
                          ELSE IF stage = 11 THEN {} ELSE scene.attached
    BY <1>0, StageAttached
  <2>3. stage \in 1 .. 15 /\ stage' = stage + 1 /\ mtc = "execute" /\ ContactInv
    BY <1>0 DEF IInv, Last
  <2>4. QED  BY <2>1, <2>2, <2>3 DEF ContactInv
<1>8. LeftoverInv'
  <2>1. scene'.attached # {} => scene'.acm = Contact
    BY <1>0, StageContacts, StageAttached DEF IInv, ContactInv, LeftoverInv, Last
  <2>2. scene'.fingers = "closed" /\ scene'.arm \in {"at_cube", "at_bin"}
          => "hand" \in scene'.acm
    BY <1>0, StageContacts, StageFingers, StageArm
    DEF IInv, ContactInv, FingersInv, LeftoverInv, ArmInv, Contact, Last
  <2>3. QED  BY <2>1, <2>2 DEF LeftoverInv
<1>9. CubesInv'
  <2>1. t.fingers = IF stage \in {3, 12} THEN "open"
                    ELSE IF stage = 6 THEN "closed" ELSE scene.fingers
    BY <1>0, StageFingers
  <2>2. stage \in 1 .. 15 /\ held \in {0, 1} /\ CubesInv /\ FingersInv
    BY <1>0 DEF IInv, TypeOK, Last
  <2>3. scene' = t /\ t.fingers \in {"open", "closed"} /\ scene.fingers \in {"open", "closed"}
    BY <1>0, <1>1 DEF Scene
  <2> HIDE DEF t
  <2>4. CASE Grasps(t)
    <3>1. scene.fingers = "open" /\ t.fingers = "closed"  BY <2>4 DEF Grasps, Closes
    <3>2. stage = 6  BY <2>1, <3>1
    <3>3. QED  BY <3>1, <3>2, <2>3, <1>0, <1>3 DEF CubesInv
  <2>5. CASE ~Grasps(t) /\ held' = 1
    <3>1. held = 1 /\ ~Opens(t)  BY <2>5, <1>3
    <3>2. t.fingers = "closed"  BY <3>1, <2>2, <2>3 DEF CubesInv, Opens
    <3>3. trouble' = trouble /\ mtc' = mtc /\ stage' = stage + 1  BY <2>5, <2>3, <1>0
    <3>4. stage # 12  BY <2>1, <3>2
    <3>5. QED  BY <3>1, <3>2, <3>3, <3>4, <2>2, <2>3, <1>3 DEF CubesInv
  <2>6. QED  BY <2>4, <2>5, <1>3 DEF CubesInv
<1>10. SuccessRestores'
  BY <1>0 DEF SuccessRestores
<1>11. StageInv' /\ HandOverInv'
  BY <1>0 DEF IInv, StageInv, HandOverInv, nodeVars
<1>12. QED  BY <1>4, <1>5, <1>6, <1>7, <1>8, <1>9, <1>10, <1>11 DEF IInv

LEMMA ExecuteFailsInv == IInv /\ ExecuteFails => IInv'
<1> SUFFICES ASSUME IInv, ExecuteFails PROVE IInv'  OBVIOUS
<1>0. /\ stage \in 1 .. Last /\ scene \in Scene /\ scene' \in Partly(stage, scene)
      /\ mtc = "execute"
  <2>1. scene \in Scene /\ stage \in 1 .. Last + 1
    BY DEF IInv, TypeOK
  <2>2. stage <= Last /\ scene' \in Partly(stage, scene) /\ mtc = "execute"
    BY DEF ExecuteFails
  <2>3. QED  BY <2>1, <2>2 DEF Last
<1>1. trouble' = TRUE /\ pipeline_executing_' = FALSE
      /\ UNCHANGED <<callback, new_cube_available_>>
  BY DEF ExecuteFails, EndJob
<1>2. mtc' = "poll" /\ result' = "execution failed" /\ stage' = 1
  BY DEF ExecuteFails, EndJob
<1>3. faults' \in Nat /\ stage' \in 1 .. Last + 1
  <2>1. faults \in Nat  BY DEF IInv, TypeOK
  <2>2. faults' = faults + 1  BY DEF ExecuteFails, Fault
  <2>3. faults' \in Nat  BY <2>1, <2>2
  <2>4. stage' = 1  BY <1>2
  <2>5. QED  BY <2>3, <2>4 DEF Last
<1>4. PICK t \in Partly(stage, scene) : scene' = t
  BY <1>0
<1>5. t \in Scene /\ MoveCubes(t)
  BY <1>0, <1>4, PartlyFields DEF ExecuteFails
<1>6. /\ table' \in Nat /\ held' \in {0, 1} /\ bin' \in Nat
      /\ good' \subseteq {"callback", "target", "job"}
      /\ good' # {} => table' > 0
      /\ held' = 1 /\ ~Grasps(t) => held = 1 /\ ~Opens(t)
  BY <1>5, MoveCubesInv
<1>7. TypeOK'
  <2>1. TypeOK  BY DEF IInv
  <2>2. new_cube_available_' \in BOOLEAN /\ pipeline_executing_' \in BOOLEAN
        /\ trouble' \in BOOLEAN
    BY <1>1, <2>1 DEF TypeOK
  <2>3. faults' \in Nat /\ stage' \in 1 .. Last + 1 /\ scene' \in Scene
    BY <1>4, <1>5, <1>3
  <2>4. QED  BY <1>6, <1>1, <1>2, <2>1, <2>2, <2>3 DEF TypeOK
<1>8. LeftoverInv'
  <2>1. CASE t = scene
    BY <1>4, <2>1 DEF IInv, LeftoverInv
  <2>2. CASE t = After(stage, scene)
    <3>1. scene'.attached # {} => scene'.acm = Contact
      BY <1>0, <1>4, <2>2, StageContacts, StageAttached
      DEF IInv, ContactInv, LeftoverInv, Last
    <3>2. scene'.fingers = "closed" /\ scene'.arm \in {"at_cube", "at_bin"}
            => "hand" \in scene'.acm
      BY <1>0, <1>4, <2>2, StageContacts, StageFingers, StageArm
      DEF IInv, ContactInv, FingersInv, LeftoverInv, ArmInv, Contact, Last
    <3>3. QED  BY <3>1, <3>2 DEF LeftoverInv
  <2>3. CASE /\ t.fingers = scene.fingers /\ t.acm = scene.acm
             /\ t.attached = scene.attached /\ t.arm = "between"
    BY <1>4, <2>3 DEF IInv, LeftoverInv
  <2>4. QED  BY <1>0, <2>1, <2>2, <2>3, PartlyFields
<1>9. CubesInv'
  BY <1>0, <1>4, <1>5, <1>6, <1>1 DEF IInv, TypeOK, CubesInv, Grasps, Opens, Closes, Scene
<1>10. QED
  BY <1>1, <1>7, <1>2, <1>8, <1>9
  DEF IInv, StageInv, HandOverInv, ArmInv, FingersInv, ContactInv, SuccessRestores

(* The other steps of the MTC thread leave scene and cubes alone. *)
LEMMA OtherMtcInv ==
  IInv /\ (Prepare \/ planSucceeds \/ planFails \/ ExecuteSucceeds) => IInv'
<1> SUFFICES ASSUME IInv, Prepare \/ planSucceeds \/ planFails \/ ExecuteSucceeds
             PROVE  IInv'
  OBVIOUS
<1>0. TypeOK /\ StageInv /\ HandOverInv /\ CubesInv  BY DEF IInv
<1>1. UNCHANGED <<scene, callback, table, held, bin, trouble>>
  BY DEF Prepare, CopyTarget, ClearFlag, MarkExecuting, SetGoals,
     planSucceeds, planFails, ExecuteSucceeds, EndJob, nodeVars, cubeVars
<1>2. /\ mtc' \in {"poll", "copied", "cleared", "marked", "plan", "execute"} /\ stage' = 1
      /\ faults' \in {faults, faults + 1}
  BY <1>0 DEF Prepare, CopyTarget, ClearFlag, MarkExecuting, SetGoals,
     planSucceeds, planFails, ExecuteSucceeds, EndJob, Fault, StageInv
<1>3. good' \subseteq {"callback", "target", "job"} /\ (good' # {} => good # {})
  <2>1. good \subseteq {"callback", "target", "job"}  BY <1>0 DEF TypeOK
  <2>2. QED
    BY <2>1 DEF Prepare, CopyTarget, ClearFlag, MarkExecuting, SetGoals,
     planSucceeds, planFails, ExecuteSucceeds, cubeVars
<1>4. new_cube_available_' \in BOOLEAN /\ pipeline_executing_' \in BOOLEAN
  <2>1. new_cube_available_ \in BOOLEAN /\ pipeline_executing_ \in BOOLEAN
    BY <1>0 DEF TypeOK
  <2>2. QED
    BY <2>1 DEF Prepare, CopyTarget, ClearFlag, MarkExecuting, SetGoals,
     planSucceeds, planFails, ExecuteSucceeds, EndJob, nodeVars
<1>5. \/ result' \in {result, "planning failed"} /\ mtc # "execute"
      \/ result' = "success" /\ mtc = "execute" /\ stage = 16
  <2>1. CASE Prepare  BY <2>1 DEF Prepare, CopyTarget, ClearFlag, MarkExecuting, SetGoals
  <2>2. CASE planSucceeds  BY <2>2 DEF planSucceeds
  <2>3. CASE planFails  BY <2>3 DEF planFails, EndJob
  <2>4. CASE ExecuteSucceeds  BY <2>4 DEF ExecuteSucceeds, EndJob, Last
  <2>5. QED  BY <2>1, <2>2, <2>3, <2>4
<1>6. held = 1 => trouble
  <2>1. ~(mtc = "execute" /\ stage \in 7 .. 12)
    <3>1. mtc # "execute" \/ stage = 16  BY <1>5
    <3>2. QED  BY <3>1
  <2>2. QED  BY <1>0, <2>1 DEF CubesInv
<1>7. TypeOK'
  <2>1. trouble' \in BOOLEAN  BY <1>0, <1>1 DEF TypeOK
  <2>2. result' \in {"none", "success", "planning failed", "execution failed"}
    BY <1>0, <1>5 DEF TypeOK
  <2>3. faults' \in Nat /\ stage' \in 1 .. Last + 1
    <3>1. faults \in Nat  BY <1>0 DEF TypeOK
    <3>2. QED  BY <1>2, <3>1 DEF Last
  <2>4. QED  BY <1>0, <1>1, <1>2, <1>3, <1>4, <2>1, <2>2, <2>3 DEF TypeOK
<1>8. StageInv' /\ ArmInv' /\ FingersInv' /\ ContactInv' /\ LeftoverInv'
  BY <1>1, <1>2 DEF IInv, StageInv, ArmInv, FingersInv, ContactInv, LeftoverInv
<1>12. HandOverInv'
  <2>1. CASE Prepare
    BY <1>0, <2>1 DEF HandOverInv, Prepare, CopyTarget, ClearFlag, MarkExecuting,
             SetGoals, nodeVars
  <2>2. CASE planSucceeds  BY <1>0, <2>2 DEF HandOverInv, planSucceeds, nodeVars
  <2>3. CASE planFails \/ ExecuteSucceeds
    BY <2>3 DEF HandOverInv, planFails, ExecuteSucceeds, EndJob
  <2>4. QED  BY <2>1, <2>2, <2>3
<1>9. CubesInv'
  BY <1>0, <1>1, <1>3, <1>6 DEF CubesInv
<1>10. SuccessRestores'
  <2>1. held \in {0, 1} /\ (held = 1 => scene.fingers = "closed")
    BY <1>0 DEF TypeOK, CubesInv
  <2>2. QED
    BY <1>1, <1>5, <2>1 DEF IInv, SuccessRestores, ArmInv, FingersInv, ContactInv
<1>11. QED  BY <1>7, <1>8, <1>9, <1>10, <1>12 DEF IInv

(* The invariant holds in every reachable state.                           *)
THEOREM Invariance == Spec => []IInv
<1>1. Init => IInv  BY InitInv
<1>2. IInv /\ [Next]_vars => IInv'
  <2> SUFFICES ASSUME IInv, [Next]_vars PROVE IInv'  OBVIOUS
  <2>1. CASE CallbackNext  BY <2>1, CallbackInv
  <2>2. CASE MtcNext
    BY <2>2, ExecuteInv, ExecuteFailsInv, OtherMtcInv DEF MtcNext
  <2>3. CASE UNCHANGED vars
    <3>1. UNCHANGED <<scene, callback, new_cube_available_, pipeline_executing_, mtc, stage,
                      result, table, held, bin, good, faults, trouble>>
      BY <2>3 DEF vars, nodeVars, mtcVars, cubeVars
    <3>2. TypeOK'  BY <3>1 DEF IInv, TypeOK
    <3>3. QED
      BY <3>1, <3>2 DEF IInv, StageInv, HandOverInv, ArmInv, FingersInv, ContactInv,
         LeftoverInv, CubesInv, SuccessRestores
  <2>4. QED  BY <2>1, <2>2, <2>3 DEF Next
<1>3. QED  BY <1>1, <1>2, PTL DEF Spec

----------------------------------------------------------------------------
(***************************************************************************)
(* What follows from it.                                                   *)
(***************************************************************************)
(* No reachable scene, whatever failed before, has the hand in contact     *)
(* with the cube while that is forbidden.  (addAllowCollisionStage,        *)
(* addDisallowCollisionStage, planAndExecute)                              *)
THEOREM ContactSafety == Spec => []NoForbiddenContact
<1>1. IInv => NoForbiddenContact
  <2> SUFFICES ASSUME IInv PROVE Clear(scene)  BY DEF NoForbiddenContact
  <2>1. LeftoverInv  BY DEF IInv
  <2>2. CASE scene.attached # {}
    BY <2>1, <2>2 DEF LeftoverInv, Clear, Contact
  <2>3. CASE scene.attached = {}
    <3>1. Touches(scene) => scene.fingers = "closed" /\ scene.arm \in {"at_cube", "at_bin"}
      BY <2>3 DEF Touches, Lies
    <3>2. QED  BY <2>1, <2>3, <3>1 DEF LeftoverInv, Clear
  <2>4. QED  BY <2>2, <2>3
<1>2. QED  BY <1>1, Invariance, PTL

(* The scene, the threads and the cubes keep their types.                  *)
THEOREM TypeCorrect == Spec => []TypeOK
<1>1. IInv => TypeOK  BY DEF IInv
<1>2. QED  BY <1>1, Invariance, PTL

(* A pipeline that ends well leaves the scene as the first one found it.   *)
(* (the stages from addDetachObjectStage to returnHomeStage)               *)
THEOREM RestoreSafety == Spec => []SuccessRestores
<1>1. IInv => SuccessRestores  BY DEF IInv
<1>2. QED  BY <1>1, Invariance, PTL

----------------------------------------------------------------------------
(***************************************************************************)
(* The refinement.                                                         *)
(***************************************************************************)
LEMMA TransportInit == Init => Transport!Init
  BY DEF Init, Transport!Init

(* A release outside a bin belongs to a job whose predecessor failed: in a *)
(* sound one the cube is let go by the release stage, over the bin.        *)
(* (addPlaceDescentStage before addGripperReleaseStage)                    *)
LEMMA ReleasedInBin ==
  ASSUME IInv, Execute, Opens(scene'), held = 1, ~trouble
  PROVE  scene.arm = "at_bin"
<1>1. stage \in 7 .. 12 /\ mtc = "execute"  BY DEF IInv, CubesInv
<1>2. scene \in Scene /\ scene' = After(stage, scene) /\ stage \in 1 .. Last
  <2>1. scene \in Scene  BY DEF IInv, TypeOK
  <2>2. scene' = After(stage, scene)  BY DEF Execute
  <2>3. QED  BY <1>1, <2>1, <2>2 DEF Last
<1>3. scene'.fingers = IF stage \in {3, 12} THEN "open"
                       ELSE IF stage = 6 THEN "closed" ELSE scene.fingers
  BY <1>2, StageFingers
<1>4. stage = 12
  BY <1>1, <1>3 DEF Opens
<1>5. QED  BY <1>1, <1>4 DEF IInv, ArmInv

(* How each way of moving cubes looks from outside.  (external) *)
LEMMA TransportGrasp ==
  ASSUME IInv, NEW t \in Scene, MoveCubes(t), Grasps(t), trouble' \in BOOLEAN
  PROVE  Transport!Take
<1>1. /\ table \in Nat /\ held \in {0, 1} /\ good # {} /\ (good # {} => table > 0)
      /\ held = 1 => scene.fingers = "closed"
  BY DEF IInv, TypeOK, CubesInv, Grasps
<1>2. scene.fingers = "open" /\ ~Opens(t)  BY DEF Grasps, Closes, Opens
<1>3. held' = 1 /\ table' = table - 1 /\ bin' = bin
  BY <1>2 DEF MoveCubes
<1>4. QED  BY <1>1, <1>2, <1>3 DEF Transport!Take

LEMMA TransportStep == IInv /\ [Next]_vars => [Transport!Next]_Transport!vars
<1> SUFFICES ASSUME IInv, [Next]_vars PROVE [Transport!Next]_Transport!vars  OBVIOUS
<1>1. CASE Execute
  <2>1. scene' \in Scene /\ MoveCubes(scene') /\ trouble \in BOOLEAN
    <3>1. IInv'  BY <1>1, ExecuteInv
    <3>2. QED  BY <1>1, <3>1 DEF Execute, IInv, TypeOK
  <2>2. trouble' = IF Grasps(scene') THEN FALSE ELSE trouble  BY <1>1 DEF Execute
  <2>3. CASE Grasps(scene')
    <3>1. trouble' \in BOOLEAN  BY <2>2, <2>3
    <3>2. Transport!Take  BY <2>1, <2>3, <3>1, TransportGrasp
    <3>3. QED  BY <3>2 DEF Transport!Next
  <2>4. CASE ~Grasps(scene') /\ Opens(scene') /\ held = 1
    <3>1. trouble' = trouble  BY <2>2, <2>4
    <3>2. PICK where \in LandsIn[scene.arm] :
            /\ held' = 0
            /\ table' = IF where = "table" THEN table + 1 ELSE table
            /\ bin' = IF where = "bin" THEN bin + 1 ELSE bin
      BY <2>1, <2>4 DEF MoveCubes, cubeVars
    <3>3. CASE where = "bin"
      <4>1. table' = table /\ bin' = bin + 1  BY <3>2, <3>3
      <4>2. Transport!Place  BY <2>4, <3>1, <3>2, <4>1 DEF Transport!Place
      <4>3. QED  BY <4>2 DEF Transport!Next
    <3>4. CASE where # "bin"
      <4>1. trouble
        <5>1. SUFFICES ASSUME ~trouble PROVE FALSE  OBVIOUS
        <5>2. scene.arm = "at_bin"  BY <1>1, <2>4, <5>1, ReleasedInBin
        <5>3. QED  BY <3>2, <3>4, <5>2 DEF LandsIn
      <4>2. table' \in {table, table + 1} /\ bin' = bin  BY <3>2, <3>4
      <4>3. Transport!Drop  BY <2>4, <3>1, <3>2, <4>1, <4>2 DEF Transport!Drop
      <4>4. QED  BY <4>3 DEF Transport!Next
    <3>5. QED  BY <3>3, <3>4
  <2>5. CASE ~Grasps(scene') /\ ~(Opens(scene') /\ held = 1)
    <3>1. trouble' = trouble  BY <2>2, <2>5
    <3>2. UNCHANGED <<table, held, bin>>  BY <2>1, <2>5 DEF MoveCubes, cubeVars
    <3>3. QED  BY <3>1, <3>2 DEF Transport!vars
  <2>6. QED  BY <2>3, <2>4, <2>5
<1>2. CASE ExecuteFails
  <2>1. scene' \in Scene /\ MoveCubes(scene')
    <3>1. IInv'  BY <1>2, ExecuteFailsInv
    <3>2. QED  BY <1>2, <3>1 DEF ExecuteFails, IInv, TypeOK
  <2>2. trouble' = TRUE  BY <1>2 DEF ExecuteFails
  <2>3. CASE Grasps(scene')
    <3>1. Transport!Take  BY <2>1, <2>2, <2>3, TransportGrasp
    <3>2. QED  BY <3>1 DEF Transport!Next
  <2>4. CASE ~Grasps(scene') /\ Opens(scene') /\ held = 1
    <3>1. PICK where \in LandsIn[scene.arm] :
            /\ held' = 0
            /\ table' = IF where = "table" THEN table + 1 ELSE table
            /\ bin' = IF where = "bin" THEN bin + 1 ELSE bin
      BY <2>1, <2>4 DEF MoveCubes, cubeVars
    <3>2. \/ table' \in {table, table + 1} /\ bin' = bin
          \/ bin' = bin + 1 /\ table' = table
      BY <3>1
    <3>3. Transport!DropAndFail
      BY <2>2, <2>4, <3>1, <3>2 DEF Transport!DropAndFail
    <3>4. QED  BY <3>3 DEF Transport!Next
  <2>5. CASE ~Grasps(scene') /\ ~(Opens(scene') /\ held = 1)
    <3>1. UNCHANGED <<table, held, bin>>  BY <2>1, <2>5 DEF MoveCubes, cubeVars
    <3>2. Transport!Fail  BY <2>2, <3>1 DEF Transport!Fail
    <3>3. QED  BY <3>2 DEF Transport!Next
  <2>6. QED  BY <2>3, <2>4, <2>5
<1>3. CASE \/ CallbackNext \/ Prepare \/ planSucceeds \/ planFails \/ ExecuteSucceeds
           \/ UNCHANGED vars
  <2>1. UNCHANGED <<table, held, bin, trouble>>
    BY <1>3 DEF CallbackNext, Detect, updatePlanningScene, updatePlanningSceneFails,
     StoreTarget, RaiseFlag,
       Prepare, CopyTarget, ClearFlag, MarkExecuting, SetGoals,
     planSucceeds, planFails, ExecuteSucceeds, vars, cubeVars
  <2>2. QED  BY <2>1 DEF Transport!vars
<1>4. QED  BY <1>1, <1>2, <1>3 DEF Next, MtcNext

(* The pipelines implement CubeTransport: a cube is let go in a bin unless *)
(* a pipeline failed since it was taken.  (initializeMTC's stage order)    *)
THEOREM TransportRefinement == Spec => ImplementsCubeTransport
<1>1. QED
  BY TransportInit, TransportStep, Invariance, PTL DEF Spec, ImplementsCubeTransport, Transport!Spec

----------------------------------------------------------------------------
(***************************************************************************)
(* The hand-over of a job to the stages.                                   *)
(***************************************************************************)
LEMMA CycleInit == Init => Cycle!Init
  BY DEF Init, Cycle!Init, Stored

(* The callback checks, stores and announces, whatever the scene update    *)
(* does.  (cubePoseCallback)                                               *)
LEMMA CallbackIsCycle == IInv /\ CallbackNext => Cycle!Next
<1> SUFFICES ASSUME IInv, CallbackNext PROVE Cycle!Next  OBVIOUS
<1> USE DEF mtcVars
<1>1. CASE Detect
  <2>1. mtc \notin {"marked", "plan", "execute"}
    BY <1>1 DEF Detect, IInv, HandOverInv
  <2>2. Cycle!Checks("cube")
    BY <1>1, <2>1 DEF Detect, Cycle!Checks, Stored, IInv, TypeOK
  <2>3. QED  BY <2>2 DEF Cycle!Next
<1>2. CASE StoreTarget
  <2>1. Cycle!Stores
    BY <1>2 DEF StoreTarget, Cycle!Stores, Stored
  <2>2. QED  BY <2>1 DEF Cycle!Next
<1>3. CASE RaiseFlag
  <2>1. Cycle!Flags
    BY <1>3 DEF RaiseFlag, Cycle!Flags, Stored
  <2>2. QED  BY <2>1 DEF Cycle!Next
<1>4. QED
  BY <1>1, <1>2, <1>3 DEF CallbackNext, updatePlanningScene, updatePlanningSceneFails

(* The MTC thread copies, clears and marks, works on the stages, and ends  *)
(* the job however they went.  (initializeMTC, planAndExecute)             *)
LEMMA MtcIsCycle == IInv /\ MtcNext => [Cycle!Next]_Cycle!cycleVars
<1> SUFFICES ASSUME IInv, MtcNext PROVE Cycle!Next \/ UNCHANGED Cycle!cycleVars  OBVIOUS
<1> USE DEF nodeVars
<1>1. CASE CopyTarget
  <2>1. Cycle!Copies
    BY <1>1 DEF CopyTarget, Cycle!Copies, Stored
  <2>2. QED  BY <2>1 DEF Cycle!Next
<1>2. CASE ClearFlag
  <2>1. Cycle!Clears
    BY <1>2 DEF ClearFlag, Cycle!Clears, Stored
  <2>2. QED  BY <2>1 DEF Cycle!Next
<1>3. CASE MarkExecuting
  <2>1. Cycle!Marks
    BY <1>3 DEF MarkExecuting, Cycle!Marks, Stored
  <2>2. QED  BY <2>1 DEF Cycle!Next
<1>7. CASE SetGoals
  <2>1. Cycle!Reads
    BY <1>7 DEF SetGoals, Cycle!Reads, Stored
  <2>2. QED  BY <2>1 DEF Cycle!Next
<1>4. CASE planSucceeds \/ Execute
  BY <1>4 DEF planSucceeds, Execute, Cycle!cycleVars, Stored
<1>5. CASE planFails \/ ExecuteFails \/ ExecuteSucceeds
  <2>1. mtc \in {"plan", "execute"} /\ (\E r \in {"planning failed", "execution failed", "success"} : EndJob(r))
    BY <1>5 DEF planFails, ExecuteFails, ExecuteSucceeds
  <2>2. Cycle!Ends
    BY <2>1 DEF EndJob, Cycle!Ends, Stored
  <2>3. QED  BY <2>2 DEF Cycle!Next
<1>6. QED  BY <1>1, <1>2, <1>3, <1>4, <1>5, <1>7 DEF MtcNext, Prepare

(* A job reaches the stages by the hand-over that PickPlaceNode implements *)
(* and SortingCell composes, however often pipelines fail.                 *)
THEOREM CycleRefinement == Spec => ImplementsPickCycle
<1>1. IInv /\ [Next]_vars => [Cycle!Next]_Cycle!cycleVars
  <2> SUFFICES ASSUME IInv, [Next]_vars PROVE [Cycle!Next]_Cycle!cycleVars  OBVIOUS
  <2>1. CASE UNCHANGED vars
    BY <2>1 DEF vars, nodeVars, mtcVars, Cycle!cycleVars, Stored
  <2>2. QED  BY <2>1, CallbackIsCycle, MtcIsCycle DEF Next
<1>2. QED  BY CycleInit, <1>1, Invariance, PTL DEF Spec, ImplementsPickCycle, Cycle!Spec
=============================================================================
