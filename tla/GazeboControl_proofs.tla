------------------------ MODULE GazeboControl_proofs ------------------------
(***************************************************************************)
(* Proofs about GazeboControl: the inductive invariant, and with it that   *)
(* the mode bits of a joint are held and that a joint is commanded through *)
(* one component in every step, for every robot, every set of controllers  *)
(* and every control period.                                               *)
(***************************************************************************)
EXTENDS GazeboControl, TLAPS

(* Whether a component counts as set in this step, by its kind. *)
LEMMA KindsOfComponents ==
  /\ ~Set(Absent) /\ ~Set(Reset) /\ Set(Zero) /\ Set(Mimicked)
  /\ \A t \in Type, by \in Controllers \cup {NoOne} : Set(Component(t, by))
BY DEF Set, Absent, Reset, Zero, Mimicked, Component, Type

(* The method of a joint is one of five. *)
LEMMA MethodsOfJoints ==
  \A j \in Joints : Method(j) \in {"velocity", "position", "effort", "hold", "passive"}
BY DEF Method

(* The components write() leaves are components. *)
LEMMA WrittenComponents ==
  ASSUME TypeOK, NEW j \in Joints
  PROVE  /\ OwnVelocity(j) \in Components /\ MimicVelocity(j) \in Components
         /\ OwnForce(j) \in Components /\ MimicForce(j) \in Components
<1>1. cmd[j]["velocity"] \in Controllers \cup {NoOne}
      /\ cmd[j]["position"] \in Controllers \cup {NoOne}
      /\ cmd[j]["effort"] \in Controllers \cup {NoOne}
  BY DEF TypeOK, Type
<1>2. \A t \in Type, by \in Controllers \cup {NoOne} : Component(t, by) \in Components
  BY DEF Component, Components
<1>3. Zero \in Components /\ Mimicked \in Components
  BY DEF Components
<1>4. velCmd[j] \in Components /\ forceCmd[j] \in Components
  BY DEF TypeOK
<1>5. OwnVelocity(j) \in Components
  BY <1>1, <1>2, <1>3, <1>4 DEF OwnVelocity, CreatedOrSet, Type
<1>6. OwnForce(j) \in Components
  BY <1>1, <1>2, <1>3, <1>4 DEF OwnForce, CreatedOrSet, Type
<1>. QED
  BY <1>3, <1>5, <1>6 DEF MimicVelocity, MimicForce, CreatedOrSet

(* The initial state satisfies the invariant. *)
LEMMA InitIInv == Init => IInv
<1>. SUFFICES ASSUME Init PROVE IInv
  OBVIOUS
<1>. USE JointsAssumption, ControllersAssumption DEF Init, initSim
<1>1. TypeOK
  <2>1. bits \in [Joints -> SUBSET Type]
    BY DEF Type
  <2>2. cmd \in [Joints -> [Type -> Controllers \cup {NoOne}]]
    OBVIOUS
  <2>3. velCmd \in [Joints -> Components] /\ forceCmd \in [Joints -> Components]
    BY DEF Components
  <2>4. since \in 0..Period /\ crashed = FALSE /\ wrote = FALSE /\ settled = FALSE
    OBVIOUS
  <2>5. /\ phase = "pre" /\ active \in SUBSET Controllers /\ released \in SUBSET Joints
        /\ pending \in SUBSET [start : SUBSET Controllers, stop : SUBSET Controllers]
    OBVIOUS
  <2>. HIDE DEF Init, initSim
  <2>. QED
    BY <2>1, <2>2, <2>3, <2>4, <2>5 DEF TypeOK
<1>2. BitsAreHeld
  BY DEF BitsAreHeld
<1>3. StepInv
  BY DEF StepInv
<1>4. MethodInv
  BY KindsOfComponents DEF MethodInv
<1>5. CommandedEveryStep
  BY DEF CommandedEveryStep
<1>6. ReleasedInv /\ ReleasedStandStill
  BY DEF ReleasedInv, ReleasedStandStill
<1>. QED
  BY <1>1, <1>2, <1>3, <1>4, <1>5, <1>6 DEF IInv

(* write() sets one component of a joint that mimics none. *)
LEMMA WriteSetsOne ==
  ASSUME TypeOK, MethodInv, NEW j \in InGazebo \ DOMAIN MimicOf
  PROVE  /\ Set(MimicVelocity(j)) => Method(j) \in {"velocity", "position", "hold"}
         /\ Set(MimicForce(j)) => Method(j) = "effort"
         /\ is_actuated(j) => (Set(MimicVelocity(j)) # Set(MimicForce(j)))
<1>1. j \in Joints
  BY JointsAssumption
<1>2. MimicVelocity(j) = OwnVelocity(j) /\ MimicForce(j) = OwnForce(j)
  BY DEF MimicVelocity, MimicForce
<1>3. cmd[j]["velocity"] \in Controllers \cup {NoOne}
      /\ cmd[j]["position"] \in Controllers \cup {NoOne}
      /\ cmd[j]["effort"] \in Controllers \cup {NoOne}
  BY <1>1 DEF TypeOK, Type
<1>4. Method(j) \in {"velocity", "position", "hold"} => Set(OwnVelocity(j)) /\ ~Set(OwnForce(j))
  BY <1>1, <1>3, KindsOfComponents DEF OwnVelocity, OwnForce, CreatedOrSet, MethodInv, Type
<1>5. Method(j) = "effort" => ~Set(OwnVelocity(j)) /\ Set(OwnForce(j))
  BY <1>1, <1>3, KindsOfComponents DEF OwnVelocity, OwnForce, CreatedOrSet, MethodInv, Type
<1>6. Method(j) = "passive" => ~Set(OwnVelocity(j)) /\ ~Set(OwnForce(j)) /\ ~is_actuated(j)
  BY DEF OwnVelocity, OwnForce, MethodInv, Method
<1>. QED
  BY <1>1, <1>2, <1>4, <1>5, <1>6, MethodsOfJoints

(* Every step preserves the invariant. *)
LEMMA NextIInv == IInv /\ [Next]_vars => IInv'
<1>. SUFFICES ASSUME IInv, [Next]_vars PROVE IInv'
  OBVIOUS
<1>0. /\ TypeOK /\ BitsAreHeld /\ StepInv /\ MethodInv /\ CommandedEveryStep
      /\ ReleasedInv /\ ReleasedStandStill
  BY DEF IInv
<1>. USE JointsAssumption, ControllersAssumption
<1>1. CASE PreUpdate
  <2>. USE <1>1 DEF PreUpdate, write, cmVars
  <2>1. TypeOK'
    <3>1. velCmd' \in [Joints -> Components] /\ forceCmd' \in [Joints -> Components]
      BY <1>0, WrittenComponents DEF TypeOK
    <3>2. crashed' \in BOOLEAN
      BY DEF DereferencesNull
    <3>. QED
      BY <1>0, <3>1, <3>2 DEF TypeOK, Components
  <2>2. BitsAreHeld'
    BY <1>0 DEF BitsAreHeld, TypesHeld, Held
  <2>3. StepInv'
    BY <1>0 DEF StepInv
  <2>4. MethodInv'
    <3>. SUFFICES ASSUME NEW j \in InGazebo \ DOMAIN MimicOf
                  PROVE  /\ Set(velCmd'[j]) => Method(j)' \in {"velocity", "position", "hold"}
                         /\ Set(forceCmd'[j]) => Method(j)' = "effort"
      BY DEF MethodInv, Set, Absent, Reset
    <3>1. velCmd'[j] = MimicVelocity(j) /\ forceCmd'[j] = MimicForce(j)
      OBVIOUS
    <3>2. Method(j)' = Method(j)
      BY DEF Method
    <3>. QED
      BY <1>0, <3>1, <3>2, WriteSetsOne
  <2>5. CommandedEveryStep'
    <3>. SUFFICES ASSUME NEW j \in Joints \ DOMAIN MimicOf, is_actuated(j)
                  PROVE  Set(velCmd'[j]) # Set(forceCmd'[j])
      BY DEF CommandedEveryStep, Set, Absent, Reset
    <3>1. j \in InGazebo \ DOMAIN MimicOf
      BY DEF is_actuated
    <3>2. velCmd'[j] = MimicVelocity(j) /\ forceCmd'[j] = MimicForce(j)
      BY <3>1
    <3>. QED
      BY <1>0, <3>1, <3>2, WriteSetsOne
  <2>6. ReleasedInv'
    BY <1>0 DEF ReleasedInv, is_actuated
  <2>7. ReleasedStandStill'
    <3>. SUFFICES ASSUME NEW j \in released \ DOMAIN MimicOf, TypesHeld(j) = {}
                  PROVE  velCmd'[j] = Zero
      BY DEF ReleasedStandStill, TypesHeld, Held
    <3>1. j \in InGazebo /\ j \in Joints /\ is_actuated(j)
      BY <1>0 DEF ReleasedInv, is_actuated
    <3>2. bits[j] = {}
      BY <1>0, <3>1 DEF BitsAreHeld
    <3>3. Method(j) = "hold"
      BY <3>1, <3>2 DEF Method
    <3>4. velCmd'[j] = OwnVelocity(j)
      BY <3>1 DEF MimicVelocity
    <3>. QED
      BY <3>3, <3>4 DEF OwnVelocity
  <2>. QED
    BY <2>1, <2>2, <2>3, <2>4, <2>5, <2>6, <2>7 DEF IInv
<1>2. CASE PreUpdateFails
  <2>. USE <1>2 DEF PreUpdateFails, ignVars, cmVars
  <2>1. TypeOK'
    BY <1>0 DEF TypeOK, Components
  <2>2. BitsAreHeld'
    BY <1>0 DEF BitsAreHeld, TypesHeld, Held
  <2>3. StepInv' /\ CommandedEveryStep'
    BY <1>0 DEF StepInv, CommandedEveryStep
  <2>4. MethodInv'
    BY <1>0 DEF MethodInv, Method
  <2>5. ReleasedInv' /\ ReleasedStandStill'
    BY <1>0 DEF ReleasedInv, is_actuated, ReleasedStandStill
  <2>. QED
    BY <2>1, <2>2, <2>3, <2>4, <2>5 DEF IInv
<1>3. CASE Physics
  <2>. USE <1>3 DEF Physics, cmVars
  <2>1. \A j \in Joints : ~Set(velCmd'[j]) /\ ~Set(forceCmd'[j])
    BY KindsOfComponents DEF Applied
  <2>2. TypeOK'
    <3>1. velCmd' \in [Joints -> Components] /\ forceCmd' \in [Joints -> Components]
      BY <1>0 DEF TypeOK, Components, Applied
    <3>2. since' \in 0..Period
      BY <1>0 DEF TypeOK, StepInv
    <3>. QED
      BY <1>0, <3>1, <3>2 DEF TypeOK, Components
  <2>3. BitsAreHeld'
    BY <1>0 DEF BitsAreHeld, TypesHeld, Held
  <2>4. StepInv'
    BY <1>0, <2>1 DEF StepInv, Set, Absent, Reset
  <2>5. MethodInv'
    BY <2>1 DEF MethodInv, Set, Absent, Reset
  <2>6. CommandedEveryStep'
    BY DEF CommandedEveryStep
  <2>7. ReleasedInv' /\ ReleasedStandStill'
    BY <1>0 DEF ReleasedInv, is_actuated, ReleasedStandStill
  <2>. QED
    BY <2>2, <2>3, <2>4, <2>5, <2>6, <2>7 DEF IInv
<1>4. CASE Paused
  <2>. USE <1>4 DEF Paused, ignVars, cmVars
  <2>1. TypeOK'
    BY <1>0 DEF TypeOK, Components
  <2>2. BitsAreHeld'
    BY <1>0 DEF BitsAreHeld, TypesHeld, Held
  <2>3. StepInv' /\ CommandedEveryStep'
    BY <1>0 DEF StepInv, CommandedEveryStep, TypeOK
  <2>4. MethodInv'
    BY <1>0 DEF MethodInv, Method
  <2>5. ReleasedInv' /\ ReleasedStandStill'
    BY <1>0 DEF ReleasedInv, is_actuated, ReleasedStandStill, TypesHeld, Held
  <2>. QED
    BY <2>1, <2>2, <2>3, <2>4, <2>5 DEF IInv
<1>5. CASE PostUpdateWaits
  <2>. USE <1>5 DEF PostUpdateWaits, ignVars, cmVars
  <2>1. TypeOK'
    BY <1>0 DEF TypeOK, Components
  <2>2. BitsAreHeld'
    BY <1>0 DEF BitsAreHeld, TypesHeld, Held
  <2>3. StepInv' /\ CommandedEveryStep'
    BY <1>0 DEF StepInv, CommandedEveryStep
  <2>4. MethodInv'
    BY <1>0 DEF MethodInv, Method
  <2>5. ReleasedInv' /\ ReleasedStandStill'
    BY <1>0 DEF ReleasedInv, is_actuated, ReleasedStandStill
  <2>. QED
    BY <2>1, <2>2, <2>3, <2>4, <2>5 DEF IInv
<1>6. CASE PostUpdate
  <2>. USE <1>6 DEF PostUpdate
  <2>1. cmd' \in [Joints -> [Type -> Controllers \cup {NoOne}]]
    BY <1>0 DEF RunControllers, Holders, TypeOK
  <2>2. pending = {} \/ \E s \in pending :
          perform_command_mode_switch(s.start, s.stop) /\ s \in [start : SUBSET Controllers, stop : SUBSET Controllers]
    BY <1>0 DEF ManageSwitch, TypeOK
  <2>3. TypeOK'
    <3>1. bits' \in [Joints -> SUBSET Type] /\ active' \in SUBSET Controllers
          /\ released' \in SUBSET Joints /\ settled' \in BOOLEAN
      <4>1. CASE pending = {}
        BY <1>0, <4>1 DEF ManageSwitch, TypeOK
      <4>2. CASE pending # {}
        <5>1. PICK s \in pending : perform_command_mode_switch(s.start, s.stop)
                 /\ s \in [start : SUBSET Controllers, stop : SUBSET Controllers]
          BY <2>2, <4>2
        <5>2. bits' \in [Joints -> SUBSET Type]
          BY <1>0, <5>1 DEF perform_command_mode_switch, Switched, TypeOK
        <5>3. active' \in SUBSET Controllers
          BY <1>0, <5>1 DEF perform_command_mode_switch, TypeOK
        <5>4. Held(s.stop) \subseteq Interfaces
          BY <5>1 DEF Held
        <5>5. released' \in SUBSET Joints
          BY <1>0, <5>1, <5>4 DEF perform_command_mode_switch, TypeOK, Interfaces
        <5>. QED
          BY <4>2, <5>2, <5>3, <5>5 DEF ManageSwitch
      <4>. QED
        BY <4>1, <4>2
    <3>. QED
      BY <1>0, <2>1, <3>1 DEF TypeOK, Components
  <2>4. BitsAreHeld'
    <3>1. CASE pending = {}
      BY <1>0, <3>1 DEF ManageSwitch, BitsAreHeld, TypesHeld, Held
    <3>2. CASE pending # {}
      <4>1. PICK s \in pending : perform_command_mode_switch(s.start, s.stop)
               /\ s \in [start : SUBSET Controllers, stop : SUBSET Controllers]
        BY <2>2, <3>2
      <4>2. SUFFICES ASSUME NEW j \in Joints, NEW t \in bits'[j]
                     PROVE  t \in TypesHeld(j)' \/ (j \notin released' /\ t \in CommandTypes[j] \cap {"effort"})
        BY DEF BitsAreHeld, TypesHeld, Held
      <4>3. t \in Type
        BY <2>3 DEF TypeOK
      <4>4. CASE <<j, t>> \in Held(s.start)
        BY <4>1, <4>3, <4>4 DEF TypesHeld, Held, perform_command_mode_switch
      <4>5. CASE <<j, t>> \notin Held(s.start)
        <5>1. t \in bits[j] /\ \A u \in Type : <<j, u>> \notin Held(s.stop)
          BY <4>1, <4>3, <4>5 DEF perform_command_mode_switch, Switched
        <5>2. j \notin released => j \notin released'
          <6>1. Held(s.stop) \subseteq Interfaces
            BY <4>1 DEF Held
          <6>2. \A i \in Held(s.stop) : i[1] # j
            BY <5>1, <6>1 DEF Interfaces
          <6>. QED
            BY <4>1, <6>2 DEF perform_command_mode_switch
        <5>3. TypesHeld(j) \subseteq TypesHeld(j)'
          BY <4>1, <5>1 DEF TypesHeld, Held, perform_command_mode_switch
        <5>. QED
          BY <1>0, <5>1, <5>2, <5>3 DEF BitsAreHeld
      <4>. QED
        BY <4>4, <4>5
    <3>. QED
      BY <3>1, <3>2
  <2>5. StepInv' /\ CommandedEveryStep'
    BY DEF StepInv, CommandedEveryStep
  <2>6. MethodInv'
    BY <1>0 DEF MethodInv, StepInv, Set, Absent, Reset
  <2>7. ReleasedInv'
    <3>1. CASE pending = {}
      BY <1>0, <3>1 DEF ManageSwitch, ReleasedInv, is_actuated
    <3>2. CASE pending # {}
      <4>1. PICK s \in pending : perform_command_mode_switch(s.start, s.stop)
               /\ s \in [start : SUBSET Controllers, stop : SUBSET Controllers]
        BY <2>2, <3>2
      <4>2. Held(s.stop) \subseteq Interfaces
        BY <4>1 DEF Held
      <4>3. \A i \in Held(s.stop) : is_actuated(i[1])
        BY <4>2 DEF Interfaces, is_actuated
      <4>. QED
        BY <1>0, <4>1, <4>3 DEF perform_command_mode_switch, ReleasedInv, is_actuated
    <3>. QED
      BY <3>1, <3>2
  <2>8. ReleasedStandStill'
    BY DEF ReleasedStandStill
  <2>. QED
    BY <2>3, <2>4, <2>5, <2>6, <2>7, <2>8 DEF IInv
<1>7. CASE \E start, stop \in SUBSET Controllers : PrepareSwitch(start, stop)
  <2>1. PICK start \in SUBSET Controllers, stop \in SUBSET Controllers : PrepareSwitch(start, stop)
    BY <1>7
  <2>. USE <2>1 DEF PrepareSwitch, ignVars, loopVars
  <2>2. TypeOK'
    BY <1>0 DEF TypeOK, Components
  <2>3. BitsAreHeld'
    BY <1>0 DEF BitsAreHeld, TypesHeld, Held
  <2>4. StepInv' /\ CommandedEveryStep'
    BY <1>0 DEF StepInv, CommandedEveryStep
  <2>5. MethodInv'
    BY <1>0 DEF MethodInv, Method
  <2>6. ReleasedInv' /\ ReleasedStandStill'
    BY <1>0 DEF ReleasedInv, is_actuated, ReleasedStandStill, TypesHeld, Held
  <2>. QED
    BY <2>2, <2>3, <2>4, <2>5, <2>6 DEF IInv
<1>8. CASE UNCHANGED vars
  <2>. USE <1>8 DEF vars, ignVars, loopVars, cmVars
  <2>1. TypeOK'
    BY <1>0 DEF TypeOK, Components
  <2>2. BitsAreHeld'
    BY <1>0 DEF BitsAreHeld, TypesHeld, Held
  <2>3. StepInv' /\ CommandedEveryStep'
    BY <1>0 DEF StepInv, CommandedEveryStep
  <2>4. MethodInv'
    BY <1>0 DEF MethodInv, Method
  <2>5. ReleasedInv' /\ ReleasedStandStill'
    BY <1>0 DEF ReleasedInv, is_actuated, ReleasedStandStill, TypesHeld, Held
  <2>. QED
    BY <2>1, <2>2, <2>3, <2>4, <2>5 DEF IInv
<1>. QED
  BY <1>1, <1>2, <1>3, <1>4, <1>5, <1>6, <1>7, <1>8 DEF Next, Loop

----------------------------------------------------------------------------
(* The inductive invariant holds in every reachable state. *)
THEOREM Invariance == Spec => []IInv
BY InitIInv, NextIInv, PTL DEF Spec

(* Type correctness of the simulated robot and its control loop. *)
THEOREM TypeCorrect == Spec => []TypeOK
<1>1. IInv => TypeOK
  BY DEF IInv
<1>. QED
  BY <1>1, Invariance, PTL

(* A joint is in a mode only by an interface that an active controller     *)
(* holds, whatever has been switched before.                               *)
(* (perform_command_mode_switch)                                           *)
THEOREM ModesAreHeld == Spec => []BitsAreHeld
<1>1. IInv => BitsAreHeld
  BY DEF IInv
<1>. QED
  BY <1>1, Invariance, PTL

(* In every step in which write() gets past the gravity term, an actuated  *)
(* joint is commanded through one component and none lingers from before.  *)
(* (PreUpdate, write)                                                      *)
THEOREM AlwaysCommanded == Spec => []CommandedEveryStep
<1>1. IInv => CommandedEveryStep
  BY DEF IInv
<1>. QED
  BY <1>1, Invariance, PTL

(* A joint that was let go and is held by nobody is commanded to stand     *)
(* still, whatever it was commanded by before.                             *)
(* (perform_command_mode_switch and the fallback of write)                 *)
THEOREM ReleasedJointsStandStill == Spec => []ReleasedStandStill
<1>1. IInv => ReleasedStandStill
  BY DEF IInv
<1>. QED
  BY <1>1, Invariance, PTL

----------------------------------------------------------------------------
(***************************************************************************)
(* Mimic joints.  A mimic joint whose mimicked joint has the velocity      *)
(* first needs a component before it can follow in the first step: it has  *)
(* one when it is actuated and is never in effort mode.                    *)
(***************************************************************************)
Driven ==
  \A m \in DOMAIN MimicOf :
    \/ "position" \in interfaces_to_mimic(m)
    \/ /\ "velocity" \in interfaces_to_mimic(m)
       /\ is_actuated(m) /\ "effort" \notin CommandTypes[m]

(* A joint without an effort interface is never in effort mode. *)
LEMMA NoEffortMode ==
  ASSUME BitsAreHeld, NEW j \in Joints, "effort" \notin CommandTypes[j], active \subseteq Controllers
  PROVE  Method(j) # "effort"
<1>1. "effort" \notin TypesHeld(j)
  BY ControllersAssumption DEF TypesHeld, Held, Interfaces
<1>2. "effort" \notin bits[j]
  BY <1>1 DEF BitsAreHeld
<1>. QED
  BY <1>2 DEF Method

(* write() sets the velocity component of every mimic joint. *)
LEMMA WriteMimics ==
  ASSUME Driven, TypeOK, BitsAreHeld, NEW m \in DOMAIN MimicOf
  PROVE  MimicVelocity(m) = Mimicked
<1>1. CASE "position" \in interfaces_to_mimic(m)
  BY <1>1 DEF MimicVelocity
<1>2. CASE /\ "position" \notin interfaces_to_mimic(m)
           /\ "velocity" \in interfaces_to_mimic(m)
           /\ is_actuated(m) /\ "effort" \notin CommandTypes[m]
  <2>1. m \in Joints /\ active \subseteq Controllers
    BY MimicAssumption, JointsAssumption DEF TypeOK
  <2>2. Method(m) \in {"velocity", "position", "hold"}
    BY <1>2, <2>1, NoEffortMode DEF Method
  <2>3. /\ cmd[m]["velocity"] \in Controllers \cup {NoOne}
        /\ cmd[m]["position"] \in Controllers \cup {NoOne}
    BY <2>1 DEF TypeOK, Type
  <2>4. OwnVelocity(m) # Absent
    BY <2>2, <2>3 DEF OwnVelocity, CreatedOrSet, Component, Absent, Zero
  <2>. QED
    BY <1>2, <2>4 DEF MimicVelocity, CreatedOrSet
<1>. QED
  BY <1>1, <1>2 DEF Driven

(* A mimic joint moves with the mimicked one in every step, whoever        *)
(* commands it: the commands of its own are set first.                     *)
(* (the loop over mimic_joints_ at the end of write)                       *)
THEOREM MimicSafety == Driven => (Spec => []MimicsFollow)
<1>. SUFFICES ASSUME Driven PROVE Spec => []MimicsFollow
  OBVIOUS
<1>1. Init => MimicsFollow
  BY DEF Init, MimicsFollow
<1>2. IInv /\ MimicsFollow /\ [Next]_vars => MimicsFollow'
  <2>. SUFFICES ASSUME IInv, MimicsFollow, [Next]_vars PROVE MimicsFollow'
    OBVIOUS
  <2>1. CASE PreUpdate
    <3>1. \A m \in DOMAIN MimicOf : m \in Joints /\ m \in InGazebo
      BY MimicAssumption, JointsAssumption
    <3>2. \A m \in DOMAIN MimicOf : MimicVelocity(m) = Mimicked
      BY WriteMimics DEF IInv
    <3>. QED
      BY <2>1, <3>1, <3>2 DEF PreUpdate, write, MimicsFollow, Mimicked
  <2>2. CASE PreUpdateFails \/ Physics \/ Paused \/ PostUpdateWaits \/ PostUpdate
    BY <2>2 DEF PreUpdateFails, Physics, Paused, PostUpdateWaits, PostUpdate, MimicsFollow
  <2>3. CASE \E start, stop \in SUBSET Controllers : PrepareSwitch(start, stop)
    BY <2>3 DEF PrepareSwitch, ignVars, loopVars, MimicsFollow, Mimicked
  <2>4. CASE UNCHANGED vars
    BY <2>4 DEF vars, ignVars, loopVars, MimicsFollow, Mimicked
  <2>. QED
    BY <2>1, <2>2, <2>3, <2>4 DEF Next, Loop
<1>. QED
  BY <1>1, <1>2, Invariance, PTL DEF Spec

----------------------------------------------------------------------------
(***************************************************************************)
(* The tidy client.  The set of active controllers, and the one it would   *)
(* become by a pending switch, give a joint one interface of one holder;   *)
(* the mode bits of a held joint are its interface, and perhaps the effort *)
(* bit it was born with.                                                   *)
(***************************************************************************)
Tidy(cs) == OneTypePerJoint(cs) /\ Disjoint(cs)

HolderBits ==
  \A c \in active : \A i \in Claims[c] :
    i[2] \in bits[i[1]] /\ bits[i[1]] \subseteq {i[2], "effort"}

TidyInv ==
  /\ IInv
  /\ Tidy(active)
  /\ \A s \in pending : Tidy((active \ s.stop) \cup s.start)
                         /\ s.start \cap active = {} /\ s.stop \subseteq active
  /\ HolderBits
  /\ HolderCommands

(* Two controllers of a tidy set hold no joint both. *)
LEMMA TidyJoints ==
  ASSUME NEW cs \in SUBSET Controllers, Tidy(cs),
         NEW c \in cs, NEW d \in cs, NEW x \in Claims[c], NEW y \in Claims[d], x[1] = y[1]
  PROVE  c = d /\ x = y
<1>1. x \in Held(cs) /\ y \in Held(cs)
  BY DEF Held
<1>2. x = y
  BY <1>1 DEF Tidy, OneTypePerJoint
<1>. QED
  BY <1>2 DEF Tidy, Disjoint

(* The method of a held joint is its holder's interface. *)
LEMMA HolderMethod ==
  ASSUME HolderBits, NEW c \in active, NEW i \in Claims[c], i[2] \in Type
  PROVE  Method(i[1]) = i[2]
BY DEF HolderBits, Method, Type

(* A switch keeps the bits of holders who stay, and gives those who come   *)
(* theirs: a joint that nobody held has at most the effort bit.            *)
LEMMA SwitchStep ==
  ASSUME IInv, Tidy(active), HolderBits,
         NEW start \in SUBSET Controllers, NEW stop \in SUBSET Controllers,
         Tidy((active \ stop) \cup start),
         start \cap active = {}, stop \subseteq active,
         perform_command_mode_switch(start, stop)
  PROVE  HolderBits'
<1>. SUFFICES ASSUME NEW c \in active', NEW i \in Claims[c]
              PROVE  i[2] \in bits'[i[1]] /\ bits'[i[1]] \subseteq {i[2], "effort"}
  BY DEF HolderBits
<1>. DEFINE j == i[1]  t == i[2]
<1>1. /\ active' = (active \ stop) \cup start /\ active' \in SUBSET Controllers
      /\ active \in SUBSET Controllers
  BY DEF perform_command_mode_switch, IInv, TypeOK
<1>2. i \in InGazebo \X Type /\ i = <<j, t>> /\ j \in Joints /\ t \in Type
  BY <1>1, ControllersAssumption, JointsAssumption DEF Interfaces
<1>3. \A u \in Type : <<j, u>> \in Held(start) => u = t
  <2>. SUFFICES ASSUME NEW d \in start, NEW u \in Type, <<j, u>> \in Claims[d] PROVE u = t
    BY DEF Held
  <2>. QED
    BY <1>1, TidyJoints, <<j, u>>[1] = i[1], <<j, u>>[2] = u
<1>4. bits'[j] = (IF \E u \in Type : <<j, u>> \in Held(stop) THEN {} ELSE bits[j])
                   \cup {u \in Type : <<j, u>> \in Held(start)}
  BY <1>2 DEF perform_command_mode_switch, Switched
<1>5. CASE c \in start
  <2>1. <<j, t>> \in Held(start)
    BY <1>2, <1>5 DEF Held
  <2>2. (\A u \in Type : <<j, u>> \notin Held(stop)) => bits[j] \subseteq {"effort"}
    <3>. SUFFICES ASSUME \A u \in Type : <<j, u>> \notin Held(stop) PROVE bits[j] \subseteq {"effort"}
      OBVIOUS
    <3>1. ASSUME NEW u \in Type, <<j, u>> \in Held(active) PROVE FALSE
      <4>1. PICK d \in active : <<j, u>> \in Claims[d]
        BY <3>1 DEF Held
      <4>2. d \notin stop
        BY <4>1 DEF Held
      <4>3. d = c
        BY <1>1, <4>1, <4>2, TidyJoints, <<j, u>>[1] = i[1]
      <4>. QED
        BY <1>5, <4>1, <4>3
    <3>2. TypesHeld(j) = {}
      BY <3>1 DEF TypesHeld
    <3>. QED
      BY <1>2, <3>2 DEF IInv, BitsAreHeld
  <2>. QED
    BY <1>2, <1>3, <1>4, <2>1, <2>2
<1>6. CASE c \notin start
  <2>1. c \in active /\ c \notin stop
    BY <1>1, <1>6
  <2>2. \A u \in Type : <<j, u>> \notin Held(stop)
    <3>. SUFFICES ASSUME NEW d \in stop, NEW u \in Type, <<j, u>> \in Claims[d] PROVE FALSE
      BY DEF Held
    <3>1. d = c
      BY <1>1, <2>1, TidyJoints, <<j, u>>[1] = i[1]
    <3>. QED
      BY <2>1, <3>1
  <2>3. t \in bits[j] /\ bits[j] \subseteq {t, "effort"}
    BY <2>1 DEF HolderBits
  <2>. QED
    BY <1>3, <1>4, <2>2, <2>3
<1>. QED
  BY <1>5, <1>6

(* write() leaves the holder's command, or a component it has just created.*)
LEMMA WriteHolders ==
  ASSUME TidyInv, settled, NEW c \in active, NEW i \in Claims[c], i[1] \notin DOMAIN MimicOf
  PROVE  \/ Component(i[2], c) \in {MimicVelocity(i[1]), MimicForce(i[1])}
         \/ Zero \in {MimicVelocity(i[1]), MimicForce(i[1])}
<1>1. i[2] \in Type
  BY ControllersAssumption DEF TidyInv, IInv, TypeOK, Interfaces
<1>2. Method(i[1]) = i[2] /\ cmd[i[1]][i[2]] = c
  BY DEF TidyInv, HolderCommands
<1>3. MimicVelocity(i[1]) = OwnVelocity(i[1]) /\ MimicForce(i[1]) = OwnForce(i[1])
  BY DEF MimicVelocity, MimicForce
<1>. QED
  BY <1>1, <1>2, <1>3 DEF OwnVelocity, OwnForce, CreatedOrSet, Type

(* The tidy invariant is inductive. *)
LEMMA TidyNextInv == TidyInv /\ [TidyNext]_vars => TidyInv'
<1>. SUFFICES ASSUME TidyInv, [TidyNext]_vars PROVE TidyInv'
  OBVIOUS
<1>0. /\ IInv /\ Tidy(active) /\ HolderBits /\ HolderCommands
      /\ \A s \in pending : Tidy((active \ s.stop) \cup s.start)
                            /\ s.start \cap active = {} /\ s.stop \subseteq active
  BY DEF TidyInv
<1>1. IInv'
  BY <1>0, NextIInv DEF TidyNext
<1>2. \A c \in active : \A i \in Claims[c] : i[1] \in InGazebo /\ i[1] \in Joints /\ i[2] \in Type
  BY <1>0, ControllersAssumption, JointsAssumption DEF IInv, TypeOK, Interfaces
<1>3. CASE PreUpdate
  <2>. USE <1>3 DEF PreUpdate, write, cmVars
  <2>1. HolderBits'
    BY <1>0 DEF HolderBits
  <2>2. HolderCommands'
    <3>. SUFFICES ASSUME NEW c \in active, NEW i \in Claims[c]
                  PROVE  /\ Method(i[1])' = i[2]
                         /\ settled => cmd[i[1]][i[2]] = c
                         /\ settled /\ i[1] \notin DOMAIN MimicOf =>
                              Component(i[2], c) \in {velCmd'[i[1]], forceCmd'[i[1]]}
                              \/ Zero \in {velCmd'[i[1]], forceCmd'[i[1]]}
      BY DEF HolderCommands, Component, Zero
    <3>1. Method(i[1])' = Method(i[1])
      BY DEF Method
    <3>2. velCmd'[i[1]] = MimicVelocity(i[1]) /\ forceCmd'[i[1]] = MimicForce(i[1])
      BY <1>2
    <3>3. Method(i[1]) = i[2] /\ (settled => cmd[i[1]][i[2]] = c)
      BY <1>0 DEF HolderCommands
    <3>. QED
      BY <3>1, <3>2, <3>3, WriteHolders
  <2>. QED
    BY <1>0, <1>1, <2>1, <2>2 DEF TidyInv, Tidy, Disjoint, OneTypePerJoint, Held
<1>4. CASE PreUpdateFails \/ Physics \/ Paused \/ PostUpdateWaits
  <2>1. /\ UNCHANGED <<bits, cmd, active, pending, settled>>
        /\ ~(phase' = "sim" /\ wrote')
    BY <1>4 DEF PreUpdateFails, Physics, Paused, PostUpdateWaits, ignVars, cmVars
  <2>2. HolderBits'
    BY <1>0, <2>1 DEF HolderBits
  <2>3. HolderCommands'
    BY <1>0, <2>1 DEF HolderCommands, Method
  <2>. QED
    BY <1>0, <1>1, <2>1, <2>2, <2>3 DEF TidyInv, Tidy, Disjoint, OneTypePerJoint, Held
<1>5. CASE PostUpdate
  <2>. USE <1>5 DEF PostUpdate
  <2>1. CASE pending = {}
    <3>1. settled' = TRUE /\ UNCHANGED <<bits, active>> /\ pending' = {} /\ phase' = "pre"
      BY <2>1 DEF ManageSwitch
    <3>2. HolderBits'
      BY <1>0, <3>1 DEF HolderBits
    <3>3. ASSUME NEW c \in active, NEW i \in Claims[c] PROVE cmd'[i[1]][i[2]] = c
      <4>1. i = <<i[1], i[2]>>
        BY <1>0, ControllersAssumption DEF IInv, TypeOK, Interfaces
      <4>2. \A d \in active : <<i[1], i[2]>> \in Claims[d] <=> d = c
        BY <1>0, <4>1 DEF Tidy, Disjoint
      <4>3. Holders(active, i[1], i[2]) # {}
        BY <4>2 DEF Holders
      <4>4. (CHOOSE d \in active : <<i[1], i[2]>> \in Claims[d]) = c
        BY <4>2
      <4>. QED
        BY <1>2, <4>3, <4>4 DEF RunControllers
    <3>4. HolderCommands'
      BY <1>0, <3>1, <3>3 DEF HolderCommands, Method
    <3>. QED
      BY <1>0, <1>1, <3>1, <3>2, <3>4 DEF TidyInv, Tidy, Disjoint, OneTypePerJoint, Held
  <2>2. CASE pending # {}
    <3>1. PICK s \in pending : perform_command_mode_switch(s.start, s.stop)
      BY <2>2 DEF ManageSwitch
    <3>2. s.start \in SUBSET Controllers /\ s.stop \in SUBSET Controllers
      BY <1>0 DEF IInv, TypeOK
    <3>3. HolderBits'
      BY <1>0, <3>1, <3>2, SwitchStep
    <3>4. settled' = FALSE /\ phase' = "pre" /\ pending' = {}
      BY <2>2 DEF ManageSwitch
    <3>5. active' = (active \ s.stop) \cup s.start
      BY <3>1 DEF perform_command_mode_switch
    <3>6. \A c \in active' : \A i \in Claims[c] : i[2] \in Type
      BY <1>1, ControllersAssumption DEF IInv, TypeOK, Interfaces
    <3>7. HolderCommands'
      BY <3>3, <3>4, <3>6 DEF HolderCommands, HolderBits, Method, Type
    <3>8. Tidy(active)'
      BY <1>0, <3>5 DEF Tidy, Disjoint, OneTypePerJoint, Held
    <3>. QED
      BY <1>1, <3>3, <3>4, <3>7, <3>8 DEF TidyInv
  <2>. QED
    BY <2>1, <2>2
<1>6. CASE \E start, stop \in SUBSET Controllers : TidyNext /\ PrepareSwitch(start, stop)
  <2>1. PICK start \in SUBSET Controllers, stop \in SUBSET Controllers :
          TidyNext /\ PrepareSwitch(start, stop)
    BY <1>6
  <2>2. UNCHANGED <<bits, cmd, velCmd, forceCmd, phase, wrote, active, settled>>
    BY <2>1 DEF PrepareSwitch, ignVars, loopVars
  <2>3. HolderBits' /\ HolderCommands' /\ Tidy(active)'
    BY <1>0, <2>2 DEF HolderBits, HolderCommands, Method, Tidy, Disjoint, OneTypePerJoint, Held
  <2>4. pending' = {[start |-> start, stop |-> stop]}
    BY <2>1 DEF PrepareSwitch
  <2>5. /\ Disjoint((active \ stop) \cup start) /\ OneTypePerJoint((active \ stop) \cup start)
        /\ start \cap active = {} /\ stop \subseteq active
    BY <2>1, <2>4 DEF PrepareSwitch, TidyNext
  <2>6. \A s \in pending' : Tidy((active' \ s.stop) \cup s.start)
                            /\ s.start \cap active' = {} /\ s.stop \subseteq active'
    BY <2>2, <2>4, <2>5 DEF Tidy
  <2>. QED
    BY <1>1, <2>3, <2>6 DEF TidyInv, Tidy, Disjoint, OneTypePerJoint, Held
<1>7. CASE UNCHANGED vars
  BY <1>0, <1>1, <1>7 DEF vars, ignVars, loopVars, cmVars, TidyInv, Tidy, Disjoint, OneTypePerJoint,
     Held, HolderBits, HolderCommands, Method, Component, Zero
<1>. QED
  BY <1>3, <1>4, <1>5, <1>6, <1>7 DEF TidyNext, Next, Loop

(* Before the first controller is started nothing is held.                 *)
LEMMA TidyInit == Init => TidyInv
<1>1. Init => active = {} /\ pending = {}
  BY DEF Init
<1>. QED
  BY <1>1, InitIInv DEF TidyInv, Tidy, OneTypePerJoint, Disjoint, Held, HolderBits, HolderCommands

(* A joint obeys the controller that holds it, as soon as the controllers  *)
(* have run: with one interface and one holder for each joint the commands *)
(* of earlier holders are never applied again.                             *)
(* (perform_command_mode_switch, update and write)                         *)
THEOREM HolderSafety == TidySpec => []HolderCommands
<1>1. TidyInv => HolderCommands
  BY DEF TidyInv
<1>. QED
  BY <1>1, TidyInit, TidyNextInv, PTL DEF TidySpec

(* The comment on the stop interfaces holds for a tidy client: a switch    *)
(* clears no mode of a controller that goes on running.  It is false of    *)
(* Spec, where two controllers hold interfaces of one joint.               *)
(* (perform_command_mode_switch)                                           *)
THEOREM HeldBitsSafety == TidySpec => HeldBitsStay
<1>1. ASSUME TidyInv, TidyInv'
      PROVE  \A c \in active \cap active' : \A i \in Claims[c] :
               i[2] \in bits[i[1]] => i[2] \in bits'[i[1]]
  BY <1>1 DEF TidyInv, HolderBits
<1>. QED
  BY <1>1, TidyInit, TidyNextInv, PTL DEF TidySpec, HeldBitsStay
=============================================================================
