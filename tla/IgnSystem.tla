----------------------------- MODULE IgnSystem -----------------------------
(***************************************************************************)
(* IgnitionSystem (ign_system.cpp): the joints of the simulated robot, the *)
(* control method bits of each joint, and the command components write()   *)
(* leaves in Gazebo's entity component manager.  GazeboControl drives it.  *)
(*                                                                         *)
(* A command value is abstracted to the controller that set it, a command  *)
(* component to what it was last set from.  A joint position, velocity or  *)
(* force has no number here.                                               *)
(***************************************************************************)
EXTENDS Naturals, FiniteSets, Sequences

CONSTANTS
  Joints,       \* joints of the robot description
  InGazebo,     \* those the simulated model has too
  CommandTypes, \* the command interfaces of each joint
  StateTypes,   \* the state interfaces of each joint, in order
  MimicOf,      \* mimicked joint of each mimic joint
  NoOne         \* not a controller

Type == {"position", "velocity", "effort"}

ASSUME JointsAssumption ==
  /\ InGazebo \subseteq Joints
  /\ CommandTypes \in [Joints -> SUBSET Type]
  /\ StateTypes \in [Joints -> Seq(Type)]

(* initSim throws for a mimic joint whose mimicked joint is not described  *)
(* or has no state interface: such a system does not start.                *)
ASSUME MimicAssumption ==
  /\ DOMAIN MimicOf \subseteq InGazebo
  /\ \A m \in DOMAIN MimicOf : MimicOf[m] \in Joints /\ Len(StateTypes[MimicOf[m]]) > 0

VARIABLES
  bits,      \* joint_control_method
  cmd,       \* who set joint_{position,velocity,effort}_cmd
  velCmd,    \* the JointVelocityCmd component of each joint
  forceCmd,  \* the JointForceCmd component of each joint
  crashed    \* a null component was dereferenced

ignVars == <<bits, cmd, velCmd, forceCmd, crashed>>

(* A component: absent, zeroed by the physics system, set to zero by       *)
(* write(), or set from a command value or a mimicked joint.               *)
Component(kind, by) == [kind |-> kind, by |-> by]
Absent == Component("absent", NoOne)
Reset == Component("reset", NoOne)
Zero == Component("zero", NoOne)
Mimicked == Component("mimic", NoOne)

is_actuated(j) == j \in InGazebo /\ CommandTypes[j] # {}

initSim ==
  /\ bits = [j \in Joints |-> IF j \in InGazebo THEN CommandTypes[j] \cap {"effort"} ELSE {}]
  /\ cmd = [j \in Joints |-> [t \in Type |-> NoOne]]
  /\ velCmd = [j \in Joints |-> Absent]
  /\ forceCmd = [j \in Joints |-> Absent]
  /\ crashed = FALSE

----------------------------------------------------------------------------
(***************************************************************************)
(* interfaces_to_mimic.  The search stops at the first state interface,    *)
(* and the one that stands for effort is added with velocity.              *)
(***************************************************************************)
interfaces_to_mimic(m) ==
  [position |-> {"position"}, velocity |-> {"velocity", "effort"}, effort |-> {}]
    [Head(StateTypes[MimicOf[m]])]

(***************************************************************************)
(* perform_command_mode_switch.  VELOCITY & EFFORT and the other two masks *)
(* are zero, so that the stop of one interface clears every bit.           *)
(***************************************************************************)
(* Mutant: a stop leaves the bits. *)
SwitchKeepsBits(start, stop) ==
  [j \in Joints |-> bits[j] \cup {t \in Type : <<j, t>> \in start}]

(* Mutant: starts are handled before stops. *)
SwitchStopsLast(start, stop) ==
  [j \in Joints |->
     IF \E t \in Type : <<j, t>> \in stop THEN {}
     ELSE bits[j] \cup {t \in Type : <<j, t>> \in start}]

Switched(start, stop) ==
  [j \in Joints |->
     (IF \E t \in Type : <<j, t>> \in stop THEN {} ELSE bits[j])
       \cup {t \in Type : <<j, t>> \in start}]

----------------------------------------------------------------------------
(***************************************************************************)
(* write().  A missing component is created, as zero for a velocity or an  *)
(* effort command; then the mimic joints are set over it.                  *)
(***************************************************************************)
(* Mutant: no fallback. *)
NoFallback(j) ==
  IF "velocity" \in bits[j] THEN "velocity"
  ELSE IF "position" \in bits[j] THEN "position"
  ELSE IF "effort" \in bits[j] THEN "effort" ELSE "passive"

Method(j) ==
  IF "velocity" \in bits[j] THEN "velocity"
  ELSE IF "position" \in bits[j] THEN "position"
  ELSE IF "effort" \in bits[j] THEN "effort"
  ELSE IF is_actuated(j) THEN "hold" ELSE "passive"

CreatedOrSet(old, new) == IF old = Absent THEN Zero ELSE new

OwnVelocity(j) ==
  CASE Method(j) = "velocity" -> CreatedOrSet(velCmd[j], Component("velocity", cmd[j]["velocity"]))
    [] Method(j) = "position" -> Component("position", cmd[j]["position"])
    [] Method(j) = "hold"     -> Zero
    [] OTHER                  -> velCmd[j]

OwnForce(j) ==
  IF Method(j) = "effort"
  THEN CreatedOrSet(forceCmd[j], Component("effort", cmd[j]["effort"])) ELSE forceCmd[j]

(* Mutant: a controller's command is set over the mimicked one. *)
MimicFirst(j) ==
  IF Method(j) \in {"passive", "effort"} /\ j \in DOMAIN MimicOf THEN Mimicked ELSE OwnVelocity(j)

MimicVelocity(j) ==
  IF j \notin DOMAIN MimicOf THEN OwnVelocity(j)
  ELSE IF "position" \in interfaces_to_mimic(j) THEN Mimicked
  ELSE IF "velocity" \in interfaces_to_mimic(j) THEN CreatedOrSet(OwnVelocity(j), Mimicked)
  ELSE OwnVelocity(j)

MimicForce(j) ==
  IF j \in DOMAIN MimicOf /\ "effort" \in interfaces_to_mimic(j)
  THEN CreatedOrSet(OwnForce(j), Mimicked) ELSE OwnForce(j)

(* The components of a mimicked joint that Gazebo does not have are null.  *)
DereferencesNull ==
  \E m \in DOMAIN MimicOf : interfaces_to_mimic(m) # {} /\ MimicOf[m] \notin InGazebo

write ==
  /\ velCmd' = [j \in Joints |-> IF j \in InGazebo THEN MimicVelocity(j) ELSE velCmd[j]]
  /\ forceCmd' = [j \in Joints |-> IF j \in InGazebo THEN MimicForce(j) ELSE forceCmd[j]]
  /\ crashed' = DereferencesNull
  /\ UNCHANGED <<bits, cmd>>
=============================================================================
