--------------------------- MODULE GazeboControl ---------------------------
(***************************************************************************)
(* The control loop in Gazebo: IgnitionROS2ControlPlugin's PreUpdate and   *)
(* PostUpdate (ign_ros2_control_plugin.cpp) around a step of the physics,  *)
(* with the IgnitionSystem of IgnSystem behind a controller manager.       *)
(*                                                                         *)
(* Gazebo and the controller manager are external.  A paused simulation    *)
(* calls the plugin without advancing the time or running the physics,     *)
(* which zeroes the commands it has applied.  The controller manager gives *)
(* an interface to one controller at a time, runs the active controllers   *)
(* in update and then performs a switch its service thread has prepared.   *)
(***************************************************************************)
EXTENDS IgnSystem

CONSTANTS
  Controllers,  \* controllers of the controller manager
  Claims,       \* the interfaces <<joint, type>> each one claims
  Period        \* control_period_ in steps of the simulation

Interfaces == {i \in InGazebo \X Type : i[2] \in CommandTypes[i[1]]}

ASSUME ControllersAssumption ==
  /\ NoOne \notin Controllers
  /\ Claims \in [Controllers -> SUBSET Interfaces]
  /\ Period \in Nat \ {0}

VARIABLES
  phase,    \* where the simulation step stands
  since,    \* sim_period: steps since the last update
  wrote,    \* write() returned OK in this step
  active,   \* external: active controllers
  pending,  \* external: the prepared switch, at most one
  settled,  \* history: the active controllers have run since the last switch
  released  \* history: joints an interface of which has been stopped

loopVars == <<phase, since, wrote>>
cmVars == <<active, pending, settled, released>>
vars == <<ignVars, loopVars, cmVars>>

Init ==
  /\ initSim
  /\ phase = "pre" /\ since = 0 /\ wrote = FALSE
  /\ active = {} /\ pending = {} /\ settled = FALSE /\ released = {}

----------------------------------------------------------------------------
(***************************************************************************)
(* PreUpdate writes in every step.  A gravity computation that fails makes *)
(* write() return before any command.                                      *)
(***************************************************************************)
(* Mutant: commands are written once in a control period. *)
PreUpdateOnPeriod ==
  /\ phase = "pre"
  /\ IF since + 1 >= Period THEN write ELSE UNCHANGED ignVars
  /\ phase' = "sim" /\ wrote' = TRUE
  /\ UNCHANGED <<since, cmVars>>

PreUpdate ==
  /\ phase = "pre"
  /\ write
  /\ phase' = "sim" /\ wrote' = TRUE
  /\ UNCHANGED <<since, cmVars>>

PreUpdateFails ==
  /\ phase = "pre"
  /\ phase' = "sim" /\ wrote' = FALSE
  /\ UNCHANGED <<ignVars, since, cmVars>>

(* The physics applies the commands and zeroes them. *)
Applied(c) == IF c = Absent THEN Absent ELSE Reset

Physics ==
  /\ phase = "sim"
  /\ velCmd' = [j \in Joints |-> Applied(velCmd[j])]
  /\ forceCmd' = [j \in Joints |-> Applied(forceCmd[j])]
  /\ phase' = "post"
  /\ since' = since + 1
  /\ UNCHANGED <<bits, cmd, crashed, wrote, cmVars>>

Paused ==
  /\ phase = "sim"
  /\ phase' = "post"
  /\ UNCHANGED <<ignVars, since, wrote, cmVars>>

----------------------------------------------------------------------------
(***************************************************************************)
(* PostUpdate: read and update once a control period has passed.  In the   *)
(* update the active controllers set their commands, then the pending      *)
(* switch is performed.                                                    *)
(***************************************************************************)
Holders(cs, j, t) == {c \in cs : <<j, t>> \in Claims[c]}

Held(cs) == UNION {Claims[c] : c \in cs}

RunControllers ==
  cmd' = [j \in Joints |-> [t \in Type |->
            IF Holders(active, j, t) = {} THEN cmd[j][t]
            ELSE CHOOSE c \in active : <<j, t>> \in Claims[c]]]

perform_command_mode_switch(start, stop) ==
  /\ bits' = Switched(Held(start), Held(stop))
  /\ released' = released \cup {i[1] : i \in Held(stop)}
  /\ active' = (active \ stop) \cup start

ManageSwitch ==
  IF pending = {}
  THEN settled' = TRUE /\ UNCHANGED <<bits, active, released>>
  ELSE /\ settled' = FALSE
       /\ \A s \in pending : perform_command_mode_switch(s.start, s.stop)

(* Mutant: the time of every step is taken for that of the last update. *)
WaitsFromLastStep ==
  /\ phase = "post" /\ since < Period
  /\ phase' = "pre" /\ since' = 0
  /\ UNCHANGED <<ignVars, wrote, cmVars>>

PostUpdateWaits ==
  /\ phase = "post" /\ since < Period
  /\ phase' = "pre"
  /\ UNCHANGED <<ignVars, since, wrote, cmVars>>

PostUpdate ==
  /\ phase = "post" /\ since >= Period
  /\ phase' = "pre" /\ since' = 0
  /\ RunControllers
  /\ ManageSwitch
  /\ pending' = {}
  /\ UNCHANGED <<velCmd, forceCmd, crashed, wrote>>

(* The service thread prepares a switch, one at a time. *)
Disjoint(cs) == \A c, d \in cs : c # d => Claims[c] \cap Claims[d] = {}

PrepareSwitch(start, stop) ==
  /\ pending = {}
  /\ start \cap active = {} /\ stop \subseteq active /\ start \cup stop # {}
  /\ Disjoint((active \ stop) \cup start)
  /\ pending' = {[start |-> start, stop |-> stop]}
  /\ UNCHANGED <<ignVars, loopVars, active, settled, released>>

----------------------------------------------------------------------------
Loop == PreUpdate \/ PreUpdateFails \/ Physics \/ Paused \/ PostUpdateWaits \/ PostUpdate

Next ==
  /\ ~crashed
  /\ Loop \/ \E start, stop \in SUBSET Controllers : PrepareSwitch(start, stop)

(* The simulation goes on stepping, paused or not. *)
Spec == Init /\ [][Next]_vars /\ WF_vars(~crashed /\ Loop)

(***************************************************************************)
(* A client that gives the interfaces of a joint to one controller at a    *)
(* time, and controllers that claim one interface of a joint.              *)
(***************************************************************************)
OneTypePerJoint(cs) ==
  \A x, y \in Held(cs) : x[1] = y[1] => x = y

TidyNext ==
  /\ Next
  /\ \A s \in pending' : OneTypePerJoint((active \ s.stop) \cup s.start)

TidySpec == Init /\ [][TidyNext]_vars

----------------------------------------------------------------------------
(***************************************************************************)
(* Properties.                                                             *)
(***************************************************************************)
Components ==
  {Absent, Reset, Zero, Mimicked} \cup [kind : Type, by : Controllers \cup {NoOne}]

TypeOK ==
  /\ bits \in [Joints -> SUBSET Type]
  /\ cmd \in [Joints -> [Type -> Controllers \cup {NoOne}]]
  /\ velCmd \in [Joints -> Components] /\ forceCmd \in [Joints -> Components]
  /\ crashed \in BOOLEAN /\ wrote \in BOOLEAN /\ settled \in BOOLEAN
  /\ phase \in {"pre", "sim", "post"} /\ since \in 0..Period
  /\ active \in SUBSET Controllers /\ released \in SUBSET Joints
  /\ pending \in SUBSET [start : SUBSET Controllers, stop : SUBSET Controllers]

TypesHeld(j) == {t \in Type : <<j, t>> \in Held(active)}

(* A joint is commanded only through interfaces an active controller       *)
(* holds, whatever was started and stopped before and in whatever order.   *)
(* The exception is the effort mode a joint with an effort interface is    *)
(* born with, until the first stop on the joint.                           *)
(* (initSim, perform_command_mode_switch)                                  *)
BitsAreHeld ==
  \A j \in Joints :
    bits[j] \subseteq TypesHeld(j)
      \cup (IF j \in released THEN {} ELSE CommandTypes[j] \cap {"effort"})

(* What the physics is about to apply to a joint was set in this very      *)
(* step, through one component only: no command lingers from an earlier    *)
(* mode and no step goes without one, unless the gravity term failed.      *)
(* ("Always set commands on joints, otherwise ... the joints tremble")     *)
Set(c) == c \notin {Absent, Reset}

CommandedEveryStep ==
  phase = "sim" /\ wrote /\ ~crashed =>
    \A j \in Joints \ DOMAIN MimicOf :
      is_actuated(j) => (Set(velCmd[j]) # Set(forceCmd[j]))

(* A joint that was let go and that no controller holds is commanded to    *)
(* stand still ("Fallback case is a velocity command of zero"), also when  *)
(* it had been commanded by effort.                                        *)
ReleasedStandStill ==
  phase = "sim" /\ wrote =>
    \A j \in released \ DOMAIN MimicOf : TypesHeld(j) = {} => velCmd[j] = Zero

(* With the tidy client the mode of a held joint is its holder's interface,*)
(* and once the controllers have run the physics applies the holder's      *)
(* command, never one of a controller that held the joint before; between  *)
(* the switch and that run an older command may still be applied.  (A      *)
(* component that write() creates in this step is created as zero.)        *)
HolderCommands ==
  \A c \in active : \A i \in Claims[c] :
    LET j == i[1]  t == i[2] IN
      /\ Method(j) = t
      /\ settled => cmd[j][t] = c
      /\ phase = "sim" /\ wrote /\ settled /\ j \notin DOMAIN MimicOf =>
           Component(t, c) \in {velCmd[j], forceCmd[j]}
           \/ Zero \in {velCmd[j], forceCmd[j]}

(* A joint that mimics a position or a velocity moves with the mimicked    *)
(* joint in every step, even when a controller commands it through an      *)
(* interface of its own.                                                   *)
(* ("set values of all mimic joints with respect to mimicked joint")       *)
MimicsFollow ==
  phase = "sim" /\ wrote =>
    \A m \in DOMAIN MimicOf : velCmd[m] = Mimicked

(* A prepared switch is performed as long as the simulation is not paused  *)
(* for ever: the client of switch_controller gets its answer.              *)
TimeAdvances == []<><<Physics>>_vars

SwitchIsPerformed == TimeAdvances => (pending # {} ~> pending = {})

----------------------------------------------------------------------------
(***************************************************************************)
(* The inductive invariant.  A command left over by a paused step belongs  *)
(* to the method the joint still has, because a switch is performed only   *)
(* in a step that has run the physics.                                     *)
(***************************************************************************)
StepInv ==
  /\ phase \in {"pre", "sim"} => since < Period
  /\ phase = "post" /\ since >= Period =>
       \A j \in Joints : ~Set(velCmd[j]) /\ ~Set(forceCmd[j])

MethodInv ==
  \A j \in InGazebo \ DOMAIN MimicOf :
    /\ Set(velCmd[j]) => Method(j) \in {"velocity", "position", "hold"}
    /\ Set(forceCmd[j]) => Method(j) = "effort"

ReleasedInv == \A j \in released : is_actuated(j)

IInv ==
  /\ TypeOK /\ BitsAreHeld /\ StepInv /\ MethodInv /\ CommandedEveryStep
  /\ ReleasedInv /\ ReleasedStandStill

----------------------------------------------------------------------------
(***************************************************************************)
(* What the repository says and the code does not do.                      *)
(***************************************************************************)

(* ign_system.cpp, perform_command_mode_switch: "Clear joint control       *)
(* method bits corresponding to stop interfaces": the mode of a controller *)
(* that goes on running stays set.                                         *)
HeldBitsStay ==
  [][\A c \in active \cap active' : \A i \in Claims[c] :
       i[2] \in bits[i[1]] => i[2] \in bits'[i[1]]]_vars
=============================================================================
