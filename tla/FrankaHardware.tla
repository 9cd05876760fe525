--------------------------- MODULE FrankaHardware ---------------------------
(***************************************************************************)
(* FrankaHardwareInterface (franka_hardware_interface.cpp) on top of Robot *)
(* (robot.cpp): how command interfaces are claimed, started, stopped and   *)
(* written to the robot.                                                   *)
(*                                                                         *)
(* The controller manager is external.  Its real-time loop calls read(),   *)
(* then update (which performs a pending mode switch), then write(); its   *)
(* service thread calls prepare_command_mode_switch.  It gives an          *)
(* interface to one controller at a time and, as in ROS 2 Humble, goes on  *)
(* with a switch whose perform step reported an error.  An exception is    *)
(* taken to be caught by the caller, which covers a caller that ends.      *)
(***************************************************************************)
EXTENDS Naturals, FiniteSets

CONSTANTS
  Exported,   \* interface types the robot description exports
  Requests    \* mode switches a controller manager may ask for

Joint == {"effort", "velocity", "position"}
Cartesian == {"cartesian_velocity", "cartesian_pose_command"}
Motion == Joint \cup Cartesian
Interface == Motion \cup {"elbow_command"}

(* The order of command_interfaces_info_, and that of the blocks of        *)
(* perform_command_mode_switch, where the elbow check comes last.          *)
Rank == [effort |-> 1, velocity |-> 2, position |-> 3, elbow_command |-> 4,
         cartesian_velocity |-> 5, cartesian_pose_command |-> 6]

BlockRank == [Rank EXCEPT !["elbow_command"] = 7]

(* Length of each command vector. *)
Size == [effort |-> 7, velocity |-> 7, position |-> 7, elbow_command |-> 2,
         cartesian_velocity |-> 6, cartesian_pose_command |-> 16]

(* A request names, for each type, all its interfaces or only some.        *)
Request == [start : SUBSET Interface, stop : SUBSET Interface,
            startPart : SUBSET Interface, stopPart : SUBSET Interface]

ASSUME ExportedAssumption == Exported \subseteq Interface
ASSUME RequestsAssumption ==
  /\ Requests \subseteq Request
  /\ \A r \in Requests : r.start \cap r.startPart = {} /\ r.stop \cap r.stopPart = {}

VARIABLES
  phase,       \* where the real-time loop stands
  claimed,     \* *_interface_claimed_
  running,     \* *_interface_running_
  first,       \* first_{position,elbow,cartesian_pose}_update_
  active,      \* Robot's *_interface_active_ flags
  control,     \* the ActiveControl object: none or the kind it was started as
  owned,       \* external: types held by active controllers
  pending,     \* external: what they will hold after the prepared switch
  sent,        \* outcome of this cycle's write()
  \* history, read by no guard
  fresh,       \* vectors set from the robot's state since their last start
  refused      \* some prepare_command_mode_switch was refused

hwVars == <<claimed, running, first>>
robotVars == <<active, control>>
cmVars == <<owned, pending>>
vars == <<phase, hwVars, robotVars, cmVars, sent, fresh, refused>>

NoWrite == [outcome |-> "idle", vec |-> "none", elbow |-> FALSE, as |-> "none"]

Init ==
  /\ phase = "read"
  /\ claimed = {} /\ running = {}
  /\ first = {"position", "elbow_command", "cartesian_pose_command"}
  /\ active = {} /\ control = {}
  /\ owned = {} /\ pending = {}
  /\ sent = NoWrite
  /\ fresh = {} /\ refused = FALSE

----------------------------------------------------------------------------
(***************************************************************************)
(* prepare_command_mode_switch.  Types are handled in order; the first one *)
(* named with a wrong number of interfaces throws, after the types before  *)
(* it (and a complete stop of that very type) took effect.  A request for  *)
(* every interface at once is refused before anything is looked at.        *)
(***************************************************************************)
Admissible(r) ==
  /\ r.stop \cup r.stopPart \subseteq owned
  /\ (r.start \cup r.startPart) \cap (owned \ r.stop) = {}

Everything(r) == r.start = Interface

Malformed(r) == (r.startPart \cup r.stopPart) \cap Exported

(* Mutant: stops are applied after starts. *)
ClaimsStartsFirst(r) ==
  (claimed \cup (r.start \cap Exported)) \ (r.stop \cap Exported)

Claims(r) ==
  LET stops  == {i \in r.stop \cap Exported : \A b \in Malformed(r) : Rank[i] <= Rank[b]}
      starts == {i \in r.start \cap Exported : \A b \in Malformed(r) : Rank[i] < Rank[b]}
  IN  (claimed \ stops) \cup starts

PrepareAccepts(r) ==
  /\ pending = {} /\ Admissible(r)
  /\ ~Everything(r) /\ Malformed(r) = {}
  /\ claimed' = Claims(r)
  /\ pending' = {(owned \ r.stop) \cup r.start}
  /\ UNCHANGED <<phase, running, first, robotVars, owned, sent, fresh, refused>>

PrepareRefuses(r) ==
  /\ pending = {} /\ Admissible(r)
  /\ Everything(r) \/ Malformed(r) # {}
  /\ claimed' = IF Everything(r) THEN claimed ELSE Claims(r)
  /\ refused' = TRUE
  /\ UNCHANGED <<phase, running, first, robotVars, cmVars, sent, fresh>>

----------------------------------------------------------------------------
(***************************************************************************)
(* Robot::stopRobot clears the flags only when a control is active.        *)
(* Robot::initialize*Interface starts a control, retrying once after an    *)
(* automatic error recovery; the second failure escapes.                   *)
(***************************************************************************)
(* Mutant: the flags survive. *)
stopKeepsFlags ==
  /\ active' = active
  /\ control' = {}

stopRobot ==
  /\ active' = IF control = {} THEN active ELSE {}
  /\ control' = {}

stopRobotThenInitialize(i) ==
  /\ active' = (IF control = {} THEN active ELSE {}) \cup {i}
  /\ control' = {i}

(* When perform_command_mode_switch ends, however it ends, the controller  *)
(* manager hands the interfaces over.                                      *)
HandOver ==
  /\ phase' = "write"
  /\ owned' = UNION pending
  /\ pending' = {}

Successor ==
  [effort |-> "velocity", velocity |-> "position", position |-> "cartesian_velocity",
   cartesian_velocity |-> "cartesian_pose_command", cartesian_pose_command |-> "elbow_command"]

Starts(i) == i \in claimed \ running
Stops(i) == i \in running \ claimed

(* Mutant: the vector does not wait for a read. *)
StartsWithoutRead(i) ==
  LET elbow == IF i \in Cartesian THEN {"elbow_command"} \cap (claimed \ running) ELSE {}
  IN  /\ phase = i /\ Starts(i)
      /\ stopRobotThenInitialize(i)
      /\ running' = running \cup {i} \cup elbow
      /\ fresh' = fresh \ ({i} \cup elbow)
      /\ phase' = Successor[i]
      /\ UNCHANGED <<claimed, first, cmVars, sent, refused>>

(* A block of perform_command_mode_switch that starts its interface.  The  *)
(* two Cartesian blocks start a claimed elbow along with it; position,     *)
(* elbow and pose wait for a read before they are first written.           *)
StartBlock(i) ==
  LET elbow == IF i \in Cartesian THEN {"elbow_command"} \cap (claimed \ running) ELSE {}
      started == {i} \cup elbow
  IN  /\ phase = i /\ Starts(i)
      /\ stopRobotThenInitialize(i)
      /\ running' = running \cup started
      /\ first' = first \cup (started \cap {"position", "elbow_command", "cartesian_pose_command"})
      /\ fresh' = fresh \ started
      /\ phase' = Successor[i]
      /\ UNCHANGED <<claimed, cmVars, sent, refused>>

(* Mutant: the running flag is set before the start that throws. *)
RunsBeforeStart(i) ==
  /\ phase = i /\ Starts(i)
  /\ stopRobot
  /\ HandOver
  /\ running' = running \cup {i}
  /\ UNCHANGED <<claimed, first, sent, fresh, refused>>

StartBlockThrows(i) ==
  /\ phase = i /\ Starts(i)
  /\ stopRobot
  /\ HandOver
  /\ UNCHANGED <<hwVars, sent, fresh, refused>>

(* Mutant: the elbow is left running. *)
StopLeavesElbow(i) ==
  /\ phase = i /\ Stops(i)
  /\ stopRobot
  /\ running' = running \ {i}
  /\ phase' = Successor[i]
  /\ UNCHANGED <<claimed, first, cmVars, sent, fresh, refused>>

(* Mutant: the robot is not stopped. *)
StopForgetsRobot(i) ==
  /\ phase = i /\ Stops(i)
  /\ running' = running \ {i}
  /\ phase' = Successor[i]
  /\ UNCHANGED <<claimed, first, robotVars, cmVars, sent, fresh, refused>>

(* A block that stops its interface: the robot is stopped whatever it is   *)
(* doing, and a Cartesian interface takes a running elbow down with it.    *)
StopBlock(i) ==
  LET elbow == IF i \in Cartesian THEN {"elbow_command"} \cap running ELSE {}
  IN  /\ phase = i /\ Stops(i)
      /\ stopRobot
      /\ running' = running \ ({i} \cup elbow)
      /\ claimed' = claimed \ elbow
      /\ phase' = Successor[i]
      /\ UNCHANGED <<first, cmVars, sent, fresh, refused>>

SkipBlock(i) ==
  /\ phase = i /\ ~Starts(i) /\ ~Stops(i)
  /\ phase' = Successor[i]
  /\ UNCHANGED <<hwVars, robotVars, cmVars, sent, fresh, refused>>

(* The last check, for an elbow claimed on its own, only changes the       *)
(* return value.                                                           *)
ElbowCheck ==
  /\ phase = "elbow_command"
  /\ HandOver
  /\ UNCHANGED <<hwVars, robotVars, sent, fresh, refused>>

----------------------------------------------------------------------------
(***************************************************************************)
(* read(): the first read after a start copies the robot's state into the  *)
(* position, elbow and pose commands.                                      *)
(***************************************************************************)
InitializePositionCommands ==
  /\ first' = first \ running
  /\ fresh' = fresh \cup (first \cap running)

Read ==
  /\ phase = "read"
  /\ InitializePositionCommands
  /\ phase' = "update"
  /\ sent' = NoWrite
  /\ UNCHANGED <<claimed, running, robotVars, cmVars, refused>>

Update ==
  /\ phase = "update"
  /\ phase' = IF pending = {} THEN "write" ELSE "effort"
  /\ UNCHANGED <<hwVars, robotVars, cmVars, sent, fresh, refused>>

(* on_activate reads; on_deactivate stops the robot and nothing else.      *)
OnActivate ==
  /\ phase = "read"
  /\ InitializePositionCommands
  /\ UNCHANGED <<phase, claimed, running, robotVars, cmVars, sent, refused>>

OnDeactivate ==
  /\ phase = "read"
  /\ stopRobot
  /\ UNCHANGED <<phase, hwVars, cmVars, sent, fresh, refused>>

----------------------------------------------------------------------------
(***************************************************************************)
(* write(): which vector is written, chosen from the running flags, first  *)
(* match first.  {} is "none of the branches".                             *)
(***************************************************************************)
Ready(i) == i \in running /\ i \notin first
ElbowRuns == "elbow_command" \in running

Selected ==
  LET alone(i) == {[vec |-> i, elbow |-> FALSE]}
      withElbow(i) == {[vec |-> i, elbow |-> TRUE]}
  IN  IF "velocity" \in running THEN alone("velocity")
      ELSE IF "effort" \in running THEN alone("effort")
      ELSE IF Ready("position") THEN alone("position")
      ELSE IF "cartesian_velocity" \in running /\ Ready("elbow_command")
        THEN withElbow("cartesian_velocity")
      ELSE IF Ready("cartesian_pose_command") /\ Ready("elbow_command")
        THEN withElbow("cartesian_pose_command")
      ELSE IF Ready("cartesian_pose_command") THEN alone("cartesian_pose_command")
      ELSE IF "cartesian_velocity" \in running /\ ~ElbowRuns
        THEN alone("cartesian_velocity")
      ELSE {}

(* Robot::writeOnce(command) and Robot::writeOnce(cartesian, elbow): the   *)
(* kind the vector is sent as depends on the active flags and its length.  *)
ActiveJoint ==
  IF "effort" \in active THEN "effort"
  ELSE IF "velocity" \in active THEN "velocity" ELSE "position"

SentAs(c) ==
  LET n == Size[c.vec]
      fits(i, ok) == i \in active /\ ok
  IN  IF ~c.elbow /\ Joint \cap active # {} /\ n <= 7 THEN ActiveJoint
      ELSE IF fits("cartesian_velocity", IF c.elbow THEN n = 6 ELSE n <= 6)
        THEN "cartesian_velocity"
      ELSE IF fits("cartesian_pose_command", IF c.elbow THEN n = 16 ELSE n <= 16)
        THEN "cartesian_pose_command"
      ELSE "none"

WriteOnce(c) ==
  [outcome |-> IF control = {} THEN "control_not_started"
               ELSE IF SentAs(c) = "none" THEN "unknown_size"
               ELSE "sent",
   vec |-> c.vec, elbow |-> c.elbow, as |-> SentAs(c)]

Write ==
  /\ phase = "write"
  /\ \E c \in Selected : sent' = WriteOnce(c)
  /\ phase' = "read"
  /\ UNCHANGED <<hwVars, robotVars, cmVars, fresh, refused>>

WriteNothing ==
  /\ phase = "write" /\ Selected = {}
  /\ sent' = NoWrite
  /\ phase' = "read"
  /\ UNCHANGED <<hwVars, robotVars, cmVars, fresh, refused>>

(* A value in any vector that is not finite: write() returns ERROR.        *)
WriteInfinite ==
  /\ phase = "write"
  /\ sent' = [NoWrite EXCEPT !.outcome = "infinite"]
  /\ phase' = "read"
  /\ UNCHANGED <<hwVars, robotVars, cmVars, fresh, refused>>

----------------------------------------------------------------------------
Perform ==
  \/ \E i \in Motion : StartBlock(i) \/ StartBlockThrows(i) \/ StopBlock(i) \/ SkipBlock(i)
  \/ ElbowCheck

Cycle == Read \/ Update \/ Perform \/ Write \/ WriteNothing \/ WriteInfinite

Next ==
  \/ \E r \in Requests : PrepareAccepts(r) \/ PrepareRefuses(r)
  \/ OnActivate \/ OnDeactivate
  \/ Cycle

Spec == Init /\ [][Next]_vars

(***************************************************************************)
(* The same hardware under a careful operator: every type is named         *)
(* completely, one motion type is started at a time and only when nothing  *)
(* is held, and the hardware is deactivated only when nothing is held.     *)
(***************************************************************************)
Careful(r) ==
  /\ r.startPart = {} /\ r.stopPart = {}
  /\ \A i, j \in r.start \cap Motion : i = j
  /\ r.start # {} => owned = {} /\ r.start \cap Motion # {}
  /\ "elbow_command" \in r.start => r.start \cap Cartesian # {}

CarefulNext ==
  \/ \E r \in Requests : Careful(r) /\ PrepareAccepts(r)
  \/ OnActivate
  \/ owned = {} /\ pending = {} /\ OnDeactivate
  \/ Cycle

CarefulSpec == Init /\ [][CarefulNext]_vars

----------------------------------------------------------------------------
(***************************************************************************)
(* Properties of every controller manager.                                 *)
(***************************************************************************)
InPerform == phase \in Interface

Outcome ==
  [outcome : {"idle", "sent", "infinite", "control_not_started", "unknown_size"},
   vec : Motion \cup {"none"}, elbow : BOOLEAN, as : Motion \cup {"none"}]

TypeOK ==
  /\ phase \in {"read", "update", "write"} \cup Interface
  /\ claimed \subseteq Exported /\ owned \subseteq Interface
  /\ running \subseteq Exported
  /\ first \subseteq {"position", "elbow_command", "cartesian_pose_command"}
  /\ active \subseteq Motion /\ control \subseteq Motion
  /\ pending \subseteq SUBSET Interface
  /\ sent \in Outcome
  /\ fresh \subseteq Exported /\ refused \in BOOLEAN

(* Robot's five activity flags name exactly the control that is open, and  *)
(* there is never more than one, also after starts that threw.             *)
(* (stopRobot clears the flags only under active_control_)                 *)
FlagsFollowControl == active = control /\ \A i, j \in control : i = j

(* The robot never holds a control open that no running interface uses:    *)
(* nobody would feed it. (every start sets its running flag; every stop    *)
(* closes whatever is open)                                                *)
ControlIsRunning == control \subseteq running

(* The elbow runs only beside a Cartesian interface, whatever is started,  *)
(* stopped or fails to start. (comment at perform_command_mode_switch:395) *)
ElbowNeedsCartesian == ElbowRuns => running \cap Cartesian # {}

(* A position, pose or elbow vector is sent only after a read has set it   *)
(* from the robot's state since its interface was last started: no stale   *)
(* target is ever sent. (first_*_update_; the test                         *)
(* ..._ifWriteCalledWithoutRead_expectWriteOnceNotToBeCalled)              *)
NoStaleTarget ==
  [][phase = "write" /\ phase' = "read" /\ sent'.outcome = "sent" =>
       /\ sent'.vec \in {"position", "cartesian_pose_command"} => sent'.vec \in fresh
       /\ sent'.elbow => "elbow_command" \in fresh]_vars

(* As long as no prepare was refused, outside a switch the motion types    *)
(* claimed by the hardware are those held by controllers: the two views    *)
(* of who commands what agree, also after a start that threw.              *)
ClaimsFollowOwners ==
  ~refused /\ pending = {} => claimed \cap Motion = owned \cap Motion \cap Exported

----------------------------------------------------------------------------
(***************************************************************************)
(* Properties under a careful operator.                                    *)
(***************************************************************************)

(* Each write is either nothing, or the vector of the interface that runs, *)
(* sent to a control of its own kind: never a throw, never efforts sent as *)
(* positions. (write's branches against Robot::writeOnce's)                *)
WritesMatch ==
  /\ sent.outcome \notin {"control_not_started", "unknown_size"}
  /\ sent.outcome = "sent" => sent.as = sent.vec

(* The hardware is a single mode that is engaged from disengaged, released,*)
(* and fed only with its own commands.                                     *)
Mode == INSTANCE OneMotionMode WITH
  mode <- running \cap Motion,
  command <- IF sent.outcome \in {"idle", "infinite"} THEN {}
             ELSE IF sent.outcome = "sent" THEN {<<sent.vec, sent.as>>}
             ELSE {<<sent.outcome, sent.vec>>}

ImplementsOneMotionMode == Mode!Spec

----------------------------------------------------------------------------
(***************************************************************************)
(* The inductive invariants.                                               *)
(***************************************************************************)
Targets == {"position", "elbow_command", "cartesian_pose_command"}

IInv ==
  /\ TypeOK
  /\ FlagsFollowControl /\ ControlIsRunning /\ ElbowNeedsCartesian
  /\ running \cap Targets \subseteq first \cup fresh
  /\ \A S, T \in pending : S = T
  /\ InPerform => pending # {}
  /\ ClaimsFollowOwners
  /\ ~refused => \A S \in pending : claimed \cap Motion = S \cap Motion \cap Exported

(* Blocks already behind the real-time loop in this mode switch. *)
Passed(i) == InPerform /\ BlockRank[i] < BlockRank[phase]

CarefulInv ==
  /\ IInv /\ ~refused
  /\ \A i, j \in (claimed \cup running) \cap Motion : i = j
  /\ control = running \cap Motion
  /\ pending = {} => running \cap Motion \subseteq claimed
  /\ \A i \in running \cap Motion : Passed(i) => i \in claimed
  /\ WritesMatch
=============================================================================
