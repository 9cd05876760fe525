---------------------------- MODULE RobotServices ----------------------------
(***************************************************************************)
(* The second set of threads of the hardware interface: on_init            *)
(* (franka_hardware_interface.cpp) starts an executor of its own           *)
(* (franka_executor.cpp) that serves the robot's parameters                *)
(* (franka_param_service_server.cpp) and error recovery                    *)
(* (franka_action_server.cpp) beside the control loop, and the             *)
(* interface's members are destroyed under it.                             *)
(*                                                                         *)
(* rclcpp is external.  A node runs one callback at a time, the two nodes  *)
(* run theirs together.  spin() raises `spinning', and lowers it and       *)
(* returns once ROS is down or cancel() has lowered it, when the callbacks *)
(* under way are over.  A node or an executor cannot be made after ROS is  *)
(* down: the exception leaves on_init and takes down what was built.       *)
(***************************************************************************)
EXTENDS Naturals, FiniteSets

CONSTANTS
  Service,      \* the services that clients call
  MaxRequests,  \* calls of services
  MaxGoals      \* goals for error recovery

(* Service types and the parameter of the robot each one writes.           *)
Writes ==
  [SetJointStiffness |-> "joint_impedance", SetCartesianStiffness |-> "cartesian_impedance",
   SetLoad |-> "load", SetTCPFrame |-> "EE", SetStiffnessFrame |-> "K",
   SetForceTorqueCollisionBehavior |-> "collision_behavior",
   SetFullCollisionBehavior |-> "collision_behavior"]

Parameter == {Writes[s] : s \in DOMAIN Writes}

ASSUME ServicesAssumption == Service \subseteq DOMAIN Writes
ASSUME BoundsAssumption == MaxRequests \in Nat /\ MaxGoals \in Nat

(* A request, told apart by its number, which is also the value it sets.   *)
(* The robot's own value is number 0.                                      *)
Request == [id : 1 .. MaxRequests, service : Service]
NoRequest == [id |-> 0, service |-> "none"]

VARIABLES
  main,          \* where on_init or the destruction of the interface stands
  thread,        \* executor_spin_
  spinning,      \* the executor's flag
  alive,         \* the nodes that exist
  holders,       \* who shares robot_: the robot lives while somebody does
  added,         \* nodes the executor serves
  rosOk,         \* external: rclcpp::ok()
  requests,      \* calls without an answer
  sent,          \* calls made
  at,            \* where the service node's callback stands
  request,       \* the call it serves
  write_mutex_,
  goals,         \* recovery goals without a result
  sentGoals,
  recovering,    \* the goal errorRecoveryAction works on, or 0
  params,        \* external: the robot's parameters
  told           \* history: the values the answers so far leave possible

mainVars == <<alive, holders, added>>
spinVars == <<thread, spinning>>
serviceVars == <<requests, sent, at, request, write_mutex_, params, told>>
actionVars == <<goals, sentGoals, recovering>>
vars == <<main, spinVars, mainVars, rosOk, serviceVars, actionVars>>

Init ==
  /\ main = "connect" /\ thread = "none" /\ spinning = FALSE
  /\ alive = {} /\ holders = {} /\ added = {} /\ rosOk = TRUE
  /\ requests = {} /\ sent = 0 /\ at = "idle"
  /\ request = NoRequest
  /\ write_mutex_ = "free"
  /\ goals = {} /\ sentGoals = 0 /\ recovering = 0
  /\ params = [p \in Parameter |-> 0] /\ told = [p \in Parameter |-> {0}]

----------------------------------------------------------------------------
(***************************************************************************)
(* on_init, in the thread of the resource manager.                         *)
(***************************************************************************)
Goto(from, to) ==
  main = from /\ main' = to /\ UNCHANGED <<rosOk, serviceVars, actionVars>>

(* The description is refused or the robot does not answer. *)
RefuseInit == Goto("connect", "gone") /\ UNCHANGED <<spinVars, mainVars>>

Connect ==
  /\ Goto("connect", "service_node")
  /\ holders' = {"interface"}
  /\ UNCHANGED <<spinVars, alive, added>>

Create(node) ==
  /\ rosOk
  /\ alive' = alive \cup {node} /\ holders' = holders \cup {node}
  /\ UNCHANGED <<spinVars, added>>

CreateServiceNode == Goto("service_node", "executor") /\ Create("service")

(* FrankaExecutor's constructor: the thread is there before it spins. *)
StartExecutor ==
  /\ Goto("executor", "poll") /\ rosOk
  /\ thread' = "spawned"
  /\ UNCHANGED <<spinning, mainVars>>

(* Mutant: the constructor does not wait. *)
DoNotWait == Goto("poll", "add_service") /\ UNCHANGED <<spinVars, mainVars>>

(* It waits for the flag, which a spin() that already returned has lowered *)
(* again: then it waits for ever.                                          *)
AwaitSpinning ==
  /\ Goto("poll", "add_service") /\ spinning
  /\ UNCHANGED <<spinVars, mainVars>>

AddNode(node) == added' = added \cup {node} /\ UNCHANGED <<spinVars, alive, holders>>

(* Mutant: the node is created and never handed to the executor. *)
ForgetServiceNode == Goto("add_service", "action_node") /\ UNCHANGED <<spinVars, mainVars>>

AddServiceNode == Goto("add_service", "action_node") /\ AddNode("service")

CreateActionNode == Goto("action_node", "add_action") /\ Create("action")

AddActionNode == Goto("add_action", "up") /\ AddNode("action")

(* A constructor throws, and the members built before it go. *)
Unwind ==
  /\ ~rosOk
  /\ \/ Goto("service_node", "drop_robot")
     \/ Goto("executor", "drop_service")
     \/ Goto("action_node", "shutdown")
  /\ UNCHANGED <<spinVars, mainVars>>

----------------------------------------------------------------------------
(***************************************************************************)
(* The destruction of the interface: its members go in reverse order, the  *)
(* executor first, robot_ last.                                            *)
(***************************************************************************)
Destroy == Goto("up", "shutdown") /\ UNCHANGED <<spinVars, mainVars>>

shutdown ==
  /\ Goto("shutdown", "join")
  /\ spinning' = FALSE
  /\ UNCHANGED <<thread, mainVars>>

(* Mutant: the thread is detached. *)
Detach == Goto("join", "drop_action") /\ UNCHANGED <<spinVars, mainVars>>

Join ==
  /\ Goto("join", "drop_action") /\ thread = "returned"
  /\ UNCHANGED <<spinVars, mainVars>>

Drop(node) ==
  /\ alive' = alive \ {node} /\ holders' = holders \ {node}
  /\ UNCHANGED <<spinVars, added>>

DropActionNode == Goto("drop_action", "drop_service") /\ Drop("action")
DropServiceNode == Goto("drop_service", "drop_robot") /\ Drop("service")
DropRobot == Goto("drop_robot", "gone") /\ Drop("interface")

----------------------------------------------------------------------------
(***************************************************************************)
(* The executor's thread.                                                  *)
(***************************************************************************)
SpinStarts ==
  /\ thread = "spawned"
  /\ thread' = "spinning" /\ spinning' = TRUE
  /\ UNCHANGED <<main, mainVars, rosOk, serviceVars, actionVars>>

SpinReturns ==
  /\ thread = "spinning" /\ (~rosOk \/ ~spinning)
  /\ at = "idle" /\ recovering = 0
  /\ thread' = "returned" /\ spinning' = FALSE
  /\ UNCHANGED <<main, mainVars, rosOk, serviceVars, actionVars>>

(* A worker that looked at the flags in time takes one more callback.      *)
MayTake(node) == thread = "spinning" /\ node \in added

----------------------------------------------------------------------------
(***************************************************************************)
(* setGenericRobotParam around one of Robot's setters.                     *)
(***************************************************************************)
ServiceStep(from, to) ==
  /\ at = from /\ at' = to
  /\ UNCHANGED <<main, spinVars, mainVars, rosOk, sent, actionVars>>

TakeRequest ==
  /\ MayTake("service") /\ ServiceStep("idle", "lock")
  /\ request' \in requests
  /\ UNCHANGED <<requests, write_mutex_, params, told>>

LockWriteMutex ==
  /\ write_mutex_ = "free" /\ ServiceStep("lock", "set")
  /\ write_mutex_' = "held"
  /\ UNCHANGED <<requests, request, params, told>>

Leave(outcome) ==
  /\ ServiceStep("set", outcome)
  /\ write_mutex_' = "free"
  /\ UNCHANGED <<requests, request, told>>

SetParameter == params' = [params EXCEPT ![Writes[request.service]] = request.id]

SetterReturns == Leave("success") /\ SetParameter

(* The robot refused, as it does in the wrong mode. *)
CommandException == Leave("command exception error") /\ UNCHANGED params

(* Mutant: this handler does not report a failure. *)
NetworkExceptionIsSuccess == Leave("success") /\ (SetParameter \/ UNCHANGED params)

(* The connection broke before the robot obeyed, or after. *)
NetworkException ==
  Leave("network exception error") /\ (SetParameter \/ UNCHANGED params)

Answer ==
  /\ \E outcome \in {"success", "command exception error", "network exception error"} :
       /\ ServiceStep(outcome, "idle")
       /\ told' = [told EXCEPT ![Writes[request.service]] =
                     CASE outcome = "success" -> {request.id}
                       [] outcome = "network exception error" -> @ \cup {request.id}
                       [] OTHER -> @]
  /\ requests' = requests \ {request} /\ request' = NoRequest
  /\ UNCHANGED <<write_mutex_, params>>

----------------------------------------------------------------------------
(***************************************************************************)
(* errorRecoveryAction: the goal is accepted, recovered and reported in    *)
(* one callback, so that a cancel request finds it over.                   *)
(***************************************************************************)
TakeGoal ==
  /\ MayTake("action") /\ recovering = 0
  /\ recovering' \in goals
  /\ UNCHANGED <<main, spinVars, mainVars, rosOk, serviceVars, goals, sentGoals>>

(* succeed(), or abort() after an exception. *)
ReportRecovery ==
  /\ recovering # 0
  /\ goals' = goals \ {recovering} /\ recovering' = 0
  /\ UNCHANGED <<main, spinVars, mainVars, rosOk, serviceVars, sentGoals>>

----------------------------------------------------------------------------
(***************************************************************************)
(* External: clients call what they discover, and ROS may be shut down.    *)
(***************************************************************************)
Call ==
  /\ "service" \in alive /\ rosOk /\ sent < MaxRequests
  /\ sent' = sent + 1
  /\ \E s \in Service : requests' = requests \cup {[id |-> sent + 1, service |-> s]}
  /\ UNCHANGED <<main, spinVars, mainVars, rosOk, at, request, write_mutex_, params,
                 told, actionVars>>

SendGoal ==
  /\ "action" \in alive /\ rosOk /\ sentGoals < MaxGoals
  /\ sentGoals' = sentGoals + 1 /\ goals' = goals \cup {sentGoals + 1}
  /\ UNCHANGED <<main, spinVars, mainVars, rosOk, serviceVars, recovering>>

RosShutdown ==
  /\ rosOk /\ rosOk' = FALSE
  /\ UNCHANGED <<main, spinVars, mainVars, serviceVars, actionVars>>

----------------------------------------------------------------------------
MainNext ==
  \/ RefuseInit \/ Connect \/ CreateServiceNode \/ StartExecutor \/ AwaitSpinning
  \/ AddServiceNode \/ CreateActionNode \/ AddActionNode \/ Unwind
  \/ shutdown \/ Join \/ DropActionNode \/ DropServiceNode \/ DropRobot

SpinNext == SpinStarts \/ SpinReturns

ServiceNext ==
  \/ TakeRequest \/ LockWriteMutex \/ SetterReturns \/ CommandException
  \/ NetworkException \/ Answer

ActionNext == TakeGoal \/ ReportRecovery

Next ==
  \/ MainNext \/ Destroy \/ SpinNext \/ ServiceNext \/ ActionNext
  \/ Call \/ SendGoal \/ RosShutdown

(* Fairness: the threads are scheduled, and a call of the robot returns or *)
(* throws.  Nobody has to destroy the interface or to shut ROS down.       *)
Spec ==
  /\ Init /\ [][Next]_vars
  /\ WF_vars(MainNext) /\ WF_vars(SpinNext) /\ WF_vars(ServiceNext) /\ WF_vars(ActionNext)

----------------------------------------------------------------------------
(***************************************************************************)
(* Properties.                                                             *)
(***************************************************************************)
LifeOK ==
  /\ main \in {"connect", "service_node", "executor", "poll", "add_service",
               "action_node", "add_action", "up", "shutdown", "join",
               "drop_action", "drop_service", "drop_robot", "gone"}
  /\ thread \in {"none", "spawned", "spinning", "returned"}
  /\ alive \subseteq {"service", "action"} /\ added \subseteq {"service", "action"}
  /\ holders \subseteq {"interface", "service", "action"}

FlagsOK == spinning \in BOOLEAN /\ rosOk \in BOOLEAN

ServiceOK ==
  /\ requests \subseteq Request /\ sent \in 0 .. MaxRequests
  /\ at \in {"idle", "lock", "set", "success", "command exception error",
             "network exception error"}
  /\ request \in Request \cup {NoRequest}
  /\ write_mutex_ \in {"free", "held"}
  /\ params \in [Parameter -> 0 .. MaxRequests]
  /\ told \in [Parameter -> SUBSET (0 .. MaxRequests)]

ActionOK ==
  /\ goals \subseteq 1 .. MaxGoals /\ sentGoals \in 0 .. MaxGoals
  /\ recovering \in 0 .. MaxGoals

TypeOK == LifeOK /\ FlagsOK /\ ServiceOK /\ ActionOK

(* A callback runs on a node that exists and a robot that somebody still   *)
(* holds, whenever on_init fails and whenever the interface is destroyed;  *)
(* ~Robot, which takes no mutex, runs when no callback does.               *)
(* (the order of FrankaHardwareInterface's members, ~FrankaExecutor)       *)
AliveWhileServing ==
  /\ at # "idle" => "service" \in alive
  /\ recovering # 0 => "action" \in alive
  /\ holders = {} => at = "idle" /\ recovering = 0

(* Between calls the robot holds, of each parameter, a value that the      *)
(* answers leave possible: the last one answered with success, or one      *)
(* whose answer was a broken connection since then.                        *)
(* (setGenericRobotParam, over setters that share a parameter)             *)
AnswersAreTrue ==
  \A p \in Parameter :
    at = "idle" \/ Writes[request.service] # p => params[p] \in told[p]

(* However far on_init came and whatever the callbacks do, the interface's *)
(* destruction ends: the cancel is not lost on a thread that has yet to    *)
(* begin to spin, and the join returns.                                    *)
(* (FrankaExecutor's constructor and destructor)                           *)
TeardownEnds == main = "shutdown" ~> main = "gone"

(* What that rests on: at the join the thread has returned, or it spins and*)
(* the flag is down; no start of spin() is still to come that would raise  *)
(* it again; and no callback under way waits for a mutex nobody gives back.*)
(* (AwaitSpinning before the nodes; lock_guard in Robot's setters)         *)
JoinReturns ==
  /\ main = "join" => thread = "returned" \/ (thread = "spinning" /\ ~spinning)
  /\ main = "drop_action" => thread = "returned" /\ at = "idle" /\ recovering = 0
  /\ write_mutex_ = "held" => at = "set"

(* A call or a goal gets its answer, also one that came before the node    *)
(* was added to the spinning executor, unless ROS or the interface goes.   *)
(* (add_node after the node's services exist, one callback group each)     *)
Over == ~rosOk \/ main = "gone" \/ main = "shutdown"
RequestsAreAnswered ==
  /\ \A i \in 1 .. MaxRequests :
       (\E r \in requests : r.id = i) ~> Over \/ ~ \E r \in requests : r.id = i
  /\ \A g \in 1 .. MaxGoals : g \in goals ~> Over \/ g \notin goals

----------------------------------------------------------------------------
(***************************************************************************)
(* The inductive invariant: who exists at each point of the main thread,   *)
(* and that callbacks run only on a thread that has not been joined.       *)
(***************************************************************************)
Built == {"executor", "poll", "add_service", "action_node", "add_action", "up",
          "shutdown", "join", "drop_action", "drop_service"}

LifeInv ==
  /\ main \in {"connect", "service_node"} => alive = {}
  /\ main \in Built => "service" \in alive
  /\ "service" \in added => main \notin {"connect", "service_node", "executor", "poll"}
  /\ "action" \in added =>
       /\ main \in {"up", "shutdown", "join", "drop_action", "drop_service",
                    "drop_robot", "gone"}
       /\ main \in {"up", "shutdown", "join"} => "action" \in alive
  /\ main = "add_action" => "action" \in alive
  /\ alive \subseteq holders

ThreadInv ==
  /\ main \in {"connect", "service_node", "executor"} => thread = "none"
  /\ main \in {"drop_action", "drop_service", "drop_robot", "gone"} =>
       thread \in {"none", "returned"}

CallbackInv ==
  /\ at # "idle" => thread = "spinning" /\ "service" \in added
  /\ recovering # 0 => thread = "spinning" /\ "action" \in added

(* Past its constructor the executor has begun to spin, and only a spin()  *)
(* under way has its flag up.                                              *)
SpinInv ==
  /\ main \in {"add_service", "action_node", "add_action", "up", "shutdown", "join"} =>
       thread \in {"spinning", "returned"}
  /\ spinning => thread = "spinning"
  /\ JoinReturns

(* What the callback has done to the parameter it serves. *)
ParamInv ==
  LET p == Writes[request.service]
  IN  /\ at # "idle" => request \in Request
      /\ at \in {"lock", "set", "command exception error"} => params[p] \in told[p]
      /\ at = "success" => params[p] = request.id
      /\ at = "network exception error" => params[p] \in told[p] \cup {request.id}

IInv == TypeOK /\ LifeInv /\ ThreadInv /\ CallbackInv /\ ParamInv /\ AnswersAreTrue
=============================================================================
