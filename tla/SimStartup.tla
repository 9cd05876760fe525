----------------------------- MODULE SimStartup -----------------------------
(***************************************************************************)
(* The life of IgnitionROS2ControlPlugin (ign_ros2_control_plugin.cpp)     *)
(* around the control loop of GazeboControl: Configure, which fetches the  *)
(* robot description over ROS, the thread that spins the executor, and the *)
(* destructor.                                                             *)
(*                                                                         *)
(* Gazebo runs Configure once and unloads the plugin when it stops.        *)
(* External: the node that holds the description, which may be absent, go  *)
(* down and come back, and ROS, which may be shut down at any time.        *)
(***************************************************************************)
EXTENDS Naturals

VARIABLES
  configure,   \* where Configure stands
  reply,       \* the future of get_parameters
  thread,      \* thread_executor_spin_
  joinable,    \* thread_executor_spin_.joinable()
  cancelled,   \* the executor was told to stop
  manager,     \* controller_manager_ is set
  plugin,      \* alive, unloading, destroyed or terminated with the process
  rosOk,       \* external: rclcpp::ok()
  publisher,   \* external: the description's node offers its services
  description  \* external: what the parameter holds

rosVars == <<rosOk, publisher, description>>
threadVars == <<thread, joinable, cancelled>>
vars == <<configure, reply, threadVars, manager, plugin, rosVars>>

Description == {"undeclared", "empty", "malformed", "unsupported", "good"}

Init ==
  /\ configure = "start" /\ reply = "none"
  /\ thread = "none" /\ joinable = FALSE /\ cancelled = FALSE
  /\ manager = FALSE /\ plugin = "alive"
  /\ rosOk = TRUE /\ publisher = FALSE
  /\ description \in Description

Alive == plugin # "terminated"

Goes(pc) == configure' = pc /\ UNCHANGED plugin

(* An exception nobody catches, or an access through a null pointer.       *)
Terminates == plugin' = "terminated" /\ UNCHANGED configure

----------------------------------------------------------------------------
(***************************************************************************)
(* Configure.  It returns early for something that is not a model or has   *)
(* no parameters, then starts the executor thread, and returns again for a *)
(* model without joints.                                                   *)
(***************************************************************************)
RefusesModel ==
  /\ configure = "start"
  /\ Goes("returned")
  /\ UNCHANGED <<reply, threadVars, manager, rosVars>>

(* rclcpp::init when no context is up, and then the thread.                *)
StartsThread ==
  /\ configure = "start"
  /\ rosOk' = TRUE
  /\ thread' = "created" /\ joinable' = TRUE
  /\ configure' \in {"returned", "service"} /\ UNCHANGED plugin
  /\ UNCHANGED <<reply, cancelled, manager, publisher, description>>

(* getURDF, first loop: `return 0' makes a string from a null pointer,     *)
(* which throws a logic_error; Configure catches runtime_error only.       *)
FindsService ==
  /\ configure = "service" /\ publisher /\ rosOk
  /\ Goes("request")
  /\ UNCHANGED <<reply, threadVars, manager, rosVars>>

ExitsInterrupted ==
  /\ configure = "service" /\ ~rosOk
  /\ Terminates
  /\ UNCHANGED <<reply, threadVars, manager, rosVars>>

(* Mutant: the description is read without a request to its node. *)
ReadsOwnParameter ==
  /\ configure = "request" /\ description \notin {"undeclared", "empty"}
  /\ Goes(description)
  /\ UNCHANGED <<reply, threadVars, manager, rosVars>>

(* getURDF, second loop, which does not look at rclcpp::ok(): a request    *)
(* that throws is repeated, one that is sent is awaited.                   *)
SendsRequest ==
  /\ configure = "request" /\ rosOk
  /\ reply' = IF publisher THEN "pending" ELSE "lost"
  /\ Goes("await")
  /\ UNCHANGED <<threadVars, manager, rosVars>>

RequestThrows ==
  /\ configure = "request" /\ ~rosOk
  /\ UNCHANGED vars

(* Mutant: an empty description is awaited again without a new request. *)
AsksOnce ==
  /\ configure = "await" /\ reply \in Description
  /\ reply' = "none"
  /\ \/ reply = "undeclared" /\ Terminates
     \/ reply \in {"undeclared", "empty"} /\ Goes("await")
     \/ reply \notin {"undeclared", "empty"} /\ Goes(reply)
  /\ UNCHANGED <<threadVars, manager, rosVars>>

(* values[0] of an undeclared parameter does not exist: reading it crashes *)
(* or is caught like a value of another type.                              *)
GetsReply ==
  /\ configure = "await" /\ reply \in Description
  /\ reply' = "none"
  /\ \/ reply = "undeclared" /\ Terminates
     \/ reply \in {"undeclared", "empty"} /\ Goes("request")
     \/ reply \notin {"undeclared", "empty"} /\ Goes(reply)
  /\ UNCHANGED <<threadVars, manager, rosVars>>

(* A description without a root is dereferenced; one whose ros2_control    *)
(* part does not parse leaves the plugin inactive.                         *)
ParsesMalformed ==
  /\ configure = "malformed"
  /\ Terminates
  /\ UNCHANGED <<reply, threadVars, manager, rosVars>>

ParsesUnsupported ==
  /\ configure = "unsupported"
  /\ Goes("returned")
  /\ UNCHANGED <<reply, threadVars, manager, rosVars>>

(* The loader or initSim fails, or initSim throws for a mimic joint.       *)
LoadFails ==
  /\ configure = "good"
  /\ Goes("returned") \/ Terminates
  /\ UNCHANGED <<reply, threadVars, manager, rosVars>>

(* With or without an update_rate parameter Configure returns with the     *)
(* controller manager in place.                                            *)
CreatesManager ==
  /\ configure = "good"
  /\ manager' = TRUE
  /\ Goes("returned")
  /\ UNCHANGED <<reply, threadVars, rosVars>>

Configure ==
  \/ RefusesModel \/ StartsThread \/ FindsService \/ ExitsInterrupted
  \/ SendsRequest \/ GetsReply
  \/ ParsesMalformed \/ ParsesUnsupported \/ LoadFails \/ CreatesManager

----------------------------------------------------------------------------
(***************************************************************************)
(* The executor thread.  It delivers replies while it spins.  spin() sets  *)
(* the flag that cancel() clears, so that a cancel before it is lost.      *)
(***************************************************************************)
EntersSpin ==
  /\ thread = "created"
  /\ thread' = "spinning" /\ cancelled' = FALSE
  /\ UNCHANGED <<configure, reply, joinable, manager, plugin, rosVars>>

DeliversReply ==
  /\ thread = "spinning" /\ rosOk /\ ~cancelled
  /\ publisher /\ reply = "pending"
  /\ reply' = description
  /\ UNCHANGED <<configure, threadVars, manager, plugin, rosVars>>

LeavesSpin ==
  /\ thread = "spinning" /\ (cancelled \/ ~rosOk)
  /\ thread' = "ended"
  /\ UNCHANGED <<configure, reply, joinable, cancelled, manager, plugin, rosVars>>

Thread == EntersSpin \/ DeliversReply \/ LeavesSpin

----------------------------------------------------------------------------
(* Mutant: the thread is joined without a cancel. *)
UnloadsWithoutCancel ==
  /\ plugin = "alive" /\ configure = "returned"
  /\ plugin' = "unloading"
  /\ UNCHANGED <<configure, reply, threadVars, manager, rosVars>>

(***************************************************************************)
(* The destructor joins the thread only when there is a controller manager;*)
(* the destructor of a joinable thread terminates the process.             *)
(***************************************************************************)
Unload ==
  /\ plugin = "alive" /\ configure = "returned"
  /\ plugin' = "unloading"
  /\ cancelled' = manager
  /\ UNCHANGED <<configure, reply, thread, joinable, manager, rosVars>>

Joins ==
  /\ plugin = "unloading" /\ manager /\ joinable
  /\ thread = "ended"
  /\ joinable' = FALSE
  /\ UNCHANGED <<configure, reply, thread, cancelled, manager, plugin, rosVars>>

Destroys ==
  /\ plugin = "unloading" /\ (manager => ~joinable)
  /\ plugin' = IF joinable THEN "terminated" ELSE "destroyed"
  /\ UNCHANGED <<configure, reply, threadVars, manager, rosVars>>

Destructor == Joins \/ Destroys

----------------------------------------------------------------------------
(***************************************************************************)
(* The environment.  A request whose server goes down is not answered.     *)
(***************************************************************************)
PublisherStarts ==
  /\ ~publisher
  /\ publisher' = TRUE
  /\ UNCHANGED <<configure, reply, threadVars, manager, plugin, rosOk, description>>

PublisherStops ==
  /\ publisher
  /\ publisher' = FALSE
  /\ reply' = IF reply = "pending" THEN "lost" ELSE reply
  /\ UNCHANGED <<configure, threadVars, manager, plugin, rosOk, description>>

DescriptionSet ==
  /\ description = "empty"
  /\ description' = "good"
  /\ UNCHANGED <<configure, reply, threadVars, manager, plugin, rosOk, publisher>>

Interrupt ==
  /\ rosOk /\ configure # "start"
  /\ rosOk' = FALSE
  /\ UNCHANGED <<configure, reply, threadVars, manager, plugin, publisher, description>>

Stopped == UNCHANGED vars

Next ==
  \/ /\ Alive
     /\ \/ Configure \/ Thread \/ Unload \/ Destructor
        \/ PublisherStarts \/ PublisherStops \/ DescriptionSet \/ Interrupt
  \/ RequestThrows
  \/ plugin \in {"destroyed", "terminated"} /\ Stopped

Fairness ==
  /\ WF_vars(Alive /\ Configure) /\ WF_vars(Alive /\ Thread) /\ WF_vars(Alive /\ Destructor)

Spec == Init /\ [][Next]_vars /\ Fairness

----------------------------------------------------------------------------
(***************************************************************************)
(* Properties.                                                             *)
(***************************************************************************)
TypeOK ==
  /\ configure \in {"start", "service", "request", "await", "returned",
                   "malformed", "unsupported", "good"}
  /\ reply \in {"none", "pending", "lost"} \cup Description
  /\ thread \in {"none", "created", "spinning", "ended"}
  /\ joinable \in BOOLEAN /\ cancelled \in BOOLEAN /\ manager \in BOOLEAN
  /\ plugin \in {"alive", "unloading", "destroyed", "terminated"}
  /\ rosOk \in BOOLEAN /\ publisher \in BOOLEAN /\ description \in Description

(* A plugin that controls the robot is never caught by its own thread.  It *)
(* has a controller manager only when the executor has been spinning, since*)
(* that delivered the description; so the destructor's cancel is not issued*)
(* before spin(), the thread it joins has ended or will see the cancel,    *)
(* the process survives, and the thread does not outlive the plugin.       *)
(* (getURDF; ~IgnitionROS2ControlPlugin: cancel, then join)                *)
UnloadIsSafe ==
  manager =>
    /\ thread \in {"spinning", "ended"}
    /\ plugin # "terminated"
    /\ plugin = "unloading" => thread = "ended" \/ cancelled
    /\ plugin = "destroyed" => thread = "ended" /\ ~joinable

(* A plugin that controls the robot is unloaded completely: its thread is  *)
(* joined and the process survives, whatever ROS does meanwhile.           *)
UnloadEnds == (plugin = "unloading" /\ manager) ~> plugin = "destroyed"

Arranged == rosOk /\ publisher /\ reply # "lost" /\ description = "good"

(* When ROS stays up, the description's node comes and stays, no request    *)
(* is lost and the description is set, Configure does not wait for ever.   *)
(* The launch files arrange all of it; the code waits without a timeout.   *)
ConfigureEnds ==
  <>[]Arranged => (configure = "service" ~> (configure = "returned" \/ ~Alive))

(* The inductive invariant: a reply is delivered by a spinning executor.   *)
IInv ==
  /\ TypeOK
  /\ configure = "start" => thread = "none"
  /\ reply \in Description \/ configure \in Description => thread \in {"spinning", "ended"}
  /\ manager \/ plugin \in {"unloading", "destroyed"} => configure = "returned"
  /\ ~joinable => thread \in {"none", "ended"}
  /\ UnloadIsSafe
=============================================================================
