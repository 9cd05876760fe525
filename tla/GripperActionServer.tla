------------------------ MODULE GripperActionServer ------------------------
(***************************************************************************)
(* GripperActionServer (franka_gripper): four action servers (homing,      *)
(* move, grasp, gripper_action), a stop service and a state timer over one *)
(* gripper.                                                                *)
(*                                                                         *)
(*   - one executor thread runs the timer, the stop service and the goal   *)
(*     and cancel handlers, which accept everything;                       *)
(*   - every goal gets a detached thread, which starts its command with    *)
(*     std::async and polls for its result, for a cancel request and for   *)
(*     shutdown;                                                           *)
(*   - the command thread blocks in a libfranka call.                      *)
(*                                                                         *)
(* External: the gripper (a command ends, or throws, when it likes; stop   *)
(* ends every command in progress without success) and the goal states of  *)
(* rclcpp_action (a terminal state may follow executing or canceling).     *)
(* An exception that leaves a detached thread terminates the process.      *)
(***************************************************************************)
EXTENDS Integers

CONSTANTS
  Goal,      \* goals clients may send, each once
  Task,      \* the action server each goal is sent to
  Target,    \* the width each goal asks for (2 * position)
  Epsilon,   \* how far from its target a grasp may find its object
  MaxWidth   \* max_width of the gripper's state

Width == 0 .. MaxWidth

ASSUME GoalAssumption == Task \in [Goal -> {"homing", "move", "grasp", "gripper_action"}]
ASSUME WidthAssumption == MaxWidth \in Nat /\ Target \in [Goal -> Int] /\ Epsilon \in Nat

(* The goals of executeGripperCommand; the others go to executeCommand.    *)
GripperGoal == {g \in Goal : Task[g] = "gripper_action"}

VARIABLES
  rosOk,       \* rclcpp::ok()
  terminated,  \* std::terminate was called
  executor,    \* "idle", or "reading" with gripper_state_mutex_ held
  cached,      \* current_gripper_state_.width
  width,       \* external: the gripper's width
  state,       \* external: the state of each goal handle
  thread,      \* where each goal's thread stands
  command,     \* the future of each goal's command
  closes,      \* in gripper_action's thread: kTargetWidth < kCurrentWidth
  stopCalled   \* history: the goal's thread has called gripper_->stop()

nodeVars == <<rosOk, terminated, executor, cached>>
goalVars == <<state, thread, stopCalled, closes>>
gripperVars == <<width, command>>
vars == <<nodeVars, goalVars, gripperVars>>

Terminal == {"succeeded", "aborted", "canceled"}
Over == {"true", "false"}

Init ==
  /\ rosOk = TRUE /\ terminated = FALSE
  /\ executor = "idle"
  /\ width \in Width /\ cached = width
  /\ state = [g \in Goal |-> "none"]
  /\ thread = [g \in Goal |-> "none"]
  /\ command = [g \in Goal |-> "none"]
  /\ stopCalled = [g \in Goal |-> FALSE]
  /\ closes = [g \in Goal |-> FALSE]

----------------------------------------------------------------------------
(***************************************************************************)
(* The executor thread: handleGoal and handleCancel accept everything; the *)
(* accepted callback starts and detaches the goal's thread.  A cancel      *)
(* request that finds its goal in a terminal state is refused by           *)
(* rclcpp_action.                                                          *)
(***************************************************************************)
handleGoal(g) ==
  /\ rosOk /\ executor = "idle"
  /\ state[g] = "none"
  /\ state' = [state EXCEPT ![g] = "executing"]
  /\ thread' = [thread EXCEPT ![g] = IF g \in GripperGoal THEN "check" ELSE "launch"]
  /\ UNCHANGED <<nodeVars, gripperVars, stopCalled, closes>>

handleCancel(g) ==
  /\ rosOk /\ executor = "idle"
  /\ state[g] = "executing"
  /\ state' = [state EXCEPT ![g] = "canceling"]
  /\ UNCHANGED <<nodeVars, gripperVars, thread, stopCalled, closes>>

(* Every command that has reached the gripper ends without success. *)
StopGripper ==
  command' = [g \in Goal |-> IF command[g] = "moving" THEN "false" ELSE command[g]]

(* The stop service catches what stop() throws and reports it. *)
stopServiceCallback(success) ==
  /\ rosOk /\ executor = "idle"
  /\ IF success THEN StopGripper ELSE UNCHANGED command
  /\ UNCHANGED <<nodeVars, goalVars, width>>

(* publishGripperState holds the mutex across a blocking readOnce(); a     *)
(* readOnce() that throws leaves the cached state as it was.               *)
publishGripperState ==
  /\ rosOk /\ executor = "idle"
  /\ executor' = "reading"
  /\ UNCHANGED <<rosOk, terminated, cached, goalVars, gripperVars>>

ReadReturns(success) ==
  /\ executor = "reading"
  /\ cached' = IF success THEN width ELSE cached
  /\ executor' = "idle"
  /\ UNCHANGED <<rosOk, terminated, goalVars, gripperVars>>

Interrupt ==
  /\ rosOk
  /\ rosOk' = FALSE
  /\ UNCHANGED <<terminated, executor, cached, goalVars, gripperVars>>

----------------------------------------------------------------------------
MutexFree == executor # "reading"

Ends(g, s) ==
  /\ state' = [state EXCEPT ![g] = s]
  /\ thread' = [thread EXCEPT ![g] = "gone"]
  /\ closes' = [closes EXCEPT ![g] = FALSE]

Goes(g, pc) ==
  /\ thread' = [thread EXCEPT ![g] = pc]
  /\ UNCHANGED <<state, closes>>

(* The command is put together from the target and the cached width. *)
Chooses(g) ==
  /\ thread' = [thread EXCEPT ![g] = "launch"]
  /\ closes' = [closes EXCEPT ![g] = Target[g] < cached]
  /\ UNCHANGED state

(* Mutant: the range is not checked. *)
CommandsAnyWidth(g) ==
  /\ thread[g] = "check" /\ MutexFree
  /\ \/ Target[g] = cached /\ Ends(g, "succeeded")
     \/ Target[g] # cached /\ Chooses(g)
  /\ UNCHANGED <<nodeVars, gripperVars, stopCalled>>

(***************************************************************************)
(* onExecuteGripperCommand: a width out of range is aborted and one the    *)
(* gripper already has succeeds, both by the cached state; neither starts  *)
(* a command.  The same cached width decides between a move and a grasp.   *)
(***************************************************************************)
onExecuteGripperCommand(g) ==
  /\ thread[g] = "check" /\ MutexFree
  /\ \/ Target[g] \notin Width /\ Ends(g, "aborted")
     \/ Target[g] \in Width /\ Target[g] = cached /\ Ends(g, "succeeded")
     \/ Target[g] \in Width /\ Target[g] # cached /\ Chooses(g)
  /\ UNCHANGED <<nodeVars, gripperVars, stopCalled>>

(* executeCommand and executeGripperCommand: std::async, then the loop     *)
(*   while (!resultIsReady(result_future) && rclcpp::ok()) { ... }         *)
LaunchCommand(g) ==
  /\ thread[g] = "launch"
  /\ Goes(g, "wait")
  /\ command' = [command EXCEPT ![g] = "created"]
  /\ UNCHANGED <<nodeVars, width, stopCalled>>

EntersBody(g) ==
  /\ thread[g] = "wait" /\ command[g] \notin Over /\ rosOk
  /\ Goes(g, "body")
  /\ UNCHANGED <<nodeVars, gripperVars, stopCalled>>

(* The body: feedback, which takes the mutex, unless the goal is canceling.*)
PublishesFeedback(g) ==
  /\ thread[g] = "body" /\ state[g] # "canceling" /\ MutexFree
  /\ Goes(g, "wait")
  /\ UNCHANGED <<nodeVars, gripperVars, stopCalled>>

StopsCommand(g) ==
  /\ thread[g] = "body" /\ state[g] = "canceling"
  /\ StopGripper
  /\ stopCalled' = [stopCalled EXCEPT ![g] = TRUE]
  /\ Goes(g, "join")
  /\ UNCHANGED <<nodeVars, width>>

(* Nothing catches what stop() throws here. *)
StopThrows(g) ==
  /\ thread[g] = "body" /\ state[g] = "canceling"
  /\ terminated' = TRUE
  /\ UNCHANGED <<rosOk, executor, cached, goalVars, gripperVars>>

(* Mutant: the goal is canceled without waiting for its command. *)
CancelsAtOnce(g) ==
  /\ thread[g] = "join"
  /\ Ends(g, "canceled")
  /\ UNCHANGED <<nodeVars, gripperVars, stopCalled>>

(* result_future.get() waits for the command, then the goal is canceled.   *)
ReportsCanceled(g) ==
  /\ thread[g] = "join" /\ command[g] \in Over
  /\ Ends(g, "canceled")
  /\ UNCHANGED <<nodeVars, gripperVars, stopCalled>>

(* Mutant: the loop runs while either condition holds. *)
LeavesWhenBoth(g) ==
  /\ thread[g] = "wait" /\ command[g] \in Over /\ ~rosOk
  /\ Goes(g, "report")
  /\ UNCHANGED <<nodeVars, gripperVars, stopCalled>>

LeavesLoop(g) ==
  /\ thread[g] = "wait" /\ (command[g] \in Over \/ ~rosOk)
  /\ Goes(g, "report")
  /\ UNCHANGED <<nodeVars, gripperVars, stopCalled>>

(* Mutant: a finished goal with a cancel request is reported canceled. *)
CancelsFinished(g) ==
  /\ thread[g] = "report" /\ rosOk
  /\ g \in GripperGoal => MutexFree
  /\ \/ state[g] = "canceling" /\ Ends(g, "canceled")
     \/ state[g] # "canceling" /\ command[g] = "true" /\ Ends(g, "succeeded")
     \/ state[g] # "canceling" /\ command[g] = "false" /\ Ends(g, "aborted")
  /\ UNCHANGED <<nodeVars, gripperVars, stopCalled>>

(* The result is reported while the context is up; gripper_action takes    *)
(* the mutex to fill it in.                                                *)
ReportsResult(g) ==
  /\ thread[g] = "report" /\ rosOk
  /\ g \in GripperGoal => MutexFree
  /\ \/ command[g] = "true" /\ Ends(g, "succeeded")
     \/ command[g] = "false" /\ Ends(g, "aborted")
  /\ UNCHANGED <<nodeVars, gripperVars, stopCalled>>

(* After shutdown nothing is reported, and the destructor of the future    *)
(* waits for the command.                                                  *)
LeavesUnreported(g) ==
  /\ thread[g] = "report" /\ ~rosOk
  /\ command[g] \in Over
  /\ Ends(g, state[g])
  /\ UNCHANGED <<nodeVars, gripperVars, stopCalled>>

----------------------------------------------------------------------------
(***************************************************************************)
(* The command thread and the gripper.  withResultGenerator turns an       *)
(* exception into a result without success.  The gripper refuses a width   *)
(* it does not have, which only the goals of executeCommand can ask for.   *)
(* A move succeeds at its target, a grasp on an object of about its width, *)
(* and homing moves the fingers over their whole range.                    *)
(***************************************************************************)
Calls(g) ==
  CASE g \notin GripperGoal -> Task[g]
    [] g \in GripperGoal /\ closes[g] -> "grasp"
    [] OTHER -> "move"

Reached(g) ==
  CASE Calls(g) = "homing" -> Width
    [] Calls(g) = "grasp" /\ Target[g] \in Width ->
         {w \in Width : Target[g] - Epsilon <= w /\ w <= Target[g] + Epsilon}
    [] OTHER -> {Target[g]} \cap Width

CommandStarts(g) ==
  /\ command[g] = "created"
  /\ command' = [command EXCEPT ![g] = "moving"]
  /\ UNCHANGED <<nodeVars, goalVars, width>>

CommandSucceeds(g) ==
  /\ command[g] = "moving"
  /\ width' \in Reached(g)
  /\ command' = [command EXCEPT ![g] = "true"]
  /\ UNCHANGED <<nodeVars, goalVars>>

CommandFails(g) ==
  /\ command[g] = "moving"
  /\ width' \in Width
  /\ command' = [command EXCEPT ![g] = "false"]
  /\ UNCHANGED <<nodeVars, goalVars>>

----------------------------------------------------------------------------
ExecutorNext ==
  \/ \E g \in Goal : handleGoal(g) \/ handleCancel(g)
  \/ \E success \in BOOLEAN : stopServiceCallback(success) \/ ReadReturns(success)
  \/ publishGripperState

ThreadNext(g) ==
  \/ onExecuteGripperCommand(g) \/ LaunchCommand(g)
  \/ EntersBody(g) \/ PublishesFeedback(g)
  \/ StopsCommand(g) \/ StopThrows(g) \/ ReportsCanceled(g)
  \/ LeavesLoop(g) \/ ReportsResult(g) \/ LeavesUnreported(g)

CommandNext(g) == CommandStarts(g) \/ CommandSucceeds(g) \/ CommandFails(g)

Finished ==
  /\ ~rosOk /\ executor = "idle"
  /\ \A g \in Goal : thread[g] \in {"none", "gone"}

Next ==
  \/ /\ ~terminated
     /\ \/ ExecutorNext \/ Interrupt
        \/ \E g \in Goal : ThreadNext(g) \/ CommandNext(g)
  \/ (terminated \/ Finished) /\ UNCHANGED vars

(***************************************************************************)
(* Fairness: threads are scheduled and the gripper ends every command.     *)
(* The state timer releases the mutex between two reads, so a thread that  *)
(* waits for it gets it, and a goal's loop, whose turns take the mutex,    *)
(* reaches a finished command (strong fairness).                           *)
(***************************************************************************)
Fairness ==
  /\ WF_vars(~terminated /\ \E success \in BOOLEAN : ReadReturns(success))
  /\ \A g \in Goal :
       /\ WF_vars(~terminated /\ CommandNext(g))
       /\ SF_vars(~terminated /\ ThreadNext(g))

Spec == Init /\ [][Next]_vars /\ Fairness

----------------------------------------------------------------------------
(***************************************************************************)
(* A client that sends a goal only when every earlier one was reported.    *)
(***************************************************************************)
Reported(g) == state[g] \in {"none"} \cup Terminal

SequentialNext ==
  /\ Next
  /\ \A g \in Goal : state[g] = "none" /\ state'[g] # "none" => \A h \in Goal : Reported(h)

SequentialSpec == Init /\ [][SequentialNext]_vars

----------------------------------------------------------------------------
(***************************************************************************)
(* Properties.                                                             *)
(***************************************************************************)
TypeOK ==
  /\ rosOk \in BOOLEAN /\ terminated \in BOOLEAN
  /\ executor \in {"idle", "reading"}
  /\ cached \in Width /\ width \in Width
  /\ state \in [Goal -> {"none", "executing", "canceling"} \cup Terminal]
  /\ thread \in [Goal -> {"none", "check", "launch", "wait", "body", "join", "report", "gone"}]
  /\ command \in [Goal -> {"none", "created", "moving"} \cup Over]
  /\ stopCalled \in [Goal -> BOOLEAN] /\ closes \in [Goal -> BOOLEAN]

(* When a goal has been reported, or its thread has ended at shutdown, no  *)
(* command of it is left, neither at the gripper nor about to start.       *)
(* (result_future.get() on every path, the future's destructor on the last)*)
ReportedIsOver ==
  \A g \in Goal : state[g] \in Terminal \/ thread[g] = "gone" =>
    command[g] \notin {"created", "moving"}

(* What a goal is reported as is what happened to it: success is its own   *)
(* command's or no command at all, cancellation comes after a stop, and    *)
(* while the context is up no thread ends without a report, whatever the   *)
(* order of result, cancel request, stop service and shutdown.             *)
ReportsMatch ==
  \A g \in Goal :
    /\ state[g] = "succeeded" => command[g] \in {"none", "true"}
    /\ state[g] = "aborted" => command[g] \in {"none", "false"}
    /\ state[g] = "canceled" => stopCalled[g] /\ command[g] \in Over
    /\ thread[g] = "gone" /\ rosOk => state[g] \in Terminal

(* With a client that waits for each report, at most one command is on its *)
(* way to the gripper or at it: no goal's stop() can end another's command.*)
(* (handleGoal accepts every goal)                                         *)
OneCommandAtATime ==
  \A g, h \in Goal :
    command[g] \in {"created", "moving"} /\ command[h] \in {"created", "moving"} => g = h

(* Every accepted goal's thread comes to its end: no wait for the mutex,   *)
(* for a result or for a canceled command lasts forever.                   *)
ThreadsEnd ==
  \A g \in Goal : thread[g] # "none" ~> (thread[g] = "gone" \/ terminated)

(* What the clients see is what GoalReports promises: one report per goal, *)
(* in agreement with one command at most, which is started before it, for  *)
(* a width the gripper has if it is gripper_action's, and never restarted. *)
(* (the range check reads the cached width, the report follows the future) *)
Reports == INSTANCE GoalReports WITH
  Allowed <- {g \in Goal : g \in GripperGoal => Target[g] \in Width},
  command <- [g \in Goal |->
                IF command[g] \in {"created", "moving"} THEN "running" ELSE command[g]]

ImplementsGoalReports == Reports!Spec

----------------------------------------------------------------------------
(***************************************************************************)
(* The inductive invariant: what a thread's place says about its command.  *)
(***************************************************************************)
ThreadInv ==
  \A g \in Goal :
    /\ thread[g] = "none" <=> state[g] = "none"
    /\ thread[g] = "check" => g \in GripperGoal
    /\ thread[g] \in {"none", "check", "launch"} => command[g] = "none"
    /\ thread[g] \in {"wait", "body", "join", "report"} => command[g] # "none"
    /\ thread[g] = "join" => stopCalled[g] /\ state[g] = "canceling"
    /\ thread[g] = "report" /\ rosOk => command[g] \in Over
    /\ state[g] \in Terminal => thread[g] = "gone"

(* gripper_action forwards only widths the gripper has. *)
LaunchedInRange ==
  \A g \in GripperGoal : thread[g] = "launch" \/ command[g] # "none" => Target[g] \in Width

IInv == TypeOK /\ ThreadInv /\ LaunchedInRange /\ ReportedIsOver /\ ReportsMatch
=============================================================================
