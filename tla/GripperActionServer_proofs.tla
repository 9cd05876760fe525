--------------------- MODULE GripperActionServer_proofs ---------------------
(***************************************************************************)
(* Proofs about GripperActionServer: for any set of goals, any widths and  *)
(* any order of results, cancel requests, stops and shutdown.              *)
(***************************************************************************)
EXTENDS GripperActionServer, TLAPS

(* The goals of gripper_action are goals. *)
LEMMA GripperGoals == GripperGoal \subseteq Goal
  BY DEF GripperGoal

(* The inductive invariant holds of the initial state. *)
LEMMA InitInv == Init => IInv
  BY GripperGoals DEF Init, IInv, TypeOK, ThreadInv, LaunchedInRange, ReportedIsOver,
     ReportsMatch, Width, Terminal, Over

(* The executor's callbacks preserve it: what they change is one goal's    *)
(* handle, or commands that move.                                          *)
LEMMA ExecutorStep == IInv /\ ExecutorNext => IInv'
<1> SUFFICES ASSUME IInv, ExecutorNext PROVE IInv'
  OBVIOUS
<1> USE GripperGoals DEF IInv, TypeOK, ThreadInv, LaunchedInRange, ReportedIsOver, ReportsMatch,
            Terminal, Over, nodeVars, goalVars, gripperVars
<1>1. ASSUME NEW g \in Goal, handleGoal(g) PROVE IInv'
  BY <1>1 DEF handleGoal
<1>2. ASSUME NEW g \in Goal, handleCancel(g) PROVE IInv'
  BY <1>2 DEF handleCancel
<1>3. ASSUME NEW success \in BOOLEAN, stopServiceCallback(success) PROVE IInv'
  BY <1>3 DEF stopServiceCallback, StopGripper
<1>4. ASSUME NEW success \in BOOLEAN, ReadReturns(success) PROVE IInv'
  BY <1>4 DEF ReadReturns
<1>5. CASE publishGripperState
  BY <1>5 DEF publishGripperState
<1> QED BY <1>1, <1>2, <1>3, <1>4, <1>5 DEF ExecutorNext

(* So does every step of a goal's thread: its place tells whether its      *)
(* command exists and whether it is over.                                  *)
LEMMA ThreadStep == ASSUME NEW g \in Goal, IInv, ThreadNext(g) PROVE IInv'
<1> USE GripperGoals DEF IInv, TypeOK, ThreadInv, LaunchedInRange, ReportedIsOver, ReportsMatch,
            Terminal, Over, nodeVars, goalVars, gripperVars, Ends, Goes
<1>1. CASE onExecuteGripperCommand(g)
  <2>1. CASE Target[g] \notin Width /\ Ends(g, "aborted")
    BY <1>1, <2>1 DEF onExecuteGripperCommand
  <2>2. CASE Target[g] = cached /\ Ends(g, "succeeded")
    BY <1>1, <2>2 DEF onExecuteGripperCommand
  <2>3. CASE Target[g] \in Width /\ Chooses(g)
    <3>1. closes' \in [Goal -> BOOLEAN]
      BY <2>3 DEF Chooses
    <3> QED BY <1>1, <2>3, <3>1 DEF onExecuteGripperCommand, Chooses
  <2> QED BY <1>1, <2>1, <2>2, <2>3 DEF onExecuteGripperCommand
<1>2. CASE LaunchCommand(g)
  BY <1>2 DEF LaunchCommand
<1>3. CASE EntersBody(g)
  BY <1>3 DEF EntersBody
<1>4. CASE PublishesFeedback(g)
  BY <1>4 DEF PublishesFeedback
<1>5. CASE StopsCommand(g)
  BY <1>5 DEF StopsCommand, StopGripper
<1>6. CASE StopThrows(g)
  BY <1>6 DEF StopThrows
<1>7. CASE ReportsCanceled(g)
  BY <1>7 DEF ReportsCanceled
<1>8. CASE LeavesLoop(g)
  BY <1>8 DEF LeavesLoop
<1>9. CASE ReportsResult(g)
  <2>1. CASE command[g] = "true" /\ Ends(g, "succeeded")
    BY <1>9, <2>1 DEF ReportsResult
  <2>2. CASE command[g] = "false" /\ Ends(g, "aborted")
    BY <1>9, <2>2 DEF ReportsResult
  <2> QED BY <1>9, <2>1, <2>2 DEF ReportsResult
<1>10. CASE LeavesUnreported(g)
  BY <1>10 DEF LeavesUnreported
<1> QED
  BY <1>1, <1>2, <1>3, <1>4, <1>5, <1>6, <1>7, <1>8, <1>9, <1>10 DEF ThreadNext

(* So does every step of a command thread. *)
LEMMA CommandStep == ASSUME NEW g \in Goal, IInv, CommandNext(g) PROVE IInv'
<1> USE GripperGoals DEF IInv, TypeOK, ThreadInv, LaunchedInRange, ReportedIsOver, ReportsMatch,
            Terminal, Over, nodeVars, goalVars, gripperVars
<1>1. CASE CommandStarts(g)
  BY <1>1 DEF CommandStarts
<1>2. CASE CommandSucceeds(g)
  <2>1. Reached(g) \subseteq Width
    BY DEF Reached
  <2> QED BY <1>2, <2>1 DEF CommandSucceeds
<1>3. CASE CommandFails(g)
  BY <1>3 DEF CommandFails
<1> QED BY <1>1, <1>2, <1>3 DEF CommandNext

(* The invariant is inductive. *)
LEMMA NextInv == IInv /\ [Next]_vars => IInv'
<1> SUFFICES ASSUME IInv, [Next]_vars PROVE IInv'
  OBVIOUS
<1>1. CASE UNCHANGED vars
  BY <1>1 DEF vars, nodeVars, goalVars, gripperVars, IInv, TypeOK, ThreadInv,
     LaunchedInRange, ReportedIsOver, ReportsMatch
<1>2. CASE Interrupt
  BY <1>2 DEF Interrupt, nodeVars, goalVars, gripperVars, IInv, TypeOK, ThreadInv,
     LaunchedInRange, ReportedIsOver, ReportsMatch
<1> QED BY <1>1, <1>2, ExecutorStep, ThreadStep, CommandStep DEF Next

(* Every reachable state satisfies the inductive invariant. *)
THEOREM Invariance == Spec => []IInv
BY InitInv, NextInv, PTL DEF Spec

(* Type correctness; in particular the width the cache and the gripper     *)
(* hold never leaves the gripper's range.                                  *)
THEOREM TypeCorrect == Spec => []TypeOK
BY Invariance, PTL DEF IInv

(* No reported goal, and no goal dropped at shutdown, has a command left.  *)
THEOREM OverSafety == Spec => []ReportedIsOver
BY Invariance, PTL DEF IInv

(* Every report says what happened to the goal's command. *)
THEOREM ReportSafety == Spec => []ReportsMatch
BY Invariance, PTL DEF IInv

----------------------------------------------------------------------------
(***************************************************************************)
(* The client that waits for each report.                                  *)
(***************************************************************************)
OneUnreported == \A g, h \in Goal : ~Reported(g) /\ ~Reported(h) => g = h

(* A step of such a client leaves at most one goal unreported: reported    *)
(* goals stay reported, and a new one is sent only among reported ones.    *)
LEMMA SequentialStep ==
  IInv /\ OneUnreported /\ [SequentialNext]_vars => OneUnreported'
<1> SUFFICES ASSUME IInv, OneUnreported, [SequentialNext]_vars PROVE OneUnreported'
  OBVIOUS
<1>1. \A g \in Goal : state[g] \in Terminal => state'[g] = state[g]
  <2>1. CASE UNCHANGED vars
    BY <2>1 DEF vars, goalVars
  <2>2. CASE SequentialNext
    <3> USE DEF IInv, TypeOK, ThreadInv, Terminal, goalVars, Goes, Ends
    <3>1. CASE ExecutorNext
      BY <3>1 DEF ExecutorNext, handleGoal, handleCancel, stopServiceCallback,
         ReadReturns, publishGripperState
    <3>2. CASE Interrupt
      BY <3>2 DEF Interrupt
    <3>3. ASSUME NEW g \in Goal, ThreadNext(g)
          PROVE \A h \in Goal : state[h] \in Terminal => state'[h] = state[h]
      BY <3>3 DEF ThreadNext, onExecuteGripperCommand, Chooses, LaunchCommand, EntersBody,
         PublishesFeedback, StopsCommand, StopThrows, ReportsCanceled, LeavesLoop,
         ReportsResult, LeavesUnreported
    <3>4. ASSUME NEW g \in Goal, CommandNext(g)
          PROVE \A h \in Goal : state[h] \in Terminal => state'[h] = state[h]
      BY <3>4 DEF CommandNext, CommandStarts, CommandSucceeds, CommandFails
    <3>5. CASE UNCHANGED vars
      BY <3>5 DEF vars
    <3> QED BY <2>2, <3>1, <3>2, <3>3, <3>4, <3>5 DEF SequentialNext, Next
  <2> QED BY <2>1, <2>2
<1>2. ASSUME NEW g \in Goal, state[g] = "none", state'[g] # "none"
      PROVE \A h \in Goal : Reported(h) /\ (h # g => state'[h] = state[h])
  <2>1. SequentialNext
    BY <1>2 DEF vars, goalVars
  <2>2. PICK k \in Goal : handleGoal(k)
    <3> USE DEF IInv, TypeOK, ThreadInv, goalVars, Goes, Ends
    <3>1. ASSUME NEW k \in Goal, ThreadNext(k) PROVE state'[g] = "none"
      <4>1. thread[k] # "none"
        BY <3>1 DEF ThreadNext, onExecuteGripperCommand, Chooses, LaunchCommand, EntersBody,
           PublishesFeedback, StopsCommand, StopThrows, ReportsCanceled, LeavesLoop,
           ReportsResult, LeavesUnreported
      <4>2. k # g
        BY <1>2, <4>1
      <4>3. state' = state \/ \E s \in Terminal : state' = [state EXCEPT ![k] = s]
        BY <3>1 DEF ThreadNext, onExecuteGripperCommand, Chooses, LaunchCommand, EntersBody,
           PublishesFeedback, StopsCommand, StopThrows, ReportsCanceled, LeavesLoop,
           ReportsResult, LeavesUnreported, Terminal
      <4> QED BY <1>2, <4>2, <4>3
    <3>2. ASSUME NEW k \in Goal, CommandNext(k) PROVE state'[g] = "none"
      BY <1>2, <3>2 DEF CommandNext, CommandStarts, CommandSucceeds, CommandFails
    <3>3. ~Interrupt /\ ~UNCHANGED vars
      BY <1>2 DEF Interrupt, vars
    <3>4. ~(\E success \in BOOLEAN : stopServiceCallback(success) \/ ReadReturns(success))
          /\ ~publishGripperState
      BY <1>2 DEF stopServiceCallback, ReadReturns, publishGripperState
    <3>5. ~(\E k \in Goal : handleCancel(k))
      BY <1>2 DEF handleCancel
    <3> QED BY <1>2, <2>1, <3>1, <3>2, <3>3, <3>4, <3>5 DEF SequentialNext, Next, ExecutorNext
  <2>3. k = g
    BY <1>2, <2>2 DEF handleGoal, IInv, TypeOK
  <2> QED BY <1>2, <2>1, <2>2, <2>3 DEF handleGoal, SequentialNext, IInv, TypeOK
<1>3. CASE \E g \in Goal : state[g] = "none" /\ state'[g] # "none"
  BY <1>2, <1>3 DEF OneUnreported, Reported
<1>4. CASE \A g \in Goal : state[g] = "none" => state'[g] = "none"
  BY <1>1, <1>4 DEF OneUnreported, Reported
<1> QED BY <1>3, <1>4

(* For a client that waits for each report there is at most one command,   *)
(* so a stop never ends the command of another goal.                       *)
THEOREM SequentialSafety == SequentialSpec => []OneCommandAtATime
<1> DEFINE SInv == IInv /\ OneUnreported
<1>1. Init => SInv
  BY InitInv DEF Init, OneUnreported, Reported
<1>2. SInv /\ [SequentialNext]_vars => SInv'
  BY NextInv, SequentialStep DEF SequentialNext
<1>3. SInv => OneCommandAtATime
  BY DEF IInv, ThreadInv, ReportedIsOver, OneUnreported, Reported, OneCommandAtATime, Terminal
<1> QED BY <1>1, <1>2, <1>3, PTL DEF SequentialSpec

----------------------------------------------------------------------------
(***************************************************************************)
(* The action servers implement GoalReports.                               *)
(***************************************************************************)
(* At first no client sees anything. *)
LEMMA ReportsInit == Init => Reports!Init
BY DEF Init, Reports!Init

(* A stop loses the commands at the gripper, and no others. *)
LEMMA StopLoses ==
  ASSUME IInv, StopGripper, state' = state
  PROVE  Reports!Next
<1>1. PICK moving \in SUBSET Goal : moving = {g \in Goal : command[g] = "moving"}
  OBVIOUS
<1>2. moving \in SUBSET Reports!Running
  BY <1>1 DEF Reports!Running
<1>3. Reports!CommandsLost(moving)
  BY <1>1 DEF StopGripper, Reports!CommandsLost, IInv, TypeOK, Over
<1> QED BY <1>2, <1>3 DEF Reports!Next

(* The executor accepts, cancels and stops. *)
LEMMA ExecutorReports ==
  IInv /\ ExecutorNext => Reports!Next \/ UNCHANGED Reports!reportVars
<1> SUFFICES ASSUME IInv, ExecutorNext PROVE Reports!Next \/ UNCHANGED Reports!reportVars
  OBVIOUS
<1> USE DEF nodeVars, goalVars, gripperVars
<1>1. ASSUME NEW g \in Goal, handleGoal(g) PROVE Reports!Next
  BY <1>1 DEF handleGoal, Reports!Next, Reports!Accepted
<1>2. ASSUME NEW g \in Goal, handleCancel(g) PROVE Reports!Next
  BY <1>2 DEF handleCancel, Reports!Next, Reports!CancelAccepted
<1>3. ASSUME NEW success \in BOOLEAN, stopServiceCallback(success)
      PROVE Reports!Next \/ UNCHANGED Reports!reportVars
  BY <1>3, StopLoses DEF stopServiceCallback, Reports!reportVars
<1>4. ASSUME NEW success \in BOOLEAN, ReadReturns(success)
      PROVE UNCHANGED Reports!reportVars
  BY <1>4 DEF ReadReturns, Reports!reportVars
<1>5. CASE publishGripperState
  BY <1>5 DEF publishGripperState, Reports!reportVars
<1> QED BY <1>1, <1>2, <1>3, <1>4, <1>5 DEF ExecutorNext

(* A goal's thread starts the command once and reports once, and all its   *)
(* other steps are invisible to the client.                                *)
LEMMA ThreadReports ==
  ASSUME NEW g \in Goal, IInv, ThreadNext(g)
  PROVE  Reports!Next \/ UNCHANGED Reports!reportVars
<1> USE GripperGoals DEF nodeVars, goalVars, gripperVars, Ends, Goes
<1>0. Reports!Open(g) \/ thread[g] \in {"none", "gone"}
  BY DEF IInv, TypeOK, ThreadInv, Reports!Open, Terminal
<1>1. CASE onExecuteGripperCommand(g)
  <2>0. command[g] = "none" /\ Reports!Open(g)
    BY <1>0, <1>1 DEF onExecuteGripperCommand, IInv, ThreadInv
  <2>1. CASE Target[g] \notin Width /\ g \in GripperGoal /\ Ends(g, "aborted")
    <3>1. Reports!Reported(g)
      BY <1>1, <2>0, <2>1 DEF onExecuteGripperCommand, Reports!Reported
    <3> QED BY <3>1 DEF Reports!Next
  <2>2. CASE Target[g] \in Width /\ Ends(g, "succeeded")
    <3>1. Reports!Reported(g)
      BY <1>1, <2>0, <2>2 DEF onExecuteGripperCommand, Reports!Reported
    <3> QED BY <3>1 DEF Reports!Next
  <2>3. CASE Chooses(g)
    BY <1>1, <2>3 DEF onExecuteGripperCommand, Chooses, Reports!reportVars
  <2>4. g \in GripperGoal
    BY <1>1 DEF onExecuteGripperCommand, IInv, ThreadInv
  <2> QED BY <1>1, <2>1, <2>2, <2>3, <2>4 DEF onExecuteGripperCommand
<1>2. CASE LaunchCommand(g)
  <2>1. command[g] = "none" /\ Reports!Open(g) /\ (g \in GripperGoal => Target[g] \in Width)
    BY <1>0, <1>2 DEF LaunchCommand, IInv, ThreadInv, LaunchedInRange
  <2>2. Reports!Started(g)
    BY <1>2, <2>1 DEF LaunchCommand, Reports!Started, IInv, TypeOK, Over
  <2> QED BY <2>2 DEF Reports!Next
<1>3. CASE EntersBody(g)
  BY <1>3 DEF EntersBody, Reports!reportVars
<1>4. CASE PublishesFeedback(g)
  BY <1>4 DEF PublishesFeedback, Reports!reportVars
<1>5. CASE StopsCommand(g)
  BY <1>5, StopLoses DEF StopsCommand
<1>6. CASE StopThrows(g)
  BY <1>6 DEF StopThrows, Reports!reportVars
<1>7. CASE ReportsCanceled(g)
  <2>1. Reports!Reported(g)
    BY <1>0, <1>7 DEF ReportsCanceled, Reports!Reported, IInv, ThreadInv, Over
  <2> QED BY <2>1 DEF Reports!Next
<1>8. CASE LeavesLoop(g)
  BY <1>8 DEF LeavesLoop, Reports!reportVars
<1>9. CASE ReportsResult(g)
  <2>1. Reports!Reported(g)
    BY <1>0, <1>9 DEF ReportsResult, Reports!Reported
  <2> QED BY <2>1 DEF Reports!Next
<1>10. CASE LeavesUnreported(g)
  BY <1>10 DEF LeavesUnreported, Reports!reportVars, IInv, TypeOK
<1> QED
  BY <1>1, <1>2, <1>3, <1>4, <1>5, <1>6, <1>7, <1>8, <1>9, <1>10 DEF ThreadNext

(* A command that reaches the gripper is the one that was started, and it  *)
(* ends once.                                                              *)
LEMMA CommandReports ==
  ASSUME NEW g \in Goal, IInv, CommandNext(g)
  PROVE  Reports!Next \/ UNCHANGED Reports!reportVars
<1> USE DEF nodeVars, goalVars, IInv, TypeOK, Over
<1>1. CASE CommandStarts(g)
  BY <1>1 DEF CommandStarts, Reports!reportVars
<1>2. CASE CommandSucceeds(g)
  <2>1. Reports!CommandDone(g)
    BY <1>2 DEF CommandSucceeds, Reports!CommandDone
  <2> QED BY <2>1 DEF Reports!Next
<1>3. CASE CommandFails(g)
  <2>1. {g} \in SUBSET Reports!Running
    BY <1>3 DEF CommandFails, Reports!Running
  <2>2. Reports!CommandsLost({g})
    BY <1>3 DEF CommandFails, Reports!CommandsLost
  <2> QED BY <2>1, <2>2 DEF Reports!Next
<1> QED BY <1>1, <1>2, <1>3 DEF CommandNext

(* Whatever the executor, the goal threads, the gripper and shutdown do,   *)
(* each client sees a goal accepted, at most one command started for it,   *)
(* and one report that agrees with that command.                           *)
THEOREM ReportRefinement == Spec => ImplementsGoalReports
<1>1. IInv /\ [Next]_vars => [Reports!Next]_(Reports!reportVars)
  <2> SUFFICES ASSUME IInv, [Next]_vars PROVE Reports!Next \/ UNCHANGED Reports!reportVars
    OBVIOUS
  <2>1. CASE UNCHANGED vars
    BY <2>1 DEF vars, goalVars, gripperVars, Reports!reportVars
  <2>2. CASE Interrupt
    BY <2>2 DEF Interrupt, goalVars, gripperVars, Reports!reportVars
  <2> QED BY <2>1, <2>2, ExecutorReports, ThreadReports, CommandReports DEF Next
<1> QED BY ReportsInit, <1>1, Invariance, PTL DEF Spec, ImplementsGoalReports, Reports!Spec

----------------------------------------------------------------------------
(***************************************************************************)
(* A report is the last word on its goal, and after shutdown each goal has *)
(* a bounded way left: the safety half of ThreadsEnd there, where neither  *)
(* a result nor a cancel request may be waited for again and again.        *)
(***************************************************************************)
ReportsAreFinal == [][\A g \in Goal : state[g] \in Terminal => state'[g] = state[g]]_vars

(* The steps a goal's thread and its command still have to take.           *)
GoalSteps(g) ==
  (CASE thread[g] = "check" -> 7 [] thread[g] = "launch" -> 6 [] thread[g] = "body" -> 3
     [] thread[g] = "wait" -> 2 [] thread[g] \in {"join", "report"} -> 1 [] OTHER -> 0)
  + (CASE command[g] = "created" -> 2 [] command[g] = "moving" -> 1 [] OTHER -> 0)

Descends(g) ==
  \/ GoalSteps(g)' < GoalSteps(g)
  \/ thread'[g] = thread[g] /\ command'[g] = command[g]

(* After shutdown whatever happens to a goal brings it closer to its end.  *)
ShutdownDescends == [][~rosOk => ~rosOk' /\ \A g \in Goal : Descends(g)]_vars

(* The end is a thread that is gone, or never was, at most 8 steps away.   *)
ShutdownBound ==
  \A g \in Goal : GoalSteps(g) \in 0 .. 8 /\ (GoalSteps(g) = 0 <=> thread[g] \in {"none", "gone"})

(* A step of a goal's thread after shutdown: the loop is not entered again,*)
(* and a stop() ends the commands of others, which is closer too.          *)
LEMMA ThreadDescends ==
  ASSUME NEW g \in Goal, IInv, ThreadNext(g), ~rosOk
  PROVE  ~rosOk' /\ \A h \in Goal : Descends(h)
<1> USE DEF IInv, TypeOK, ThreadInv, nodeVars, goalVars, gripperVars, Ends, Goes, GoalSteps, Descends
<1>1. CASE onExecuteGripperCommand(g)
  BY <1>1 DEF onExecuteGripperCommand, Chooses
<1>2. CASE LaunchCommand(g)
  BY <1>2 DEF LaunchCommand
<1>3. CASE EntersBody(g) \/ ReportsResult(g)
  BY <1>3 DEF EntersBody, ReportsResult
<1>4. CASE PublishesFeedback(g)
  BY <1>4 DEF PublishesFeedback
<1>5. CASE StopsCommand(g)
  BY <1>5 DEF StopsCommand, StopGripper
<1>6. CASE StopThrows(g)
  BY <1>6 DEF StopThrows
<1>7. CASE ReportsCanceled(g)
  BY <1>7 DEF ReportsCanceled
<1>8. CASE LeavesLoop(g)
  BY <1>8 DEF LeavesLoop
<1>9. CASE LeavesUnreported(g)
  BY <1>9 DEF LeavesUnreported
<1> QED
  BY <1>1, <1>2, <1>3, <1>4, <1>5, <1>6, <1>7, <1>8, <1>9 DEF ThreadNext

(* A step of a command, or of the executor, which accepts nothing new.     *)
LEMMA OthersDescend ==
  ASSUME IInv, ~rosOk, ExecutorNext \/ (\E g \in Goal : CommandNext(g)) \/ UNCHANGED vars
  PROVE  ~rosOk' /\ \A h \in Goal : Descends(h)
<1> USE DEF IInv, TypeOK, nodeVars, goalVars, gripperVars, GoalSteps, Descends
<1>1. CASE ExecutorNext
  BY <1>1 DEF ExecutorNext, handleGoal, handleCancel, stopServiceCallback, ReadReturns, publishGripperState
<1>2. ASSUME NEW g \in Goal, CommandNext(g) PROVE ~rosOk' /\ \A h \in Goal : Descends(h)
  BY <1>2 DEF CommandNext, CommandStarts, CommandSucceeds, CommandFails
<1>3. CASE UNCHANGED vars
  BY <1>3 DEF vars
<1> QED BY <1>1, <1>2, <1>3

(* Shutdown ends every goal's thread in a bounded number of steps, for any *)
(* goals and wherever it finds them. (executeCommand, executeGripperCommand)*)
THEOREM ShutdownSafety == Spec => ShutdownDescends
<1>1. IInv /\ ~rosOk /\ [Next]_vars => ~rosOk' /\ \A g \in Goal : Descends(g)
  BY ThreadDescends, OthersDescend DEF Next, Interrupt
<1> QED
  BY <1>1, Invariance, PTL DEF Spec, ShutdownDescends

(* What is left is bounded, and nothing is left of a thread that is gone:  *)
(* no command outlives it. (the destructor of the future)                  *)
THEOREM ShutdownBounded == Spec => []ShutdownBound
<1>1. IInv => ShutdownBound
  <2> SUFFICES ASSUME IInv, NEW g \in Goal
               PROVE  GoalSteps(g) \in 0 .. 8 /\ (GoalSteps(g) = 0 <=> thread[g] \in {"none", "gone"})
    BY DEF ShutdownBound
  <2>1. thread[g] \in {"none", "check", "launch", "wait", "body", "join", "report", "gone"}
    BY DEF IInv, TypeOK
  <2>2. thread[g] \in {"none", "check", "launch"} => command[g] = "none"
    BY DEF IInv, ThreadInv
  <2>3. thread[g] = "gone" => command[g] \notin {"created", "moving"}
    BY DEF IInv, ReportedIsOver
  <2> QED BY <2>1, <2>2, <2>3 DEF GoalSteps
<1> QED
  BY <1>1, Invariance, PTL

(* No later result, cancel request, stop or shutdown changes a report.     *)
(* (the goal's thread makes it and ends)                                   *)
THEOREM FinalSafety == Spec => ReportsAreFinal
<1>1. IInv /\ [Next]_vars => \A g \in Goal : state[g] \in Terminal => state'[g] = state[g]
  <2> SUFFICES ASSUME IInv, [Next]_vars, NEW g \in Goal, state[g] \in Terminal
               PROVE  state'[g] = state[g]
    OBVIOUS
  <2> USE DEF nodeVars, goalVars, gripperVars, Terminal
  <2>1. thread[g] = "gone" /\ state \in [Goal -> {"none", "executing", "canceling"} \cup Terminal]
    BY DEF IInv, ThreadInv, TypeOK
  <2>2. CASE ExecutorNext
    BY <2>1, <2>2 DEF ExecutorNext, handleGoal, handleCancel, stopServiceCallback, ReadReturns,
       publishGripperState
  <2>3. ASSUME NEW h \in Goal, ThreadNext(h) PROVE state'[g] = state[g]
    BY <2>1, <2>3 DEF ThreadNext, onExecuteGripperCommand, Chooses, LaunchCommand, EntersBody,
       PublishesFeedback, StopsCommand, StopThrows, ReportsCanceled, LeavesLoop, ReportsResult,
       LeavesUnreported, Ends, Goes
  <2>4. ASSUME NEW h \in Goal, CommandNext(h) PROVE state'[g] = state[g]
    BY <2>4 DEF CommandNext, CommandStarts, CommandSucceeds, CommandFails
  <2>5. CASE Interrupt \/ UNCHANGED vars
    BY <2>5 DEF Interrupt, vars
  <2> QED BY <2>2, <2>3, <2>4, <2>5 DEF Next
<1> QED
  BY <1>1, Invariance, PTL DEF Spec, ReportsAreFinal
=============================================================================
