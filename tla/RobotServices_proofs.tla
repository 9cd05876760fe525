------------------------ MODULE RobotServices_proofs ------------------------
(***************************************************************************)
(* Proofs about RobotServices, for any services, any number of calls and   *)
(* goals, and a shutdown of ROS at any time.                               *)
(***************************************************************************)
EXTENDS RobotServices, TLAPS

USE DEF mainVars, spinVars, serviceVars, actionVars

(* Every request writes a parameter of the robot.                          *)
LEMMA WritesParameter ==
  ASSUME NEW r \in Request
  PROVE  Writes[r.service] \in Parameter /\ r.id \in 0 .. MaxRequests
  BY ServicesAssumption, BoundsAssumption DEF Request, Parameter

(* The invariant holds before on_init.                                     *)
LEMMA InitInv == Init => IInv
<1> SUFFICES ASSUME Init PROVE IInv
  OBVIOUS
<1>1. TypeOK
  <2>1. LifeOK /\ ActionOK
    BY BoundsAssumption DEF Init, LifeOK, ActionOK
  <2>2. FlagsOK
    BY DEF Init, FlagsOK
  <2>3. 0 \in 0 .. MaxRequests
    BY BoundsAssumption
  <2>4. ServiceOK
    BY <2>3 DEF Init, ServiceOK, NoRequest
  <2> QED BY <2>1, <2>2, <2>4 DEF TypeOK
<1>2. LifeInv /\ ThreadInv /\ CallbackInv /\ ParamInv /\ AnswersAreTrue
  BY DEF Init, LifeInv, Built, ThreadInv, CallbackInv, ParamInv, AnswersAreTrue
<1> QED BY <1>1, <1>2 DEF IInv

(* What a step that leaves the service node's callback alone need not show *)
LEMMA ServiceFrame ==
  ASSUME IInv, UNCHANGED serviceVars
  PROVE  ParamInv' /\ AnswersAreTrue'
  BY DEF IInv, ParamInv, AnswersAreTrue

(* nor one that leaves the main thread and the executor alone.             *)
LEMMA LifeFrame ==
  ASSUME IInv, UNCHANGED <<main, mainVars, thread>>
  PROVE  LifeInv' /\ ThreadInv'
  BY DEF IInv, LifeInv, Built, ThreadInv

(* on_init and the destruction keep the nodes while they are served, and   *)
(* pass the join only with a thread that has returned.                     *)
LEMMA MainStep == IInv /\ (MainNext \/ Destroy) => IInv'
<1> SUFFICES ASSUME IInv, MainNext \/ Destroy PROVE IInv'
  OBVIOUS
<1>1. UNCHANGED serviceVars /\ UNCHANGED actionVars /\ UNCHANGED rosOk
  BY DEF MainNext, Destroy, Goto, RefuseInit, Connect, CreateServiceNode,
         StartExecutor, AwaitSpinning, AddServiceNode, CreateActionNode,
         AddActionNode, Unwind, shutdown, Join, DropActionNode, DropServiceNode,
         DropRobot
<1>2. FlagsOK' /\ ServiceOK' /\ ActionOK'
  <2>1. spinning' = spinning \/ spinning' = FALSE
    BY DEF MainNext, Destroy, RefuseInit, Connect, CreateServiceNode, Create,
           StartExecutor, AwaitSpinning, AddServiceNode, AddNode, CreateActionNode,
           AddActionNode, Unwind, shutdown, Join, DropActionNode, DropServiceNode,
           Drop, DropRobot
  <2>2. FlagsOK'
    BY <1>1, <2>1 DEF IInv, TypeOK, FlagsOK
  <2>3. ServiceOK' /\ ActionOK'
    BY <1>1 DEF IInv, TypeOK, ServiceOK, ActionOK
  <2> QED BY <2>2, <2>3
<1>3. LifeOK' /\ LifeInv' /\ ThreadInv' /\ CallbackInv'
  <2>1. LifeOK /\ LifeInv /\ ThreadInv /\ CallbackInv
    BY DEF IInv, TypeOK
  <2>0. UNCHANGED <<at, recovering>>
    BY <1>1
  <2> USE <2>0, <2>1 DEF LifeOK, LifeInv, Built, ThreadInv, CallbackInv, Goto
  <2>2. CASE RefuseInit \/ Connect
    BY <2>2 DEF RefuseInit, Connect
  <2>3. CASE CreateServiceNode \/ CreateActionNode
    BY <2>3 DEF CreateServiceNode, CreateActionNode, Create
  <2>4. CASE StartExecutor \/ AwaitSpinning
    BY <2>4 DEF StartExecutor, AwaitSpinning
  <2>5. CASE AddServiceNode \/ AddActionNode
    BY <2>5 DEF AddServiceNode, AddActionNode, AddNode
  <2>6. CASE Unwind
    BY <2>6 DEF Unwind
  <2>7. CASE Destroy \/ shutdown \/ Join
    BY <2>7 DEF Destroy, shutdown, Join
  <2>8. CASE DropActionNode \/ DropServiceNode \/ DropRobot
    BY <2>8 DEF DropActionNode, DropServiceNode, DropRobot, Drop
  <2> QED BY <2>2, <2>3, <2>4, <2>5, <2>6, <2>7, <2>8 DEF MainNext
<1> QED BY <1>1, <1>2, <1>3, ServiceFrame DEF IInv, TypeOK

(* The thread starts once and returns when no callback runs.               *)
LEMMA SpinStep == IInv /\ SpinNext => IInv'
<1> SUFFICES ASSUME IInv, SpinNext PROVE IInv'
  OBVIOUS
<1>1. TypeOK'
  <2>1. FlagsOK'
    BY DEF IInv, TypeOK, FlagsOK, SpinNext, SpinStarts, SpinReturns
  <2>2. LifeOK' /\ ServiceOK' /\ ActionOK'
    BY DEF IInv, TypeOK, LifeOK, ServiceOK, ActionOK, SpinNext, SpinStarts, SpinReturns
  <2> QED BY <2>1, <2>2 DEF TypeOK
<1>2. LifeInv' /\ ThreadInv' /\ CallbackInv'
  BY DEF IInv, SpinNext, SpinStarts, SpinReturns, LifeInv, Built, ThreadInv, CallbackInv
<1> QED BY <1>1, <1>2, ServiceFrame DEF IInv, SpinNext, SpinStarts, SpinReturns

(* The callback of a service, from the request to its answer.              *)
LEMMA ServiceNodeStep == IInv /\ ServiceNext => IInv'
<1> SUFFICES ASSUME IInv, ServiceNext PROVE IInv'
  OBVIOUS
<1>1. UNCHANGED <<main, spinVars, mainVars, rosOk, sent, actionVars>>
  BY DEF ServiceNext, TakeRequest, LockWriteMutex, Leave, SetterReturns,
         CommandException, NetworkException, Answer, ServiceStep
<1>2. ServiceOK /\ CallbackInv /\ ParamInv /\ AnswersAreTrue
  BY DEF IInv, TypeOK
<1>3. LifeOK' /\ FlagsOK' /\ ActionOK' /\ LifeInv' /\ ThreadInv'
  BY <1>1, LifeFrame DEF IInv, TypeOK, LifeOK, FlagsOK, ActionOK
<1>4. at # "idle" => request \in Request
  BY <1>2 DEF ParamInv
<1> SUFFICES ServiceOK' /\ CallbackInv' /\ ParamInv' /\ AnswersAreTrue'
  BY <1>3 DEF IInv, TypeOK
<1>5. CASE TakeRequest
  <2>1. at = "idle" /\ at' = "lock" /\ request' \in Request
    BY <1>2, <1>5 DEF TakeRequest, ServiceStep, ServiceOK
  <2>2. UNCHANGED <<requests, write_mutex_, params, told>>
    BY <1>5 DEF TakeRequest
  <2>3. \A p \in Parameter : params[p] \in told[p]
    BY <1>2, <2>1 DEF AnswersAreTrue
  <2>4. Writes[request'.service] \in Parameter
    BY <2>1, WritesParameter
  <2>5. thread = "spinning" /\ "service" \in added
    BY <1>5 DEF TakeRequest, MayTake
  <2>6. ServiceOK'
    BY <1>1, <1>2, <2>1, <2>2 DEF ServiceOK
  <2>7. CallbackInv'
    BY <1>1, <1>2, <2>5 DEF CallbackInv
  <2> QED BY <2>1, <2>2, <2>3, <2>4, <2>6, <2>7 DEF ParamInv, AnswersAreTrue
<1>6. CASE LockWriteMutex
  <2>1. at = "lock" /\ at' = "set" /\ write_mutex_' = "held"
    BY <1>6 DEF LockWriteMutex, ServiceStep
  <2>2. UNCHANGED <<requests, request, params, told>>
    BY <1>6 DEF LockWriteMutex
  <2>3. ServiceOK' /\ CallbackInv'
    BY <1>1, <1>2, <2>1, <2>2 DEF ServiceOK, CallbackInv
  <2> QED BY <1>2, <2>1, <2>2, <2>3 DEF ParamInv, AnswersAreTrue
<1>7. CASE SetterReturns \/ CommandException \/ NetworkException
  <2>1. at = "set" /\ request \in Request
    BY <1>4, <1>7 DEF SetterReturns, CommandException, NetworkException, Leave, ServiceStep
  <2> DEFINE p == Writes[request.service]
  <2>2. p \in Parameter /\ request.id \in 0 .. MaxRequests
    BY <2>1, WritesParameter
  <2>3. UNCHANGED <<requests, request, told>> /\ write_mutex_' = "free"
    BY <1>7 DEF SetterReturns, CommandException, NetworkException, Leave
  <2>4. params[p] \in told[p]
    BY <1>2, <2>1 DEF ParamInv
  <2>5. params \in [Parameter -> 0 .. MaxRequests]
    BY <1>2 DEF ServiceOK
  <2>6. \/ at' = "success" /\ SetParameter
        \/ at' = "command exception error" /\ UNCHANGED params
        \/ at' = "network exception error" /\ (SetParameter \/ UNCHANGED params)
    BY <1>7 DEF SetterReturns, CommandException, NetworkException, Leave, ServiceStep
  <2>7. /\ params' \in [Parameter -> 0 .. MaxRequests]
        /\ \A q \in Parameter \ {p} : params'[q] = params[q]
        /\ SetParameter => params'[p] = request.id
    BY <2>2, <2>5, <2>6 DEF SetParameter
  <2>8. ServiceOK'
    BY <1>1, <1>2, <2>3, <2>6, <2>7 DEF ServiceOK
  <2>9. CallbackInv' /\ AnswersAreTrue'
    <3>1. CallbackInv'
      BY <1>1, <1>2, <2>1 DEF CallbackInv
    <3>2. AnswersAreTrue'
      BY <1>2, <2>1, <2>3, <2>6, <2>7 DEF AnswersAreTrue
    <3> QED BY <3>1, <3>2
  <2>10. ParamInv'
    BY <2>1, <2>3, <2>4, <2>6, <2>7 DEF ParamInv
  <2> QED BY <2>8, <2>9, <2>10
<1>8. CASE Answer
  <2>1. at' = "idle" /\ request' = NoRequest /\ requests' = requests \ {request}
    BY <1>8 DEF Answer, ServiceStep
  <2>2. UNCHANGED <<write_mutex_, params>>
    BY <1>8 DEF Answer
  <2>3. PICK outcome \in {"success", "command exception error", "network exception error"} :
          /\ at = outcome
          /\ told' = [told EXCEPT ![Writes[request.service]] =
                        CASE outcome = "success" -> {request.id}
                          [] outcome = "network exception error" -> @ \cup {request.id}
                          [] OTHER -> @]
    BY <1>8 DEF Answer, ServiceStep
  <2> DEFINE p == Writes[request.service]
  <2>4. request \in Request
    BY <1>4, <2>3
  <2>5. p \in Parameter /\ request.id \in 0 .. MaxRequests
    BY <2>4, WritesParameter
  <2>6. told \in [Parameter -> SUBSET (0 .. MaxRequests)]
    BY <1>2 DEF ServiceOK
  <2>7. /\ told' \in [Parameter -> SUBSET (0 .. MaxRequests)]
        /\ \A q \in Parameter \ {p} : told'[q] = told[q]
        /\ outcome = "success" => told'[p] = {request.id}
        /\ outcome = "network exception error" => told'[p] = told[p] \cup {request.id}
        /\ outcome = "command exception error" => told'[p] = told[p]
    BY <2>3, <2>5, <2>6
  <2>8. ServiceOK'
    BY <1>1, <1>2, <2>1, <2>2, <2>7 DEF ServiceOK
  <2>9. params[p] \in told'[p]
    BY <1>2, <2>3, <2>7 DEF ParamInv
  <2>10. \A q \in Parameter \ {p} : params[q] \in told'[q]
    BY <1>2, <2>7 DEF AnswersAreTrue
  <2>11. ParamInv' /\ AnswersAreTrue' /\ CallbackInv'
    BY <1>1, <1>2, <2>1, <2>2, <2>9, <2>10 DEF ParamInv, AnswersAreTrue, CallbackInv
  <2> QED BY <2>8, <2>11
<1> QED BY <1>5, <1>6, <1>7, <1>8 DEF ServiceNext

(* Error recovery touches neither the parameters nor anybody's life.       *)
LEMMA ActionStep == IInv /\ ActionNext => IInv'
<1> SUFFICES ASSUME IInv, ActionNext PROVE IInv'
  OBVIOUS
<1>1. UNCHANGED <<main, spinVars, mainVars, rosOk>> /\ UNCHANGED serviceVars
  BY DEF ActionNext, TakeGoal, ReportRecovery
<1>2. ActionOK /\ CallbackInv
  BY DEF IInv, TypeOK
<1>3. ActionOK' /\ CallbackInv'
  <2>1. CASE TakeGoal
    BY <1>1, <1>2, <2>1 DEF TakeGoal, MayTake, ActionOK, CallbackInv
  <2>2. CASE ReportRecovery
    BY <1>1, <1>2, <2>2, BoundsAssumption DEF ReportRecovery, ActionOK, CallbackInv
  <2> QED BY <2>1, <2>2 DEF ActionNext
<1>4. LifeOK' /\ FlagsOK' /\ ServiceOK'
  <2>1. LifeOK /\ FlagsOK /\ ServiceOK
    BY DEF IInv, TypeOK
  <2>2. LifeOK'
    BY <1>1, <2>1 DEF LifeOK
  <2>3. FlagsOK'
    BY <1>1, <2>1 DEF FlagsOK
  <2>4. ServiceOK'
    BY <1>1, <2>1 DEF ServiceOK
  <2> QED BY <2>2, <2>3, <2>4
<1> QED BY <1>1, <1>3, <1>4, ServiceFrame, LifeFrame DEF IInv, TypeOK

(* Clients only add what waits, and a shutdown of ROS lowers its flag.     *)
LEMMA ClientStep == IInv /\ (Call \/ SendGoal \/ RosShutdown) => IInv'
<1> SUFFICES ASSUME IInv, Call \/ SendGoal \/ RosShutdown PROVE IInv'
  OBVIOUS
<1>1. UNCHANGED <<main, spinVars, mainVars, at, request, params, told, write_mutex_, recovering>>
  BY DEF Call, SendGoal, RosShutdown
<1>2. FlagsOK' /\ LifeOK'
  <2>1. rosOk' = rosOk \/ rosOk' = FALSE
    BY DEF Call, SendGoal, RosShutdown
  <2>2. FlagsOK /\ LifeOK
    BY DEF IInv, TypeOK
  <2>3. FlagsOK'
    BY <1>1, <2>1, <2>2 DEF FlagsOK
  <2>4. LifeOK'
    BY <1>1, <2>2 DEF LifeOK
  <2> QED BY <2>3, <2>4
<1>3. ServiceOK' /\ ActionOK'
  <2>1. ServiceOK /\ ActionOK
    BY DEF IInv, TypeOK
  <2>2. CASE Call
    <3>1. sent \in 0 .. MaxRequests /\ sent < MaxRequests /\ sent' = sent + 1
      BY <2>1, <2>2 DEF Call, ServiceOK
    <3>2. sent + 1 \in 1 .. MaxRequests /\ sent' \in 0 .. MaxRequests
      BY <3>1, BoundsAssumption
    <3>3. PICK r \in Service :
            requests' = requests \cup {[id |-> sent + 1, service |-> r]}
      BY <2>2 DEF Call
    <3>4. requests' \subseteq Request
      <4>1. [id |-> sent + 1, service |-> r] \in Request
        BY <3>2 DEF Request
      <4> QED BY <2>1, <3>3, <4>1 DEF ServiceOK
    <3>5. UNCHANGED actionVars
      BY <2>2 DEF Call
    <3> QED BY <1>1, <2>1, <3>2, <3>4, <3>5 DEF ServiceOK, ActionOK
  <2>3. CASE SendGoal
    <3>1. /\ sentGoals \in 0 .. MaxGoals /\ sentGoals < MaxGoals
          /\ sentGoals' = sentGoals + 1 /\ goals' = goals \cup {sentGoals + 1}
      BY <2>1, <2>3 DEF SendGoal, ActionOK
    <3>2. sentGoals + 1 \in 1 .. MaxGoals /\ sentGoals' \in 0 .. MaxGoals
      BY <3>1, BoundsAssumption
    <3>3. UNCHANGED serviceVars
      BY <2>3 DEF SendGoal
    <3>4. ActionOK'
      BY <1>1, <2>1, <3>1, <3>2 DEF ActionOK
    <3> QED BY <2>1, <3>3, <3>4 DEF ServiceOK
  <2>4. CASE RosShutdown
    BY <2>1, <2>4 DEF RosShutdown, ServiceOK, ActionOK
  <2> QED BY <2>2, <2>3, <2>4
<1>4. CallbackInv' /\ ParamInv' /\ AnswersAreTrue'
  <2>1. CallbackInv'
    BY <1>1 DEF IInv, CallbackInv
  <2>2. ParamInv' /\ AnswersAreTrue'
    BY <1>1 DEF IInv, ParamInv, AnswersAreTrue
  <2> QED BY <2>1, <2>2
<1> QED BY <1>1, <1>2, <1>3, <1>4, LifeFrame DEF IInv, TypeOK

(* The invariant: callbacks run on what exists, and the answers given so   *)
(* far say what the robot may hold.                                        *)
THEOREM Invariance == Spec => []IInv
<1>1. IInv /\ [Next]_vars => IInv'
  <2> SUFFICES ASSUME IInv, [Next]_vars PROVE IInv'
    OBVIOUS
  <2>1. CASE Next
    BY <2>1, MainStep, SpinStep, ServiceNodeStep, ActionStep, ClientStep DEF Next
  <2>2. CASE UNCHANGED vars
    <3>1. TypeOK' /\ CallbackInv'
      <4>1. FlagsOK'
        BY <2>2 DEF vars, IInv, TypeOK, FlagsOK
      <4>2. LifeOK' /\ CallbackInv'
        <5>1. LifeOK'
          BY <2>2 DEF vars, IInv, TypeOK, LifeOK
        <5>2. CallbackInv'
          BY <2>2 DEF vars, IInv, CallbackInv
        <5> QED BY <5>1, <5>2
      <4>3. ServiceOK' /\ ActionOK'
        <5>1. ServiceOK'
          BY <2>2 DEF vars, IInv, TypeOK, ServiceOK
        <5>2. ActionOK'
          BY <2>2 DEF vars, IInv, TypeOK, ActionOK
        <5> QED BY <5>1, <5>2
      <4> QED BY <4>1, <4>2, <4>3 DEF TypeOK
    <3> QED BY <2>2, <3>1, ServiceFrame, LifeFrame DEF vars, IInv
  <2> QED BY <2>1, <2>2
<1> QED BY <1>1, InitInv, PTL DEF Spec

(* Neither a failing on_init nor the destruction of the interface takes a  *)
(* node or the robot from under a callback.                                *)
THEOREM LifeSafety == Spec => []AliveWhileServing
<1>1. IInv => AliveWhileServing
  BY DEF IInv, LifeInv, Built, ThreadInv, CallbackInv, AliveWhileServing, TypeOK, LifeOK
<1> QED BY <1>1, Invariance, PTL

(* What clients were told of a parameter includes what the robot holds.    *)
THEOREM AnswerSafety == Spec => []AnswersAreTrue
<1>1. IInv => AnswersAreTrue
  BY DEF IInv
<1> QED BY <1>1, Invariance, PTL

----------------------------------------------------------------------------
(***************************************************************************)
(* The end of the interface.                                               *)
(***************************************************************************)
(* The flag, once lowered by shutdown, stays down: the only step that      *)
(* raises it has been taken before the nodes were added.                   *)
LEMMA SpinInvStep == IInv /\ SpinInv /\ [Next]_vars => SpinInv'
<1> SUFFICES ASSUME IInv, SpinInv, [Next]_vars PROVE SpinInv'
  OBVIOUS
<1> USE DEF SpinInv, JoinReturns
<1>1. CallbackInv /\ ThreadInv /\ spinning \in BOOLEAN
  BY DEF IInv, TypeOK, FlagsOK
<1>2. CASE MainNext \/ Destroy
  <2>0. UNCHANGED <<at, write_mutex_, recovering>>
    BY <1>2 DEF MainNext, Destroy, Goto, RefuseInit, Connect, CreateServiceNode,
           StartExecutor, AwaitSpinning, AddServiceNode, CreateActionNode,
           AddActionNode, Unwind, shutdown, Join, DropActionNode, DropServiceNode,
           DropRobot
  <2> USE <1>1, <2>0 DEF Goto, CallbackInv, ThreadInv
  <2>1. CASE RefuseInit \/ Connect \/ CreateServiceNode \/ StartExecutor
    BY <2>1 DEF RefuseInit, Connect, CreateServiceNode, Create, StartExecutor
  <2>2. CASE AwaitSpinning
    BY <2>2 DEF AwaitSpinning
  <2>3. CASE AddServiceNode \/ CreateActionNode \/ AddActionNode \/ Unwind \/ Destroy
    BY <2>3 DEF AddServiceNode, AddNode, CreateActionNode, Create, AddActionNode, Unwind, Destroy
  <2>4. CASE shutdown
    BY <2>4 DEF shutdown
  <2>5. CASE Join
    BY <2>5 DEF Join
  <2>6. CASE DropActionNode \/ DropServiceNode \/ DropRobot
    BY <2>6 DEF DropActionNode, DropServiceNode, DropRobot, Drop
  <2> QED BY <1>2, <2>1, <2>2, <2>3, <2>4, <2>5, <2>6 DEF MainNext
<1>3. CASE SpinNext
  <2>1. CASE SpinStarts
    BY <2>1 DEF SpinStarts
  <2>2. CASE SpinReturns
    BY <2>2 DEF SpinReturns
  <2> QED BY <1>3, <2>1, <2>2 DEF SpinNext
<1>4. CASE ServiceNext
  <2>1. UNCHANGED <<main, spinVars, recovering>>
    BY <1>4 DEF ServiceNext, TakeRequest, LockWriteMutex, Leave, SetterReturns,
       CommandException, NetworkException, Answer, ServiceStep
  <2>2. at # "idle" \/ thread = "spinning"
    BY <1>1, <1>4 DEF ServiceNext, TakeRequest, MayTake, LockWriteMutex, Leave, SetterReturns,
       CommandException, NetworkException, Answer, ServiceStep
  <2>3. main # "drop_action"
    BY <1>1, <2>2 DEF CallbackInv, ThreadInv
  <2>4. write_mutex_' = "held" => at' = "set"
    BY <1>4 DEF ServiceNext, TakeRequest, LockWriteMutex, Leave, SetterReturns,
       CommandException, NetworkException, Answer, ServiceStep
  <2> QED BY <2>1, <2>3, <2>4
<1>5. CASE ActionNext
  <2>1. UNCHANGED <<main, spinVars, at, write_mutex_>>
    BY <1>5 DEF ActionNext, TakeGoal, ReportRecovery
  <2>2. main # "drop_action"
    BY <1>1, <1>5 DEF ActionNext, TakeGoal, ReportRecovery, MayTake, CallbackInv, ThreadInv
  <2> QED BY <2>1, <2>2
<1>6. CASE Call \/ SendGoal \/ RosShutdown \/ UNCHANGED vars
  BY <1>6 DEF Call, SendGoal, RosShutdown, vars
<1> QED BY <1>2, <1>3, <1>4, <1>5, <1>6 DEF Next

(* The destruction of the interface never waits for a thread that missed   *)
(* its cancel, nor for a callback that cannot go on; and it takes the      *)
(* nodes away only after the last callback: the safety part of             *)
(* TeardownEnds.  (FrankaExecutor)                                         *)
THEOREM JoinSafety == Spec => []JoinReturns
<1>1. Init => SpinInv
  BY DEF Init, SpinInv, JoinReturns
<1>2. SpinInv => JoinReturns
  BY DEF SpinInv
<1> QED BY <1>1, <1>2, SpinInvStep, Invariance, PTL DEF Spec

(* Every variable keeps its type, and no counter passes its bound.         *)
THEOREM TypeCorrect == Spec => []TypeOK
<1>1. IInv => TypeOK
  BY DEF IInv
<1> QED BY <1>1, Invariance, PTL
=============================================================================
