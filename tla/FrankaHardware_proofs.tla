------------------------ MODULE FrankaHardware_proofs ------------------------
(***************************************************************************)
(* Proofs about FrankaHardware for every robot description and every set   *)
(* of requests a controller manager may make.                              *)
(***************************************************************************)
EXTENDS FrankaHardware, TLAPS

USE DEF hwVars, robotVars, cmVars, Joint, Cartesian, Motion, Interface, InPerform,
        Targets, ElbowRuns

(* The outcomes of a write that sends nothing.                             *)
LEMMA QuietTyped == NoWrite \in Outcome /\ [NoWrite EXCEPT !.outcome = "infinite"] \in Outcome
  BY DEF NoWrite, Outcome

(* The invariant holds before anything is claimed.                         *)
LEMMA InitInv == Init => IInv
<1> SUFFICES ASSUME Init PROVE IInv
  OBVIOUS
<1>1. TypeOK
  BY QuietTyped DEF Init, TypeOK
<1>2. FlagsFollowControl /\ ControlIsRunning /\ ElbowNeedsCartesian /\ ClaimsFollowOwners
  BY DEF Init, FlagsFollowControl, ControlIsRunning, ElbowNeedsCartesian, ClaimsFollowOwners
<1> QED
  BY <1>1, <1>2 DEF Init, IInv

(* Claims are only made for exported types.                                *)
LEMMA ClaimsExported ==
  ASSUME NEW r \in Requests, claimed \subseteq Exported
  PROVE  Claims(r) \subseteq Exported
  BY DEF Claims

(* A well-formed request claims and releases exactly what it names.        *)
LEMMA ClaimsComplete ==
  ASSUME NEW r \in Requests, Malformed(r) = {}
  PROVE  Claims(r) = (claimed \ (r.stop \cap Exported)) \cup (r.start \cap Exported)
  BY DEF Claims

(* What a write selects is the vector of a running motion interface that   *)
(* does not wait for its first read; an elbow only with a Cartesian one.   *)
LEMMA SelectedRuns ==
  ASSUME NEW c \in Selected
  PROVE  /\ c.vec \in running \cap Motion /\ c.elbow \in BOOLEAN
         /\ c.vec \in Targets => c.vec \notin first
         /\ c.elbow => c.vec \in Cartesian /\ Ready("elbow_command")
<1>1. PICK i \in Motion, e \in BOOLEAN :
        /\ c = [vec |-> i, elbow |-> e]
        /\ i \in running
        /\ i \in Targets => i \notin first
        /\ e => i \in Cartesian /\ Ready("elbow_command")
  BY DEF Selected, Ready
<1> QED
  BY <1>1

(* prepare_command_mode_switch, accepted or refused.                       *)
LEMMA PrepareStep ==
  ASSUME IInv, NEW r \in Requests, PrepareAccepts(r) \/ PrepareRefuses(r)
  PROVE  IInv'
<1> USE DEF IInv, TypeOK, FlagsFollowControl, ControlIsRunning, ElbowNeedsCartesian,
            ClaimsFollowOwners
<1>1. CASE PrepareAccepts(r)
  <2>1. claimed' = (claimed \ (r.stop \cap Exported)) \cup (r.start \cap Exported)
    BY <1>1, ClaimsComplete DEF PrepareAccepts
  <2>2. r.start \subseteq Interface /\ r.stop \subseteq Interface
    BY RequestsAssumption DEF Request
  <2>3. TypeOK'
    BY <1>1, <2>1, <2>2 DEF PrepareAccepts
  <2>4. ~refused' => \A S \in pending' : claimed' \cap Motion = S \cap Motion \cap Exported
    BY <1>1, <2>1, <2>2 DEF PrepareAccepts
  <2>5. pending' # {} /\ \A S, T \in pending' : S = T
    BY <1>1 DEF PrepareAccepts
  <2>6. /\ FlagsFollowControl' /\ ControlIsRunning' /\ ElbowNeedsCartesian'
        /\ (running \cap Targets \subseteq first \cup fresh)'
    BY <1>1 DEF PrepareAccepts
  <2>7. ClaimsFollowOwners'
    BY <2>5
  <2> HIDE DEF TypeOK, FlagsFollowControl, ControlIsRunning, ElbowNeedsCartesian,
               ClaimsFollowOwners
  <2> QED
    BY <2>3, <2>4, <2>5, <2>6, <2>7
<1>2. CASE PrepareRefuses(r)
  <2>1. claimed' \subseteq Exported
    BY <1>2, ClaimsExported DEF PrepareRefuses
  <2> QED
    BY <1>2, <2>1 DEF PrepareRefuses
<1> QED
  BY <1>1, <1>2

(* One block of perform_command_mode_switch, or its end.                   *)
LEMMA PerformStep ==
  ASSUME IInv, Perform
  PROVE  IInv'
<1> USE DEF IInv, TypeOK, FlagsFollowControl, ControlIsRunning, ElbowNeedsCartesian,
            ClaimsFollowOwners, Successor
<1>1. ASSUME NEW i \in Motion, StartBlock(i)
      PROVE  IInv'
  <2>1. PICK elbow \in SUBSET ({"elbow_command"} \cap claimed) :
          /\ i \notin Cartesian => elbow = {}
          /\ running' = running \cup {i} \cup elbow
          /\ first' = first \cup (({i} \cup elbow) \cap Targets)
          /\ fresh' = fresh \ ({i} \cup elbow)
    BY <1>1 DEF StartBlock
  <2>2. /\ i \in claimed /\ phase = i /\ phase' = Successor[i]
        /\ active' = {i} /\ control' = {i}
        /\ UNCHANGED <<claimed, owned, pending, sent, refused>>
    BY <1>1 DEF StartBlock, Starts, stopRobotThenInitialize
  <2>3. TypeOK'
    BY <2>1, <2>2
  <2>4. FlagsFollowControl' /\ ControlIsRunning' /\ ElbowNeedsCartesian'
    BY <2>1, <2>2
  <2>5. (running \cap Targets \subseteq first \cup fresh)'
    BY <2>1
  <2>6. /\ ClaimsFollowOwners'
        /\ \A S, T \in pending' : S = T
        /\ InPerform' => pending' # {}
        /\ ~refused' => \A S \in pending' : claimed' \cap Motion = S \cap Motion \cap Exported
    BY <2>2
  <2> HIDE DEF TypeOK, FlagsFollowControl, ControlIsRunning, ElbowNeedsCartesian,
               ClaimsFollowOwners
  <2> QED
    BY <2>3, <2>4, <2>5, <2>6
<1>2. ASSUME NEW i \in Motion, StartBlockThrows(i)
      PROVE  IInv'
  BY <1>2 DEF StartBlockThrows, Starts, stopRobot, HandOver
<1>3. ASSUME NEW i \in Motion, StopBlock(i)
      PROVE  IInv'
  BY <1>3 DEF StopBlock, Stops, stopRobot
<1>4. ASSUME NEW i \in Motion, SkipBlock(i)
      PROVE  IInv'
  BY <1>4 DEF SkipBlock
<1>5. CASE ElbowCheck
  BY <1>5 DEF ElbowCheck, HandOver
<1> QED
  BY <1>1, <1>2, <1>3, <1>4, <1>5 DEF Perform

(* What writeOnce makes of a selected vector is an outcome.                *)
LEMMA SentTyped ==
  ASSUME TypeOK, NEW c \in Selected
  PROVE  WriteOnce(c) \in Outcome
<1>1. SentAs(c) \in Motion \cup {"none"}
  BY DEF SentAs, ActiveJoint
<1>2. c.vec \in Motion /\ c.elbow \in BOOLEAN
  BY SelectedRuns
<1> QED
  BY <1>1, <1>2 DEF WriteOnce, Outcome

(* The other steps of the real-time loop, and the lifecycle calls.         *)
LEMMA LoopStep ==
  ASSUME IInv,
         \/ Read \/ Update \/ Write \/ WriteNothing \/ WriteInfinite
         \/ OnActivate \/ OnDeactivate \/ UNCHANGED vars
  PROVE  IInv'
<1> USE DEF IInv, TypeOK, FlagsFollowControl, ControlIsRunning, ElbowNeedsCartesian,
            ClaimsFollowOwners
<1>1. CASE Read \/ OnActivate
  <2>1. /\ first' = first \ running /\ fresh' = fresh \cup (first \cap running)
        /\ phase' \in {"read", "update"}
        /\ sent' \in {sent, NoWrite}
        /\ UNCHANGED <<claimed, running, active, control, owned, pending, refused>>
    BY <1>1 DEF Read, OnActivate, InitializePositionCommands
  <2>2. TypeOK'
    BY <2>1, QuietTyped
  <2>3. /\ FlagsFollowControl' /\ ControlIsRunning' /\ ElbowNeedsCartesian'
        /\ ClaimsFollowOwners'
        /\ (running \cap Targets \subseteq first \cup fresh)'
    BY <2>1
  <2> HIDE DEF TypeOK, FlagsFollowControl, ControlIsRunning, ElbowNeedsCartesian,
               ClaimsFollowOwners
  <2> QED
    BY <2>1, <2>2, <2>3
<1>2. CASE Update
  BY <1>2 DEF Update
<1>3. CASE Write
  <2>1. PICK c \in Selected : sent' = WriteOnce(c)
    BY <1>3 DEF Write
  <2>2. sent' \in Outcome
    BY <2>1, SentTyped
  <2> QED
    BY <1>3, <2>2 DEF Write
<1>4. CASE WriteNothing \/ WriteInfinite
  BY <1>4, QuietTyped DEF WriteNothing, WriteInfinite
<1>5. CASE OnDeactivate
  BY <1>5 DEF OnDeactivate, stopRobot
<1>6. CASE UNCHANGED vars
  BY <1>6 DEF vars
<1> QED
  BY <1>1, <1>2, <1>3, <1>4, <1>5, <1>6

(* Every step preserves the invariant.                                     *)
LEMMA NextInv == IInv /\ [Next]_vars => IInv'
  BY PrepareStep, PerformStep, LoopStep DEF Next, Cycle

(* The invariant of the hardware under any controller manager.             *)
THEOREM Invariance == Spec => []IInv
  BY InitInv, NextInv, PTL DEF Spec

(* Every variable keeps its type.                                          *)
THEOREM TypeCorrect == Spec => []TypeOK
<1>1. IInv => TypeOK
  BY DEF IInv
<1> QED
  BY <1>1, Invariance, PTL

(* The activity flags name exactly the open control, and there is one.     *)
THEOREM FlagsSafety == Spec => []FlagsFollowControl
<1>1. IInv => FlagsFollowControl
  BY DEF IInv
<1> QED
  BY <1>1, Invariance, PTL

(* No control is open that no running interface feeds.                     *)
THEOREM ControlSafety == Spec => []ControlIsRunning
<1>1. IInv => ControlIsRunning
  BY DEF IInv
<1> QED
  BY <1>1, Invariance, PTL

(* The elbow never runs without a Cartesian interface.                     *)
THEOREM ElbowSafety == Spec => []ElbowNeedsCartesian
<1>1. IInv => ElbowNeedsCartesian
  BY DEF IInv
<1> QED
  BY <1>1, Invariance, PTL

(* The hardware's claims are the controllers' unless a switch was refused. *)
THEOREM ClaimSafety == Spec => []ClaimsFollowOwners
<1>1. IInv => ClaimsFollowOwners
  BY DEF IInv
<1> QED
  BY <1>1, Invariance, PTL

(* No target is sent that was not read from the robot since its start.     *)
THEOREM TargetSafety == Spec => NoStaleTarget
<1> DEFINE Fed(o) ==
      /\ o.vec \in {"position", "cartesian_pose_command"} => o.vec \in fresh
      /\ o.elbow => "elbow_command" \in fresh
<1>1. ASSUME IInv, NEW c \in Selected
      PROVE  Fed(WriteOnce(c))
  <2>1. WriteOnce(c).vec = c.vec /\ WriteOnce(c).elbow = c.elbow
    BY DEF WriteOnce
  <2>2. running \cap Targets \subseteq first \cup fresh
    BY <1>1 DEF IInv
  <2>3. c.vec \in running /\ (c.vec \in Targets => c.vec \notin first)
    BY SelectedRuns
  <2>4. c.elbow => "elbow_command" \in running /\ "elbow_command" \notin first
    BY SelectedRuns DEF Ready
  <2>5. c.vec \in Targets => c.vec \in fresh
    BY <2>2, <2>3
  <2>6. c.elbow => "elbow_command" \in fresh
    BY <2>2, <2>4
  <2> QED
    BY <2>1, <2>5, <2>6
<1>2. ASSUME IInv, [Next]_vars, phase = "write", phase' = "read", sent'.outcome = "sent"
      PROVE  Fed(sent')
  <2>1. Write \/ WriteNothing \/ WriteInfinite
    BY <1>2 DEF Next, Cycle, Perform, PrepareAccepts, PrepareRefuses, OnActivate,
                OnDeactivate, Read, Update, StartBlock, StartBlockThrows, StopBlock,
                SkipBlock, ElbowCheck, vars
  <2>2. CASE Write
    BY <2>2, <1>1, <1>2 DEF Write
  <2>3. CASE WriteNothing \/ WriteInfinite
    BY <2>3, <1>2 DEF WriteNothing, WriteInfinite, NoWrite
  <2> QED
    BY <2>1, <2>2, <2>3
<1>3. IInv /\ [Next]_vars =>
        [phase = "write" /\ phase' = "read" /\ sent'.outcome = "sent" => Fed(sent')]_vars
  BY <1>2
<1> QED
  BY <1>3, Invariance, PTL DEF Spec, NoStaleTarget

----------------------------------------------------------------------------
(* Under a careful operator.                                               *)
LEMMA CarefulInit == Init => CarefulInv
  BY InitInv DEF Init, CarefulInv, WritesMatch, NoWrite

(* A careful switch keeps the claims to one motion type.                   *)
LEMMA CarefulPrepare ==
  ASSUME CarefulInv, NEW r \in Requests, Careful(r), PrepareAccepts(r)
  PROVE  CarefulInv'
<1>1. IInv'
  BY PrepareStep DEF CarefulInv
<1>2. claimed' = (claimed \ (r.stop \cap Exported)) \cup (r.start \cap Exported)
  BY ClaimsComplete DEF PrepareAccepts
<1>3. claimed \cap Motion = owned \cap Motion \cap Exported
  BY DEF CarefulInv, IInv, ClaimsFollowOwners, PrepareAccepts
<1>4. running \cap Motion \subseteq claimed /\ \A i, j \in (claimed \cup running) \cap Motion : i = j
  BY DEF CarefulInv, PrepareAccepts
<1>5. \A i, j \in (claimed' \cup running) \cap Motion : i = j
  <2>1. CASE r.start = {}
    BY <2>1, <1>2, <1>4
  <2>2. CASE r.start # {}
    <3>1. (claimed \cup running) \cap Motion = {}
      BY <2>2, <1>3, <1>4 DEF Careful
    <3> QED
      BY <3>1, <1>2 DEF Careful
  <2> QED
    BY <2>1, <2>2
<1>6. phase \notin Interface
  BY DEF PrepareAccepts, CarefulInv, IInv
<1>7. pending' # {} /\ UNCHANGED <<phase, running, control, sent, refused>>
  BY DEF PrepareAccepts
<1>8. ~refused' /\ WritesMatch' /\ (control = running \cap Motion)'
  BY <1>7 DEF CarefulInv, WritesMatch
<1>9. \A i \in running' \cap Motion : Passed(i)' => i \in claimed'
  BY <1>6, <1>7 DEF Passed
<1> QED
  BY <1>1, <1>5, <1>7, <1>8, <1>9 DEF CarefulInv

(* Each block leaves at most its own interface running.                    *)
LEMMA CarefulPerform ==
  ASSUME CarefulInv, Perform
  PROVE  CarefulInv'
<1> IInv' /\ phase \in Interface
  BY PerformStep DEF CarefulInv, Perform, StartBlock, StartBlockThrows, StopBlock,
                     SkipBlock, ElbowCheck
<1> USE DEF CarefulInv, WritesMatch, Passed, Successor, BlockRank, Rank
<1>1. ASSUME NEW i \in Motion, StartBlock(i)
      PROVE  CarefulInv'
  <2>1. running \cap Motion = {}
    BY <1>1 DEF StartBlock, Starts
  <2>2. running' \cap Motion = {i} /\ control' = {i} /\ i \in claimed'
    BY <2>1, <1>1 DEF StartBlock, Starts, stopRobotThenInitialize
  <2>3. UNCHANGED <<claimed, pending, sent, refused>>
    BY <1>1 DEF StartBlock
  <2>4. pending # {}
    BY DEF IInv
  <2> QED
    BY <2>2, <2>3, <2>4
<1>2. ASSUME NEW i \in Motion, StartBlockThrows(i)
      PROVE  CarefulInv'
  <2>1. running \cap Motion = {}
    BY <1>2 DEF StartBlockThrows, Starts
  <2> QED
    BY <2>1, <1>2 DEF StartBlockThrows, stopRobot, HandOver
<1>3. ASSUME NEW i \in Motion, StopBlock(i)
      PROVE  CarefulInv'
  <2>1. running \cap Motion = {i}
    BY <1>3 DEF StopBlock, Stops
  <2>2. running' \cap Motion = {} /\ control' = {} /\ claimed' \subseteq claimed
    BY <2>1, <1>3 DEF StopBlock, stopRobot
  <2>3. UNCHANGED <<pending, sent, refused>>
    BY <1>3 DEF StopBlock
  <2> QED
    BY <2>2, <2>3
<1>4. ASSUME NEW i \in Motion, SkipBlock(i)
      PROVE  CarefulInv'
  <2>1. /\ phase = i /\ phase' = Successor[i] /\ (i \in running => i \in claimed)
        /\ UNCHANGED <<claimed, running, control, pending, sent, refused>>
    BY <1>4 DEF SkipBlock, Starts, Stops
  <2>2. pending # {}
    BY DEF IInv
  <2>3. \A j \in running \cap Motion : Passed(j)' => j \in claimed
    BY <2>1
  <2> QED
    BY <2>1, <2>2, <2>3
<1>5. CASE ElbowCheck
  <2>1. running \cap Motion \subseteq claimed
    BY <1>5 DEF ElbowCheck
  <2> QED
    BY <2>1, <1>5 DEF ElbowCheck, HandOver
<1> QED
  BY <1>1, <1>2, <1>3, <1>4, <1>5 DEF Perform

(* The vector of the only running interface fits its own control.          *)
LEMMA WriteFits ==
  ASSUME CarefulInv, NEW c \in Selected
  PROVE  /\ WriteOnce(c).outcome = "sent" /\ WriteOnce(c).vec = c.vec
         /\ WriteOnce(c).as = c.vec /\ c.vec \in running \cap Motion
<1>1. control = {c.vec} /\ active = {c.vec} /\ c.vec \in running \cap Motion
  BY SelectedRuns DEF CarefulInv, IInv, FlagsFollowControl
<1>2. SentAs(c) = c.vec
  <2>1. c.elbow \in BOOLEAN /\ (c.elbow => c.vec \in Cartesian)
    BY SelectedRuns
  <2>2. CASE c.vec \in Joint
    <3>1. Size[c.vec] = 7 /\ ActiveJoint = c.vec /\ ~c.elbow
      BY <2>1, <2>2, <1>1 DEF Size, ActiveJoint
    <3>2. Joint \cap active # {}
      BY <2>2, <1>1
    <3>3. Size[c.vec] <= 7
      BY <3>1
    <3> HIDE DEF Joint, Cartesian, Motion
    <3> QED
      BY <3>1, <3>2, <3>3 DEF SentAs
  <2>3. CASE c.vec = "cartesian_velocity"
    <3>1. Size[c.vec] = 6 /\ Joint \cap active = {}
      BY <2>3, <1>1 DEF Size
    <3> QED
      BY <3>1, <2>3, <2>1, <1>1 DEF SentAs
  <2>4. CASE c.vec = "cartesian_pose_command"
    <3>1. Size[c.vec] = 16 /\ Joint \cap active = {} /\ "cartesian_velocity" \notin active
      BY <2>4, <1>1 DEF Size
    <3> QED
      BY <3>1, <2>4, <2>1, <1>1 DEF SentAs
  <2> QED
    BY <1>1, <2>2, <2>3, <2>4
<1> QED
  BY <1>1, <1>2 DEF WriteOnce

(* Reads, writes and lifecycle calls keep the careful invariant.           *)
LEMMA CarefulLoop ==
  ASSUME CarefulInv,
         \/ Read \/ Update \/ Write \/ WriteNothing \/ WriteInfinite \/ OnActivate
         \/ owned = {} /\ pending = {} /\ OnDeactivate
         \/ UNCHANGED vars
  PROVE  CarefulInv'
<1>1. IInv'
  BY LoopStep DEF CarefulInv
<1>2. CASE owned = {} /\ pending = {} /\ OnDeactivate
  <2>1. running \cap Motion = {}
    BY <1>2 DEF CarefulInv, IInv, ClaimsFollowOwners
  <2> QED
    BY <1>1, <1>2, <2>1 DEF OnDeactivate, stopRobot, CarefulInv, WritesMatch, Passed
<1>3. CASE Write
  <2>1. WritesMatch'
    BY <1>3, WriteFits DEF Write, WritesMatch
  <2> QED
    BY <1>1, <1>3, <2>1 DEF Write, CarefulInv, Passed
<1>4. CASE Read \/ WriteNothing \/ WriteInfinite
  BY <1>1, <1>4 DEF Read, WriteNothing, WriteInfinite, NoWrite, CarefulInv, Passed, WritesMatch
<1>5. CASE Update
  BY <1>1, <1>5 DEF Update, CarefulInv, Passed, WritesMatch, BlockRank, Rank
<1>6. CASE OnActivate \/ UNCHANGED vars
  BY <1>1, <1>6 DEF OnActivate, vars, CarefulInv, Passed, WritesMatch
<1> QED
  BY <1>2, <1>3, <1>4, <1>5, <1>6

(* Every careful step preserves the careful invariant.                     *)
LEMMA CarefulStep == CarefulInv /\ [CarefulNext]_vars => CarefulInv'
  BY CarefulPrepare, CarefulPerform, CarefulLoop DEF CarefulNext, Cycle

(* A careful operator never makes write() throw or send one interface's    *)
(* vector as another's.                                                    *)
THEOREM WriteSafety == CarefulSpec => []WritesMatch
<1>1. CarefulInv => WritesMatch
  BY DEF CarefulInv
<1> QED
  BY <1>1, CarefulInit, CarefulStep, PTL DEF CarefulSpec

----------------------------------------------------------------------------
(* Refinement: StartBlock is Engage, StopBlock is Release, Write is Send,  *)
(* the other writes and the read that opens a cycle are Silence.           *)
LEMMA ModeInit == Init => Mode!Init
  BY DEF Init, NoWrite, Mode!Init

(* Each block of a mode switch engages, releases or changes nothing.       *)
LEMMA ModePerform == CarefulInv /\ Perform => [Mode!Next]_Mode!modeVars
<1> SUFFICES ASSUME CarefulInv, Perform PROVE [Mode!Next]_Mode!modeVars
  OBVIOUS
<1>1. ASSUME NEW i \in Motion, StartBlock(i)
      PROVE  Mode!Engage(i)
  <2>1. running \cap Motion = {}
    BY <1>1 DEF CarefulInv, StartBlock, Starts
  <2> QED
    BY <1>1, <2>1 DEF StartBlock, Mode!Engage
<1>2. ASSUME NEW i \in Motion, StopBlock(i)
      PROVE  Mode!Release
  <2>1. running \cap Motion = {i}
    BY <1>2 DEF CarefulInv, StopBlock, Stops
  <2> QED
    BY <1>2, <2>1 DEF StopBlock, Mode!Release
<1>3. ASSUME NEW i \in Motion, StartBlockThrows(i) \/ SkipBlock(i)
      PROVE  UNCHANGED Mode!modeVars
  BY <1>3 DEF StartBlockThrows, SkipBlock, Mode!modeVars
<1>4. ElbowCheck => UNCHANGED Mode!modeVars
  BY DEF ElbowCheck, Mode!modeVars
<1> QED
  BY <1>1, <1>2, <1>3, <1>4 DEF Perform, Mode!Next

(* Each other step sends, is silent or changes nothing.                    *)
LEMMA ModeOther ==
  ASSUME CarefulInv, [CarefulNext]_vars, ~Perform
  PROVE  [Mode!Next]_Mode!modeVars
<1>1. CASE Write
  <2>1. PICK c \in Selected : sent' = WriteOnce(c)
    BY <1>1 DEF Write
  <2>2. Mode!Send(c.vec) /\ c.vec \in Motion
    BY <1>1, <2>1, WriteFits DEF Write, Mode!Send
  <2> QED
    BY <2>2 DEF Mode!Next
<1>2. CASE Read \/ WriteNothing \/ WriteInfinite
  BY <1>2 DEF Read, WriteNothing, WriteInfinite, NoWrite, Mode!Next, Mode!Silence
<1>3. CASE Update \/ OnActivate \/ OnDeactivate \/ UNCHANGED vars
  BY <1>3 DEF Update, OnActivate, OnDeactivate, vars, Mode!modeVars
<1>4. ASSUME NEW r \in Requests, PrepareAccepts(r)
      PROVE  UNCHANGED Mode!modeVars
  BY <1>4 DEF PrepareAccepts, Mode!modeVars
<1> QED
  BY <1>1, <1>2, <1>3, <1>4 DEF CarefulNext, Cycle

(* Under a careful operator the hardware implements OneMotionMode.         *)
THEOREM ModeRefinement == CarefulSpec => ImplementsOneMotionMode
<1>1. CarefulInv /\ [CarefulNext]_vars => [Mode!Next]_Mode!modeVars
  BY ModePerform, ModeOther
<1> QED
  BY <1>1, ModeInit, CarefulInit, CarefulStep, PTL
     DEF CarefulSpec, ImplementsOneMotionMode, Mode!Spec
=============================================================================
