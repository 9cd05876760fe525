-------------------------- MODULE SimStartup_proofs --------------------------
(***************************************************************************)
(* Proofs about SimStartup, for any order of the plugin's steps, the       *)
(* executor thread's and the environment's.                                *)
(***************************************************************************)
EXTENDS SimStartup, TLAPS

USE DEF threadVars, rosVars, Goes, Terminates

(* The invariant holds of a plugin that was just made.                     *)
LEMMA InitInv == Init => IInv
  BY DEF Init, IInv, TypeOK, UnloadIsSafe, Description

(* Configure goes on only with what it was given: a description that was   *)
(* delivered.                                                              *)
LEMMA ConfigureStep == IInv /\ Alive /\ Configure => IInv'
<1> SUFFICES ASSUME IInv, Alive, Configure PROVE IInv'
  OBVIOUS
<1> USE DEF IInv, TypeOK, UnloadIsSafe, Description
<1>1. CASE RefusesModel
  BY <1>1 DEF RefusesModel
<1>2. CASE StartsThread
  BY <1>2 DEF StartsThread
<1>3. CASE FindsService \/ ExitsInterrupted \/ SendsRequest
  BY <1>3 DEF FindsService, ExitsInterrupted, SendsRequest
<1>4. CASE GetsReply
  BY <1>4 DEF GetsReply
<1>5. CASE ParsesMalformed \/ ParsesUnsupported \/ LoadFails
  BY <1>5 DEF ParsesMalformed, ParsesUnsupported, LoadFails
<1>6. CASE CreatesManager
  BY <1>6 DEF CreatesManager, Alive
<1> QED BY <1>1, <1>2, <1>3, <1>4, <1>5, <1>6 DEF Configure

(* A reply comes from a spinning thread, and a thread that spun never goes *)
(* back.                                                                   *)
LEMMA ThreadStep == IInv /\ Thread => IInv'
<1> SUFFICES ASSUME IInv, Thread PROVE IInv'
  OBVIOUS
<1> USE DEF IInv, TypeOK, UnloadIsSafe, Description
<1>1. CASE EntersSpin
  BY <1>1 DEF EntersSpin
<1>2. CASE DeliversReply
  BY <1>2 DEF DeliversReply
<1>3. CASE LeavesSpin
  BY <1>3 DEF LeavesSpin
<1> QED BY <1>1, <1>2, <1>3 DEF Thread

(* The destructor only changes a plugin whose Configure has returned.      *)
LEMMA UnloadStep == IInv /\ (Unload \/ Destructor) => IInv'
<1> SUFFICES ASSUME IInv, Unload \/ Destructor PROVE IInv'
  OBVIOUS
<1> USE DEF IInv, TypeOK, UnloadIsSafe, Description
<1>1. CASE Unload
  BY <1>1 DEF Unload
<1>2. CASE Joins
  BY <1>2 DEF Joins
<1>3. CASE Destroys
  BY <1>3 DEF Destroys
<1> QED BY <1>1, <1>2, <1>3 DEF Destructor

(* The environment can lose a reply, never make one.                       *)
LEMMA EnvironmentStep ==
  IInv /\ (PublisherStarts \/ PublisherStops \/ DescriptionSet \/ Interrupt) => IInv'
<1> SUFFICES ASSUME IInv, PublisherStarts \/ PublisherStops \/ DescriptionSet \/ Interrupt
             PROVE  IInv'
  OBVIOUS
<1>1. /\ UNCHANGED <<configure, thread, joinable, cancelled, manager, plugin>>
      /\ reply' \in {reply, "lost"}
  BY DEF PublisherStarts, PublisherStops, DescriptionSet, Interrupt
<1>2. rosOk' \in BOOLEAN /\ publisher' \in BOOLEAN /\ description' \in Description
  BY DEF IInv, TypeOK, Description, PublisherStarts, PublisherStops, DescriptionSet, Interrupt
<1>3. TypeOK'
  BY <1>1, <1>2 DEF IInv, TypeOK
<1>4. reply' \in Description => reply \in Description
  BY <1>1 DEF Description
<1> QED BY <1>1, <1>3, <1>4 DEF IInv, UnloadIsSafe

(* Nothing happens.                                                        *)
LEMMA Stutter == IInv /\ UNCHANGED vars => IInv'
  BY DEF IInv, TypeOK, UnloadIsSafe, vars

(* The invariant is inductive.                                             *)
THEOREM Invariance == Spec => []IInv
<1>1. IInv /\ [Next]_vars => IInv'
  BY ConfigureStep, ThreadStep, UnloadStep, EnvironmentStep, Stutter
     DEF Next, RequestThrows, Stopped
<1> QED BY <1>1, InitInv, PTL DEF Spec

(* The destructor of a plugin with a controller manager never waits for a  *)
(* thread that missed its cancel, and never ends the process, whenever the *)
(* plugin is unloaded and ROS is shut down.  (Configure, getURDF and       *)
(* ~IgnitionROS2ControlPlugin)                                             *)
THEOREM UnloadSafety == Spec => []UnloadIsSafe
<1>1. IInv => UnloadIsSafe
  BY DEF IInv
<1> QED BY <1>1, Invariance, PTL

(* Every variable keeps its type.                                          *)
THEOREM TypeCorrect == Spec => []TypeOK
<1>1. IInv => TypeOK
  BY DEF IInv
<1> QED BY <1>1, Invariance, PTL
=============================================================================
