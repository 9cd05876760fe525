---------------------------- MODULE GoalReports ----------------------------
(***************************************************************************)
(* What the gripper's action servers promise their clients, without        *)
(* threads, mutex, cached width and shutdown: a goal is accepted, perhaps  *)
(* asked to cancel, and reported once; its command starts at most once,    *)
(* before the report, and the report agrees with how the command ended.    *)
(* GripperActionServer implements it.                                      *)
(***************************************************************************)
CONSTANTS
  Goal,
  Allowed   \* those of them whose command may be started

VARIABLES
  state,    \* what the client sees: none, executing, canceling or a report
  command   \* the goal's command: none, running, true or false

reportVars == <<state, command>>

Init ==
  /\ state = [g \in Goal |-> "none"]
  /\ command = [g \in Goal |-> "none"]

Open(g) == state[g] \in {"executing", "canceling"}

Running == {g \in Goal : command[g] = "running"}

Accepted(g) ==
  /\ state[g] = "none"
  /\ state' = [state EXCEPT ![g] = "executing"]
  /\ UNCHANGED command

CancelAccepted(g) ==
  /\ state[g] = "executing"
  /\ state' = [state EXCEPT ![g] = "canceling"]
  /\ UNCHANGED command

Started(g) ==
  /\ g \in Allowed /\ Open(g) /\ command[g] = "none"
  /\ command' = [command EXCEPT ![g] = "running"]
  /\ UNCHANGED state

CommandDone(g) ==
  /\ command[g] = "running"
  /\ command' = [command EXCEPT ![g] = "true"]
  /\ UNCHANGED state

(* One command fails, or a stop ends several.                              *)
CommandsLost(G) ==
  /\ command' = [g \in Goal |-> IF g \in G THEN "false" ELSE command[g]]
  /\ UNCHANGED state

(* A goal without a command succeeds only if it could have had one, and is *)
(* aborted only if it could not.                                           *)
Reported(g) ==
  /\ Open(g)
  /\ \/ /\ command[g] = "true" \/ (command[g] = "none" /\ g \in Allowed)
        /\ state' = [state EXCEPT ![g] = "succeeded"]
     \/ /\ command[g] = "false" \/ (command[g] = "none" /\ g \notin Allowed)
        /\ state' = [state EXCEPT ![g] = "aborted"]
     \/ /\ state[g] = "canceling" /\ command[g] \in {"true", "false"}
        /\ state' = [state EXCEPT ![g] = "canceled"]
  /\ UNCHANGED command

Next ==
  \/ \E g \in Goal : Accepted(g) \/ CancelAccepted(g) \/ Started(g) \/ CommandDone(g) \/ Reported(g)
  \/ \E G \in SUBSET Running : CommandsLost(G)

Spec == Init /\ [][Next]_reportVars
=============================================================================
