--------------------------- MODULE OneMotionMode ---------------------------
(***************************************************************************)
(* What the robot hardware promises a careful operator: it is in at most   *)
(* one motion mode, enters a mode only when it is in none, and every       *)
(* command it sends is the command of its mode, sent as such.              *)
(***************************************************************************)
CONSTANT Motion

VARIABLES
  mode,      \* the engaged mode: a set of at most one
  command    \* the last command sent, <<vector, sent as>>, or none

modeVars == <<mode, command>>

Init == mode = {} /\ command = {}

Engage(m) == mode = {} /\ mode' = {m} /\ UNCHANGED command
Release == mode # {} /\ mode' = {} /\ UNCHANGED command
Send(m) == m \in mode /\ command' = {<<m, m>>} /\ UNCHANGED mode
Silence == command' = {} /\ UNCHANGED mode

Next == Release \/ Silence \/ \E m \in Motion : Engage(m) \/ Send(m)

Spec == Init /\ [][Next]_modeVars
=============================================================================
