-------------------------- MODULE MCGazeboControl --------------------------
(***************************************************************************)
(* Small instances of GazeboControl: an arm joint, a finger and a finger   *)
(* that mimics it, with four controllers over them.                        *)
(***************************************************************************)
EXTENDS GazeboControl

MCJoints == {"arm", "finger", "twin"}
MCCommandTypes == [arm |-> Type, finger |-> {"position", "effort"}, twin |-> {"position"}]
MCMimicOf == [j \in {"twin"} |-> "finger"]

PositionFirst == [j \in MCJoints |-> <<"position", "velocity", "effort">>]
VelocityFirst == [j \in MCJoints |-> <<"velocity", "position">>]

MCControllers == {"path", "servo", "torque", "grip"}
MCClaims ==
  [path   |-> {<<"arm", "position">>, <<"finger", "position">>},
   servo  |-> {<<"arm", "velocity">>},
   torque |-> {<<"arm", "effort">>, <<"finger", "effort">>},
   grip   |-> {<<"finger", "position">>, <<"twin", "position">>}]

ArmControllers == {"path", "servo", "torque"}
ArmClaims == [c \in ArmControllers |-> MCClaims[c]]
=============================================================================
