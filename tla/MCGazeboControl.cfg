\* Any client; position comes first among the state interfaces.
SPECIFICATION Spec
CONSTANTS
  Joints <- MCJoints
  InGazebo <- MCJoints
  CommandTypes <- MCCommandTypes
  StateTypes <- PositionFirst
  MimicOf <- MCMimicOf
  NoOne = "nobody"
  Controllers <- ArmControllers
  Claims <- ArmClaims
  Period = 2
INVARIANTS
  BitsAreHeld
  CommandedEveryStep
  ReleasedStandStill
PROPERTIES
  SwitchIsPerformed
