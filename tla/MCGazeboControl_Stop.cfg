\* The bits a stop clears.
SPECIFICATION Spec
CONSTANTS
  Joints <- MCJoints
  InGazebo <- MCJoints
  CommandTypes <- MCCommandTypes
  StateTypes <- PositionFirst
  MimicOf <- MCMimicOf
  NoOne = "nobody"
  Controllers <- ArmControllers
  Claims <- ArmClaims
  Period = 2
PROPERTIES
  HeldBitsStay
