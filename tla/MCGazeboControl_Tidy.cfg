\* One controller and one interface for each joint; velocity comes first.
SPECIFICATION TidySpec
CONSTANTS
  Joints <- MCJoints
  InGazebo <- MCJoints
  CommandTypes <- MCCommandTypes
  StateTypes <- VelocityFirst
  MimicOf <- MCMimicOf
  NoOne = "nobody"
  Controllers <- MCControllers
  Claims <- MCClaims
  Period = 2
INVARIANTS
  HolderCommands
  MimicsFollow
