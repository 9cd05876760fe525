\* Safety, refinement and liveness of the pick-and-place node.
SPECIFICATION Spec
CONSTANTS
  Pose <- MCPose
  TablePose <- MCTablePose
  DefaultPose = "origin"
  Color <- MCColor
  NoColor = ""
  Bin <- MCBin
  bin_poses <- MCBinPoses
  DefaultColor = "black"
  Messages <- MCMessages
INVARIANTS
  GoalOnTable
  AtMostOneLateStore
  AtMostTwoRuns
  PlacedByItsColor
PROPERTIES
  ImplementsPickJobs
  ImplementsPickCycle
  FlagIsAnswered
  ProcessEnds
