\* mtc.cpp:58: "cube tracking disabled" while the pipeline executes.
SPECIFICATION Spec
CONSTANTS
  Pose <- MCPose
  TablePose <- MCTablePose
  DefaultPose = "origin"
  Color <- MCColor
  NoColor = ""
  Bin <- MCBin
  bin_poses <- MCBinPoses
  DefaultColor = "black"
  Messages <- MCMessages
PROPERTY
  TrackingDisabled
