\* Two cubes, two spots, queues of one.
SPECIFICATION Spec
CONSTANTS
  Spot <- MCSpot
  Color <- MCColor
  Rank <- MCRank
  Empty = "empty"
  Arm = "arm"
  QueueSize = 1
  Cube <- MCCube
  Shown <- MCShown
  Hides <- MCHides
  FirstCubes <- MCFirstCubes
  MaxPlacings = 2
  Bin <- MCBin
  BinOfColor <- MCBinOfColor
PROPERTIES
  CubesSorted
  SortingEnds
