\* Any environment: the description may be anything, its node may come and go, ROS may be shut down.
SPECIFICATION Spec
INVARIANTS
  UnloadIsSafe
PROPERTIES
  UnloadEnds
  ConfigureEnds
