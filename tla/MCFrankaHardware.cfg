\* Any controller manager.
SPECIFICATION Spec
CONSTANTS
  Requests <- AllowedRequests
  Exported <- OneJointType
INVARIANTS
  FlagsFollowControl
  ControlIsRunning
  ElbowNeedsCartesian
  ClaimsFollowOwners
PROPERTIES
  NoStaleTarget
