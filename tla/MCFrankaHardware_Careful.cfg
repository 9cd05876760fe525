\* One motion type at a time.
SPECIFICATION CarefulSpec
CONSTANTS
  Requests <- CompleteRequests
  Exported <- Interface
INVARIANTS
  WritesMatch
PROPERTIES
  ImplementsOneMotionMode
