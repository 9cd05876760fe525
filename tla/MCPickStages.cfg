\* When the last cube has gone and every detection is answered, nothing is left to do.
SPECIFICATION Spec
CONSTANTS
  N = 3
  MaxFaults = 3
INVARIANTS
  NoForbiddenContact
  SuccessRestores
PROPERTIES
  ImplementsCubeTransport
  TableIsEmptied
CHECK_DEADLOCK FALSE
