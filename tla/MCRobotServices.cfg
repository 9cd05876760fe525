\* The interface may stay up with nothing to do, and its destruction ends.
SPECIFICATION Spec
CHECK_DEADLOCK FALSE
CONSTANTS
  Service <- Services
  MaxRequests = 3
  MaxGoals = 2
INVARIANTS
  AliveWhileServing
  AnswersAreTrue
PROPERTIES
  TeardownEnds
  RequestsAreAnswered
