\* Any clients.
SPECIFICATION Spec
CONSTANTS
  Goal <- MCGoal
  Task <- MCTask
  Target <- MCTarget
  Epsilon = 1
  MaxWidth = 2
INVARIANTS
  ReportedIsOver
  ReportsMatch
PROPERTIES
  ThreadsEnd
  ImplementsGoalReports
