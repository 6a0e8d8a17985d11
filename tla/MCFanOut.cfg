\* Up to three tasks, jobs of two attempts, two faults; what MCBound leaves out
\* is a plan made again together with execute jobs that are repeated.  The
\* system stops when no job is left.
SPECIFICATION Spec
CONSTANTS
  MaxTasks = 3
  JobMaxAttempts = 2
  ExecuteMaxAttempts = 2
  MaxFaults = 2
CONSTRAINT MCBound
INVARIANTS
  TypeOK
  AnswersExplained
  JoinIsExact
PROPERTIES
  AnsweredUnlessLapsed
  ImplementsFanIn
CHECK_DEADLOCK FALSE
