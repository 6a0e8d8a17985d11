\* Two workflows of a thread, two clicks, no plan or one of one or two tasks that
\* a retry may make anew, jobs of two attempts, two faults.  The system stops
\* when nobody clicks any more.
SPECIFICATION Spec
CONSTANTS
  Workflow = {a, b}
  Other = b
  Click = {1, 2}
  NoWorkflow = NoWorkflow
  PlanSizes = {0, 1, 2}
  JobMaxAttempts = 2
  MaxFaults = 2
CONSTRAINT MCBound
INVARIANTS
  TypeOK
  OneQuestionAtATime
  RunsOnlyWhenApproved
PROPERTIES
  CompletedIsFinal
  ApprovedIsAnswered
CHECK_DEADLOCK FALSE
