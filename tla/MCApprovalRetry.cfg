\* One workflow and one lost attempt: the plan job is retried after its pause.
SPECIFICATION Spec
CONSTANTS
  Workflow = {a}
  Other = a
  Click = {1, 2}
  NoWorkflow = NoWorkflow
  PlanSizes = {1, 2}
  JobMaxAttempts = 2
  MaxFaults = 1
PROPERTIES
  RetryIsSafe
CHECK_DEADLOCK FALSE
