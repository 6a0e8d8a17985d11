\* Two issues, two passes that may overlap, four job rows, one person's act and
\* one fault: the board's limit, the chain of phases of a task, the gate and the money.
SPECIFICATION Spec
CONSTANTS
  Issue = {"i1", "i2"}
  Label <- MCLabel
  Tags <- MCTags
  Rules <- MCRules
  Phases <- MCPhases
  NoWorkflow = NoWorkflow
  Pass = {p1, p2}
  Job = {j1, j2, j3, j4}
  NoJob = NoJob
  MaxActiveTasks = 1
  MaxAttempts = 2
  PerRun = 1
  PerDay = 1
  PerTask = 3
  Cost = {1}
  MaxPasses = 2
  Watched = {"i1"}
  MaxHuman = 1
  MaxFaults = 1
SYMMETRY Symmetric
INVARIANTS
  TypeOK
  ActiveTasksBounded
  OneChainPerIssue
  NoTaskLost
  PeopleDecide
  SpendingBounded
CHECK_DEADLOCK FALSE
