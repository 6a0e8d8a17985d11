\* A mention and two replies in its thread, nothing fails.
\* The system stops when nothing is left to deliver or to run.
SPECIFICATION Spec
CONSTANTS
  Flow = {f1, f2}
  Thread = {"t"}
  NoThread = NoThread
  Job = {j1, j2, j3}
  JobMaxAttempts = 2
  MaxFaults = 0
  Event = {"mention", "reply", "again"}
  Envelope <- MCEnvelope
  NoConfig = NoConfig
  Modes = {"all_messages"}
  AddTurnTries = 2
  MaxRepeats = 0
  MaxWaits = 1
  MaxApi = 0
  MaxChanges = 0
SYMMETRY Symmetric
INVARIANTS
  AwayUntilMentioned
CHECK_DEADLOCK FALSE
