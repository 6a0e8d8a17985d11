\* Three events, one delivered twice: a mention, the same post as a message of
\* the channel, and a reply in the thread; a workflow of the API; one failure or
\* crash.  The system stops when nothing is left to deliver or to run.
SPECIFICATION Spec
CONSTANTS
  Flow = {f1, f2}
  Thread = {"t"}
  NoThread = NoThread
  Job = {j1, j2, j3}
  JobMaxAttempts = 2
  MaxFaults = 1
  Event = {"mention", "post", "reply"}
  Envelope <- MCEnvelope
  NoConfig = NoConfig
  Modes = {"all_messages"}
  AddTurnTries = 2
  MaxRepeats = 1
  MaxWaits = 1
  MaxApi = 1
  MaxChanges = 1
SYMMETRY Symmetric
INVARIANTS
  TypeOK
  SaidIsRemembered
  RepeatsAreExplained
  OneFlowPerEvent
  NoMessageDropped
  SpeaksWhereInvited
  TurnsAreKept
CHECK_DEADLOCK FALSE
