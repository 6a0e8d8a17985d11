\* Two jobs of one attempt each, two calls at most; one expiry or restart of
\* the server, one lost answer or restart of the bot, one change of the
\* channel's configuration.  The system stops when the attempts are used up.
SPECIFICATION Spec
CONSTANTS
  Caller = {c1, c2}
  Nobody = Nobody
  NoConfig = NoConfig
  Modes = {"all_messages"}
  Withheld = {1}
  MaxIterations = 2
  MaxBlocks = 1
  MaxAttempts = 1
  MaxOutages = 1
  MaxFaults = 1
  MaxChanges = 1
INVARIANTS
  TypeOK
  CallsRecover
  CommandKeepsConfig
PROPERTIES
  AttemptsEnd
CHECK_DEADLOCK FALSE
