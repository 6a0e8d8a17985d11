\* Three rows, two overlapping jobs, batches of two, two attempts, one fault.
\* The system stops when every row is settled or stranded.
SPECIFICATION Spec
CONSTANTS
  Entry <- MCEntry
  Blocks <- MCBlocks
  Worker = {w1, w2}
  NoEntry = NoEntry
  MaxDeliveryAttempts = 2
  BatchSize = 2
  MaxFaults = 1
INVARIANTS
  TypeOK
  ExclusiveClaim
  DuplicateNeedsLostAnswer
  HonestVerdict
PROPERTIES
  SettledUnlessStranded
CHECK_DEADLOCK FALSE
