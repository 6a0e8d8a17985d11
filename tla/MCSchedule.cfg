\* Two schedules of a channel with a quota of one, two creators, a tick that
\* takes one schedule at a time, two jobs of two attempts, one fault.
SPECIFICATION Spec
CONSTANTS
  Message <- MCMessage
  Cron <- MCCron
  Creator = {c1, c2}
  Tick = {t1}
  Job = {j1, j2}
  maxSchedulesPerChannel = 1
  Limit = 1
  MaxAttempts = 2
  MaxTime = 2
  MaxFaults = 1
  NoOccurrence = NoOccurrence
CONSTRAINT MCBound
INVARIANTS
  TypeOK
  QuotaHolds
  TwiceIsExplained
PROPERTIES
  DueIsPosted
CHECK_DEADLOCK FALSE
