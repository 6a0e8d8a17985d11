\* One fault: the answer of Slack to a post is lost and the job is repeated.
SPECIFICATION Spec
CONSTANTS
  Message <- MCMessage
  Cron <- MCCron
  Creator = {c1}
  Tick = {t1}
  Job = {j1, j2}
  maxSchedulesPerChannel = 1
  Limit = 1
  MaxAttempts = 2
  MaxTime = 1
  MaxFaults = 1
  NoOccurrence = NoOccurrence
INVARIANT NoDoubleSend
CHECK_DEADLOCK FALSE
