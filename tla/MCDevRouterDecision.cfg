\* Invocations that follow each other, two issues, plans of one or two stories,
\* two faults.
SPECIFICATION Spec
CONSTANTS
  Issue = {i1, i2}
  Runner = {r1}
  MaxPipelines = 2
  NoPipeline = NoPipeline
  MaxStories = 2
  MaxFaults = 2
  MaxCounted = 5
PROPERTIES
  IssueComesToDecision
