\* Two invocations that overlap, two issues, plans of up to three stories, two
\* faults; not explored beyond a meeting of both invocations on one issue.
SPECIFICATION Spec
CONSTANTS
  Issue = {i1, i2}
  Runner = {r1, r2}
  MaxPipelines = 2
  NoPipeline = NoPipeline
  MaxStories = 3
  MaxFaults = 2
  MaxCounted = 6
SYMMETRY MCSymmetry
CONSTRAINT MCUncontended
INVARIANTS
  TypeOK
  OnePipelinePerIssue
  ApprovedIsChecked
