SPECIFICATION Spec
CONSTANTS
  Issue = {i1}
  Worker = {w1}
  QueueDepth = 1
  NoIssue = NoIssue
INVARIANT CancelSettles
