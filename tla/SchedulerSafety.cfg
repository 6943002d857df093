SPECIFICATION Spec
CONSTANTS
  Issue = {i1, i2, i3}
  Worker = {w1, w2}
  QueueDepth = 1
  NoIssue = NoIssue
SYMMETRY IssuesAndWorkers
INVARIANTS TypeOK ExclusiveClaim ClaimAccounting DriveIsDue
PROPERTY ImplementsLease
