SPECIFICATION Spec
CONSTANTS
  Name = {"implementing", "review", "merging", "end", "ghost"}
  Workflows <- AllWorkflows
  None = "none"
  MinDeadline = 2
  Cancelled = "cancelled"
  Goal = "merged"
  DefaultStart = "queued"
  Implementing = "implementing"
INVARIANT MergeIsGateOnly
CHECK_DEADLOCK FALSE
