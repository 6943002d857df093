SPECIFICATION Spec
CONSTANTS
  Name = {"implementing", "review", "merging", "end", "ghost"}
  Workflows <- AllWorkflows
  None = "none"
  MinDeadline = 2
  Cancelled = "cancelled"
  Goal = "merged"
  DefaultStart = "queued"
  Implementing = "implementing"
INVARIANTS RunTypeOK SearchesAreRight LoopsMeetABound DeadlineIsBackstop TaskIsSomewhere NoMergeWithoutGates
CHECK_DEADLOCK FALSE
