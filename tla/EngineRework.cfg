SPECIFICATION Spec
CONSTANTS
  State <- ReworkStates
  NoState = "none"
  Cancelled = "cancelled"
  EntryState = "implementing"
  Graph <- Rework
  RetryCap <- OneRework
  DryRuns = {FALSE}
  MaxFaults = 0
INVARIANT CapEndsLoop
