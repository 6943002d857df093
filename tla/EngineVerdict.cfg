SPECIFICATION Spec
CONSTANTS
  State <- PipelineStates
  NoState = "none"
  Cancelled = "cancelled"
  EntryState = "intake"
  Graph <- Pipeline
  RetryCap <- OneRound
  DryRuns = {FALSE}
  MaxFaults = 0
INVARIANT VerdictIsFresh
