SPECIFICATION FairSpec
CONSTANTS
  State <- PipelineStates
  NoState = "none"
  Cancelled = "cancelled"
  EntryState = "intake"
  Graph <- Pipeline
  RetryCap <- OneRound
  DryRuns = {FALSE}
  MaxFaults = 1
PROPERTY EveryTaskSettles
