SPECIFICATION Spec
CONSTANTS
  State <- PipelineStates
  NoState = "none"
  Cancelled = "cancelled"
  EntryState = "intake"
  Graph <- Pipeline
  RetryCap <- OneRound
  DryRuns = {TRUE, FALSE}
  MaxFaults = 2
INVARIANTS TypeOK MergeIsGated MergedIsTrue RoundsAreCounted LiveAgentIsKept OldVerdictIsDead
PROPERTIES RowLivesByWorkflow StoppedWorkIsKept
