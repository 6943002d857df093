SPECIFICATION FairSpec
CONSTANTS
  Issue = {i1, i2}
  Worker = {w1}
  QueueDepth = 2
  NoIssue = NoIssue
PROPERTIES OpenWorkIsDriven DriveAlwaysEnds QueuedEnqueueIsDriven ShutdownCompletes
