SPECIFICATION Spec
CONSTANTS
  MaxSpawns = 2
  MaxTries = 2
  MaxFaults = 1
  StateTimeout = 3
  BlockedTimeout = 2
  NoProgress = 1
  MaxEvents = 1
  Off = Off
INVARIANTS TypeOK OneWorkspacePerLabel WorktreeCanBeAdded AwaitedAgentWasAsked BlockedIsBounded SilenceIsBounded
PROPERTIES KickoffIsHonest SuspectIsStill TimeoutOutlivesRestarts ParkedIsNotDone
CHECK_DEADLOCK FALSE
