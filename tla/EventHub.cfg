SPECIFICATION FairSpec
CONSTANTS
  Sub = {s1, s2}
  Pane = {p}
  Status = {working, done}
  Poller = {g1, g2}
  Buffer = 1
  None = none
INVARIANTS TypeOK OnePoller NothingIsLost EventsAreChanges OldListsAreLast
PROPERTY StatusArrives
