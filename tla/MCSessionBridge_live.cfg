\* One session: early requests, replay, live requests, every way to end.
CONSTANTS
  Requests <- MCRequests
  MaxRequests = 3
  MaxOutput = 2
SPECIFICATION Spec
INVARIANTS
  AckedIsApplied
  StatusIsTruthful
  NoMuteEnd
PROPERTIES
  SessionUnwinds
  ExitReachesClient
CHECK_DEADLOCK FALSE
