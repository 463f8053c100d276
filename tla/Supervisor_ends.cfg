\* Every ending of a tunnel, copy loops that fail included.
CONSTANTS
  StreamErrors = TRUE
SPECIFICATION FairSpec
INVARIANTS
  NothingOutlives
  NoOutputLost
  StartedIsNotTimedOut
PROPERTIES
  InputEndEnds
  CancelEnds
  SilentStartEnds
