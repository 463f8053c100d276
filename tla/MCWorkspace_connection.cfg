\* A session, a relay, a jump and forward requests of one connection.
CONSTANTS
  s1 = s1
  r1 = r1
  j1 = j1
  t1 = t1
  t2 = t2
  Requests = Requests
  None = None
  Transports = {t1, t2}
  Chans = {s1, r1, j1}
  Kind <- MCKind
  Limit <- MCLimit
SPECIFICATION FairSpec
INVARIANTS
  ChildrenBounded
  OneTransport
  NoUseAfterClose
PROPERTIES
  CancelledUnwinds
