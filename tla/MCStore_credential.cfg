\* One account, two tokens of one user, two sessions of one process: stale snapshots.
CONSTANTS
  a1 = a1
  a2 = a2
  k1 = k1
  u1 = u1
  u2 = u2
  t1 = t1
  t2 = t2
  t3 = t3
  p1 = p1
  p2 = p2
  s1 = s1
  s2 = s2
  None = None
  Accounts = {a1}
  Keys = {k1}
  Users = {u1}
  Tokens = {t1, t2}
  Owner <- MCOwnerSame
  Procs = {p1}
  Sessions = {s1, s2}
  Home <- MCHomeOne
  Faults = {"crash"}
  MaxGen = 3
SPECIFICATION Spec
INVARIANTS
  RecordsValid
  InvalidIsJustified
