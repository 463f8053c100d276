\* A credential that channel opens refuse, at the next authentication.
CONSTANTS
  c1 = c1
  c2 = c2
  u1 = u1
  u2 = u2
  t1 = t1
  t2 = t2
  t3 = t3
  None = None
  Conns = {c1, c2}
  Users = {u1, u2}
  Tokens = {t1, t2, t3}
  Owner <- MCOwner
  Revocable = {t1}
  MaxAttempts = 1
  MaxGen = 2
  Overlap = FALSE
SPECIFICATION MCSpec
PROPERTY InvalidIsRenewed
CHECK_DEADLOCK FALSE
