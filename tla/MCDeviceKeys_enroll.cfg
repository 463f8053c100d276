\* One login and one console among admins, two users, one key.
CONSTANTS
  a1 = a1
  a2 = a2
  k1 = k1
  k2 = k2
  u1 = u1
  u2 = u2
  t1 = t1
  t2 = t2
  l1 = l1
  l2 = l2
  c1 = c1
  c2 = c2
  None = None
  Accounts = {a1, a2}
  Keys = {k1}
  Users = {u1, u2}
  Tokens = {t1, t2}
  Owner <- MCOwner
  Logins = {l1}
  Consoles = {c1}
  MaxAttempts = 2
  MaxGen = 1
  MaxIds = 2
SPECIFICATION Spec
SYMMETRY MCSymmetry
INVARIANTS
  GuessesBounded
PROPERTIES
  EnrolledKeyIsOwned
CHECK_DEADLOCK FALSE
