\* Two consoles of one account and an admin: records that come and go under a key.
CONSTANTS
  a1 = a1
  a2 = a2
  k1 = k1
  k2 = k2
  u1 = u1
  u2 = u2
  t1 = t1
  t2 = t2
  l1 = l1
  l2 = l2
  c1 = c1
  c2 = c2
  None = None
  Accounts = {a1}
  Keys = {k1, k2}
  Users = {u1}
  Tokens = {t1}
  Owner <- MCOwnerOne
  Logins = {}
  Consoles = {c1, c2}
  MaxAttempts = 2
  MaxGen = 1
  MaxIds = 3
SPECIFICATION Spec
SYMMETRY MCConsoleSymmetry
PROPERTY ConsoleRemovesWhatWasShown
CHECK_DEADLOCK FALSE
