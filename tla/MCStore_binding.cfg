\* Two accounts, two users: bindings, keys and the cascade, one process.
CONSTANTS
  a1 = a1
  a2 = a2
  u1 = u1
  u2 = u2
  t1 = t1
  t2 = t2
  t3 = t3
  p1 = p1
  p2 = p2
  s1 = s1
  s2 = s2
  None = None
  k1 = k1
  Accounts = {a1, a2}
  Keys = {k1}
  Users = {u1, u2}
  Tokens = {t1, t3}
  Owner <- MCOwnerOther
  Procs = {p1}
  Sessions = {s1}
  Home <- MCHomeSingle
  Faults = {"crash", "io"}
  MaxGen = 2
SPECIFICATION Spec
SYMMETRY MCSymmetry
INVARIANTS
  TypeOK
  UniqueBinding
  CredentialMatchesBinding
  NoKeyAuthenticatesWiped
PROPERTIES
  ImplementsDirectory
