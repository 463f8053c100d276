--------------------------- MODULE MCDeviceKeys ---------------------------
(* An instance of DeviceKeys for TLC. *)
EXTENDS DeviceKeys, TLC

CONSTANTS a1, a2, k1, k2, u1, u2, t1, t2, l1, l2, c1, c2

MCOwner == t1 :> u1 @@ t2 :> u2
MCOwnerOne == t1 :> u1

\* Accounts and logins are interchangeable, and so are keys and consoles.
MCSymmetry == Permutations(Accounts) \cup Permutations(Logins)
MCConsoleSymmetry == Permutations(Keys) \cup Permutations(Consoles)
===========================================================================
