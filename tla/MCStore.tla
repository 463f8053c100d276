------------------------------ MODULE MCStore ------------------------------
(* Instances of Store for TLC. *)
EXTENDS Store, TLC

CONSTANTS a1, a2, k1, u1, u2, t1, t2, t3, p1, p2, s1, s2

\* t1 and t2 are tokens of one user, t3 of another.
MCOwnerOne == t1 :> u1
MCOwnerSame == t1 :> u1 @@ t2 :> u1
MCOwnerOther == t1 :> u1 @@ t3 :> u2

MCHomeOne == s1 :> p1 @@ s2 :> p1
MCHomeSingle == s1 :> p1
MCHomeTwo == s1 :> p1 @@ s2 :> p2

\* Accounts are interchangeable.
MCSymmetry == Permutations({a1, a2})
============================================================================
