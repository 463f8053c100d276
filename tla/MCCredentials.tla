--------------------------- MODULE MCCredentials ---------------------------
(* Instances of Credentials for TLC. *)
EXTENDS Credentials, TLC

CONSTANTS c1, c2, u1, u2, t1, t2, t3

\* t1 and t2 are tokens of one user, t3 of another.
MCOwner == t1 :> u1 @@ t2 :> u1 @@ t3 :> u2

\* The account binds on its first token: once it has, it is a bound one.
MCInit == Init /\ acct.bind
MCSpec == MCInit /\ [][Next]_vars /\ Fairness
============================================================================
