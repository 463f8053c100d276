------------------------------ MODULE MCServer ------------------------------
(* Instances of Server for TLC. *)
EXTENDS Server, TLC

CONSTANTS c1, c2, i1, k1, ac1

\* Both connections come from one address with one key.
MCPeerIP == c1 :> i1 @@ c2 :> i1
MCKeyOf == c1 :> k1 @@ c2 :> k1
MCAccountOf == c1 :> ac1 @@ c2 :> ac1

\* One handshake at a time, and one connection per account.
MCLimit == [global |-> 2, ip |-> 2, handshake |-> 1, key |-> 2, account |-> 1]
=============================================================================
