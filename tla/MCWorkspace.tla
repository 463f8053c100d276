---------------------------- MODULE MCWorkspace ----------------------------
(* Instances of Workspace for TLC. *)
EXTENDS Workspace, TLC

CONSTANTS s1, r1, j1, t1, t2

\* A session, a relay and a jump; a relay alone; a session alone.
MCKind == s1 :> "session" @@ r1 :> "relay" @@ j1 :> "jump"
MCKindRelay == r1 :> "relay"
MCKindSession == s1 :> "session"

\* Two processes, and fewer channels than the client opens; or one process for
\* the transport and the jump.
MCLimit == [chan |-> 3, acct |-> 2, proc |-> 2]
MCLimitTight == [chan |-> 3, acct |-> 3, proc |-> 1]
============================================================================
