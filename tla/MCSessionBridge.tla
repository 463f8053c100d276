-------------------------- MODULE MCSessionBridge --------------------------
(* An instance of SessionBridge for TLC. *)
EXTENDS SessionBridge

\* One request of each kind the decisions tell apart, one of them malformed.
MCRequests ==
    [type: {"env", "shell", "subsystem", "window-change", "signal"}, valid: {TRUE}]
        \cup {[type |-> "env", valid |-> FALSE]}
============================================================================
