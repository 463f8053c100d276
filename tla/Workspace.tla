----------------------------- MODULE Workspace -----------------------------
(***************************************************************************)
(* One workspace connection (internal/server: dispatchWorkspaceChannels,   *)
(* the admission of its channels, the global requests and the lazily       *)
(* created transport they share; internal/tunnel: SessionTransport).       *)
(*                                                                         *)
(* Every channel has a handler goroutine, every session also a goroutine   *)
(* that binds the transport, the connection one more for global requests.  *)
(* All of them may create the transport, under workspaceContext.mu, which  *)
(* the creator keeps while the child starts.  Who needs the transport is   *)
(* an actor: the channel's name for its handler or its bind goroutine,     *)
(* `Requests' for the global requests.                                     *)
(*                                                                         *)
(* External: the client, the workspace behind the child, and the verdict   *)
(* on the credential (Store and the control plane).  A jump tunnel is      *)
(* module Supervisor's business: here it holds its slots until it ends.    *)
(***************************************************************************)
EXTENDS Naturals, FiniteSets

CONSTANTS
    Chans,          \* channels the client opens
    Kind,           \* Kind[c]: "session", "relay" or "jump"
    Transports,     \* transports that may exist at a time
    Limit,          \* Limit[kind]: channels_per_connection, channels_per_account
                    \* and coder_processes
    Requests,       \* the goroutine of the global requests
    None

Slots == {"chan", "acct", "proc"}

ASSUME WorkspaceAssumption ==
    /\ IsFiniteSet(Chans) /\ IsFiniteSet(Transports)
    /\ Kind \in [Chans -> {"session", "relay", "jump"}]
    /\ Limit \in [Slots -> Nat]
    /\ Requests \notin Chans
    /\ None \notin Chans \cup Transports \cup {Requests}

VARIABLES
    conn,       \* the outer connection: "open" or "closed"
    ctx,        \* the connection context is cancelled
    pc,         \* pc[c]: the handler of channel c
    held,       \* held[c]: the slots it holds
    ended,      \* ended[c]: the directions of a bridged channel that ended
    bind,       \* bind[c]: the goroutine that binds session c
    req,        \* the goroutine of the global requests
    mu,         \* who holds workspaceContext.mu
    tr,         \* workspaceContext.tr
    state,      \* state[t]: a transport and its child
    charged,    \* transports whose child is charged to coder_processes
    dispatch,   \* dispatchWorkspaceChannels
    closing     \* the transport workspaceContext.close is closing

outer == <<conn, ctx>>
handlers == <<pc, held, ended, bind, req>>
shared == <<mu, tr, state, charged>>
vars == <<outer, handlers, shared, dispatch, closing>>

Actors == Chans \cup {Requests}

\* The child of a transport is running.
Live == {t \in Transports : state[t] \in {"starting", "up"}}

\* Slots of a kind in use: those of the handlers and those of the transports.
InUse(kind) ==
    Cardinality({c \in Chans : kind \in held[c]})
        + (IF kind = "proc" THEN Cardinality(charged) ELSE 0)

Init ==
    /\ conn = "open" /\ ctx = FALSE
    /\ pc = [c \in Chans |-> "idle"]
    /\ held = [c \in Chans |-> {}]
    /\ ended = [c \in Chans |-> {}]
    /\ bind = [c \in Chans |-> "none"]
    /\ req = "idle"
    /\ mu = None /\ tr = None
    /\ state = [t \in Transports |-> "none"]
    /\ charged = {}
    /\ dispatch = "loop"
    /\ closing = None

Goto(c, stage) == pc' = [pc EXCEPT ![c] = stage]

\* ConnState.Close: the context is cancelled and the socket closed.
CloseConn ==
    /\ conn' = "closed"
    /\ ctx' = TRUE

-----------------------------------------------------------------------------
(* The client, the workspace and the shutdown *)

ClientCloses ==
    /\ conn = "open"
    /\ conn' = "closed"
    /\ UNCHANGED <<ctx, handlers, shared, dispatch, closing>>

\* closeAllConns
Shutdown ==
    /\ dispatch # "done"
    /\ ~ctx
    /\ CloseConn
    /\ UNCHANGED <<handlers, shared, dispatch, closing>>

ChildExits(t) ==
    /\ state[t] = "up"
    /\ state' = [state EXCEPT ![t] = "dead"]
    /\ UNCHANGED <<outer, handlers, mu, tr, charged, dispatch, closing>>

-----------------------------------------------------------------------------
\* Mutants of what follows: a lock holder that does not look at w.tr, a child
\* that is not charged, a dispatcher that does not wait for its handlers, a
\* pending session that goes round again on a closed request channel.
NeverBound == FALSE
Uncharged(t) == charged
WaitForNobody == TRUE
RoundAgain(c) ==
    {stage \in {"bridge", "pending"} :
        \/ stage = "bridge" /\ bind[c] = "got"
        \/ stage = "pending" /\ conn = "closed"}

(* Admission *)

\* A channel of a supported type gets its handler; opens that were received
\* before the end of the connection are still handed out.
OpenChannel(c) ==
    /\ dispatch = "loop"
    /\ pc[c] = "idle"
    /\ Goto(c, "chan")
    /\ UNCHANGED <<outer, held, ended, bind, req, shared, dispatch, closing>>

Room(kind) == InUse(kind) < Limit[kind]

\* The semaphores in their order.  A relay and a session need no process of
\* their own; what was taken is given back when the handler returns.
NextStage(c) ==
    CASE pc[c] = "chan" -> "acct"
      [] pc[c] = "acct" /\ Kind[c] = "jump" -> "proc"
      [] pc[c] = "acct" /\ Kind[c] = "relay" -> "lock"
      [] OTHER -> "load"

TakeSlot(c) ==
    /\ pc[c] \in Slots
    /\ IF Room(pc[c])
       THEN held' = [held EXCEPT ![c] = @ \cup {pc[c]}] /\ Goto(c, NextStage(c))
       ELSE UNCHANGED held /\ Goto(c, "end")
    /\ UNCHANGED <<outer, ended, bind, req, shared, dispatch, closing>>

\* LoadCredential and, when the validation is old, VerifyCached: fine; or the
\* store or the control plane is unavailable; or the credential is missing,
\* invalid or refused, which closes the whole connection.
AdmitCredential(c) ==
    /\ pc[c] = "load"
    /\ \/ Goto(c, "accept") /\ UNCHANGED outer
       \/ Goto(c, "end") /\ UNCHANGED outer
       \/ Goto(c, "end") /\ CloseConn
    /\ UNCHANGED <<held, ended, bind, req, shared, dispatch, closing>>

\* A session is accepted and waits for its transport, which a goroutine of its
\* own binds; a jump starts its tunnel.  Accept fails on a closed connection.
AcceptChannel(c) ==
    /\ pc[c] = "accept"
    /\ Goto(c, CASE conn = "closed" -> "end"
                 [] conn = "open" /\ Kind[c] = "session" -> "pending"
                 [] OTHER -> "tunnel")
    /\ bind' = [bind EXCEPT ![c] = IF conn = "open" /\ Kind[c] = "session"
                                   THEN "lock" ELSE @]
    /\ UNCHANGED <<outer, held, ended, req, shared, dispatch, closing>>

-----------------------------------------------------------------------------
(* The transport *)

\* Actor a waits for workspaceContext.mu.
Waiting(a) ==
    IF a = Requests THEN req = "lock"
    ELSE bind[a] = "lock" \/ pc[a] = "lock"

\* What becomes of an actor that has the transport, and of one that has not.
\* A relay that failed for want of a process or of a start closes the whole
\* connection: rejectTransportFailure takes every transportError it does not
\* name for an invalid credential, and no credentialValidationError for one.
Got(a) ==
    /\ req' = IF a = Requests THEN "relay" ELSE req
    /\ bind' = [c \in Chans |-> IF c = a /\ Kind[c] = "session" THEN "got" ELSE bind[c]]
    /\ pc' = [c \in Chans |-> IF c = a /\ Kind[c] = "relay" THEN "bridge" ELSE pc[c]]
    /\ UNCHANGED outer

Missed(a, why) ==
    /\ req' = IF a = Requests THEN "idle" ELSE req
    /\ bind' = [c \in Chans |-> IF c = a /\ Kind[c] = "session" THEN "failed" ELSE bind[c]]
    /\ pc' = [c \in Chans |-> IF c = a /\ Kind[c] = "relay" THEN "end" ELSE pc[c]]
    /\ IF a \in Chans /\ Kind[a] = "relay" /\ why \in {"limit", "start"}
       THEN CloseConn ELSE UNCHANGED outer

\* The connection has its transport.
Bound == tr # None

\* transport, bindTransport: under the lock an existing transport is returned.
Reuse(a) ==
    /\ Waiting(a)
    /\ mu = None
    /\ Bound
    /\ Got(a)
    /\ UNCHANGED <<held, ended, shared, dispatch, closing>>

\* loadValidatedCredential fails (a session has validated its own), or there
\* is no slot for another process.
RefuseTransport(a) ==
    /\ Waiting(a)
    /\ mu = None
    /\ ~Bound
    /\ \/ (a \in Chans => Kind[a] = "relay") /\ Missed(a, "credential")
       \/ ~Room("proc") /\ Missed(a, "limit")
    /\ UNCHANGED <<held, ended, shared, dispatch, closing>>

\* The child of t is counted.
Charge(t) == charged \cup {t}

\* createLocked: the process slot is taken and the child launched; the lock is
\* kept during the inner handshake.
StartTransport(a, t) ==
    /\ Waiting(a)
    /\ mu = None
    /\ ~Bound
    /\ Room("proc")
    /\ state[t] = "none"
    /\ mu' = a
    /\ state' = [state EXCEPT ![t] = "starting"]
    /\ charged' = Charge(t)
    /\ UNCHANGED <<outer, handlers, tr, dispatch, closing>>

\* The deferred unlock.
Unlocked == None

\* The inner handshake succeeds; the watchdog may have lost the race although
\* the context is cancelled.
TransportUp(a, t) ==
    /\ mu = a
    /\ state[t] = "starting"
    /\ state' = [state EXCEPT ![t] = "up"]
    /\ tr' = t
    /\ mu' = Unlocked
    /\ Got(a)
    /\ UNCHANGED <<held, ended, charged, dispatch, closing>>

\* It fails, or the startup timer or the cancelled context end it: the child
\* is terminated before the slot is given back.
StartFails(a, t) ==
    /\ mu = a
    /\ state[t] = "starting"
    /\ state' = [state EXCEPT ![t] = "none"]
    /\ charged' = charged \ {t}
    /\ mu' = Unlocked
    /\ Missed(a, "start")
    /\ UNCHANGED <<held, ended, tr, dispatch, closing>>

-----------------------------------------------------------------------------
(* Bridged channels *)

\* BridgePendingSession goes on to the transport when that has come; it ends
\* when the transport failed or there is nobody left to wait for it.
AfterPending(c) ==
    {stage \in {"bridge", "end"} :
        \/ stage = "bridge" /\ bind[c] = "got"
        \/ stage = "end" /\ (bind[c] = "failed" \/ conn = "closed")}

LeavePending(c) ==
    /\ pc[c] = "pending"
    /\ \E stage \in AfterPending(c) : Goto(c, stage)
    /\ UNCHANGED <<outer, held, ended, bind, req, shared, dispatch, closing>>

\* The client closes a pending session and leaves the connection open.
ClientLeaves(c) ==
    /\ pc[c] = "pending"
    /\ Goto(c, "end")
    /\ UNCHANGED <<outer, held, ended, bind, req, shared, dispatch, closing>>

\* The client ends its direction, or the connection is gone.  A session that
\* has not started a shell or a command ends with it.
OuterEnds(c) ==
    /\ pc[c] = "bridge"
    /\ "outer" \notin ended[c]
    /\ \/ UNCHANGED pc
       \/ Kind[c] = "session" /\ Goto(c, "end")
    /\ ended' = [ended EXCEPT ![c] = @ \cup {"outer"}]
    /\ UNCHANGED <<outer, held, bind, req, shared, dispatch, closing>>

\* The workspace ends its direction (a session's exit, a relay's EOF, the
\* answer to a close), or the transport is dead.
InnerEnds(c) ==
    /\ pc[c] = "bridge"
    /\ "inner" \notin ended[c]
    /\ ended' = [ended EXCEPT ![c] = @ \cup {"inner"}]
    /\ UNCHANGED <<outer, pc, held, bind, req, shared, dispatch, closing>>

\* relayChannels waits for both directions; so does a session, which waits in
\* abortSession for the inner side and at its end for the outer one.
BridgeEnds(c) ==
    /\ pc[c] = "bridge"
    /\ ended[c] = {"outer", "inner"}
    /\ Goto(c, "end")
    /\ UNCHANGED <<outer, held, ended, bind, req, shared, dispatch, closing>>

TunnelEnds(c) ==
    /\ pc[c] = "tunnel"
    /\ Goto(c, "end")
    /\ UNCHANGED <<outer, held, ended, bind, req, shared, dispatch, closing>>

\* The handler returns; its deferred calls give back its slots.
HandlerReturns(c) ==
    /\ pc[c] = "end"
    /\ Goto(c, "done")
    /\ held' = [held EXCEPT ![c] = {}]
    /\ UNCHANGED <<outer, ended, bind, req, shared, dispatch, closing>>

-----------------------------------------------------------------------------
(* Global requests: tcpip-forward and cancel-tcpip-forward *)

\* A request uses the transport there is; only tcpip-forward creates one.
RequestArrives ==
    /\ req = "idle"
    /\ req' \in (IF tr # None THEN {"relay"} ELSE {"lock"})
    /\ UNCHANGED <<outer, pc, held, ended, bind, shared, dispatch, closing>>

\* The workspace answers, or the transport is dead.
RequestAnswered ==
    /\ req = "relay"
    /\ req' = "idle"
    /\ UNCHANGED <<outer, pc, held, ended, bind, shared, dispatch, closing>>

\* Requests received before the end of the connection come first.
RequestsEnd ==
    /\ req = "idle"
    /\ conn = "closed"
    /\ req' = "ended"
    /\ UNCHANGED <<outer, pc, held, ended, bind, shared, dispatch, closing>>

-----------------------------------------------------------------------------
(* The end of the connection *)

LoopEnds ==
    /\ dispatch = "loop"
    /\ conn = "closed"
    /\ dispatch' = "wait"
    /\ UNCHANGED <<outer, handlers, shared, closing>>

\* wg.Wait: every handler has returned (bind goroutines are not counted).
HandlersGone == \A c \in Chans : pc[c] \in {"idle", "done"}

WaitEnds ==
    /\ dispatch = "wait"
    /\ HandlersGone
    /\ dispatch' = "close"
    /\ UNCHANGED <<outer, handlers, shared, closing>>

\* workspaceContext.close takes the transport away under the lock ...
DetachTransport ==
    /\ dispatch = "close"
    /\ mu = None
    /\ closing' = tr
    /\ tr' = None
    /\ dispatch' = "closing"
    /\ UNCHANGED <<outer, handlers, mu, state, charged>>

\* ... and terminates its child without it, then gives back the process slot;
\* handleConn returns and cancels the context.
CloseTransport ==
    /\ dispatch = "closing"
    /\ state' = IF closing = None THEN state ELSE [state EXCEPT ![closing] = "none"]
    /\ charged' = charged \ {closing}
    /\ dispatch' = "done"
    /\ closing' = None
    /\ ctx' = TRUE
    /\ conn' = "closed"
    /\ UNCHANGED <<handlers, mu, tr>>

-----------------------------------------------------------------------------
AdmissionStep(c) == TakeSlot(c) \/ AdmitCredential(c) \/ AcceptChannel(c)

\* The lock is free and the actor goes on.
LockStep(a) ==
    \/ Reuse(a)
    \/ RefuseTransport(a)
    \/ \E t \in Transports : StartTransport(a, t)

DispatchStep == LoopEnds \/ WaitEnds \/ DetachTransport \/ CloseTransport

\* Nothing is left to do.
Finished == dispatch = "done" /\ req = "ended" /\ UNCHANGED vars

Next ==
    \/ ClientCloses \/ Shutdown
    \/ \E t \in Transports : ChildExits(t)
    \/ \E c \in Chans :
          \/ OpenChannel(c) \/ AdmissionStep(c) \/ LeavePending(c)
          \/ ClientLeaves(c)
          \/ OuterEnds(c) \/ InnerEnds(c) \/ BridgeEnds(c)
          \/ TunnelEnds(c) \/ HandlerReturns(c)
    \/ \E a \in Actors :
          \/ LockStep(a)
          \/ \E t \in Transports : TransportUp(a, t) \/ StartFails(a, t)
    \/ RequestArrives \/ RequestAnswered \/ RequestsEnd
    \/ DispatchStep
    \/ Finished

Spec == Init /\ [][Next]_vars

\* The transport of the bridged channels is no more.
TransportGone == \A t \in Transports : state[t] # "up"

\* Goroutines that are not blocked run, the mutex is handed on, admissions and
\* starts end (they have time-outs), a cancelled context ends a tunnel
\* (Supervisor), a closed connection ends the client's side of a channel and a
\* dead child the workspace's.  A living workspace owes nothing.
Fairness ==
    /\ \A c \in Chans :
          /\ WF_vars(AdmissionStep(c))
          /\ WF_vars(LeavePending(c))
          /\ WF_vars(conn = "closed" /\ OuterEnds(c))
          /\ WF_vars(TransportGone /\ InnerEnds(c))
          /\ WF_vars(BridgeEnds(c))
          /\ WF_vars(ctx /\ TunnelEnds(c))
          /\ WF_vars(HandlerReturns(c))
    /\ \A a \in Actors :
          /\ SF_vars(LockStep(a))
          /\ WF_vars(\E t \in Transports : StartFails(a, t))
    /\ WF_vars(LoopEnds)
    /\ WF_vars(WaitEnds)
    /\ SF_vars(DetachTransport)
    /\ WF_vars(CloseTransport)

FairSpec == Spec /\ Fairness

-----------------------------------------------------------------------------
(* Properties *)

\* Every variable has its type, and the lock is held while a child starts.
TypeOK ==
    /\ conn \in {"open", "closed"}
    /\ ctx \in BOOLEAN
    /\ pc \in [Chans -> {"idle", "load", "accept", "lock", "pending", "bridge",
                         "tunnel", "end", "done"} \cup Slots]
    /\ held \in [Chans -> SUBSET Slots]
    /\ ended \in [Chans -> SUBSET {"outer", "inner"}]
    /\ bind \in [Chans -> {"none", "lock", "got", "failed"}]
    /\ req \in {"idle", "lock", "relay", "ended"}
    /\ mu \in Actors \cup {None}
    /\ tr \in Transports \cup {None}
    /\ state \in [Transports -> {"none", "starting", "up", "dead"}]
    /\ (mu # None) <=> (\E t \in Transports : state[t] = "starting")
    /\ charged \subseteq Transports
    /\ dispatch \in {"loop", "wait", "close", "closing", "done"}
    /\ closing \in Transports \cup {None}

\* limits.coder_processes: every child that runs, a transport's or a jump
\* tunnel's, is paid for by a slot until it has ended, and there are no more
\* slots than configured.
ChildrenBounded ==
    /\ Cardinality(Live) + Cardinality({c \in Chans : pc[c] = "tunnel"}) <= InUse("proc")
    /\ InUse("proc") <= Limit["proc"]

\* However many channels and requests race for it, a connection has one
\* transport until it is detached: no second child is started beside the first.
OneTransport ==
    dispatch \in {"loop", "wait", "close"} =>
        Cardinality({t \in Transports : state[t] \in {"starting", "up", "dead"}}) <= 1

\* A transport is not closed under a session or a relay that uses it: the
\* connection's transport is detached only when the handlers have returned.
NoUseAfterClose ==
    (\E c \in Chans : pc[c] = "bridge") => tr # None /\ state[tr] \in {"up", "dead"}

\* A cancelled connection whose transport is gone for good is torn down:
\* nothing of it waits for a lock, a start or a client for ever.
CancelledUnwinds == <>[](ctx /\ TransportGone) => <>(dispatch = "done")

\* "they die with the outer connection": when the client is gone the transport
\* and everything that uses it ends.
ConnectionEndEnds == conn = "closed" ~> dispatch = "done"

\* Nothing of a connection is left when its handler has returned and its
\* goroutines have ended: no child and no process slot.
NoOrphan ==
    dispatch = "done" /\ req = "ended" /\ (\A c \in Chans : bind[c] # "lock") =>
        Live = {} /\ charged = {}
=============================================================================
