------------------------------- MODULE Server -------------------------------
(***************************************************************************)
(* The life of a connection and of the server (internal/server, listener   *)
(* and connection; internal/limits; app.ServeOn).                          *)
(*                                                                         *)
(* One goroutine accepts, one per connection runs handleConn, a watcher    *)
(* runs the shutdown.  pc[c] is the statement handleConn(c) is about to    *)
(* execute; its deferred releases run as one step, Unwind.  A connection's *)
(* channels are counted, not named: `admitting' handlers are between the   *)
(* open request and Accept, `active' ones after it.                        *)
(*                                                                         *)
(* External: the client (what it sends and when it goes away), the outcome *)
(* of authentication (internal/sshauth), of the rate gate and of channel   *)
(* admission, all of them free choices here.  Deadlines are steps that may *)
(* be taken at any time and are taken eventually.                          *)
(***************************************************************************)
EXTENDS Naturals, FiniteSets

CONSTANTS
    Conns,          \* TCP connections
    PeerIP,         \* PeerIP[c]: source address
    KeyOf,          \* KeyOf[c]: the SSH key it authenticates with
    AccountOf,      \* AccountOf[c]: that key's account
    Limit,          \* Limit[kind]: size of each semaphore of that kind
    ProxyProtocol,  \* whether listen.proxy_protocol is set
    MaxChannels,    \* bound on the open channels of a connection
    AcceptFails,    \* whether Accept may fail (out of descriptors)
    None            \* the id of the semaphores there is only one of

Kinds == {"global", "ip", "handshake", "key", "account"}

ASSUME ServerAssumption ==
    /\ IsFiniteSet(Conns)
    /\ Limit \in [Kinds -> Nat]
    /\ ProxyProtocol \in BOOLEAN
    /\ AcceptFails \in BOOLEAN
    /\ MaxChannels \in Nat

VARIABLES
    pc,             \* pc[c]: where handleConn(c) is
    open,           \* open[c]: the socket is usable
    mode,           \* mode[c]: the permissions the handshake ended with
    held,           \* held[c]: the kinds of slots the handler holds
    count,          \* count[s]: the count of semaphore s
    admitting,      \* admitting[c]: channel handlers before Accept
    active,         \* active[c]: channel handlers after it
    served,         \* served[c]: the one key-management session was opened
    requests,       \* requests[c]: the global-request goroutine runs
    tracked,        \* Server.conns
    activeChannels, \* Server.activeChannels
    listening,      \* the listener is open
    loop,           \* the accept loop
    cancelled,      \* the process context is cancelled
    watch,          \* the shutdown goroutine
    doomed,         \* connections closeAllConns still has to close
    draining,       \* Server.draining
    aux,            \* the auxiliary goroutines of ServeOn run
    serving         \* Built.serving: ServeOn has not returned

handlers == <<mode, admitting, active, served, requests>>
slots == <<held, count>>
server == <<listening, loop, cancelled, watch, doomed, draining, aux, serving>>
vars == <<pc, open, slots, handlers, tracked, activeChannels, server>>

\* The semaphore of this kind that connection c counts against.
Slot(kind, c) ==
    <<kind, CASE kind = "ip" -> PeerIP[c]
              [] kind = "key" -> KeyOf[c]
              [] kind = "account" -> AccountOf[c]
              [] OTHER -> None>>

Slots == {Slot(kind, c) : kind \in Kinds, c \in Conns}

Stage == {"away", "gate", "global", "ip", "handshake", "proxy", "track", "auth",
          "key", "account", "goodbye", "serve", "unwind", "done"}

\* handleConn(c) is running.
Running == {c \in Conns : pc[c] \notin {"away", "done"}}

\* Accepted, but not in Server.conns yet.
Untracked == {c \in Conns : pc[c] \in {"gate", "global", "ip", "handshake", "proxy", "track"}}

\* What GET /readyz answers, as far as the server decides it.
Ready == serving /\ ~draining

-----------------------------------------------------------------------------
Init ==
    /\ pc = [c \in Conns |-> "away"]
    /\ open = [c \in Conns |-> FALSE]
    /\ mode = [c \in Conns |-> "none"]
    /\ held = [c \in Conns |-> {}]
    /\ count = [s \in Slots |-> 0]
    /\ admitting = [c \in Conns |-> 0]
    /\ active = [c \in Conns |-> 0]
    /\ served = [c \in Conns |-> FALSE]
    /\ requests = [c \in Conns |-> FALSE]
    /\ tracked = {}
    /\ activeChannels = 0
    /\ listening = TRUE
    /\ loop = "accepting"
    /\ cancelled = FALSE
    /\ watch = "select"
    /\ doomed = {}
    /\ draining = FALSE
    /\ aux = TRUE
    /\ serving = TRUE

Goto(c, stage) == pc' = [pc EXCEPT ![c] = stage]

Close(c) == open' = [open EXCEPT ![c] = FALSE]

\* Mutants of what follows: a release that forgets the count, a handshake
\* without a slot, a header read without a deadline, a handler that stays in
\* the registry, and a closeAllConns that closes nothing.
KeepCount(c, kinds) == count
SkipHandshake(c) ==
    /\ pc[c] = "handshake"
    /\ Goto(c, IF ProxyProtocol THEN "proxy" ELSE "track")
    /\ UNCHANGED <<open, slots, handlers, tracked, activeChannels, server>>
NoDeadline(c) ==
    /\ pc[c] = "proxy"
    /\ ~open[c]
    /\ Goto(c, "unwind")
    /\ UNCHANGED <<open, slots, handlers, tracked, activeChannels, server>>
StillTracked(c) == tracked
CloseNothing(c) ==
    /\ watch = "closing"
    /\ c \in doomed
    /\ doomed' = doomed \ {c}
    /\ UNCHANGED <<pc, open, slots, handlers, tracked, activeChannels, listening, loop,
                   cancelled, watch, draining, aux, serving>>

-----------------------------------------------------------------------------
(* Admission.  Every refusal closes the socket and runs the defers. *)

Accept(c) ==
    /\ loop = "accepting"
    /\ listening
    /\ pc[c] = "away"
    /\ Goto(c, "gate")
    /\ open' = [open EXCEPT ![c] = TRUE]
    /\ UNCHANGED <<slots, handlers, tracked, activeChannels, server>>

\* The pre-auth rate gate lets the connection pass, or closes it on the spot.
PreAuthGate(c) ==
    /\ pc[c] = "gate"
    /\ \/ Goto(c, "global") /\ UNCHANGED open
       \/ Goto(c, "done") /\ Close(c)
    /\ UNCHANGED <<slots, handlers, tracked, activeChannels, server>>

\* semaphore.Acquire and acquireMapped: compare and count under one mutex.
Room(kind, c) == count[Slot(kind, c)] < Limit[kind]

Take(kind, c) ==
    /\ count' = [count EXCEPT ![Slot(kind, c)] = @ + 1]
    /\ held' = [held EXCEPT ![c] = @ \cup {kind}]

\* The handler takes a slot of this kind and goes on, or is refused.
Acquire(kind, c, next) ==
    /\ pc[c] = kind
    /\ IF Room(kind, c)
       THEN Take(kind, c) /\ Goto(c, next) /\ UNCHANGED open
       ELSE UNCHANGED slots /\ Goto(c, "unwind") /\ Close(c)
    /\ UNCHANGED <<handlers, tracked, activeChannels, server>>

AcquireGlobal(c) == Acquire("global", c, "ip")

AcquireIP(c) == Acquire("ip", c, "handshake")

AcquireHandshake(c) ==
    Acquire("handshake", c, IF ProxyProtocol THEN "proxy" ELSE "track")

\* The counts after handler c gives back its slots of these kinds.
Released(c, kinds) ==
    [s \in Slots |-> IF \E kind \in kinds \cap held[c] : s = Slot(kind, c)
                     THEN count[s] - 1 ELSE count[s]]

ProxyHeader(c) ==
    /\ pc[c] = "proxy"
    /\ open[c]
    /\ Goto(c, "track")
    /\ UNCHANGED <<open, slots, handlers, tracked, activeChannels, server>>

\* A malformed header, a closed socket, or the deadline.
ProxyFails(c) ==
    /\ pc[c] = "proxy"
    /\ Goto(c, "unwind")
    /\ Close(c)
    /\ UNCHANGED <<slots, handlers, tracked, activeChannels, server>>

\* NewConnState, track, and the handshake deadline.
Track(c) ==
    /\ pc[c] = "track"
    /\ tracked' = tracked \cup {c}
    /\ Goto(c, "auth")
    /\ UNCHANGED <<open, slots, handlers, activeChannels, server>>

-----------------------------------------------------------------------------
(* Authentication and the limits on authenticated connections *)

\* NewServerConn returned with permissions m; the pre-auth slots but the one
\* of the source address are given back.
AuthSucceeds(c, m) ==
    /\ pc[c] = "auth"
    /\ open[c]
    /\ mode' = [mode EXCEPT ![c] = m]
    /\ count' = Released(c, {"handshake", "global"})
    /\ held' = [held EXCEPT ![c] = @ \ {"handshake", "global"}]
    /\ Goto(c, "key")
    /\ UNCHANGED <<open, admitting, active, served, requests, tracked, activeChannels,
                   server>>

\* The client fails to authenticate, goes away, or meets the deadline.
AuthFails(c) ==
    /\ pc[c] = "auth"
    /\ Goto(c, "unwind")
    /\ UNCHANGED <<open, slots, handlers, tracked, activeChannels, server>>

AcquireKey(c) == Acquire("key", c, "account")

\* With the last slot the connection is dispatched by its permissions.
AcquireAccount(c) ==
    /\ pc[c] = "account"
    /\ IF Room("account", c)
       THEN /\ Take("account", c)
            /\ Goto(c, IF mode[c] = "enrolled" THEN "goodbye" ELSE "serve")
            /\ requests' = [requests EXCEPT ![c] = mode[c] # "enrolled"]
            /\ UNCHANGED open
       ELSE /\ UNCHANGED <<slots, requests>>
            /\ Goto(c, "unwind")
            /\ Close(c)
    /\ UNCHANGED <<mode, admitting, active, served, tracked, activeChannels, server>>

\* enrollmentGoodbye: a session is told to reconnect, or three seconds pass.
Goodbye(c) ==
    /\ pc[c] = "goodbye"
    /\ Goto(c, "unwind")
    /\ UNCHANGED <<open, slots, handlers, tracked, activeChannels, server>>

-----------------------------------------------------------------------------
(* Channels of a connection that is served *)

\* A channel open request that is not refused on the spot gets its goroutine;
\* a key-management connection has one session in its life.
OpenChannel(c) ==
    /\ pc[c] = "serve"
    /\ open[c]
    /\ ~draining
    /\ mode[c] = "keys" => ~served[c]
    /\ admitting[c] + active[c] < MaxChannels
    /\ admitting' = [admitting EXCEPT ![c] = @ + 1]
    /\ served' = [served EXCEPT ![c] = @ \/ mode[c] = "keys"]
    /\ UNCHANGED <<pc, open, slots, mode, active, requests, tracked, activeChannels, server>>

\* Limits, credential and target are fine: Accept, and the channel is active.
\* A relay is counted before it accepts, whatever has become of the connection.
AcceptChannel(c) ==
    /\ admitting[c] > 0
    /\ mode[c] = "keys" => open[c]
    /\ admitting' = [admitting EXCEPT ![c] = @ - 1]
    /\ active' = [active EXCEPT ![c] = @ + 1]
    /\ activeChannels' = activeChannels + 1
    /\ UNCHANGED <<pc, open, slots, mode, served, requests, tracked, server>>

\* The channel is refused; a workspace connection whose credential turned out
\* to be missing or invalid is closed as a whole.
RejectChannel(c) ==
    /\ admitting[c] > 0
    /\ admitting' = [admitting EXCEPT ![c] = @ - 1]
    /\ \/ UNCHANGED open
       \/ mode[c] = "workspace" /\ Close(c)
    /\ UNCHANGED <<pc, slots, mode, active, served, requests, tracked, activeChannels,
                   server>>

ChannelEnds(c) ==
    /\ active[c] > 0
    /\ active' = [active EXCEPT ![c] = @ - 1]
    /\ activeChannels' = activeChannels - 1
    /\ UNCHANGED <<pc, open, slots, mode, admitting, served, requests, tracked, server>>

\* The global-request goroutine ends with the connection.
RequestsEnd(c) ==
    /\ requests[c]
    /\ ~open[c]
    /\ requests' = [requests EXCEPT ![c] = FALSE]
    /\ UNCHANGED <<pc, open, slots, mode, admitting, active, served, tracked,
                   activeChannels, server>>

\* The stream of channel opens ends with the connection; the dispatcher waits
\* for its handlers.
DispatchEnds(c) ==
    /\ pc[c] = "serve"
    /\ ~open[c]
    /\ admitting[c] = 0
    /\ active[c] = 0
    /\ Goto(c, "unwind")
    /\ UNCHANGED <<open, slots, handlers, tracked, activeChannels, server>>

\* untrack
Forget(c) == tracked \ {c}

\* The deferred calls of handleConn.
Unwind(c) ==
    /\ pc[c] = "unwind"
    /\ count' = Released(c, Kinds)
    /\ held' = [held EXCEPT ![c] = {}]
    /\ Close(c)
    /\ tracked' = Forget(c)
    /\ Goto(c, "done")
    /\ UNCHANGED <<handlers, activeChannels, server>>

\* The client or the network closes the connection.
PeerCloses(c) ==
    /\ open[c]
    /\ Close(c)
    /\ UNCHANGED <<pc, slots, handlers, tracked, activeChannels, server>>

-----------------------------------------------------------------------------
(* The accept loop and the shutdown *)

connections == <<pc, open, slots, handlers, tracked, activeChannels>>

\* SIGTERM
Cancel ==
    /\ ~cancelled
    /\ cancelled' = TRUE
    /\ UNCHANGED <<connections, listening, loop, watch, doomed, draining, aux, serving>>

\* The watcher closes the listener first, then marks the server draining.
CloseListener ==
    /\ watch = "select"
    /\ cancelled
    /\ listening' = FALSE
    /\ watch' = "drain"
    /\ UNCHANGED <<connections, loop, cancelled, doomed, draining, aux, serving>>

SetDraining ==
    /\ watch = "drain"
    /\ draining' = TRUE
    /\ watch' = "wait"
    /\ UNCHANGED <<connections, listening, loop, cancelled, doomed, aux, serving>>

\* waitDrain returns: no channel is active, or the drain period is over.
DrainEnds ==
    /\ watch = "wait"
    /\ watch' = "snapshot"
    /\ UNCHANGED <<connections, listening, loop, cancelled, doomed, draining, aux, serving>>

\* closeAllConns copies the registry under its mutex ...
SnapshotConns ==
    /\ watch = "snapshot"
    /\ doomed' = tracked
    /\ watch' = "closing"
    /\ UNCHANGED <<connections, listening, loop, cancelled, draining, aux, serving>>

\* ... and closes the copies one by one.
CloseConn(c) ==
    /\ watch = "closing"
    /\ c \in doomed
    /\ doomed' = doomed \ {c}
    /\ Close(c)
    /\ UNCHANGED <<pc, slots, handlers, tracked, activeChannels, listening, loop,
                   cancelled, watch, draining, aux, serving>>

\* Serve returned by itself: its `done' channel ends the watcher.
WatchEnds ==
    /\ watch = "select"
    /\ loop \in {"returned", "failed"}
    /\ watch' = "done"
    /\ UNCHANGED <<connections, listening, loop, cancelled, doomed, draining, aux, serving>>

\* Accept fails because the listener is closed: Serve waits for the handlers.
StopAccepting ==
    /\ loop = "accepting"
    /\ ~listening
    /\ loop' = "waiting"
    /\ UNCHANGED <<connections, listening, cancelled, watch, doomed, draining, aux, serving>>

\* Accept fails for another reason: Serve returns the error as it is, unless
\* the shutdown has begun.
AcceptError ==
    /\ AcceptFails
    /\ loop = "accepting"
    /\ loop' = IF cancelled THEN "waiting" ELSE "failed"
    /\ UNCHANGED <<connections, listening, cancelled, watch, doomed, draining, aux, serving>>

\* wg.Wait: no handler and no global-request goroutine is left.
ServeReturns ==
    /\ loop = "waiting"
    /\ Running = {}
    /\ \A c \in Conns : ~requests[c]
    /\ loop' = "returned"
    /\ UNCHANGED <<connections, listening, cancelled, watch, doomed, draining, aux, serving>>

\* The metrics and health servers, the poller and the retention job run until
\* the context is cancelled.
AuxEnds ==
    /\ aux
    /\ cancelled
    /\ aux' = FALSE
    /\ UNCHANGED <<connections, listening, loop, cancelled, watch, doomed, draining, serving>>

\* ServeOn: auxWg.Wait after Serve has returned.
ServeOnReturns ==
    /\ serving
    /\ loop \in {"returned", "failed"}
    /\ ~aux
    /\ serving' = FALSE
    /\ UNCHANGED <<connections, listening, loop, cancelled, watch, doomed, draining, aux>>

\* The process has ended.
Exited == ~serving /\ UNCHANGED vars

-----------------------------------------------------------------------------
\* What the handler of c does without waiting for its client.
HandlerStep(c) ==
    \/ PreAuthGate(c)
    \/ AcquireGlobal(c)
    \/ AcquireIP(c)
    \/ AcquireHandshake(c)
    \/ Track(c)
    \/ AcquireKey(c)
    \/ AcquireAccount(c)
    \/ Goodbye(c)
    \/ DispatchEnds(c)
    \/ Unwind(c)

ProxyStep(c) == ProxyHeader(c) \/ ProxyFails(c)

AuthStep(c) == AuthFails(c) \/ \E m \in {"workspace", "keys", "enrolled"} : AuthSucceeds(c, m)

AdmissionStep(c) == AcceptChannel(c) \/ RejectChannel(c)

ShutdownStep == CloseListener \/ SetDraining \/ DrainEnds \/ SnapshotConns \/ WatchEnds

ServeStep == StopAccepting \/ ServeReturns \/ AuxEnds \/ ServeOnReturns

Next ==
    \/ \E c \in Conns :
          \/ Accept(c) \/ HandlerStep(c) \/ ProxyStep(c) \/ AuthStep(c)
          \/ OpenChannel(c) \/ AdmissionStep(c) \/ ChannelEnds(c) \/ RequestsEnd(c)
          \/ PeerCloses(c) \/ CloseConn(c)
    \/ Cancel \/ ShutdownStep \/ ServeStep \/ AcceptError
    \/ Exited

Spec == Init /\ [][Next]_vars

\* Goroutines that are not blocked run; deadlines expire; an admission ends
\* (its calls have time-outs); the key-management session of a closed
\* connection ends.  A workspace channel may outlive its connection (it waits
\* for the workspace: module Workspace), and the client owes nothing: it need
\* not connect, authenticate, open or close.
Fairness ==
    /\ \A c \in Conns :
          /\ WF_vars(HandlerStep(c))
          /\ WF_vars(ProxyFails(c))
          /\ WF_vars(AuthFails(c))
          /\ WF_vars(AdmissionStep(c))
          /\ WF_vars(~open[c] /\ mode[c] = "keys" /\ ChannelEnds(c))
          /\ WF_vars(RequestsEnd(c))
          /\ WF_vars(CloseConn(c))
    /\ WF_vars(ShutdownStep)
    /\ WF_vars(StopAccepting)
    /\ WF_vars(ServeReturns)
    /\ WF_vars(AuxEnds)
    /\ WF_vars(ServeOnReturns)

FairSpec == Spec /\ Fairness

-----------------------------------------------------------------------------
(* Properties *)

\* Every variable has its type.
TypeOK ==
    /\ pc \in [Conns -> Stage]
    /\ open \in [Conns -> BOOLEAN]
    /\ mode \in [Conns -> {"none", "workspace", "keys", "enrolled"}]
    /\ held \in [Conns -> SUBSET Kinds]
    /\ count \in [Slots -> Nat]
    /\ admitting \in [Conns -> Nat]
    /\ active \in [Conns -> Nat]
    /\ served \in [Conns -> BOOLEAN]
    /\ requests \in [Conns -> BOOLEAN]
    /\ tracked \subseteq Conns
    /\ activeChannels \in Nat
    /\ listening \in BOOLEAN
    /\ loop \in {"accepting", "waiting", "returned", "failed"}
    /\ cancelled \in BOOLEAN
    /\ watch \in {"select", "drain", "wait", "snapshot", "closing", "done"}
    /\ doomed \subseteq Conns
    /\ draining \in BOOLEAN
    /\ aux \in BOOLEAN
    /\ serving \in BOOLEAN

\* The handlers that hold a slot of semaphore s.
Holders(s) == {c \in Conns : \E kind \in held[c] : s = Slot(kind, c)}

\* No slot is lost and none is given back twice, on any of the paths by which
\* handleConn returns: a semaphore counts exactly the handlers that hold it.
SlotsBalanced == \A s \in Slots : count[s] = Cardinality(Holders(s))

\* limits.*: no more connections hold slots of one semaphore than configured.
LimitsHold ==
    \A kind \in Kinds, c \in Conns : Cardinality(Holders(Slot(kind, c))) <= Limit[kind]

\* Clients that have not authenticated are bounded: no more handlers wait for
\* a header or a handshake than either pre-auth limit allows.
UnauthenticatedBounded ==
    \A kind \in {"global", "handshake"} :
        Cardinality({c \in Conns : pc[c] \in {"proxy", "track", "auth"}}) <= Limit[kind]

\* When Serve has returned after a shutdown nothing is left behind: every slot
\* is free, no connection is registered or open, no channel is active.
ReturnLeavesNothing ==
    loop = "returned" =>
        /\ \A s \in Slots : count[s] = 0
        /\ tracked = {}
        /\ \A c \in Conns : ~open[c]
        /\ activeChannels = 0

\* A listener that failed is noticed: ServeOn "serves SSH on ln until ctx is
\* cancelled" and hands Serve's error to cmdServe, so /readyz cannot go on
\* reporting a listener that accepts nothing.
FailedListenerShows == loop = "failed" ~> ~Ready

\* A client that does not authenticate is cut off, whatever it sends or does
\* not send: no handler stays in front of the handshake's end.
HandshakesEnd ==
    \A c \in Conns : pc[c] = "gate" ~> pc[c] \in {"goodbye", "serve", "done"}

\* The shutdown completes: once the context is cancelled ServeOn returns.
ShutdownCompletes == cancelled ~> ~serving

\* It does so if no connection is between Accept and its registration when
\* closeAllConns copies the registry, and no workspace channel is in the way.
DrainedShutdownCompletes ==
    /\ watch = "snapshot"
    /\ Untracked = {}
    /\ \A c \in Conns : mode[c] = "workspace" => admitting[c] + active[c] = 0
    ~> ~serving
=============================================================================
