--------------------------- MODULE SessionBridge ---------------------------
(***************************************************************************)
(* One session channel of a workspace connection, from its acceptance to   *)
(* its end (internal/tunnel): BridgePendingSession, which acknowledges the *)
(* client's requests while the transport is still starting, BridgeSession  *)
(* with its three copy goroutines, forwardSessionRequests, which replays   *)
(* what was acknowledged and then serves live requests, and the goroutine  *)
(* that waits for the inner session.                                       *)
(*                                                                         *)
(* A request the client has sent is one the loop receives next.  A request *)
(* to the inner session holds the loop until it is answered or fails;      *)
(* window-change and signal ask for no answer, so for them taken means     *)
(* sent.  Closing the inner session only sends the close: the session is   *)
(* over when the workspace answers, or when the transport breaks.  stdout  *)
(* and stderr are one stream, whose data is counted.                       *)
(*                                                                         *)
(* External: the client, the inner SSH server behind the child, and the    *)
(* transport start (module Workspace), which succeeds or fails once.       *)
(***************************************************************************)
EXTENDS Naturals, Sequences, SequencesExt

CONSTANTS
    Requests,     \* what the client may ask: [type, valid]
    MaxRequests,  \* bound: requests of one session
    MaxOutput     \* bound: chunks the program writes

Setup == {"env", "auth-agent-req", "pty-req"}
Starters == {"shell", "exec", "subsystem"}
Types == Setup \cup Starters \cup {"window-change", "signal", "other"}

\* valid: the payload parses and is within its bounds.
Request == [type: Types, valid: BOOLEAN]

ASSUME BridgeAssumption ==
    /\ Requests \subseteq Request
    /\ MaxRequests \in Nat /\ MaxOutput \in Nat

VARIABLES
    stage,      \* the goroutine that serves the channel
    outer,      \* the outer channel: "open", "closed" (by the client)
    ctx,        \* the connection context is cancelled
    transport,  \* "starting", "ready", "failed"
    queued,     \* requests on their way to the inner session: acknowledged
                \* while the transport was starting, or the live one
    started,    \* the type of the request that started the inner session
    inner,      \* the inner session; at its end the status it sent, or "lost"
    eof,        \* the workspace has ended the output
    closing,    \* the gateway has sent its close of the inner session
    input,      \* the copy of the outer input into the inner session
    produced,   \* output of the program so far
    copied,     \* output that has reached the outer channel
    drained,    \* stdoutDone and stderrDone are closed
    waitCh,     \* the wait goroutine and its result
    status,     \* the exit-status the client was sent first
    acked,      \* history: requests answered with success
    applied,    \* history: requests the inner session took
    sent        \* requests received so far

innerVars == <<inner, eof, closing, produced>>
copyVars == <<input, copied, drained>>
history == <<acked, applied, sent>>
vars == <<stage, outer, ctx, transport, queued, started, innerVars, copyVars,
          waitCh, status, history>>

Stage == {"pending", "opening", "replay", "live", "asking", "aborting",
          "waitInput", "done"}

Init ==
    /\ stage = "pending"
    /\ outer = "open"
    /\ ctx = FALSE
    /\ transport = "starting"
    /\ queued = <<>>
    /\ started = "no"
    /\ inner = "none" /\ eof = FALSE /\ closing = FALSE
    /\ input = "off"
    /\ produced = 0 /\ copied = 0 /\ drained = FALSE
    /\ waitCh = "none"
    /\ status = "none"
    /\ acked = <<>> /\ applied = <<>> /\ sent = 0

\* The inner session is up, or has been and is no more.
Alive == inner \in {"open", "running"}
Over == inner \in {"0", "1", "lost"}

\* Mutants: a replay that skips what fails, a wait that does not drain, an
\* abort that sends no close, an end without a status, a start
\* nobody waits for.
SkipFailed(rest) == queued' = rest /\ UNCHANGED <<stage, status>>
NotDrained == TRUE
LeaveOpen == UNCHANGED closing
NoStatus(s) == UNCHANGED status
NoWait(r) ==
    /\ applied' = Append(applied, r)
    /\ IF r.type \in Starters
       THEN started' = r.type /\ inner' = "running"
       ELSE UNCHANGED <<started, inner>>
    /\ UNCHANGED waitCh

\* exit-status and CloseWrite: the client takes the first one.
SendStatus(s) == status' = IF status = "none" THEN s ELSE status

-----------------------------------------------------------------------------
(* What a request is worth *)

Wellformed(r) == r.valid \/ r.type = "auth-agent-req"

\* queueDecision: the requests acknowledged before there is a transport.
QueueDecision(r) == r.type \in Setup \cup Starters /\ Wellformed(r)

\* applySessionRequest, up to the call of the inner session.
Validates(r) ==
    IF started = "no"
    THEN r.type \in Setup \cup Starters \cup {"window-change"} /\ Wellformed(r)
    ELSE r.type \in {"window-change", "signal"} /\ r.valid

\* A request is with the inner session, which may take it or refuse it.  After
\* the gateway's close, or the session's end, it fails at once.
Asking ==
    /\ stage \in {"replay", "asking"} /\ queued # <<>>
    /\ Validates(Head(queued))
    /\ Alive /\ ~closing

\* The inner session takes r: it starts, or it only takes note.
Take(r) ==
    /\ applied' = Append(applied, r)
    /\ IF r.type \in Starters
       THEN started' = r.type /\ inner' = "running" /\ waitCh' = "waiting"
       ELSE UNCHANGED <<started, inner, waitCh>>

-----------------------------------------------------------------------------
(* BridgePendingSession *)

\* The bind goroutine delivers its result.
TransportStarts ==
    /\ transport = "starting"
    /\ transport' \in {"ready", "failed"}
    /\ UNCHANGED <<stage, outer, ctx, queued, started, innerVars, copyVars, waitCh,
                   status, history>>

\* A request is answered at once, and queued if the answer was yes.
QueueRequest(r) ==
    /\ stage = "pending" /\ outer = "open"
    /\ sent < MaxRequests
    /\ sent' = sent + 1
    /\ IF QueueDecision(r)
       THEN acked' = Append(acked, r) /\ queued' = Append(queued, r)
       ELSE UNCHANGED <<acked, queued>>
    /\ UNCHANGED <<stage, outer, ctx, transport, started, innerVars, copyVars,
                   waitCh, status, applied>>

PendingReady ==
    /\ stage = "pending" /\ transport = "ready"
    /\ stage' = "opening"
    /\ UNCHANGED <<outer, ctx, transport, queued, started, innerVars, copyVars,
                   waitCh, status, history>>

\* The context is cancelled or the transport failed: 255, and the channel is
\* closed.  The client has left: nothing is said.
PendingEnds ==
    /\ stage = "pending"
    /\ \/ (ctx \/ transport = "failed") /\ SendStatus("255")
       \/ outer = "closed" /\ UNCHANGED status
    /\ stage' = "done"
    /\ UNCHANGED <<outer, ctx, transport, queued, started, innerVars, copyVars,
                   waitCh, history>>

-----------------------------------------------------------------------------
(* BridgeSession *)

\* NewSession and the pipes; the copy goroutines start.
OpenInner ==
    /\ stage = "opening"
    /\ stage' = "replay"
    /\ inner' = "open"
    /\ input' = "copying"
    /\ UNCHANGED <<outer, ctx, transport, queued, started, eof, closing, produced,
                   copied, drained, waitCh, status, history>>

OpenInnerFails ==
    /\ stage = "opening"
    /\ SendStatus("255")
    /\ stage' = "done"
    /\ UNCHANGED <<outer, ctx, transport, queued, started, innerVars, copyVars,
                   waitCh, history>>

\* forwardSessionRequests has returned an error that is no exit status: 255,
\* the channel is closed and the input copy waited for.
Fails ==
    /\ SendStatus("255")
    /\ stage' = "waitInput"

\* A queued request that is not taken ends the session.
ReplayFails(rest) == Fails /\ queued' = rest

\* The queued requests, in arrival order.
Replay ==
    /\ stage = "replay" /\ queued # <<>>
    /\ \/ /\ Asking
          /\ Take(Head(queued))
          /\ queued' = Tail(queued)
          /\ UNCHANGED <<stage, status>>
       \/ /\ ReplayFails(Tail(queued))   \* invalid by now, refused, or failed
          /\ UNCHANGED <<started, inner, waitCh, applied>>
    /\ UNCHANGED <<outer, ctx, transport, eof, closing, produced, copyVars, acked, sent>>

ReplayDone ==
    /\ stage = "replay" /\ queued = <<>>
    /\ stage' = "live"
    /\ UNCHANGED <<outer, ctx, transport, queued, started, innerVars, copyVars,
                   waitCh, status, history>>

\* A live request is refused, or handed to the inner session.
LiveRequest(r) ==
    /\ stage = "live" /\ outer = "open"
    /\ sent < MaxRequests
    /\ sent' = sent + 1
    /\ IF Validates(r)
       THEN stage' = "asking" /\ queued' = <<r>>
       ELSE UNCHANGED <<stage, queued>>
    /\ UNCHANGED <<outer, ctx, transport, started, innerVars, copyVars, waitCh, status,
                   acked, applied>>

\* It is applied and then answered; a start request that the inner session
\* refuses ends the session.
LiveAnswer ==
    /\ stage = "asking"
    /\ queued' = <<>>
    /\ LET r == Head(queued)
       IN  \/ /\ Asking
              /\ Take(r)
              /\ acked' = Append(acked, r)
              /\ stage' = "live" /\ UNCHANGED status
           \/ /\ IF r.type \in Starters
                 THEN Fails
                 ELSE stage' = "live" /\ UNCHANGED status
              /\ UNCHANGED <<acked, applied, started, inner, waitCh>>
    /\ UNCHANGED <<outer, ctx, transport, eof, closing, produced, copyVars, sent>>

\* session.Close: the close is sent, its answer is not awaited here.
CloseInner == closing' = TRUE

\* The context or the client ends the session: before a start there is
\* nothing to collect, afterwards the inner session is closed and its wait
\* result awaited.
LiveAborts ==
    /\ stage = "live"
    /\ ctx \/ outer = "closed"
    /\ IF waitCh = "none"
       THEN Fails /\ UNCHANGED closing
       ELSE CloseInner /\ stage' = "aborting" /\ UNCHANGED status
    /\ UNCHANGED <<outer, ctx, transport, queued, started, inner, eof, produced,
                   copyVars, waitCh, history>>

AbortCollects ==
    /\ stage = "aborting"
    /\ waitCh \notin {"none", "waiting"}
    /\ waitCh' = "none"
    /\ Fails
    /\ UNCHANGED <<outer, ctx, transport, queued, started, innerVars, copyVars,
                   history>>

\* finishSession: the program's own status, or 255 if there is none.
LiveFinishes ==
    /\ stage = "live"
    /\ waitCh \notin {"none", "waiting"}
    /\ SendStatus(IF waitCh = "lost" THEN "255" ELSE waitCh)
    /\ waitCh' = "none"
    /\ stage' = "waitInput"
    /\ UNCHANGED <<outer, ctx, transport, queued, started, innerVars, copyVars,
                   history>>

\* <-inputDone, then session.Close.
InputAwaited ==
    /\ stage = "waitInput"
    /\ input = "done"
    /\ CloseInner
    /\ stage' = "done"
    /\ UNCHANGED <<outer, ctx, transport, queued, started, inner, eof, produced,
                   copyVars, waitCh, status, history>>

-----------------------------------------------------------------------------
(* The goroutines of the bridge *)

\* The outputs are read to their end, or to where the session broke off: what
\* was in flight is lost.  Or the next chunk cannot be written any more.
CopyEnds ==
    /\ ~drained
    /\ \/ eof /\ copied = produced
       \/ ~eof /\ Over
       \/ outer = "closed" /\ copied < produced
    /\ drained' = TRUE
    /\ UNCHANGED <<stage, outer, ctx, transport, queued, started, innerVars, input,
                   copied, waitCh, status, history>>

CopyOutput ==
    /\ ~drained
    /\ copied < produced
    /\ outer = "open"
    /\ copied' = copied + 1
    /\ UNCHANGED <<stage, outer, ctx, transport, queued, started, innerVars, input,
                   drained, waitCh, status, history>>

\* The client's input ends, by EOF or with the channel, or the inner session
\* takes no more.
InputEnds ==
    /\ \/ input = "copying"
       \/ input = "blocked" /\ ~Alive
    /\ input' = "done"
    /\ UNCHANGED <<stage, outer, ctx, transport, queued, started, innerVars, copied,
                   drained, waitCh, status, history>>

\* The window of the inner session is full, and is opened again.
InputBlocks ==
    /\ input = "copying" /\ Alive /\ ~closing
    /\ input' = "blocked"
    /\ UNCHANGED <<stage, outer, ctx, transport, queued, started, innerVars, copied,
                   drained, waitCh, status, history>>

InputResumes ==
    /\ input = "blocked" /\ Alive
    /\ input' = "copying"
    /\ UNCHANGED <<stage, outer, ctx, transport, queued, started, innerVars, copied,
                   drained, waitCh, status, history>>

\* The condition on which the wait goroutine lets its result go.
Drained == drained

\* waitDrained: the end of the session, then the copies.  A subsystem's wait is
\* for the copies alone; it closes the session, and knows no error.
WaitReturns ==
    /\ waitCh = "waiting"
    /\ Drained
    /\ \/ /\ started = "subsystem"
          /\ CloseInner
          /\ waitCh' = "0"
       \/ /\ started # "subsystem" /\ Over
          /\ waitCh' = inner
          /\ UNCHANGED closing
    /\ UNCHANGED <<stage, outer, ctx, transport, queued, started, inner, eof, produced,
                   copyVars, status, history>>

-----------------------------------------------------------------------------
(* The client, the connection and the workspace *)

ClientCloses ==
    /\ outer = "open"
    /\ outer' = "closed"
    /\ UNCHANGED <<stage, ctx, transport, queued, started, innerVars, copyVars,
                   waitCh, status, history>>

Cancel ==
    /\ ~ctx
    /\ ctx' = TRUE
    /\ UNCHANGED <<stage, outer, transport, queued, started, innerVars, copyVars,
                   waitCh, status, history>>

ProgramWrites ==
    /\ inner = "running" /\ ~eof
    /\ produced < MaxOutput
    /\ produced' = produced + 1
    /\ UNCHANGED <<stage, outer, ctx, transport, queued, started, inner, eof, closing,
                   copyVars, waitCh, status, history>>

\* The output is ended while the session goes on.
ProgramEOF ==
    /\ inner = "running" /\ ~eof
    /\ eof' = TRUE
    /\ UNCHANGED <<stage, outer, ctx, transport, queued, started, inner, closing,
                   produced, copyVars, waitCh, status, history>>

\* The workspace closes the session, of itself or to answer the gateway's
\* close, which ends its output; or the transport breaks, and the output stays
\* as it was.  A program that has exited has sent its status before.
InnerEnds ==
    /\ Alive
    /\ \/ inner = "running" /\ inner' \in {"0", "1"}
       \/ inner' = "lost"
    /\ eof' \in {eof, TRUE}
    /\ UNCHANGED <<stage, outer, ctx, transport, queued, started, closing, produced,
                   copyVars, waitCh, status, history>>

-----------------------------------------------------------------------------
PendingNext ==
    \/ TransportStarts \/ PendingReady \/ PendingEnds
    \/ \E r \in Requests : QueueRequest(r)

\* Steps of the bridge that wait for the workspace, and the others.
AskNext == Replay \/ LiveAnswer

BridgeNext ==
    \/ ReplayDone
    \/ LiveAborts \/ AbortCollects \/ LiveFinishes \/ InputAwaited

CopyNext == CopyEnds \/ CopyOutput \/ InputEnds \/ WaitReturns

Next ==
    \/ PendingNext \/ OpenInner \/ OpenInnerFails \/ AskNext \/ BridgeNext \/ CopyNext
    \/ \E r \in Requests : LiveRequest(r)
    \/ InputBlocks \/ InputResumes
    \/ ClientCloses \/ Cancel \/ ProgramWrites \/ ProgramEOF \/ InnerEnds

\* The transport start has its timeouts, the goroutines run, a client that is
\* there reads its output, and one whose channel or connection has been closed
\* answers or is cut off; the input such a client has left is finite.  The
\* workspace owes nothing: it need not open the session, answer a request or a
\* close, read its input or exit.  No client has to leave.
Fairness ==
    /\ WF_vars(TransportStarts)
    /\ WF_vars(PendingReady \/ PendingEnds)
    /\ WF_vars(BridgeNext)
    /\ WF_vars(~Asking /\ AskNext)
    /\ WF_vars(CopyEnds) /\ WF_vars(CopyOutput) /\ WF_vars(WaitReturns)
    /\ SF_vars(outer = "closed" /\ InputEnds)
    /\ WF_vars((ctx \/ stage = "waitInput") /\ ClientCloses)

Spec == Init /\ [][Next]_vars /\ Fairness

-----------------------------------------------------------------------------
(* Properties *)

\* The stages, the counters and the queues are what they should be.
TypeOK ==
    /\ stage \in Stage
    /\ outer \in {"open", "closed"} /\ ctx \in BOOLEAN
    /\ transport \in {"starting", "ready", "failed"}
    /\ queued \in Seq(Requests) /\ acked \in Seq(Requests) /\ applied \in Seq(Requests)
    /\ started \in {"no"} \cup Starters
    /\ inner \in {"none", "open", "running", "0", "1", "lost"}
    /\ eof \in BOOLEAN /\ closing \in BOOLEAN
    /\ input \in {"off", "copying", "blocked", "done"}
    /\ copied \in 0 .. produced /\ produced \in 0 .. MaxOutput
    /\ drained \in BOOLEAN
    /\ waitCh \in {"none", "waiting", "0", "1", "lost"}
    /\ status \in {"none", "0", "1", "255"}

\* What was promised is done: once the session is live the inner session has
\* taken every request the client was told would be taken, in that order.
AckedIsApplied ==
    /\ IsPrefix(applied, acked)
    /\ stage = "live" => applied = acked

\* A program's status is reported only if it is the program's, every promised
\* request took effect, and its output has reached the client: all of it if
\* the workspace ended it, what there was if the transport broke.  A subsystem
\* has no status of its own: 0 says no more than that its output is over
\* (forwardSessionRequests, waitDrained, finishSession).
StatusIsTruthful ==
    status \in {"0", "1"} =>
        /\ applied = acked
        /\ started # "subsystem" => inner = status
        /\ \/ eof /\ copied = produced
           \/ ~eof /\ Over
           \/ outer = "closed"

\* "the queued session ends with the failure on stderr and exit-status 255
\* instead of a mute timeout": no end of the bridge is mute, unless the
\* client left first.
NoMuteEnd == stage = "done" /\ status = "none" => outer = "closed"

\* What a session may wait for in vain: the workspace owes it an opening, an
\* answer to a request or to a close, or room for input.
Owed ==
    \/ stage = "opening"
    \/ Asking
    \/ Alive /\ (closing \/ input = "blocked")

\* A session whose client or connection is gone comes to its end, or hangs for
\* ever on a workspace that is there and does not answer: abortSession waits
\* for the answer to its close, and BridgeSession for an input copy that no
\* close of its own sets free.
SessionUnwinds ==
    <>(outer = "closed" \/ ctx) => <>(stage = "done") \/ <>[]Owed

\* The client or the connection went before a status was out, or a promised
\* request failed.
Gone == (outer = "closed" \/ ctx) /\ stage \notin {"waitInput", "done"}
Broken == stage \in {"waitInput", "done"} /\ applied # acked

\* The status a shell or a command exits with reaches the client, whatever
\* requests and output are under way, unless client or connection leave before
\* or a request the client was promised could not be kept (waitDrained, the
\* wait goroutine and finishSession).
ExitReachesClient ==
    \A s \in {"0", "1"} :
        inner = s /\ started # "subsystem" /\ status = "none" ~>
            status = s \/ Gone \/ Broken

\* "Requests the live bridge would refuse are refused here too; the two
\* decisions must agree": a request acknowledged early is one the live bridge
\* accepts when it is replayed.
DecisionsAgree ==
    stage = "replay" /\ queued # <<>> => Validates(Head(queued))
============================================================================
