----------------------------- MODULE Supervisor -----------------------------
(***************************************************************************)
(* One jump tunnel (internal/tunnel: TunnelStarter.Start after the launch, *)
(* Supervise, startProxy and the goroutine that waits for the child).      *)
(*                                                                         *)
(* Six actors share the child's pipes and the outer channel: the client,   *)
(* the child, the two copy loops, the waiter and the supervisor, whose     *)
(* select takes any case that is ready.  Bytes are abstracted to whether   *)
(* the child has written any and whether the upward loop is parked in a    *)
(* write the child does not read; standard error to its end, which comes   *)
(* with the child's exit.  A timer that is armed may fire at any time and  *)
(* fires eventually.                                                       *)
(***************************************************************************)

CONSTANT
    StreamErrors    \* whether a copy loop may fail with an unexpected error

ASSUME SupervisorAssumption == StreamErrors \in BOOLEAN

VARIABLES
    ctx,        \* the connection context is cancelled
    input,      \* the client's direction of the channel: "open" or "eof"
    channel,    \* "open", "closing" once the gateway has sent CHANNEL_CLOSE,
                \* "closed" once the client has, or its connection is gone
    child,      \* "running", "exited", or "reaped" by cmd.Wait
    wrote,      \* the child has written to its standard output
    signal,     \* the last signal sent to the process group
    stdin,      \* the gateway's end of the child's standard input
    firstByte,  \* px.firstByte is closed: the child's first bytes were read
    up, down,   \* the copy loops: "run", or the result in upRes and downRes
    parked,     \* the upward loop waits in a write to a full pipe
    pc,         \* the supervisor
    seen,       \* its local firstByte
    taken,      \* results it has received: a subset of {"up", "down", "wait"}
    failed,     \* copy loops that ended with an error
    timers,     \* armed timers
    trigger,    \* what made it cancel the child
    code,       \* SupervisionResult.Code
    rechecked   \* Start called RecheckAfterFailure

client == <<ctx, input>>
process == <<child, wrote, signal>>
loops == <<firstByte, up, down, parked>>
supervisor == <<pc, seen, taken, failed, timers, trigger, code, rechecked>>
vars == <<client, channel, process, stdin, loops, supervisor>>

Results == {"run", "nil", "error"}

\* How a copy loop may end: nil, or an error that normalizeStreamErr keeps.
Endings == IF StreamErrors THEN {"nil", "error"} ELSE {"nil"}

Init ==
    /\ ctx = FALSE
    /\ input = "open"
    /\ channel = "open"
    /\ child = "running"
    /\ wrote = FALSE
    /\ signal = "none"
    /\ stdin = "open"
    /\ firstByte = FALSE
    /\ up = "run"
    /\ down = "run"
    /\ parked = FALSE
    /\ pc = "select"
    /\ seen = FALSE
    /\ taken = {}
    /\ failed = {}
    /\ timers \in {{"startup"}, {"startup", "policy"}}  \* PolicyTimeout is optional
    /\ trigger = "none"
    /\ code = "none"
    /\ rechecked = FALSE

-----------------------------------------------------------------------------
(* The environment: the connection, its client and the child *)

Cancel ==
    /\ ~ctx
    /\ ctx' = TRUE
    /\ UNCHANGED <<input, channel, process, stdin, loops, supervisor>>

ClientEnds ==
    /\ input = "open"
    /\ input' = "eof"
    /\ UNCHANGED <<ctx, channel, process, stdin, loops, supervisor>>

\* The client closes the channel, unasked or in answer to the gateway's close,
\* or its connection is lost.
ClientCloses ==
    /\ channel # "closed"
    /\ channel' = "closed"
    /\ input' = "eof"
    /\ UNCHANGED <<ctx, process, stdin, loops, supervisor>>

ChildWrites ==
    /\ child = "running"
    /\ ~wrote
    /\ wrote' = TRUE
    /\ UNCHANGED <<client, channel, child, signal, stdin, loops, supervisor>>

\* The child may exit at any time; only SIGKILL makes it.
ChildExits ==
    /\ child = "running"
    /\ child' = "exited"
    /\ UNCHANGED <<client, channel, wrote, signal, stdin, loops, supervisor>>

-----------------------------------------------------------------------------
(* The copy loops and the waiter *)

\* Channel to child: the client's EOF or its close, once everything before it
\* is written, closes the child's standard input.
UpEnds ==
    /\ up = "run"
    /\ ~parked
    /\ input = "eof"
    /\ stdin' = "closed"
    /\ up' \in Endings
    /\ UNCHANGED <<client, channel, process, firstByte, down, parked, supervisor>>

\* The child does not read and the pipe is full; then it reads again.
UpParks ==
    /\ up = "run"
    /\ parked' = ~parked
    /\ ~parked => child = "running" /\ stdin = "open"
    /\ UNCHANGED <<client, channel, process, stdin, firstByte, up, down, supervisor>>

\* A write fails: the child closed its end, or the gateway its own.  The loop
\* reports the error of its last read as it is, most often nil, and never that
\* of the write.
UpBreaks ==
    /\ up = "run"
    /\ up' \in Endings
    /\ parked' = FALSE
    /\ UNCHANGED <<client, channel, process, stdin, firstByte, down, supervisor>>

\* Child to channel: the first read that returns bytes closes px.firstByte.
FirstByte ==
    /\ down = "run"
    /\ wrote
    /\ ~firstByte
    /\ firstByte' = TRUE
    /\ UNCHANGED <<client, channel, process, stdin, up, down, parked, supervisor>>

\* The loop ends at the child's EOF with everything read, or when it cannot
\* write to the channel; its result is sent before stdout counts as drained.
DownEnds ==
    /\ down = "run"
    /\ wrote => firstByte
    /\ \/ child # "running"
       \/ channel # "open" /\ firstByte
    /\ down' \in Endings
    /\ UNCHANGED <<client, channel, process, stdin, firstByte, up, parked, supervisor>>

\* Mutants: a wait that does not defer to the readers, an end of input that
\* arms no timer, a first byte that leaves the startup timer armed, a cancelled
\* context that is not noticed, a ladder without its last rung, and a
\* supervisor that forgets the upward loop.
ReapAtOnce ==
    /\ child = "exited"
    /\ child' = "reaped"
    /\ UNCHANGED <<client, channel, wrote, signal, stdin, loops, supervisor>>
NoLinger == timers
StillArmed == timers
IgnoreContext == FALSE /\ UNCHANGED vars
SendNothing(sig) == UNCHANGED signal
DownEnded == down # "run"

\* drains.Wait, then cmd.Wait; the result waits in the buffered waitCh.
Reap ==
    /\ child = "exited"
    /\ down # "run"
    /\ child' = "reaped"
    /\ UNCHANGED <<client, channel, wrote, signal, stdin, loops, supervisor>>

-----------------------------------------------------------------------------
(* The cases of the supervisor's select *)

CanTake(r) == pc = "select" /\ r \notin taken

TakeWait ==
    /\ CanTake("wait")
    /\ child = "reaped"
    /\ taken' = taken \cup {"wait"}
    /\ pc' = "close"
    /\ UNCHANGED <<client, channel, process, stdin, loops, seen, failed, timers, trigger,
                   code, rechecked>>

\* stopStartup
Disarmed == timers \ {"startup"}

TakeFirstByte ==
    /\ pc = "select"
    /\ firstByte
    /\ ~seen
    /\ seen' = TRUE
    /\ timers' = Disarmed
    /\ UNCHANGED <<client, channel, process, stdin, loops, pc, taken, failed, trigger, code,
                   rechecked>>

\* A clean end of the client's input arms the linger timer.
Lingering == timers \cup {"linger"}

TakeUp ==
    /\ CanTake("up")
    /\ up # "run"
    /\ taken' = taken \cup {"up"}
    /\ IF up = "error"
       THEN /\ failed' = failed \cup {"up"}
            /\ trigger' = "stream"
            /\ pc' = "cancel"
            /\ UNCHANGED timers
       ELSE /\ timers' = Lingering
            /\ UNCHANGED <<failed, trigger, pc>>
    /\ UNCHANGED <<client, channel, process, stdin, loops, seen, code, rechecked>>

TakeDown ==
    /\ CanTake("down")
    /\ down # "run"
    /\ taken' = taken \cup {"down"}
    /\ IF down = "error"
       THEN failed' = failed \cup {"down"} /\ trigger' = "stream" /\ pc' = "cancel"
       ELSE UNCHANGED <<failed, trigger, pc>>
    /\ UNCHANGED <<client, channel, process, stdin, loops, seen, timers, code, rechecked>>

\* The startup, policy and linger timers.
Expire(t) ==
    /\ pc = "select"
    /\ t \in timers
    /\ timers' = timers \ {t}
    /\ trigger' = t
    /\ pc' = "cancel"
    /\ UNCHANGED <<client, channel, process, stdin, loops, seen, taken, failed, code,
                   rechecked>>

TakeContext ==
    /\ pc = "select"
    /\ ctx
    /\ trigger' = "context"
    /\ pc' = "cancel"
    /\ UNCHANGED <<client, channel, process, stdin, loops, seen, taken, failed, timers, code,
                   rechecked>>

-----------------------------------------------------------------------------
(* cancelChild *)

\* channel.Close() sends CHANNEL_CLOSE: new writes fail, but a read or a write
\* that waits goes on only when the client answers.
Closing == IF channel = "open" THEN "closing" ELSE channel

\* syscall.Kill(-PID); a child that was reaped meanwhile does not mind.
Send(sig) == signal' = sig

\* Standard input is closed, the group is terminated, the channel closed.
Terminate ==
    /\ pc = "cancel"
    /\ stdin' = "closed"
    /\ Send("TERM")
    /\ channel' = Closing
    /\ timers' = timers \cup {"grace"}
    /\ pc' = "grace"
    /\ UNCHANGED <<client, child, wrote, loops, seen, taken, failed, trigger, code,
                   rechecked>>

GraceExpires ==
    /\ pc = "grace"
    /\ "grace" \in timers
    /\ timers' = timers \ {"grace"}
    /\ Send("KILL")
    /\ pc' = "killed"
    /\ UNCHANGED <<client, channel, child, wrote, stdin, loops, seen, taken, failed, trigger,
                   code, rechecked>>

TakeLateWait ==
    /\ pc \in {"grace", "killed"}
    /\ child = "reaped"
    /\ taken' = taken \cup {"wait"}
    /\ pc' = "close"
    /\ UNCHANGED <<client, channel, process, stdin, loops, seen, failed, timers, trigger,
                   code, rechecked>>

-----------------------------------------------------------------------------
(* The end of Supervise and of Start *)

\* Unblock the loops that may still wait for the channel.
CloseStreams ==
    /\ pc = "close"
    /\ channel' = Closing
    /\ stdin' = "closed"
    /\ pc' = "collect"
    /\ UNCHANGED <<client, process, loops, seen, taken, failed, timers, trigger, code,
                   rechecked>>

\* Both copy loops have sent their results.
LoopsEnded == up # "run" /\ down # "run"

ResultCode(errors) ==
    CASE trigger = "none" /\ ~seen -> "CODER_EXITED"
      [] trigger = "none" /\ seen /\ errors # {} -> "STREAM_FAILED"
      [] trigger = "none" /\ seen /\ errors = {} -> "ok"
      [] trigger = "startup" -> "START_TIMEOUT"
      [] trigger = "stream" -> "STREAM_FAILED"
      [] OTHER -> "CANCELLED"

\* The results not received yet are collected; Start rechecks the credential
\* when the child seems to have been of no use, and closes the channel.
Collect ==
    /\ pc = "collect"
    /\ LoopsEnded
    /\ taken' = taken \cup {"up", "down"}
    /\ failed' = failed \cup (IF up = "error" THEN {"up"} ELSE {})
                        \cup (IF down = "error" THEN {"down"} ELSE {})
    /\ code' = ResultCode(failed')
    /\ rechecked' = (code' \in {"CODER_EXITED", "START_TIMEOUT"})
    /\ timers' = {}
    /\ pc' = "done"
    /\ UNCHANGED <<client, channel, process, stdin, loops, seen, trigger>>

Finished == pc = "done" /\ UNCHANGED vars

-----------------------------------------------------------------------------
LoopStep == UpEnds \/ UpParks \/ UpBreaks \/ FirstByte \/ DownEnds \/ Reap

SelectStep ==
    \/ TakeWait \/ TakeFirstByte \/ TakeUp \/ TakeDown \/ TakeContext
    \/ \E t \in {"startup", "policy", "linger"} : Expire(t)

CancelStep == Terminate \/ GraceExpires \/ TakeLateWait

EndStep == CloseStreams \/ Collect

Next ==
    \/ Cancel \/ ClientEnds \/ ClientCloses \/ ChildWrites \/ ChildExits
    \/ LoopStep \/ SelectStep \/ CancelStep \/ EndStep
    \/ Finished

Spec == Init /\ [][Next]_vars

\* A loop that need not wait has nothing in its way: the upward one is not
\* parked, or its pipe is broken; the downward one has reached the child's end
\* and has nothing to write, or nobody to write to.
WriteFails == parked /\ (stdin = "closed" \/ child # "running")
DownAtEnd == child # "running" /\ (~wrote \/ channel = "closed")

\* Goroutines that can run do, armed timers expire, and a child that was sent
\* SIGKILL exits.  A client answers CHANNEL_CLOSE (RFC 4254, 5.3), or its dead
\* connection is found by the TCP keepalive.  Neither the client nor the child
\* owes anything else: they need not read, end or exit.
Fairness ==
    /\ SF_vars(UpEnds)     \* what the client sent before its end is finite
    /\ WF_vars(WriteFails /\ UpBreaks)
    /\ WF_vars(FirstByte)
    /\ WF_vars(DownAtEnd /\ DownEnds)
    /\ WF_vars(Reap)
    /\ WF_vars(SelectStep)
    /\ WF_vars(CancelStep)
    /\ WF_vars(EndStep)
    /\ WF_vars(signal = "KILL" /\ ChildExits)
    /\ WF_vars(channel = "closing" /\ ClientCloses)

FairSpec == Spec /\ Fairness

-----------------------------------------------------------------------------
(* Properties *)

\* Every variable has its type, and the supervisor received what it took.
TypeOK ==
    /\ ctx \in BOOLEAN
    /\ input \in {"open", "eof"}
    /\ channel \in {"open", "closing", "closed"}
    /\ child \in {"running", "exited", "reaped"}
    /\ wrote \in BOOLEAN
    /\ signal \in {"none", "TERM", "KILL"}
    /\ stdin \in {"open", "closed"}
    /\ firstByte \in BOOLEAN
    /\ up \in Results
    /\ down \in Results
    /\ parked \in BOOLEAN
    /\ pc \in {"select", "cancel", "grace", "killed", "close", "collect", "done"}
    /\ seen \in BOOLEAN
    /\ taken \subseteq {"up", "down", "wait"}
    /\ failed \subseteq {"up", "down"}
    /\ timers \subseteq {"startup", "policy", "linger", "grace"}
    /\ trigger \in {"none", "startup", "policy", "linger", "context", "stream"}
    /\ code \in {"none", "ok", "CODER_EXITED", "START_TIMEOUT", "STREAM_FAILED", "CANCELLED"}
    /\ rechecked \in BOOLEAN

\* Supervise "returns only after every goroutine it owns has finished", and
\* after the child was reaped: no process and no copy loop outlives it.
NothingOutlives == pc = "done" => child = "reaped" /\ up # "run" /\ down # "run"

\* The pipe contract of os/exec: cmd.Wait does not run before everything the
\* child wrote has been read.
NoOutputLost == child = "reaped" /\ wrote => firstByte

\* A tunnel whose first byte the supervisor has seen is not given up for a
\* slow start.
StartedIsNotTimedOut == trigger = "startup" => ~seen

\* RecheckAfterFailure is for "a child [that] exits before carrying a useful
\* inner connection": an exit after the first byte was carried is none.
UsefulExitIsNoFailure == rechecked => ~firstByte

\* Once the upward loop has ended the tunnel ends: a child that hangs, ignores
\* SIGTERM, or floods a client that does not read, cannot keep it.
InputEndEnds == up # "run" ~> pc = "done"

\* A cancelled connection ends the tunnel, whatever the client and the child do.
CancelEnds == ctx ~> pc = "done"

\* A child that exits or stays silent before its first byte ends the tunnel.
SilentStartEnds == pc = "select" ~> (seen \/ pc = "done")
=============================================================================
