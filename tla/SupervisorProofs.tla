-------------------------- MODULE SupervisorProofs --------------------------
(* What is proved about a jump tunnel: its output is read before the child *)
(* is reaped, nothing outlives it, and a start that was seen counts.       *)
EXTENDS Supervisor, TLAPS

\* What the supervisor knows is so: it has seen a first byte only if there was
\* one, and it passes its select by a trigger or with the child reaped.
Knowledge ==
    /\ child = "reaped" => down # "run"
    /\ down # "run" /\ wrote => firstByte
    /\ down # "run" /\ child = "running" => firstByte
    /\ pc \in {"close", "collect", "done"} => child = "reaped"
    /\ pc = "done" => up # "run" /\ down # "run"
    /\ seen => "startup" \notin timers
    /\ pc = "select" => trigger = "none"
    /\ trigger = "startup" => ~seen

Inv == TypeOK /\ Knowledge

\* The invariant holds when Supervise starts.
LEMMA InitInv == Init => Inv
BY DEF Init, Inv, TypeOK, Knowledge, Results

\* The client and the child.
LEMMA EnvironmentInv ==
    ASSUME Inv, Cancel \/ ClientEnds \/ ClientCloses \/ ChildWrites \/ ChildExits
    PROVE  Inv'
<1> USE DEF Inv, TypeOK, Knowledge, Results
<1>1. CASE Cancel
  BY <1>1 DEF Cancel, process, loops, supervisor
<1>2. CASE ClientEnds
  BY <1>2 DEF ClientEnds, process, loops, supervisor
<1>3. CASE ClientCloses
  BY <1>3 DEF ClientCloses, process, loops, supervisor
<1>4. CASE ChildWrites
  BY <1>4 DEF ChildWrites, client, loops, supervisor
<1>5. CASE ChildExits
  BY <1>5 DEF ChildExits, client, loops, supervisor
<1> QED BY <1>1, <1>2, <1>3, <1>4, <1>5

\* The copy loops and the waiter: the child is reaped after its output was read.
LEMMA LoopInv == ASSUME Inv, LoopStep PROVE Inv'
<1> USE DEF Inv, TypeOK, Knowledge, Results, client, process, supervisor
<1>1. CASE UpEnds
  BY <1>1 DEF UpEnds, Endings
<1>2. CASE UpParks
  <2>1. parked' \in BOOLEAN
    BY <1>2, Zenon DEF UpParks
  <2>2. UNCHANGED <<client, channel, process, stdin, firstByte, up, down, supervisor>>
    BY <1>2, Zenon DEF UpParks
  <2> QED BY <2>1, <2>2
<1>3. CASE UpBreaks
  <2>1. parked' \in BOOLEAN
    BY <1>3, Zenon DEF UpBreaks
  <2>2. /\ up' \in Endings
        /\ UNCHANGED <<client, channel, process, stdin, firstByte, down, supervisor>>
    BY <1>3, Zenon DEF UpBreaks
  <2> QED BY <2>1, <2>2 DEF Endings
<1>4. CASE FirstByte
  BY <1>4 DEF FirstByte
<1>5. CASE DownEnds
  BY <1>5 DEF DownEnds, Endings
<1>6. CASE Reap
  BY <1>6 DEF Reap, loops
<1> QED BY <1>1, <1>2, <1>3, <1>4, <1>5, <1>6 DEF LoopStep

\* The cases of the select: the startup timer expires only while it is armed.
LEMMA SelectInv == ASSUME Inv, SelectStep PROVE Inv'
<1> USE DEF Inv, TypeOK, Knowledge, Results, client, process, loops
<1>1. CASE TakeWait
  BY <1>1 DEF TakeWait, CanTake
<1>2. CASE TakeFirstByte
  BY <1>2 DEF TakeFirstByte, Disarmed
<1>3. CASE TakeUp
  <2>1. /\ pc = "select"
        /\ taken' = taken \cup {"up"}
        /\ UNCHANGED <<client, channel, process, stdin, loops, seen, code, rechecked>>
    BY <1>3, Zenon DEF TakeUp, CanTake
  <2>2. CASE up = "error"
    <3>1. /\ failed' = failed \cup {"up"} /\ trigger' = "stream" /\ pc' = "cancel"
          /\ UNCHANGED timers
      BY <1>3, <2>2, Zenon DEF TakeUp
    <3> QED BY <2>1, <3>1
  <2>3. CASE up # "error"
    <3>1. /\ timers' = timers \cup {"linger"}
          /\ UNCHANGED failed /\ UNCHANGED trigger /\ UNCHANGED pc
      BY <1>3, <2>3 DEF TakeUp, Lingering
    <3> QED BY <2>1, <3>1
  <2> QED BY <2>2, <2>3
<1>4. CASE TakeDown
  <2>1. /\ pc = "select"
        /\ taken' = taken \cup {"down"}
        /\ UNCHANGED <<client, channel, process, stdin, loops, seen, timers, code, rechecked>>
    BY <1>4, Zenon DEF TakeDown, CanTake
  <2>2. CASE down = "error"
    <3>1. failed' = failed \cup {"down"} /\ trigger' = "stream" /\ pc' = "cancel"
      BY <1>4, <2>2, Zenon DEF TakeDown
    <3> QED BY <2>1, <3>1
  <2>3. CASE down # "error"
    <3>1. UNCHANGED failed /\ UNCHANGED trigger /\ UNCHANGED pc
      BY <1>4, <2>3 DEF TakeDown
    <3> QED BY <2>1, <3>1
  <2> QED BY <2>2, <2>3
<1>5. CASE TakeContext
  BY <1>5 DEF TakeContext
<1>6. ASSUME NEW t \in {"startup", "policy", "linger"}, Expire(t) PROVE Inv'
  BY <1>6 DEF Expire
<1> QED BY <1>1, <1>2, <1>3, <1>4, <1>5, <1>6 DEF SelectStep

\* The ladder and the end: the child is reaped before the streams are closed,
\* and both loops have ended before the results are collected.
LEMMA EndInv == ASSUME Inv, CancelStep \/ EndStep PROVE Inv'
<1> USE DEF Inv, TypeOK, Knowledge, Results, client, process, loops
<1>1. CASE Terminate
  BY <1>1 DEF Terminate, Send, Closing
<1>2. CASE GraceExpires
  BY <1>2 DEF GraceExpires, Send
<1>3. CASE TakeLateWait
  BY <1>3 DEF TakeLateWait
<1>4. CASE CloseStreams
  BY <1>4 DEF CloseStreams, Closing
<1>5. CASE Collect
  <2>1. code' \in {"none", "ok", "CODER_EXITED", "START_TIMEOUT", "STREAM_FAILED", "CANCELLED"}
    BY <1>5 DEF Collect, ResultCode
  <2>2. rechecked' \in BOOLEAN
    BY <1>5 DEF Collect
  <2>3. failed' \subseteq {"up", "down"} /\ taken' \subseteq {"up", "down", "wait"}
    BY <1>5 DEF Collect
  <2> QED BY <1>5, <2>1, <2>2, <2>3 DEF Collect, LoopsEnded
<1> QED BY <1>1, <1>2, <1>3, <1>4, <1>5 DEF CancelStep, EndStep

\* Every step preserves the invariant.
LEMMA NextInv == Inv /\ [Next]_vars => Inv'
<1> SUFFICES ASSUME Inv, [Next]_vars PROVE Inv'
  OBVIOUS
<1>1. CASE UNCHANGED vars
  BY <1>1 DEF Inv, TypeOK, Knowledge, Results, vars, client, process, loops, supervisor
<1> QED BY <1>1, EnvironmentInv, LoopInv, SelectInv, EndInv DEF Next, Finished

\* The inductive invariant the theorems follow from.
LEMMA Invariant == Spec => []Inv
BY InitInv, NextInv, PTL DEF Spec

\* Supervise keeps its variables in their types, whatever ends the tunnel.
THEOREM TypeCorrect == Spec => []TypeOK
<1>1. Inv => TypeOK
  BY DEF Inv
<1> QED BY <1>1, Invariant, PTL

\* Supervise returns only when the child is reaped and both copy loops ended.
THEOREM TunnelsLeaveNothing == Spec => []NothingOutlives
<1>1. Inv => NothingOutlives
  BY DEF Inv, Knowledge, NothingOutlives
<1> QED BY <1>1, Invariant, PTL

\* cmd.Wait runs after everything the child wrote was read.
THEOREM OutputIsRead == Spec => []NoOutputLost
<1>1. Inv => NoOutputLost
  BY DEF Inv, Knowledge, NoOutputLost
<1> QED BY <1>1, Invariant, PTL

\* A tunnel whose first byte was seen is never ended by the startup timer.
THEOREM StartsCount == Spec => []StartedIsNotTimedOut
<1>1. Inv => StartedIsNotTimedOut
  BY DEF Inv, Knowledge, StartedIsNotTimedOut
<1> QED BY <1>1, Invariant, PTL
=============================================================================
