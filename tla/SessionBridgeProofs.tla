------------------------ MODULE SessionBridgeProofs ------------------------
(***************************************************************************)
(* One bridged session with any requests, any number of them and any       *)
(* amount of output.                                                       *)
(*                                                                         *)
(* The inductive invariant: until the session is live, what was promised   *)
(* is what was applied followed by what is still queued; from then on the  *)
(* two are equal as long as no replay failed.  A result in the wait        *)
(* channel means that the copies are done and, but for a subsystem, that   *)
(* the session ended with that result.  Copies are done only when all      *)
(* output was copied, when it was cut off, or when nobody takes it.        *)
(***************************************************************************)
EXTENDS SessionBridge, SequenceTheorems, TLAPS

\* Promises and what became of them.
Promises ==
    /\ IsPrefix(applied, acked)
    /\ stage \in {"pending", "opening", "replay"} => acked = applied \o queued
    /\ stage \in {"live", "asking", "aborting"} => applied = acked
    /\ stage = "asking" => queued # << >>

\* Nothing of the bridge is there before its session is opened.
Before ==
    /\ stage \in {"pending", "opening"} => inner = "none"
    /\ stage \in {"replay", "live", "asking", "aborting", "waitInput"} => inner # "none"
    /\ inner = "none" => ~drained /\ ~eof /\ produced = 0 /\ waitCh = "none" /\ started = "no"

\* The copies and the wait goroutine.
Results ==
    /\ drained =>
          \/ outer = "closed"
          \/ eof /\ copied = produced
          \/ ~eof /\ Over
    /\ waitCh # "none" => started # "no"
    /\ waitCh \in {"0", "1", "lost"} =>
          drained /\ (started # "subsystem" => inner = waitCh)

\* The status: sent at the end and not before, and never left out.
Status ==
    /\ status # "none" => stage \in {"waitInput", "done"}
    /\ stage = "waitInput" => status # "none"
    /\ stage = "done" /\ status = "none" => outer = "closed"
    /\ status \in {"0", "1"} =>
          /\ applied = acked /\ drained
          /\ started # "subsystem" => inner = status

Inv == TypeOK /\ Promises /\ Before /\ Results /\ Status

-----------------------------------------------------------------------------
(* Sequences *)

\* What was applied is a prefix of it followed by the queue.
LEMMA ConcatIsPrefix ==
    ASSUME NEW S, NEW s \in Seq(S), NEW t \in Seq(S)
    PROVE  IsPrefix(s, s \o t)
<1>1. s \o t \in Seq(S) /\ Len(s \o t) = Len(s) + Len(t) /\ Len(s) \in Nat /\ Len(t) \in Nat
  BY ConcatProperties, LenProperties
<1>2. CASE Len(s) = 0
  <2>1. SubSeq(s, 1, Len(s)) = << >> /\ SubSeq(s \o t, 1, Len(s)) = << >>
    BY <1>2, SubSeqEmpty
  <2> QED BY <1>1, <2>1 DEF IsPrefix
<1>3. CASE Len(s) > 0
  <2>1. 1 \in 1 .. Len(s) /\ Len(s) \in 1 .. Len(s)
    BY <1>1, <1>3
  <2>2. SubSeq(s \o t, 1, Len(s)) = SubSeq(s, 1, Len(s))
    BY <2>1, SubSeqOfConcat1
  <2> QED BY <1>1, <2>2 DEF IsPrefix
<1> QED BY <1>1, <1>2, <1>3

\* Every sequence is a prefix of itself.
LEMMA PrefixOfItself == ASSUME NEW S, NEW s \in Seq(S) PROVE IsPrefix(s, s)
<1>1. Len(s) \in Nat
  BY LenProperties
<1> QED BY <1>1 DEF IsPrefix

\* Moving the head of a queue to the end of what was applied.
LEMMA MoveHead ==
    ASSUME NEW S, NEW s \in Seq(S), NEW q \in Seq(S), q # << >>
    PROVE  /\ Append(s, Head(q)) \o Tail(q) = s \o q
           /\ Append(s, Head(q)) \in Seq(S) /\ Tail(q) \in Seq(S)
<1>1. Head(q) \in S /\ Tail(q) \in Seq(S) /\ Len(Tail(q)) = Len(q) - 1
      /\ \A i \in 1 .. Len(Tail(q)) : Tail(q)[i] = q[i + 1]
  BY HeadTailProperties
<1> DEFINE a == Append(s, Head(q))
<1>2. /\ a \in Seq(S) /\ Len(a) = Len(s) + 1
      /\ \A i \in 1 .. Len(s) : a[i] = s[i]
      /\ a[Len(s) + 1] = Head(q)
  BY <1>1
<1>3. Head(q) = q[1] /\ Len(q) \in Nat \ {0} /\ Len(s) \in Nat
  BY EmptySeq, LenProperties
<1> HIDE DEF a
<1>4. /\ a \o Tail(q) \in Seq(S) /\ Len(a \o Tail(q)) = Len(a) + Len(Tail(q))
      /\ \A i \in 1 .. Len(a) + Len(Tail(q)) : (a \o Tail(q))[i] =
            IF i <= Len(a) THEN a[i] ELSE Tail(q)[i - Len(a)]
  BY <1>1, <1>2, ConcatProperties
<1>5. /\ s \o q \in Seq(S) /\ Len(s \o q) = Len(s) + Len(q)
      /\ \A i \in 1 .. Len(s) + Len(q) : (s \o q)[i] =
            IF i <= Len(s) THEN s[i] ELSE q[i - Len(s)]
  BY ConcatProperties
<1>6. Len(a) + Len(Tail(q)) = Len(s) + Len(q)
  BY <1>1, <1>2, <1>3
<1>7. ASSUME NEW i \in 1 .. Len(s) + Len(q) PROVE (a \o Tail(q))[i] = (s \o q)[i]
  <2>1. CASE i <= Len(s)
    BY <1>2, <1>3, <1>4, <1>5, <1>6, <2>1
  <2>2. CASE i = Len(s) + 1
    BY <1>2, <1>3, <1>4, <1>5, <1>6, <2>2
  <2>3. CASE i > Len(s) + 1
    <3>1. /\ (a \o Tail(q))[i] = Tail(q)[i - Len(a)]
          /\ (s \o q)[i] = q[i - Len(s)]
      BY <1>2, <1>3, <1>4, <1>5, <1>6, <2>3
    <3>2. i - Len(a) \in 1 .. Len(Tail(q)) /\ (i - Len(a)) + 1 = i - Len(s)
      BY <1>1, <1>2, <1>3, <1>6, <2>3
    <3> QED BY <1>1, <3>1, <3>2
  <2>4. i <= Len(s) \/ i = Len(s) + 1 \/ i > Len(s) + 1
    BY <1>3
  <2> QED BY <2>1, <2>2, <2>3, <2>4
<1>8. a \o Tail(q) = s \o q
  BY <1>3, <1>4, <1>5, <1>6, <1>7, SeqEqual
<1> QED BY <1>1, <1>2, <1>8 DEF a

-----------------------------------------------------------------------------
(* Steps that neither promise nor apply a request *)

\* Nothing the invariant relates is touched.
LEMMA AsideInv ==
    ASSUME Inv, \/ TransportStarts \/ Cancel
                \/ InputEnds \/ InputBlocks \/ InputResumes
    PROVE  Inv'
<1>1. /\ UNCHANGED <<stage, outer, queued, started, inner, eof, closing, produced,
                     copied, drained, waitCh, status, acked, applied>>
      /\ ctx' \in BOOLEAN /\ transport' \in {"starting", "ready", "failed"}
      /\ input' \in {"off", "copying", "blocked", "done"}
  BY DEF Inv, TypeOK, TransportStarts, Cancel, InputEnds, InputBlocks, InputResumes,
         innerVars, copyVars, history
<1>2. TypeOK'
  BY <1>1 DEF Inv, TypeOK
<1>3. Promises' /\ Before'
  BY <1>1 DEF Inv, Promises, Before
<1>4. Results' /\ Status'
  BY <1>1 DEF Inv, Results, Status, Over
<1> QED BY <1>2, <1>3, <1>4 DEF Inv

\* The transport is there: the queue is still all that is owed.
LEMMA PendingReadyInv == ASSUME Inv, PendingReady PROVE Inv'
<1>1. TypeOK'
  BY DEF Inv, TypeOK, PendingReady, Stage, innerVars, copyVars, history
<1>2. Promises'
  BY DEF Inv, Promises, PendingReady, innerVars, copyVars, history
<1>3. Before'
  BY DEF Inv, Before, PendingReady, innerVars, copyVars, history
<1>4. Results'
  BY DEF Inv, Results, PendingReady, Over, innerVars, copyVars, history
<1>5. Status'
  BY DEF Inv, Status, PendingReady, Over, innerVars, copyVars, history
<1> QED BY <1>1, <1>2, <1>3, <1>4, <1>5 DEF Inv

\* A pending session that ends has sent its status, or its client left.
LEMMA PendingEndsInv == ASSUME Inv, PendingEnds PROVE Inv'
<1>1. TypeOK'
  BY DEF Inv, TypeOK, PendingEnds, Stage, SendStatus, innerVars, copyVars, history
<1>2. Promises'
  BY DEF Inv, Promises, PendingEnds, innerVars, copyVars, history
<1>3. Before'
  BY DEF Inv, Before, PendingEnds, innerVars, copyVars, history
<1>4. Results'
  BY DEF Inv, Results, PendingEnds, Over, innerVars, copyVars, history
<1>5. Status'
  BY DEF Inv, Status, PendingEnds, TypeOK, SendStatus, Over, Before, innerVars, copyVars, history
<1> QED BY <1>1, <1>2, <1>3, <1>4, <1>5 DEF Inv

\* The inner session starts with nothing applied.
LEMMA OpenInnerInv == ASSUME Inv, OpenInner PROVE Inv'
<1>1. TypeOK'
  BY DEF Inv, TypeOK, OpenInner, Stage, innerVars, copyVars, history
<1>2. Promises'
  BY DEF Inv, Promises, OpenInner, innerVars, copyVars, history
<1>3. Before'
  BY DEF Inv, Before, OpenInner, Before, innerVars, copyVars, history
<1>4. Results'
  BY DEF Inv, Results, OpenInner, Before, Over, innerVars, copyVars, history
<1>5. Status'
  BY DEF Inv, Status, OpenInner, Before, Over, innerVars, copyVars, history
<1> QED BY <1>1, <1>2, <1>3, <1>4, <1>5 DEF Inv

\* A session that could not be opened is reported as failed.
LEMMA OpenInnerFailsInv == ASSUME Inv, OpenInnerFails PROVE Inv'
<1>1. TypeOK'
  BY DEF Inv, TypeOK, OpenInnerFails, Stage, SendStatus, innerVars, copyVars, history
<1>2. Promises'
  BY DEF Inv, Promises, OpenInnerFails, innerVars, copyVars, history
<1>3. Before'
  BY DEF Inv, Before, OpenInnerFails, innerVars, copyVars, history
<1>4. Results'
  BY DEF Inv, Results, OpenInnerFails, Over, innerVars, copyVars, history
<1>5. Status'
  BY DEF Inv, Status, OpenInnerFails, SendStatus, Over, TypeOK, innerVars, copyVars, history
<1> QED BY <1>1, <1>2, <1>3, <1>4, <1>5 DEF Inv

\* With the queue empty everything promised was applied.
LEMMA ReplayDoneInv == ASSUME Inv, ReplayDone PROVE Inv'
<1>1. TypeOK'
  BY DEF Inv, TypeOK, ReplayDone, Stage, innerVars, copyVars, history
<1>2. Promises'
  BY ConcatEmptySeq DEF Inv, Promises, ReplayDone, TypeOK, innerVars, copyVars, history
<1>3. Before'
  BY DEF Inv, Before, ReplayDone, innerVars, copyVars, history
<1>4. Results'
  BY DEF Inv, Results, ReplayDone, Over, innerVars, copyVars, history
<1>5. Status'
  BY DEF Inv, Status, ReplayDone, Over, innerVars, copyVars, history
<1> QED BY <1>1, <1>2, <1>3, <1>4, <1>5 DEF Inv

\* An aborted session is closed before its result is collected.
LEMMA LiveAbortsInv == ASSUME Inv, LiveAborts PROVE Inv'
<1>0. closing' \in BOOLEAN
  BY DEF Inv, TypeOK, LiveAborts, CloseInner
<1>1. TypeOK'
  BY <1>0 DEF Inv, TypeOK, LiveAborts, Stage, Fails, SendStatus, innerVars, copyVars, history
<1>2. Promises'
  BY DEF Inv, Promises, LiveAborts, Fails, innerVars, copyVars, history
<1>3. Before'
  BY DEF Inv, Before, LiveAborts, Fails, CloseInner, innerVars, copyVars, history
<1>4. Results'
  BY DEF Inv, Results, LiveAborts, Fails, CloseInner, Alive, Over, innerVars, copyVars, history
<1>5. Status'
  BY DEF Inv, Status, LiveAborts, Fails, SendStatus, CloseInner, Over, innerVars, copyVars, history
<1> QED BY <1>1, <1>2, <1>3, <1>4, <1>5 DEF Inv

\* What an abort collects is no success of the program.
LEMMA AbortCollectsInv == ASSUME Inv, AbortCollects PROVE Inv'
<1>1. TypeOK'
  BY DEF Inv, TypeOK, AbortCollects, Stage, Fails, SendStatus, innerVars, copyVars, history
<1>2. Promises'
  BY DEF Inv, Promises, AbortCollects, Fails, innerVars, copyVars, history
<1>3. Before'
  BY DEF Inv, Before, AbortCollects, Fails, innerVars, copyVars, history
<1>4. Results'
  BY DEF Inv, Results, AbortCollects, Fails, Over, innerVars, copyVars, history
<1>5. Status'
  BY DEF Inv, Status, AbortCollects, Fails, SendStatus, Over, innerVars, copyVars, history
<1> QED BY <1>1, <1>2, <1>3, <1>4, <1>5 DEF Inv

\* The result that is passed on was put there after the drain.
LEMMA LiveFinishesInv == ASSUME Inv, LiveFinishes PROVE Inv'
<1>1. TypeOK'
  BY DEF Inv, TypeOK, LiveFinishes, Stage, SendStatus, innerVars, copyVars, history
<1>2. Promises'
  BY DEF Inv, Promises, LiveFinishes, innerVars, copyVars, history
<1>3. Before'
  BY DEF Inv, Before, LiveFinishes, innerVars, copyVars, history
<1>4. Results'
  BY DEF Inv, Results, LiveFinishes, Over, innerVars, copyVars, history
<1>5. Status'
  BY DEF Inv, Status, LiveFinishes, TypeOK, SendStatus, Over, Results, Promises, innerVars, copyVars, history
<1> QED BY <1>1, <1>2, <1>3, <1>4, <1>5 DEF Inv

\* The bridge returns when its status is out.
LEMMA InputAwaitedInv == ASSUME Inv, InputAwaited PROVE Inv'
<1>1. TypeOK'
  BY DEF Inv, TypeOK, InputAwaited, Stage, CloseInner, innerVars, copyVars, history
<1>2. Promises'
  BY DEF Inv, Promises, InputAwaited, innerVars, copyVars, history
<1>3. Before'
  BY DEF Inv, Before, InputAwaited, CloseInner, innerVars, copyVars, history
<1>4. Results'
  BY DEF Inv, Results, InputAwaited, CloseInner, Alive, Over, innerVars, copyVars, history
<1>5. Status'
  BY DEF Inv, Status, InputAwaited, CloseInner, Alive, Over, innerVars, copyVars, history
<1> QED BY <1>1, <1>2, <1>3, <1>4, <1>5 DEF Inv

\* The copies end when all is copied, or when nobody takes it.
LEMMA CopyEndsInv == ASSUME Inv, CopyEnds PROVE Inv'
<1>1. TypeOK'
  BY DEF Inv, TypeOK, CopyEnds, innerVars, copyVars, history
<1>2. Promises'
  BY DEF Inv, Promises, CopyEnds, innerVars, copyVars, history
<1>3. Before'
  <2>1. inner # "none"
    BY DEF Inv, TypeOK, Before, CopyEnds, Over
  <2> QED BY <2>1 DEF Inv, Before, CopyEnds, innerVars, copyVars, history
<1>4. Results'
  BY DEF Inv, Results, CopyEnds, Over, Alive, Before, TypeOK, Stage, innerVars, copyVars, history
<1>5. Status'
  BY DEF Inv, Status, CopyEnds, Over, innerVars, copyVars, history
<1> QED BY <1>1, <1>2, <1>3, <1>4, <1>5 DEF Inv

\* A chunk is copied after it was produced.
LEMMA CopyOutputInv == ASSUME Inv, CopyOutput PROVE Inv'
<1>1. TypeOK'
  BY DEF Inv, TypeOK, CopyOutput, innerVars, copyVars, history
<1>2. Promises'
  BY DEF Inv, Promises, CopyOutput, innerVars, copyVars, history
<1>3. Before'
  BY DEF Inv, Before, CopyOutput, innerVars, copyVars, history
<1>4. Results'
  BY DEF Inv, Results, CopyOutput, Over, innerVars, copyVars, history
<1>5. Status'
  BY DEF Inv, Status, CopyOutput, Over, innerVars, copyVars, history
<1> QED BY <1>1, <1>2, <1>3, <1>4, <1>5 DEF Inv

\* The wait goroutine reports what the inner session ended with.
LEMMA WaitReturnsInv == ASSUME Inv, WaitReturns PROVE Inv'
<1>0. closing' \in BOOLEAN /\ waitCh' \in {"0", "1", "lost"}
  BY DEF Inv, TypeOK, WaitReturns, Over, CloseInner
<1>1. TypeOK'
  BY <1>0 DEF Inv, TypeOK, WaitReturns, innerVars, copyVars, history
<1>2. Promises'
  BY DEF Inv, Promises, WaitReturns, innerVars, copyVars, history
<1>3. Before'
  BY DEF Inv, Before, WaitReturns, innerVars, copyVars, history
<1>4. Results'
  <2>1. drained /\ waitCh = "waiting"
        /\ UNCHANGED <<inner, eof, drained, outer, copied, produced, started>>
    BY DEF WaitReturns, Drained, copyVars
  <2>2. started # "subsystem" => inner = waitCh'
    BY DEF WaitReturns
  <2> QED BY <2>1, <2>2 DEF Inv, Results, Over
<1>5. Status'
  BY DEF Inv, Status, WaitReturns, Over, innerVars, copyVars, history
<1> QED BY <1>1, <1>2, <1>3, <1>4, <1>5 DEF Inv

\* A client that leaves excuses what it does not receive.
LEMMA ClientClosesInv == ASSUME Inv, ClientCloses PROVE Inv'
<1>1. TypeOK'
  BY DEF Inv, TypeOK, ClientCloses, innerVars, copyVars, history
<1>2. Promises'
  BY DEF Inv, Promises, ClientCloses, innerVars, copyVars, history
<1>3. Before'
  BY DEF Inv, Before, ClientCloses, innerVars, copyVars, history
<1>4. Results'
  BY DEF Inv, Results, ClientCloses, Over, innerVars, copyVars, history
<1>5. Status'
  BY DEF Inv, Status, ClientCloses, Over, innerVars, copyVars, history
<1> QED BY <1>1, <1>2, <1>3, <1>4, <1>5 DEF Inv

\* Output is produced by a running program only.
LEMMA ProgramWritesInv == ASSUME Inv, ProgramWrites PROVE Inv'
<1>1. TypeOK'
  BY BridgeAssumption DEF Inv, TypeOK, ProgramWrites, innerVars, copyVars, history
<1>2. Promises'
  BY DEF Inv, Promises, ProgramWrites, innerVars, copyVars, history
<1>3. Before'
  BY DEF Inv, Before, ProgramWrites, innerVars, copyVars, history
<1>4. Results'
  BY DEF Inv, Results, ProgramWrites, Over, innerVars, copyVars, history
<1>5. Status'
  BY DEF Inv, Status, ProgramWrites, Over, innerVars, copyVars, history
<1> QED BY <1>1, <1>2, <1>3, <1>4, <1>5 DEF Inv

\* Copies that are done have been so while the output went on: their client
\* had left.
LEMMA ProgramEOFInv == ASSUME Inv, ProgramEOF PROVE Inv'
<1>1. TypeOK'
  BY DEF Inv, TypeOK, ProgramEOF, innerVars, copyVars, history
<1>2. Promises'
  BY DEF Inv, Promises, ProgramEOF, innerVars, copyVars, history
<1>3. Before'
  BY DEF Inv, Before, ProgramEOF, innerVars, copyVars, history
<1>4. Results'
  BY DEF Inv, Results, ProgramEOF, Over, innerVars, copyVars, history
<1>5. Status'
  BY DEF Inv, Status, ProgramEOF, Over, innerVars, copyVars, history
<1> QED BY <1>1, <1>2, <1>3, <1>4, <1>5 DEF Inv

\* The session ends once and its result stays.
LEMMA InnerEndsInv == ASSUME Inv, InnerEnds PROVE Inv'
<1>0. eof' \in BOOLEAN /\ inner' \in {"0", "1", "lost"}
  BY DEF Inv, TypeOK, InnerEnds
<1>1. TypeOK'
  BY <1>0 DEF Inv, TypeOK, InnerEnds, innerVars, copyVars, history
<1>2. Promises'
  BY DEF Inv, Promises, InnerEnds, innerVars, copyVars, history
<1>3. Before'
  BY DEF Inv, Before, InnerEnds, Alive, innerVars, copyVars, history
<1>4. Results'
  BY DEF Inv, Results, InnerEnds, Alive, Over, innerVars, copyVars, history
<1>5. Status'
  BY DEF Inv, Status, InnerEnds, Alive, Over, innerVars, copyVars, history
<1> QED BY <1>1, <1>2, <1>3, <1>4, <1>5 DEF Inv

-----------------------------------------------------------------------------
(* Requests *)

\* A request is queued exactly if it was promised.
LEMMA QueueRequestInv == ASSUME Inv, NEW r \in Requests, QueueRequest(r) PROVE Inv'
<1>0. /\ stage = "pending" /\ acked = applied \o queued
      /\ queued \in Seq(Requests) /\ acked \in Seq(Requests) /\ applied \in Seq(Requests)
  BY DEF Inv, TypeOK, Promises, QueueRequest
<1>1. /\ UNCHANGED <<stage, outer, ctx, transport, started, inner, eof, closing, produced,
                     input, copied, drained, waitCh, status, applied>>
      /\ \/ acked' = Append(acked, r) /\ queued' = Append(queued, r)
         \/ UNCHANGED <<acked, queued>>
  BY DEF QueueRequest, innerVars, copyVars
<1>2. /\ queued' \in Seq(Requests) /\ acked' \in Seq(Requests)
      /\ acked' = applied \o queued'
  <2>0. applied \in Seq(Requests) /\ queued \in Seq(Requests)
    BY <1>0
  <2>1. CASE acked' = Append(acked, r) /\ queued' = Append(queued, r)
    <3>1. /\ Append(applied \o queued, r) = applied \o Append(queued, r)
          /\ Append(queued, r) \in Seq(Requests)
          /\ Append(applied \o queued, r) \in Seq(Requests)
      BY <2>0
    <3>2. acked' = Append(applied \o queued, r)
      BY <1>0, <2>1
    <3> QED BY <2>1, <3>1, <3>2, Zenon
  <2>2. CASE UNCHANGED <<acked, queued>>
    BY <1>0, <2>2
  <2> QED BY <1>1, <2>1, <2>2
<1>3. TypeOK'
  BY <1>1, <1>2 DEF Inv, TypeOK
<1>4. Promises'
  <2>1. IsPrefix(applied, applied \o queued')
    BY <1>0, <1>2, ConcatIsPrefix
  <2> QED BY <1>0, <1>1, <1>2, <2>1 DEF Promises
<1>5. Before' /\ Results'
  BY <1>1 DEF Inv, Before, Results, Over
<1>6. Status'
  BY <1>0, <1>1 DEF Inv, Status, Over
<1> QED BY <1>3, <1>4, <1>5, <1>6 DEF Inv

\* A request that the inner session takes while it is there: no session is
\* started twice, so no result is there yet when one starts.
LEMMA TakeStep ==
    ASSUME Inv, Asking, Take(Head(queued)),
           UNCHANGED <<outer, eof, produced, copied, drained, status>>,
           stage' \in {stage, "live"}
    PROVE  /\ started' \in {"no"} \cup Starters
           /\ inner' \in {"open", "running"}
           /\ waitCh' \in {"none", "waiting", "0", "1", "lost"}
           /\ Before' /\ Results' /\ Status'
<1> DEFINE r == Head(queued)
<1>0. Validates(r) /\ Take(r) /\ Alive /\ stage \in {"replay", "asking"}
  BY DEF Asking
<1> HIDE DEF r
<1>1. \/ started = "no" /\ started' \in Starters /\ inner' = "running" /\ waitCh' = "waiting"
      \/ UNCHANGED <<started, inner, waitCh>>
  BY <1>0 DEF Take, Validates, Starters, Setup
<1>2. /\ started' \in {"no"} \cup Starters
      /\ inner' \in {"open", "running"}
      /\ waitCh' \in {"none", "waiting", "0", "1", "lost"}
  BY <1>0, <1>1 DEF Inv, TypeOK, Alive
<1>3. Before'
  BY <1>0, <1>2 DEF Before
<1>4. Results'
  <2>1. CASE started = "no" /\ started' \in Starters /\ inner' = "running" /\ waitCh' = "waiting"
    BY <1>0, <2>1 DEF Inv, Results, Over, Alive, Starters
  <2>2. CASE UNCHANGED <<started, inner, waitCh>>
    BY <2>2 DEF Inv, Results, Over
  <2> QED BY <1>1, <2>1, <2>2
<1>5. Status'
  BY <1>0 DEF Inv, Status
<1> QED BY <1>2, <1>3, <1>4, <1>5

\* Replay moves the head of the queue to what was applied, or ends the
\* session as failed.
LEMMA ReplayInv == ASSUME Inv, Replay PROVE Inv'
<1>0. /\ stage = "replay" /\ queued # << >> /\ acked = applied \o queued
      /\ queued \in Seq(Requests) /\ acked \in Seq(Requests) /\ applied \in Seq(Requests)
  BY DEF Inv, TypeOK, Promises, Replay
<1>1. UNCHANGED <<outer, ctx, transport, eof, closing, produced, input, copied, drained, acked>>
  BY DEF Replay, copyVars
<1> DEFINE r == Head(queued)
<1>2. r \in Requests /\ Tail(queued) \in Seq(Requests)
      /\ Append(applied, r) \o Tail(queued) = applied \o queued
      /\ Append(applied, r) \in Seq(Requests)
  BY <1>0, HeadTailProperties, MoveHead
<1>3. CASE Asking /\ Take(r) /\ queued' = Tail(queued) /\ UNCHANGED <<stage, status>>
  <2>1. /\ started' \in {"no"} \cup Starters
        /\ inner' \in {"open", "running"}
        /\ waitCh' \in {"none", "waiting", "0", "1", "lost"}
        /\ Before' /\ Results' /\ Status'
    BY <1>1, <1>3, TakeStep
  <2> HIDE DEF r
  <2>2. applied' = Append(applied, r)
    BY <1>3 DEF Take
  <2>3. TypeOK'
    BY <1>0, <1>1, <1>2, <1>3, <2>1, <2>2 DEF Inv, TypeOK
  <2>4. IsPrefix(applied', applied' \o queued') /\ acked' = applied' \o queued'
    BY <1>0, <1>1, <1>2, <1>3, <2>2, ConcatIsPrefix
  <2>5. Promises'
    BY <1>0, <1>3, <2>4 DEF Promises
  <2> QED BY <2>1, <2>3, <2>5 DEF Inv
<1>4. CASE ReplayFails(Tail(queued)) /\ UNCHANGED <<started, inner, waitCh, applied>>
  <2>1. /\ stage' = "waitInput" /\ queued' = Tail(queued)
        /\ status' = IF status = "none" THEN "255" ELSE status
    BY <1>4 DEF ReplayFails, Fails, SendStatus
  <2>2. TypeOK'
    BY <1>0, <1>1, <1>2, <1>4, <2>1 DEF Inv, TypeOK, Stage
  <2>3. Promises' /\ Before'
    BY <1>0, <1>1, <1>4, <2>1 DEF Inv, Promises, Before
  <2>4. Results' /\ Status'
    BY <1>0, <1>1, <1>4, <2>1 DEF Inv, Results, Status, Over
  <2> QED BY <2>2, <2>3, <2>4 DEF Inv
<1> QED BY <1>3, <1>4 DEF Replay

\* A live request is with the inner session, or refused.
LEMMA LiveRequestInv == ASSUME Inv, NEW r \in Requests, LiveRequest(r) PROVE Inv'
<1>1. /\ stage = "live"
      /\ UNCHANGED <<outer, ctx, transport, started, inner, eof, closing, produced, input,
                     copied, drained, waitCh, status, acked, applied>>
  BY DEF LiveRequest, innerVars, copyVars
<1>2. \/ stage' = "asking" /\ queued' = <<r>>
      \/ UNCHANGED <<stage, queued>>
  BY DEF LiveRequest
<1>3. <<r>> \in Seq(Requests) /\ <<r>> # << >>
  OBVIOUS
<1>4. TypeOK'
  <2>1. stage' \in Stage /\ queued' \in Seq(Requests)
    BY <1>2, <1>3 DEF Inv, TypeOK, Stage
  <2> QED BY <1>1, <2>1 DEF Inv, TypeOK
<1>5. Promises' /\ Before'
  BY <1>1, <1>2, <1>3 DEF Inv, Promises, Before
<1>6. Results' /\ Status'
  BY <1>1, <1>2 DEF Inv, Results, Status, Over
<1> QED BY <1>4, <1>5, <1>6 DEF Inv

\* A live request is acknowledged exactly if the inner session took it.
LEMMA LiveAnswerInv == ASSUME Inv, LiveAnswer PROVE Inv'
<1> DEFINE r == Head(queued)
<1>0. /\ stage = "asking" /\ applied = acked /\ queued # << >> /\ queued' = << >>
      /\ queued \in Seq(Requests) /\ acked \in Seq(Requests) /\ applied \in Seq(Requests)
  BY DEF Inv, TypeOK, Promises, LiveAnswer
<1>1. /\ UNCHANGED <<outer, ctx, transport, eof, closing, produced, input, copied, drained>>
      /\ << >> \in Seq(Requests)
  BY EmptySeq DEF LiveAnswer, copyVars
<1>2. r \in Requests
  BY <1>0, HeadTailProperties
<1>3. CASE Asking /\ Take(r) /\ acked' = Append(acked, r) /\ stage' = "live" /\ UNCHANGED status
  <2>1. /\ started' \in {"no"} \cup Starters
        /\ inner' \in {"open", "running"}
        /\ waitCh' \in {"none", "waiting", "0", "1", "lost"}
        /\ Before' /\ Results' /\ Status'
    BY <1>1, <1>3, TakeStep
  <2> HIDE DEF r
  <2>2. applied' = acked' /\ acked' \in Seq(Requests)
    BY <1>0, <1>2, <1>3 DEF Take
  <2>3. TypeOK'
    BY <1>0, <1>1, <1>3, <2>1, <2>2 DEF Inv, TypeOK, Stage
  <2>4. IsPrefix(applied', acked')
    BY <2>2, PrefixOfItself
  <2>5. Promises'
    BY <1>3, <2>2, <2>4 DEF Promises
  <2> QED BY <2>1, <2>3, <2>5 DEF Inv
<1>4. CASE /\ \/ stage' = "waitInput" /\ status' = IF status = "none" THEN "255" ELSE status
              \/ stage' = "live" /\ UNCHANGED status
           /\ UNCHANGED <<acked, applied, started, inner, waitCh>>
  <2>1. TypeOK'
    BY <1>0, <1>1, <1>4 DEF Inv, TypeOK, Stage
  <2>2. Promises' /\ Before'
    BY <1>0, <1>1, <1>4 DEF Inv, Promises, Before
  <2>3. Results' /\ Status'
    BY <1>0, <1>1, <1>4 DEF Inv, Results, Status, Over
  <2> QED BY <2>1, <2>2, <2>3 DEF Inv
<1> QED BY <1>3, <1>4 DEF LiveAnswer, Fails, SendStatus

-----------------------------------------------------------------------------
(* The theorems *)

\* It holds when the channel is accepted.
LEMMA InitInv == Init => Inv
<1> SUFFICES ASSUME Init PROVE Inv
  OBVIOUS
<1>1. << >> \in Seq(Requests)
  BY EmptySeq
<1>2. IsPrefix(<< >>, << >>) /\ << >> = << >> \o << >>
  BY <1>1, PrefixOfItself, ConcatEmptySeq
<1>3. TypeOK
  <2>1. 0 \in 0..MaxOutput /\ 0 \in 0..0
    BY BridgeAssumption
  <2> QED BY <1>1, <2>1 DEF Init, TypeOK, Stage
<1>4. Promises
  BY <1>2 DEF Init, Promises
<1>5. Before /\ Results /\ Status
  BY DEF Init, Before, Results, Status
<1> QED BY <1>3, <1>4, <1>5 DEF Inv

\* Every step keeps it.
LEMMA NextInv == Inv /\ [Next]_vars => Inv'
<1> SUFFICES ASSUME Inv, [Next]_vars PROVE Inv'
  OBVIOUS
<1>1. CASE PendingNext
  BY <1>1, AsideInv, PendingReadyInv, PendingEndsInv, QueueRequestInv DEF PendingNext
<1>2. CASE BridgeNext
  BY <1>2, ReplayDoneInv, LiveAbortsInv, AbortCollectsInv, LiveFinishesInv,
     InputAwaitedInv DEF BridgeNext
<1>3. CASE CopyNext
  BY <1>3, CopyEndsInv, CopyOutputInv, AsideInv, WaitReturnsInv DEF CopyNext
<1>4. CASE UNCHANGED vars
  <2>1. UNCHANGED <<stage, outer, ctx, transport, queued, started, inner, eof, closing,
                    produced, input, copied, drained, waitCh, status, acked, applied>>
    BY <1>4 DEF vars, innerVars, copyVars, history
  <2>2. TypeOK' /\ Promises' /\ Before'
    BY <2>1 DEF Inv, TypeOK, Promises, Before
  <2>3. Results' /\ Status'
    BY <2>1 DEF Inv, Results, Status, Over
  <2> QED BY <2>2, <2>3 DEF Inv
<1>5. CASE OpenInner \/ OpenInnerFails \/ AskNext
  BY <1>5, OpenInnerInv, OpenInnerFailsInv, ReplayInv, LiveAnswerInv DEF AskNext
<1> QED BY <1>1, <1>2, <1>3, <1>4, <1>5, LiveRequestInv, AsideInv, ClientClosesInv,
           ProgramWritesInv, ProgramEOFInv, InnerEndsInv DEF Next

\* The inductive invariant of BridgePendingSession and BridgeSession holds in
\* every reachable state.
THEOREM Invariance == Spec => []Inv
<1> QED BY InitInv, NextInv, PTL DEF Spec

\* Every variable keeps its type; no more output is copied than was produced.
THEOREM TypeCorrect == Spec => []TypeOK
<1>1. Inv => TypeOK
  BY DEF Inv
<1> QED BY <1>1, Invariance, PTL

\* Whatever the client asks and whenever the transport comes, the inner session
\* takes the acknowledged requests in their order, and has taken all of them
\* when the session is live (BridgePendingSession, forwardSessionRequests).
THEOREM PromisesAreKept == Spec => []AckedIsApplied
<1>1. Inv => AckedIsApplied
  BY DEF Inv, Promises, AckedIsApplied
<1> QED BY <1>1, Invariance, PTL

\* exit-status 0 or 1 is sent only for a shell or a command that ended with it,
\* or for a subsystem, with every promise kept and the output delivered to its
\* end or to where the transport broke (waitDrained, finishSession).
THEOREM StatusesAreTruthful == Spec => []StatusIsTruthful
<1>1. Inv => StatusIsTruthful
  BY DEF Inv, Status, Results, StatusIsTruthful
<1> QED BY <1>1, Invariance, PTL

\* No way out of the bridge leaves a client that is still there without a
\* status (failPending, BridgeSession's error paths).
THEOREM NoEndIsMute == Spec => []NoMuteEnd
<1>1. Inv => NoMuteEnd
  BY DEF Inv, Status, NoMuteEnd
<1> QED BY <1>1, Invariance, PTL

=============================================================================
