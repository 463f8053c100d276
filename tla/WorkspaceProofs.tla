-------------------------- MODULE WorkspaceProofs --------------------------
(***************************************************************************)
(* One workspace connection with any number of channels, transports and    *)
(* slots.                                                                  *)
(*                                                                         *)
(* The inductive invariant says which stage a handler of a kind can be in  *)
(* and what it holds there; that the lock is held exactly while one child  *)
(* starts and no transport is bound; that every child there is, and no     *)
(* other, is charged; and that until the transport is detached whoever got *)
(* one still finds it bound.  After that a late bind goroutine or forward  *)
(* request may start another, so the bound transport and the one being     *)
(* closed are told apart.                                                  *)
(***************************************************************************)
EXTENDS Workspace, FiniteSetTheorems, TLAPS

Stages == {"idle", "load", "accept", "lock", "pending", "bridge",
           "tunnel", "end", "done"} \cup Slots

Types ==
    /\ conn \in {"open", "closed"}
    /\ ctx \in BOOLEAN
    /\ pc \in [Chans -> Stages]
    /\ held \in [Chans -> SUBSET Slots]
    /\ ended \in [Chans -> SUBSET {"outer", "inner"}]
    /\ bind \in [Chans -> {"none", "lock", "got", "failed"}]
    /\ req \in {"idle", "lock", "relay", "ended"}
    /\ mu \in Actors \cup {None}
    /\ tr \in Transports \cup {None}
    /\ state \in [Transports -> {"none", "starting", "up", "dead"}]
    /\ charged \subseteq Transports
    /\ dispatch \in {"loop", "wait", "close", "closing", "done"}
    /\ closing \in Transports \cup {None}

\* A handler is where its kind can be, and a jump past admission has paid.
StageOK(c) ==
    /\ pc[c] \in {"load", "accept"} => Kind[c] # "relay"
    /\ pc[c] \in {"load", "accept"} /\ Kind[c] = "jump" => "proc" \in held[c]
    /\ pc[c] = "proc" => Kind[c] = "jump"
    /\ pc[c] = "tunnel" => "proc" \in held[c]
    /\ pc[c] = "lock" => Kind[c] = "relay"
    /\ bind[c] # "none" => Kind[c] = "session"

StagesOK == \A c \in Chans : StageOK(c)

\* The lock is held while one child starts; a relay that holds it is there.
LockOK ==
    /\ mu # None => tr = None
    /\ mu # None <=> \E t \in Transports : state[t] = "starting"
    /\ \A t, u \in Transports : state[t] = "starting" /\ state[u] = "starting" => t = u
    /\ mu \in Chans => (Kind[mu] = "relay" => pc[mu] = "lock")

Started(t) == state[t] \in {"up", "dead"}

\* The transport has not been taken away.
Attached == dispatch \in {"loop", "wait", "close"}

TransportsOK ==
    /\ charged = {t \in Transports : state[t] # "none"}
    /\ tr # None => Started(tr)
    /\ closing # None => dispatch = "closing" /\ Started(closing) /\ closing # tr
    /\ Attached => \A t \in Transports : Started(t) => t = tr

\* Who got a transport finds it until it is taken away; then no handler is left.
UseOK ==
    /\ Attached => \A c \in Chans : bind[c] = "got" \/ pc[c] = "bridge" => tr # None
    /\ dispatch \in {"close", "closing", "done"} => HandlersGone

Struct == Types /\ StagesOK /\ LockOK /\ TransportsOK /\ UseOK

Inv == Struct /\ InUse("proc") <= Limit["proc"]

-----------------------------------------------------------------------------
(* Slots *)

\* One more element makes a set of at most one more.
LEMMA AtMostOneMore ==
    ASSUME NEW S, IsFiniteSet(S), NEW x
    PROVE  /\ IsFiniteSet(S \cup {x})
           /\ Cardinality(S \cup {x}) \in Nat
           /\ Cardinality(S \cup {x}) <= Cardinality(S) + 1
<1>1. Cardinality(S) \in Nat
  BY FS_CardinalityType
<1>2. /\ IsFiniteSet(S \cup {x})
      /\ Cardinality(S \cup {x}) = IF x \in S THEN Cardinality(S) ELSE Cardinality(S) + 1
  BY FS_AddElement, Zenon
<1> QED BY <1>1, <1>2

\* The handlers that hold a process slot.
Payers == {c \in Chans : "proc" \in held[c]}

\* The process slots in use: those the handlers hold, and the charged children.
LEMMA InUseIs ==
    ASSUME Types
    PROVE  /\ InUse("proc") = Cardinality(Payers) + Cardinality(charged)
           /\ IsFiniteSet(Payers) /\ IsFiniteSet(charged)
           /\ Cardinality(Payers) \in Nat /\ Cardinality(charged) \in Nat
           /\ InUse("proc") \in Nat /\ Limit["proc"] \in Nat
<1>1. InUse("proc") = Cardinality(Payers) + Cardinality(charged)
  BY DEF InUse, Payers
<1>2. IsFiniteSet(Payers) /\ IsFiniteSet(charged)
  BY FS_Subset, WorkspaceAssumption DEF Types, Payers
<1>3. Cardinality(Payers) \in Nat /\ Cardinality(charged) \in Nat
  BY <1>2, FS_CardinalityType
<1> QED BY <1>1, <1>2, <1>3, WorkspaceAssumption DEF Slots

\* The same, after the step.
LEMMA InUseNext ==
    ASSUME Types'
    PROVE  /\ InUse("proc")' = Cardinality(Payers') + Cardinality(charged')
           /\ IsFiniteSet(Payers') /\ IsFiniteSet(charged')
           /\ Cardinality(Payers') \in Nat /\ Cardinality(charged') \in Nat
<1>1. InUse("proc")' = Cardinality(Payers') + Cardinality(charged')
  BY DEF InUse, Payers
<1>2. IsFiniteSet(Payers') /\ IsFiniteSet(charged')
  BY FS_Subset, WorkspaceAssumption DEF Types, Payers
<1> QED BY <1>1, <1>2, FS_CardinalityType

\* Giving back, or keeping, cannot exceed a limit.
LEMMA NoMoreInUse ==
    ASSUME Types, Types', InUse("proc") <= Limit["proc"],
           Payers' \subseteq Payers, charged' \subseteq charged
    PROVE  (InUse("proc") <= Limit["proc"])'
<1>1. Cardinality(Payers') <= Cardinality(Payers)
      /\ Cardinality(charged') <= Cardinality(charged)
  BY InUseIs, FS_Subset
<1>2. InUse("proc")' <= Limit["proc"]
  BY <1>1, InUseIs, InUseNext
<1> QED BY <1>2

\* One slot more where there was room.
LEMMA OneMorePayer ==
    ASSUME Types, Types', Room("proc"), NEW c \in Chans,
           Payers' \subseteq Payers \cup {c}, charged' = charged
    PROVE  (InUse("proc") <= Limit["proc"])'
<1>1. IsFiniteSet(Payers \cup {c})
      /\ Cardinality(Payers \cup {c}) \in Nat
      /\ Cardinality(Payers \cup {c}) <= Cardinality(Payers) + 1
  BY InUseIs, AtMostOneMore
<1>2. Cardinality(Payers') <= Cardinality(Payers \cup {c})
  BY <1>1, FS_Subset
<1>3. InUse("proc")' <= Limit["proc"]
  BY <1>1, <1>2, InUseIs, InUseNext DEF Room
<1> QED BY <1>3

\* A child is charged while there is room, so it fits the process limit.
LEMMA OneMoreChild ==
    ASSUME Types, Types', Room("proc"), NEW t \in Transports,
           Payers' = Payers, charged' = charged \cup {t}
    PROVE  (InUse("proc") <= Limit["proc"])'
<1>1. Cardinality(charged \cup {t}) \in Nat
      /\ Cardinality(charged \cup {t}) <= Cardinality(charged) + 1
  BY InUseIs, AtMostOneMore
<1>2. InUse("proc")' <= Limit["proc"]
  BY <1>1, InUseIs, InUseNext DEF Room
<1> QED BY <1>2

-----------------------------------------------------------------------------
(* The handler of one channel *)

\* A step of the handler of c that has to do neither with the lock nor with
\* the transport.  c is somewhere, or is being opened.
LEMMA HandlerStep ==
    ASSUME Struct, NEW c \in Chans,
           NEW s \in Stages, pc' = [pc EXCEPT ![c] = s],
           NEW h \in SUBSET Slots, held' = [held EXCEPT ![c] = h],
           NEW b \in {"none", "lock", "failed", bind[c]}, bind' = [bind EXCEPT ![c] = b],
           ended' \in [Chans -> SUBSET {"outer", "inner"}],
           conn' \in {"open", "closed"}, ctx' \in BOOLEAN,
           UNCHANGED <<req, shared, dispatch, closing>>,
           pc[c] # "lock",
           pc[c] \notin {"idle", "done"} \/ dispatch = "loop",
           s \in {"load", "accept"} =>
              Kind[c] # "relay" /\ (Kind[c] = "jump" => "proc" \in h),
           s = "proc" => Kind[c] = "jump",
           s = "tunnel" => "proc" \in h,
           s = "lock" => Kind[c] = "relay",
           s = "bridge" => pc[c] = "bridge" \/ bind[c] = "got",
           b # "none" => Kind[c] = "session"
    PROVE  Struct'
<1>1. Types
  BY DEF Struct
<1>2. Types'
  BY <1>1 DEF Types, shared
<1>3. ASSUME NEW d \in Chans PROVE StageOK(d)'
  <2>1. CASE d = c
    BY <1>1, <2>1 DEF Types, StageOK
  <2>2. CASE d # c
    BY <1>1, <2>2 DEF Struct, StagesOK, Types, StageOK
  <2> QED BY <2>1, <2>2
<1>4. LockOK'
  BY <1>1 DEF Struct, Types, LockOK, shared
<1>5. TransportsOK'
  BY DEF Struct, TransportsOK, Started, Attached, shared
<1>6. UseOK'
  <2>1. dispatch \notin {"close", "closing", "done"}
    BY DEF Struct, UseOK, HandlersGone
  <2> QED BY <1>1, <2>1 DEF Struct, Types, UseOK, Attached, shared
<1> QED BY <1>2, <1>3, <1>4, <1>5, <1>6 DEF Struct, StagesOK

\* A step that changes nothing but the stage (and what the model says of the
\* ended directions and of the outer connection).
LEMMA GotoStep ==
    ASSUME Inv, NEW c \in Chans, NEW s \in Stages, Goto(c, s),
           ended' \in [Chans -> SUBSET {"outer", "inner"}],
           conn' \in {"open", "closed"}, ctx' \in BOOLEAN,
           UNCHANGED <<held, bind, req, shared, dispatch, closing>>,
           pc[c] # "lock",
           pc[c] \notin {"idle", "done"} \/ dispatch = "loop",
           s \in {"load", "accept"} =>
              Kind[c] # "relay" /\ (Kind[c] = "jump" => "proc" \in held[c]),
           s = "proc" => Kind[c] = "jump",
           s = "tunnel" => "proc" \in held[c],
           s = "lock" => Kind[c] = "relay",
           s = "bridge" => pc[c] = "bridge" \/ bind[c] = "got"
    PROVE  Inv'
<1>1. Struct /\ Types /\ StageOK(c)
  BY DEF Inv, Struct, StagesOK
<1>2. /\ held[c] \in SUBSET Slots
      /\ held' = [held EXCEPT ![c] = held[c]]
      /\ bind' = [bind EXCEPT ![c] = bind[c]]
      /\ bind[c] # "none" => Kind[c] = "session"
      /\ pc' = [pc EXCEPT ![c] = s]
  BY <1>1 DEF Types, StageOK, Goto
<1>3. Struct'
  BY <1>1, <1>2, HandlerStep
<1>4. Types'
  BY <1>3 DEF Struct
<1>5. Payers' = Payers /\ charged' = charged
  BY DEF Payers, shared
<1> QED BY <1>1, <1>3, <1>4, <1>5, NoMoreInUse DEF Inv

\* Where the unconditional steps lead: nothing is asked of these stages.
LEMMA EndStep ==
    ASSUME Inv, NEW c \in Chans, NEW s \in {"end", "chan", "acct"}, Goto(c, s),
           ended' \in [Chans -> SUBSET {"outer", "inner"}],
           conn' \in {"open", "closed"}, ctx' \in BOOLEAN,
           UNCHANGED <<held, bind, req, shared, dispatch, closing>>,
           pc[c] # "lock",
           pc[c] \notin {"idle", "done"} \/ dispatch = "loop"
    PROVE  Inv'
<1>1. s \in Stages /\ s \notin {"load", "accept", "proc", "tunnel", "lock", "bridge"}
  BY DEF Stages, Slots
<1> QED BY <1>1, GotoStep

\* Types of what a handler leaves alone.
LEMMA OuterTypes ==
    ASSUME Inv
    PROVE  /\ ended \in [Chans -> SUBSET {"outer", "inner"}]
           /\ conn \in {"open", "closed"} /\ ctx \in BOOLEAN
BY DEF Inv, Struct, Types

\* A new channel holds nothing.
LEMMA OpenChannelInv == ASSUME Inv, NEW c \in Chans, OpenChannel(c) PROVE Inv'
<1>1. Goto(c, "chan") /\ dispatch = "loop" /\ pc[c] # "lock"
      /\ UNCHANGED <<outer, held, ended, bind, req, shared, dispatch, closing>>
  BY DEF OpenChannel
<1>2. ended' \in [Chans -> SUBSET {"outer", "inner"}]
      /\ conn' \in {"open", "closed"} /\ ctx' \in BOOLEAN
  BY <1>1, OuterTypes DEF outer
<1> QED BY <1>1, <1>2, EndStep

\* Where a handler goes from a slot it was given.
LEMMA NextStageOK ==
    ASSUME Struct, NEW c \in Chans, pc[c] \in Slots
    PROVE  /\ NextStage(c) \in {"acct", "proc", "lock", "load"}
           /\ NextStage(c) = "proc" => Kind[c] = "jump"
           /\ NextStage(c) = "lock" => Kind[c] = "relay"
           /\ NextStage(c) = "load" =>
                 \/ Kind[c] = "session"
                 \/ Kind[c] = "jump" /\ pc[c] = "proc"
<1>1. Kind[c] \in {"session", "relay", "jump"} /\ (pc[c] = "proc" => Kind[c] = "jump")
  BY WorkspaceAssumption DEF Struct, StagesOK, StageOK
<1>2. CASE pc[c] = "chan"
  <2>1. NextStage(c) = "acct"
    BY <1>2 DEF NextStage
  <2> QED BY <2>1
<1>3. CASE pc[c] = "acct" /\ Kind[c] = "jump"
  <2>1. NextStage(c) = "proc"
    BY <1>3 DEF NextStage
  <2> QED BY <1>3, <2>1
<1>4. CASE pc[c] = "acct" /\ Kind[c] = "relay"
  <2>1. NextStage(c) = "lock"
    BY <1>4 DEF NextStage
  <2> QED BY <1>4, <2>1
<1>5. CASE pc[c] = "proc" \/ (pc[c] = "acct" /\ Kind[c] = "session")
  <2>1. NextStage(c) = "load"
    BY <1>5 DEF NextStage
  <2> QED BY <1>1, <1>5, <2>1
<1> QED BY <1>1, <1>2, <1>3, <1>4, <1>5 DEF Slots

\* A slot is taken only while one is free.
LEMMA TakeSlotInv == ASSUME Inv, NEW c \in Chans, TakeSlot(c) PROVE Inv'
<1>1. /\ pc[c] \in Slots
      /\ UNCHANGED <<outer, ended, bind, req, shared, dispatch, closing>>
  BY DEF TakeSlot
<1>2. ended' \in [Chans -> SUBSET {"outer", "inner"}]
      /\ conn' \in {"open", "closed"} /\ ctx' \in BOOLEAN
  BY <1>1, OuterTypes DEF outer
<1>3. pc[c] # "lock" /\ pc[c] \notin {"idle", "done"}
  BY <1>1 DEF Slots
<1>4. CASE Room(pc[c])
  <2> DEFINE s == NextStage(c)
             h == held[c] \cup {pc[c]}
  <2>0. Struct /\ Types /\ StageOK(c)
    BY DEF Inv, Struct, StagesOK
  <2>1. pc' = [pc EXCEPT ![c] = s] /\ held' = [held EXCEPT ![c] = h]
    BY <1>4 DEF TakeSlot, Goto
  <2>2. h \in SUBSET Slots /\ pc[c] \in h
    BY <1>1, <2>0 DEF Types
  <2>3. s \in {"acct", "proc", "lock", "load"}
        /\ (s = "proc" => Kind[c] = "jump") /\ (s = "lock" => Kind[c] = "relay")
        /\ (s = "load" => Kind[c] = "session" \/ (Kind[c] = "jump" /\ pc[c] = "proc"))
    BY <1>1, <2>0, NextStageOK
  <2>4. bind' = [bind EXCEPT ![c] = bind[c]]
    BY <1>1, <2>0 DEF Types
  <2>5. bind[c] # "none" => Kind[c] = "session"
    BY <2>0 DEF StageOK
  <2>6. \A x \in Chans : held'[x] = IF x = c THEN h ELSE held[x]
    BY <2>0, <2>1 DEF Types
  <2> HIDE DEF s, h
  <2>7. s \in Stages /\ s \notin {"tunnel", "bridge"}
    BY <2>3 DEF Stages, Slots
  <2>8. s \in {"load", "accept"} => Kind[c] # "relay" /\ (Kind[c] = "jump" => "proc" \in h)
    BY <2>2, <2>3
  <2>9. Struct'
    BY <1>1, <1>2, <1>3, <2>0, <2>1, <2>2, <2>3, <2>4, <2>5, <2>7, <2>8, HandlerStep
  <2>10. Types' /\ charged' = charged
    BY <1>1, <2>9 DEF Struct, shared
  <2>11. CASE pc[c] = "proc"
    <3>1. Payers' \subseteq Payers \cup {c}
      BY <2>6 DEF Payers
    <3> QED BY <1>4, <2>0, <2>9, <2>10, <2>11, <3>1, OneMorePayer DEF Inv
  <2>12. CASE pc[c] # "proc"
    <3>1. Payers' \subseteq Payers
      BY <2>6, <2>12 DEF Payers, h
    <3> QED BY <2>0, <2>9, <2>10, <3>1, NoMoreInUse DEF Inv
  <2> QED BY <2>11, <2>12
<1>5. CASE ~Room(pc[c])
  <2>1. UNCHANGED held /\ Goto(c, "end")
    BY <1>5 DEF TakeSlot
  <2> QED BY <1>1, <1>2, <1>3, <2>1, EndStep
<1> QED BY <1>4, <1>5

\* The verdict on the credential moves the handler on or away.
LEMMA AdmitCredentialInv == ASSUME Inv, NEW c \in Chans, AdmitCredential(c) PROVE Inv'
<1>1. /\ pc[c] = "load"
      /\ UNCHANGED <<held, ended, bind, req, shared, dispatch, closing>>
  BY DEF AdmitCredential
<1>2. ended' \in [Chans -> SUBSET {"outer", "inner"}]
      /\ conn' \in {"open", "closed"} /\ ctx' \in BOOLEAN
  BY <1>1, OuterTypes DEF AdmitCredential, CloseConn, outer
<1>3. CASE Goto(c, "accept")
  <2>1. Kind[c] # "relay" /\ (Kind[c] = "jump" => "proc" \in held[c])
    BY <1>1 DEF Inv, Struct, StagesOK, StageOK
  <2>2. "accept" \in Stages
    BY DEF Stages
  <2> QED BY <1>1, <1>2, <1>3, <2>1, <2>2, GotoStep
<1>4. CASE Goto(c, "end")
  BY <1>1, <1>2, <1>4, EndStep
<1> QED BY <1>3, <1>4 DEF AdmitCredential

\* An accepted channel goes where its kind goes.
LEMMA AcceptChannelInv == ASSUME Inv, NEW c \in Chans, AcceptChannel(c) PROVE Inv'
<1>0. Struct /\ Types /\ StageOK(c) /\ Kind[c] \in {"session", "relay", "jump"}
  BY WorkspaceAssumption DEF Inv, Struct, StagesOK
<1>1. /\ pc[c] = "accept"
      /\ UNCHANGED <<outer, held, ended, req, shared, dispatch, closing>>
  BY DEF AcceptChannel
<1>2. ended' \in [Chans -> SUBSET {"outer", "inner"}]
      /\ conn' \in {"open", "closed"} /\ ctx' \in BOOLEAN
  BY <1>1, OuterTypes DEF outer
<1>3. CASE conn = "open" /\ Kind[c] = "session"
  <2>1. Goto(c, "pending") /\ bind' = [bind EXCEPT ![c] = "lock"]
    BY <1>3 DEF AcceptChannel
  <2>2. held' = [held EXCEPT ![c] = held[c]] /\ held[c] \in SUBSET Slots
    BY <1>0, <1>1 DEF Types
  <2>3. "pending" \in Stages
    BY DEF Stages
  <2>4. Struct'
    BY <1>0, <1>1, <1>2, <1>3, <2>1, <2>2, <2>3, HandlerStep DEF Goto
  <2>5. Types' /\ Payers' = Payers /\ charged' = charged
    BY <1>1, <2>4 DEF Struct, Payers, shared
  <2> QED BY <1>0, <2>4, <2>5, NoMoreInUse DEF Inv
<1>4. CASE ~(conn = "open" /\ Kind[c] = "session")
  <2>1. UNCHANGED bind
    BY <1>0, <1>4 DEF AcceptChannel, Types
  <2>2. CASE conn = "closed"
    <3>1. Goto(c, "end")
      BY <2>2 DEF AcceptChannel
    <3> QED BY <1>1, <1>2, <2>1, <3>1, EndStep
  <2>3. CASE conn = "open"
    <3>1. Goto(c, "tunnel") /\ Kind[c] # "session"
      BY <1>4, <2>3 DEF AcceptChannel
    <3>2. "proc" \in held[c]
      BY <1>0, <1>1, <3>1 DEF StageOK
    <3>3. "tunnel" \in Stages
      BY DEF Stages
    <3> QED BY <1>1, <1>2, <2>1, <3>1, <3>2, <3>3, GotoStep
  <2> QED BY <1>0, <2>2, <2>3 DEF Types
<1> QED BY <1>3, <1>4

\* A pending session is bridged only with the transport it was bound to.
LEMMA LeavePendingInv == ASSUME Inv, NEW c \in Chans, LeavePending(c) PROVE Inv'
<1>1. /\ pc[c] = "pending"
      /\ UNCHANGED <<outer, held, ended, bind, req, shared, dispatch, closing>>
  BY DEF LeavePending
<1>2. ended' \in [Chans -> SUBSET {"outer", "inner"}]
      /\ conn' \in {"open", "closed"} /\ ctx' \in BOOLEAN
  BY <1>1, OuterTypes DEF outer
<1>3. CASE Goto(c, "bridge") /\ bind[c] = "got"
  <2>1. "bridge" \in Stages
    BY DEF Stages
  <2> QED BY <1>1, <1>2, <1>3, <2>1, GotoStep
<1>4. CASE Goto(c, "end")
  BY <1>1, <1>2, <1>4, EndStep
<1> QED BY <1>3, <1>4 DEF LeavePending, AfterPending

\* The steps that only end something.
LEMMA EndingsInv ==
    ASSUME Inv, NEW c \in Chans,
           \/ ClientLeaves(c) \/ OuterEnds(c) \/ InnerEnds(c)
           \/ BridgeEnds(c) \/ TunnelEnds(c)
    PROVE  Inv'
<1>1. /\ pc[c] \in {"pending", "bridge", "tunnel"}
      /\ UNCHANGED <<outer, held, bind, req, shared, dispatch, closing>>
      /\ Goto(c, "end") \/ (pc[c] = "bridge" /\ UNCHANGED pc)
  BY DEF ClientLeaves, OuterEnds, InnerEnds, BridgeEnds, TunnelEnds
<1>2. conn' \in {"open", "closed"} /\ ctx' \in BOOLEAN
  BY <1>1, OuterTypes DEF outer
<1>3. ended' \in [Chans -> SUBSET {"outer", "inner"}]
  BY OuterTypes DEF ClientLeaves, OuterEnds, InnerEnds, BridgeEnds, TunnelEnds
<1>4. CASE Goto(c, "end")
  BY <1>1, <1>2, <1>3, <1>4, EndStep
<1>5. CASE pc[c] = "bridge" /\ UNCHANGED pc
  <2>1. Goto(c, "bridge")
    BY <1>5 DEF Inv, Struct, Types, Goto
  <2>2. "bridge" \in Stages
    BY DEF Stages
  <2> QED BY <1>1, <1>2, <1>3, <1>5, <2>1, <2>2, GotoStep
<1> QED BY <1>1, <1>4, <1>5

\* A handler that returns gives its slots back.
LEMMA HandlerReturnsInv == ASSUME Inv, NEW c \in Chans, HandlerReturns(c) PROVE Inv'
<1>0. Struct /\ Types /\ StageOK(c)
  BY DEF Inv, Struct, StagesOK
<1>1. /\ pc[c] = "end" /\ pc' = [pc EXCEPT ![c] = "done"]
      /\ held' = [held EXCEPT ![c] = {}]
      /\ UNCHANGED <<outer, ended, bind, req, shared, dispatch, closing>>
  BY DEF HandlerReturns, Goto
<1>2. ended' \in [Chans -> SUBSET {"outer", "inner"}]
      /\ conn' \in {"open", "closed"} /\ ctx' \in BOOLEAN
  BY <1>1, OuterTypes DEF outer
<1>3. bind' = [bind EXCEPT ![c] = bind[c]] /\ (bind[c] # "none" => Kind[c] = "session")
  BY <1>0, <1>1 DEF Types, StageOK
<1>4. "done" \in Stages /\ {} \in SUBSET Slots
  BY DEF Stages
<1>5. Struct'
  BY <1>0, <1>1, <1>2, <1>3, <1>4, HandlerStep
<1>6. Types' /\ charged' = charged
  BY <1>1, <1>5 DEF Struct, shared
<1>7. Payers' \subseteq Payers
  BY <1>0, <1>1 DEF Payers, Types
<1> QED BY <1>0, <1>5, <1>6, <1>7, NoMoreInUse DEF Inv

-----------------------------------------------------------------------------
(* The transport *)

\* A relay is in its handler when it waits for the lock.
LEMMA WaitingIs ==
    ASSUME Struct, NEW a \in Actors, Waiting(a)
    PROVE  a \in Chans => (Kind[a] = "relay" => pc[a] = "lock")
<1> SUFFICES ASSUME a \in Chans, Kind[a] = "relay" PROVE pc[a] = "lock"
  OBVIOUS
<1>1. a # Requests
  BY WorkspaceAssumption
<1>2. bind[a] = "none"
  BY DEF Struct, StagesOK, StageOK
<1> QED BY <1>1, <1>2 DEF Waiting

\* What an actor does when it has, or has not, got a transport.  Afterwards
\* only those use one that did before, or that got it.
LEMMA ActorMoves ==
    ASSUME Struct, NEW a \in Actors,
           a \in Chans => (Kind[a] = "relay" => pc[a] = "lock"),
           NEW got \in BOOLEAN, NEW why,
           got => Got(a), ~got => Missed(a, why), UNCHANGED <<held, dispatch>>
    PROVE  /\ pc' \in [Chans -> Stages]
           /\ bind' \in [Chans -> {"none", "lock", "got", "failed"}]
           /\ req' \in {"idle", "lock", "relay", "ended"}
           /\ conn' \in {"open", "closed"} /\ ctx' \in BOOLEAN
           /\ StagesOK'
           /\ dispatch \in {"close", "closing", "done"} => HandlersGone'
           /\ \A c \in Chans : bind'[c] = "got" \/ pc'[c] = "bridge" =>
                 got \/ bind[c] = "got" \/ pc[c] = "bridge"
<1>0. Types
  BY DEF Struct
<1>1. /\ pc' \in [Chans -> Stages]
      /\ \A c \in Chans : \/ pc'[c] = pc[c]
                          \/ /\ c = a /\ Kind[c] = "relay"
                             /\ pc'[c] = IF got THEN "bridge" ELSE "end"
  BY <1>0 DEF Got, Missed, Types, Stages
<1>2. /\ bind' \in [Chans -> {"none", "lock", "got", "failed"}]
      /\ \A c \in Chans : \/ bind'[c] = bind[c]
                          \/ /\ Kind[c] = "session"
                             /\ bind'[c] = IF got THEN "got" ELSE "failed"
  BY <1>0 DEF Got, Missed, Types
<1>3. req' \in {"idle", "lock", "relay", "ended"}
  BY <1>0 DEF Got, Missed, Types
<1>4. conn' \in {"open", "closed"} /\ ctx' \in BOOLEAN
  BY <1>0 DEF Got, Missed, Types, CloseConn, outer
<1>5. ASSUME NEW c \in Chans PROVE StageOK(c)'
  <2>1. StageOK(c)
    BY DEF Struct, StagesOK
  <2> QED BY <1>0, <1>1, <1>2, <2>1 DEF StageOK, Types
<1>6. dispatch \in {"close", "closing", "done"} => HandlersGone'
  BY <1>1 DEF Struct, UseOK, HandlersGone
<1>7. \A c \in Chans : bind'[c] = "got" \/ pc'[c] = "bridge" =>
         got \/ bind[c] = "got" \/ pc[c] = "bridge"
  BY <1>1, <1>2
<1>8. StagesOK'
  BY <1>5 DEF StagesOK
<1> QED BY <1>1, <1>2, <1>3, <1>4, <1>6, <1>7, <1>8

\* Who holds process slots depends on nothing else.
LEMMA PayersKept == ASSUME UNCHANGED held PROVE Payers' = Payers
BY DEF Payers

\* The lock is free and the transport left as it is.
\* The same step for the invariant, whatever happens to the transport: what is
\* left to show is about the lock and the transport.
LEMMA ActorStep ==
    ASSUME Inv, NEW a \in Actors,
           a \in Chans => (Kind[a] = "relay" => pc[a] = "lock"),
           NEW got \in BOOLEAN, NEW why,
           got => Got(a), ~got => Missed(a, why),
           UNCHANGED <<held, ended, dispatch, closing>>,
           mu' = None, tr' \in Transports \cup {None}, got \/ tr # None => tr' # None,
           state' \in [Transports -> {"none", "starting", "up", "dead"}],
           charged' \subseteq charged,
           LockOK', TransportsOK'
    PROVE  Inv'
<1>1. Struct /\ Types
  BY DEF Inv, Struct
<1>2. /\ pc' \in [Chans -> Stages]
      /\ bind' \in [Chans -> {"none", "lock", "got", "failed"}]
      /\ req' \in {"idle", "lock", "relay", "ended"}
      /\ conn' \in {"open", "closed"} /\ ctx' \in BOOLEAN
      /\ StagesOK'
      /\ dispatch \in {"close", "closing", "done"} => HandlersGone'
      /\ \A c \in Chans : bind'[c] = "got" \/ pc'[c] = "bridge" =>
            got \/ bind[c] = "got" \/ pc[c] = "bridge"
  BY <1>1, ActorMoves
<1>3. Types'
  BY <1>1, <1>2 DEF Types
<1>4. UseOK'
  BY <1>1, <1>2 DEF Struct, UseOK, Attached
<1>5. Struct'
  BY <1>2, <1>3, <1>4 DEF Struct
<1> QED BY <1>1, <1>3, <1>5, PayersKept, NoMoreInUse DEF Inv

\* An actor that finds a transport, or is refused one, leaves it as it is.
LEMMA LeaveTransportInv ==
    ASSUME Inv, NEW a \in Actors, Reuse(a) \/ RefuseTransport(a)
    PROVE  Inv'
<1>1. Struct /\ Types /\ LockOK /\ TransportsOK
  BY DEF Inv, Struct
<1>2. /\ Waiting(a) /\ mu = None
      /\ UNCHANGED <<held, ended, shared, dispatch, closing>>
  BY DEF Reuse, RefuseTransport
<1>3. a \in Chans => (Kind[a] = "relay" => pc[a] = "lock")
  BY <1>1, <1>2, WaitingIs
<1>4. mu' = None /\ UNCHANGED <<tr, state, charged>>
  BY <1>2 DEF shared
<1>5. LockOK'
  <2>1. mu' \notin Chans
    BY <1>4, WorkspaceAssumption
  <2> QED BY <1>1, <1>2, <1>4, <2>1 DEF LockOK
<1>6. TransportsOK'
  BY <1>1, <1>2, <1>4 DEF TransportsOK, Started, Attached
<1>7. tr' \in Transports \cup {None} /\ charged' \subseteq charged
      /\ state' \in [Transports -> {"none", "starting", "up", "dead"}]
  BY <1>1, <1>4 DEF Types
<1>8. CASE Reuse(a)
  <2>1. Got(a) /\ tr' # None
    BY <1>4, <1>8 DEF Reuse, Bound
  <2> QED BY <1>2, <1>3, <1>4, <1>5, <1>6, <1>7, <2>1, ActorStep
<1>9. CASE RefuseTransport(a)
  <2>1. PICK why \in {"credential", "limit"} : Missed(a, why)
    BY <1>9 DEF RefuseTransport
  <2> QED BY <1>2, <1>3, <1>4, <1>5, <1>6, <1>7, <2>1, ActorStep
<1> QED BY <1>8, <1>9

\* A start charges a child while it holds the lock and none is bound.
LEMMA StartTransportInv ==
    ASSUME Inv, NEW a \in Actors, NEW t \in Transports, StartTransport(a, t)
    PROVE  Inv'
<1>1. Struct /\ Types /\ LockOK /\ TransportsOK /\ UseOK /\ StagesOK
  BY DEF Inv, Struct
<1>2. /\ Waiting(a) /\ mu = None /\ tr = None /\ Room("proc") /\ state[t] = "none"
      /\ mu' = a /\ state' = [state EXCEPT ![t] = "starting"]
      /\ charged' = charged \cup {t}
      /\ UNCHANGED <<outer, handlers, tr, dispatch, closing>>
  BY DEF StartTransport, Charge, Bound
<1>3. \A u \in Transports : state'[u] = IF u = t THEN "starting" ELSE state[u]
  BY <1>1, <1>2 DEF Types
<1>4. Types'
  BY <1>1, <1>2 DEF Types, outer, handlers
<1>5. a # None
  BY WorkspaceAssumption DEF Actors
<1>6. LockOK'
  <2>1. a \in Chans => (Kind[a] = "relay" => pc'[a] = "lock")
    BY <1>1, <1>2, WaitingIs DEF handlers
  <2>2. \A u \in Transports : state[u] # "starting"
    BY <1>1, <1>2 DEF LockOK
  <2> QED BY <1>2, <1>3, <1>5, <2>1, <2>2 DEF LockOK
<1>7. TransportsOK'
  <2>1. charged' = {u \in Transports : state'[u] # "none"}
    BY <1>1, <1>2, <1>3 DEF TransportsOK
  <2>2. closing' # None => dispatch' = "closing" /\ Started(closing)' /\ closing' # tr'
    BY <1>1, <1>2, <1>3 DEF TransportsOK, Started, Types
  <2>3. Attached' => \A u \in Transports : Started(u)' => u = tr'
    BY <1>1, <1>2, <1>3 DEF TransportsOK, Started, Attached
  <2> QED BY <1>2, <2>1, <2>2, <2>3 DEF TransportsOK
<1>8. StagesOK' /\ UseOK'
  BY <1>1, <1>2 DEF StagesOK, StageOK, UseOK, Attached, HandlersGone, handlers
<1>9. Payers' = Payers
  BY <1>2, PayersKept DEF handlers
<1> QED BY <1>1, <1>2, <1>4, <1>6, <1>7, <1>8, <1>9, OneMoreChild DEF Inv, Struct

\* A started transport is bound before the lock is free.
LEMMA TransportUpInv ==
    ASSUME Inv, NEW a \in Actors, NEW t \in Transports, TransportUp(a, t)
    PROVE  Inv'
<1>1. Struct /\ Types /\ LockOK /\ TransportsOK
  BY DEF Inv, Struct
<1>2. /\ mu = a /\ state[t] = "starting"
      /\ state' = [state EXCEPT ![t] = "up"] /\ tr' = t /\ mu' = None /\ Got(a)
      /\ UNCHANGED <<held, ended, charged, dispatch, closing>>
  BY DEF TransportUp, Unlocked
<1>3. \A u \in Transports : state'[u] = IF u = t THEN "up" ELSE state[u]
  BY <1>1, <1>2 DEF Types
<1>4. a # None /\ None \notin Chans /\ t # None
  BY WorkspaceAssumption DEF Actors
<1>5. tr = None /\ (a \in Chans => (Kind[a] = "relay" => pc[a] = "lock"))
  BY <1>1, <1>2, <1>4 DEF LockOK
<1>6. LockOK'
  <2>1. \A u \in Transports : state'[u] # "starting"
    BY <1>1, <1>2, <1>3 DEF LockOK
  <2> QED BY <1>2, <1>4, <2>1 DEF LockOK
<1>7. TransportsOK'
  <2>1. charged' = {u \in Transports : state'[u] # "none"}
    BY <1>1, <1>2, <1>3 DEF TransportsOK
  <2>2. closing' # None => dispatch' = "closing" /\ Started(closing)' /\ closing' # tr'
    BY <1>1, <1>2, <1>3 DEF TransportsOK, Started, Types
  <2>3. Attached' => \A u \in Transports : Started(u)' => u = tr'
    BY <1>1, <1>2, <1>3, <1>5, WorkspaceAssumption DEF TransportsOK, Started, Attached
  <2>4. Started(tr)'
    BY <1>2, <1>3 DEF Started
  <2> QED BY <1>2, <2>1, <2>2, <2>3, <2>4 DEF TransportsOK
<1>8. state' \in [Transports -> {"none", "starting", "up", "dead"}]
  BY <1>1, <1>2 DEF Types
<1> QED BY <1>2, <1>4, <1>5, <1>6, <1>7, <1>8, ActorStep

\* A failed start gives back the child and the lock.
LEMMA StartFailsInv ==
    ASSUME Inv, NEW a \in Actors, NEW t \in Transports, StartFails(a, t)
    PROVE  Inv'
<1>1. Struct /\ Types /\ LockOK /\ TransportsOK
  BY DEF Inv, Struct
<1>2. /\ mu = a /\ state[t] = "starting"
      /\ state' = [state EXCEPT ![t] = "none"] /\ mu' = None /\ Missed(a, "start")
      /\ charged' = charged \ {t}
      /\ UNCHANGED <<held, ended, tr, dispatch, closing>>
  BY DEF StartFails, Unlocked
<1>3. \A u \in Transports : state'[u] = IF u = t THEN "none" ELSE state[u]
  BY <1>1, <1>2 DEF Types
<1>4. a # None /\ None \notin Chans
  BY WorkspaceAssumption DEF Actors
<1>5. tr = None /\ (a \in Chans => (Kind[a] = "relay" => pc[a] = "lock"))
  BY <1>1, <1>2, <1>4 DEF LockOK
<1>6. LockOK'
  <2>1. \A u \in Transports : state'[u] # "starting"
    BY <1>1, <1>2, <1>3 DEF LockOK
  <2> QED BY <1>2, <1>4, <2>1 DEF LockOK
<1>7. TransportsOK'
  <2>1. charged' = {u \in Transports : state'[u] # "none"}
    BY <1>1, <1>2, <1>3 DEF TransportsOK
  <2>2. closing' # None => dispatch' = "closing" /\ Started(closing)' /\ closing' # tr'
    BY <1>1, <1>2, <1>3 DEF TransportsOK, Started, Types
  <2>3. Attached' => \A u \in Transports : Started(u)' => u = tr'
    BY <1>1, <1>2, <1>3 DEF TransportsOK, Started, Attached
  <2> QED BY <1>2, <1>5, <2>1, <2>2, <2>3 DEF TransportsOK
<1>8. state' \in [Transports -> {"none", "starting", "up", "dead"}]
      /\ tr' \in Transports \cup {None}
  BY <1>1, <1>2 DEF Types
<1> QED BY <1>2, <1>5, <1>6, <1>7, <1>8, ActorStep

\* A child that exits stays charged until it is closed.
LEMMA ChildExitsInv == ASSUME Inv, NEW t \in Transports, ChildExits(t) PROVE Inv'
<1>1. Struct /\ Types /\ LockOK /\ TransportsOK /\ UseOK /\ StagesOK
  BY DEF Inv, Struct
<1>2. /\ state[t] = "up" /\ state' = [state EXCEPT ![t] = "dead"]
      /\ UNCHANGED <<outer, handlers, mu, tr, charged, dispatch, closing>>
  BY DEF ChildExits
<1>3. \A u \in Transports : state'[u] = IF u = t THEN "dead" ELSE state[u]
  BY <1>1, <1>2 DEF Types
<1>4. Types'
  BY <1>1, <1>2 DEF Types, outer, handlers
<1>5. LockOK'
  BY <1>1, <1>2, <1>3 DEF LockOK, handlers
<1>6. TransportsOK'
  <2>1. charged' = {u \in Transports : state'[u] # "none"}
    BY <1>1, <1>2, <1>3 DEF TransportsOK
  <2>2. \A u \in Transports : Started(u)' <=> Started(u)
    BY <1>2, <1>3 DEF Started
  <2> QED BY <1>1, <1>2, <2>1, <2>2 DEF TransportsOK, Attached, Types
<1>7. StagesOK' /\ UseOK'
  BY <1>1, <1>2 DEF StagesOK, StageOK, UseOK, Attached, HandlersGone, handlers
<1>8. Payers' = Payers
  BY <1>2, PayersKept DEF handlers
<1> QED BY <1>1, <1>2, <1>4, <1>5, <1>6, <1>7, <1>8, NoMoreInUse DEF Inv, Struct

-----------------------------------------------------------------------------
(* The rest of the connection *)

\* Steps that leave the handlers' and the transports' state alone.
LEMMA AsideInv ==
    ASSUME Inv, UNCHANGED <<pc, held, ended, bind, shared, dispatch, closing>>,
           conn' \in {"open", "closed"}, ctx' \in BOOLEAN,
           req' \in {"idle", "lock", "relay", "ended"}
    PROVE  Inv'
<1>1. Struct /\ Types
  BY DEF Inv, Struct
<1>2. Types'
  BY <1>1 DEF Types, shared
<1>3. Struct'
  BY <1>1, <1>2 DEF Struct, StagesOK, StageOK, LockOK, TransportsOK, UseOK, Started,
                    Attached, HandlersGone, shared
<1>4. Payers' = Payers /\ charged' = charged
  BY PayersKept DEF shared
<1> QED BY <1>1, <1>2, <1>3, <1>4, NoMoreInUse DEF Inv

\* Clients, the context and forward requests touch no transport.
LEMMA EnvironmentInv ==
    ASSUME Inv, \/ ClientCloses \/ Shutdown
                \/ RequestArrives \/ RequestAnswered \/ RequestsEnd
    PROVE  Inv'
<1>1. /\ UNCHANGED <<pc, held, ended, bind, shared, dispatch, closing>>
      /\ conn' \in {"open", "closed"} /\ ctx' \in BOOLEAN
      /\ req' \in {"idle", "lock", "relay", "ended"}
  BY OuterTypes DEF ClientCloses, Shutdown, RequestArrives, RequestAnswered, RequestsEnd,
                    CloseConn, outer, handlers, Inv, Struct, Types
<1> QED BY <1>1, AsideInv

\* The dispatcher goes on while the transport is still there.
LEMMA DispatcherInv == ASSUME Inv, LoopEnds \/ WaitEnds PROVE Inv'
<1>1. Struct /\ Types /\ LockOK /\ TransportsOK /\ UseOK /\ StagesOK
  BY DEF Inv, Struct
<1>2. /\ UNCHANGED <<outer, handlers, shared, closing>>
      /\ dispatch \in {"loop", "wait"} /\ dispatch' \in {"wait", "close"}
      /\ dispatch' = "close" => HandlersGone
  BY DEF LoopEnds, WaitEnds
<1>3. Types'
  BY <1>1, <1>2 DEF Types, outer, handlers, shared
<1>4. LockOK' /\ StagesOK'
  BY <1>1, <1>2 DEF LockOK, StagesOK, StageOK, handlers, shared
<1>5. TransportsOK' /\ UseOK'
  BY <1>1, <1>2 DEF TransportsOK, UseOK, Started, Attached, HandlersGone, handlers, shared
<1>6. Payers' = Payers /\ charged' = charged
  BY <1>2, PayersKept DEF handlers, shared
<1> QED BY <1>1, <1>3, <1>4, <1>5, <1>6, NoMoreInUse DEF Inv, Struct

\* The transport is detached when no handler uses it any more.
LEMMA DetachTransportInv == ASSUME Inv, DetachTransport PROVE Inv'
<1>1. Struct /\ Types /\ LockOK /\ TransportsOK /\ UseOK /\ StagesOK
  BY DEF Inv, Struct
<1>2. /\ dispatch = "close" /\ mu = None /\ closing' = tr /\ tr' = None
      /\ dispatch' = "closing"
      /\ UNCHANGED <<outer, handlers, mu, state, charged>>
  BY DEF DetachTransport
<1>3. Types'
  BY <1>1, <1>2 DEF Types, outer, handlers
<1>4. LockOK' /\ StagesOK'
  BY <1>1, <1>2 DEF LockOK, StagesOK, StageOK, handlers
<1>5. TransportsOK' /\ UseOK'
  BY <1>1, <1>2 DEF TransportsOK, UseOK, Started, Attached, HandlersGone, handlers
<1>6. Payers' = Payers
  BY <1>2, PayersKept DEF handlers
<1> QED BY <1>1, <1>2, <1>3, <1>4, <1>5, <1>6, NoMoreInUse DEF Inv, Struct

\* The child of the detached transport is gone, and its slot; one that a late
\* actor started meanwhile is another.
LEMMA CloseTransportInv == ASSUME Inv, CloseTransport PROVE Inv'
<1>1. Struct /\ Types /\ LockOK /\ TransportsOK /\ UseOK /\ StagesOK
  BY DEF Inv, Struct
<1>2. /\ dispatch = "closing" /\ dispatch' = "done" /\ closing' = None
      /\ ctx' = TRUE /\ conn' = "closed" /\ charged' = charged \ {closing}
      /\ state' = IF closing = None THEN state ELSE [state EXCEPT ![closing] = "none"]
      /\ UNCHANGED <<handlers, mu, tr>>
  BY DEF CloseTransport
<1>3. \A u \in Transports : state'[u] = IF u = closing THEN "none" ELSE state[u]
  <2>1. CASE closing = None
    BY <1>2, <2>1, WorkspaceAssumption
  <2>2. CASE closing # None
    BY <1>1, <1>2, <2>2 DEF Types
  <2> QED BY <2>1, <2>2
<1>4. Types'
  <2>1. state' \in [Transports -> {"none", "starting", "up", "dead"}]
    BY <1>1, <1>2 DEF Types
  <2> QED BY <1>1, <1>2, <2>1 DEF Types, handlers
<1>5. LockOK'
  <2>1. \A u \in Transports : state'[u] = "starting" <=> state[u] = "starting"
    BY <1>1, <1>3, WorkspaceAssumption DEF TransportsOK, Started
  <2> QED BY <1>1, <1>2, <2>1 DEF LockOK, handlers
<1>6. TransportsOK'
  <2>1. charged' = {u \in Transports : state'[u] # "none"}
    BY <1>1, <1>2, <1>3 DEF TransportsOK
  <2>2. tr # None => tr # closing /\ tr \in Transports
    BY <1>1 DEF TransportsOK, Types
  <2>3. tr' # None => Started(tr)'
    BY <1>1, <1>2, <1>3, <2>2 DEF TransportsOK, Started
  <2> QED BY <1>2, <2>1, <2>3 DEF TransportsOK, Attached
<1>7. StagesOK' /\ UseOK'
  BY <1>1, <1>2 DEF StagesOK, StageOK, UseOK, Attached, HandlersGone, handlers
<1>8. Payers' = Payers
  BY <1>2, PayersKept DEF handlers
<1> QED BY <1>1, <1>2, <1>4, <1>5, <1>6, <1>7, <1>8, NoMoreInUse DEF Inv, Struct

-----------------------------------------------------------------------------
(* The theorems *)

\* It holds when the connection is dispatched.
LEMMA InitInv == Init => Inv
<1> SUFFICES ASSUME Init PROVE Inv
  OBVIOUS
<1>1. Types
  BY DEF Init, Types, Stages
<1>2. Struct
  BY <1>1, WorkspaceAssumption DEF Init, Struct, StagesOK, StageOK, LockOK, TransportsOK,
                                   UseOK, Started, Attached, HandlersGone
<1>3. Payers = {} /\ charged = {}
  BY DEF Init, Payers
<1>4. Cardinality(Payers) = 0 /\ Cardinality(charged) = 0
  BY <1>3, FS_EmptySet
<1> QED BY <1>1, <1>2, <1>4, InUseIs DEF Inv

\* Every step keeps it.
LEMMA NextInv == Inv /\ [Next]_vars => Inv'
<1> SUFFICES ASSUME Inv, [Next]_vars PROVE Inv'
  OBVIOUS
<1>1. ASSUME NEW t \in Transports, ChildExits(t) PROVE Inv'
  BY <1>1, ChildExitsInv
<1>2. ASSUME NEW c \in Chans,
             \/ OpenChannel(c) \/ AdmissionStep(c) \/ LeavePending(c)
             \/ ClientLeaves(c) \/ OuterEnds(c) \/ InnerEnds(c) \/ BridgeEnds(c)
             \/ TunnelEnds(c) \/ HandlerReturns(c)
      PROVE  Inv'
  BY <1>2, OpenChannelInv, TakeSlotInv, AdmitCredentialInv, AcceptChannelInv,
     LeavePendingInv, EndingsInv, HandlerReturnsInv DEF AdmissionStep
<1>3. ASSUME NEW a \in Actors, LockStep(a) PROVE Inv'
  BY <1>3, LeaveTransportInv, StartTransportInv DEF LockStep
<1>4. ASSUME NEW a \in Actors, NEW t \in Transports, TransportUp(a, t) \/ StartFails(a, t)
      PROVE  Inv'
  BY <1>4, TransportUpInv, StartFailsInv
<1>5. CASE DispatchStep
  BY <1>5, DispatcherInv, DetachTransportInv, CloseTransportInv DEF DispatchStep
<1>6. CASE UNCHANGED vars
  <2>1. /\ UNCHANGED <<pc, held, ended, bind, shared, dispatch, closing>>
        /\ conn' \in {"open", "closed"} /\ ctx' \in BOOLEAN
        /\ req' \in {"idle", "lock", "relay", "ended"}
    BY <1>6, OuterTypes DEF vars, outer, handlers, Inv, Struct, Types
  <2> QED BY <2>1, AsideInv
<1>7. CASE Finished
  BY <1>6, <1>7 DEF Finished
<1> QED BY <1>1, <1>2, <1>3, <1>4, <1>5, <1>6, <1>7, EnvironmentInv DEF Next

\* The inductive invariant of a workspace connection holds in every reachable
\* state, for any number of channels and any limits.
THEOREM Invariance == Spec => []Inv
<1> QED BY InitInv, NextInv, PTL DEF Spec

\* Every variable keeps its type, and workspaceContext.mu is held exactly while
\* a child starts (createLocked).
THEOREM TypeCorrect == Spec => []TypeOK
<1>1. Inv => TypeOK
  BY DEF Inv, Struct, Types, LockOK, TypeOK, Stages
<1> QED BY <1>1, Invariance, PTL

\* limits.coder_processes for any number of channels and any limit: every child
\* that runs is paid for, and no more are paid for than configured
\* (handleWorkspaceJump, createLocked, SessionTransport.Close).
THEOREM ChildrenAreBounded == Spec => []ChildrenBounded
<1>1. Inv => ChildrenBounded
  <2> SUFFICES ASSUME Inv PROVE ChildrenBounded
    OBVIOUS
  <2> DEFINE Tunnels == {c \in Chans : pc[c] = "tunnel"}
  <2>1. Types /\ TransportsOK /\ StagesOK
    BY DEF Inv, Struct
  <2>2. Live \subseteq charged
    BY <2>1 DEF Live, TransportsOK
  <2>3. Tunnels \subseteq Payers
    BY <2>1 DEF StagesOK, StageOK, Payers
  <2>4. Cardinality(Live) <= Cardinality(charged) /\ Cardinality(Live) \in Nat
    BY <2>1, <2>2, InUseIs, FS_Subset, FS_CardinalityType
  <2>5. Cardinality(Tunnels) <= Cardinality(Payers) /\ Cardinality(Tunnels) \in Nat
    BY <2>1, <2>3, InUseIs, FS_Subset, FS_CardinalityType
  <2> HIDE DEF Tunnels
  <2>6. Cardinality(Live) + Cardinality(Tunnels) <= InUse("proc")
    BY <2>1, <2>4, <2>5, InUseIs
  <2> QED BY <2>6 DEF ChildrenBounded, Inv, Tunnels
<1> QED BY <1>1, Invariance, PTL

\* However many channels and requests race for workspaceContext.mu, no second
\* child is started beside the first until the transport is detached
\* (transport, bindTransport, createLocked).
THEOREM ThereIsOneTransport == Spec => []OneTransport
<1>1. Inv => OneTransport
  <2> SUFFICES ASSUME Inv, dispatch \in {"loop", "wait", "close"}
               PROVE  Cardinality({t \in Transports : state[t] \in {"starting", "up", "dead"}}) <= 1
    BY DEF OneTransport
  <2> DEFINE All == {t \in Transports : state[t] \in {"starting", "up", "dead"}}
  <2>1. LockOK /\ TransportsOK /\ Attached
    BY DEF Inv, Struct, Attached
  <2>2. PICK x : All \subseteq {x}
    <3>1. CASE mu = None
      <4>1. All \subseteq {tr}
        BY <2>1, <3>1 DEF LockOK, TransportsOK, Started
      <4> QED BY <4>1
    <3>2. CASE mu # None
      <4>1. PICK u \in Transports : state[u] = "starting"
        BY <2>1, <3>2 DEF LockOK
      <4>2. \A t \in Transports : ~Started(t)
        BY <2>1, <3>2, WorkspaceAssumption DEF LockOK, TransportsOK
      <4>3. All \subseteq {u}
        BY <2>1, <4>1, <4>2 DEF LockOK, Started
      <4> QED BY <4>3
    <3> QED BY <3>1, <3>2
  <2> HIDE DEF All
  <2>3. IsFiniteSet({x}) /\ Cardinality({x}) = 1
    BY FS_Singleton
  <2>4. Cardinality(All) <= 1
    BY <2>2, <2>3, FS_Subset
  <2> QED BY <2>4 DEF All
<1> QED BY <1>1, Invariance, PTL

\* A transport is never closed under a session or a relay that uses it
\* (dispatchWorkspaceChannels waits, then workspaceContext.close).
THEOREM NothingIsUsedAfterClose == Spec => []NoUseAfterClose
<1>1. Inv => NoUseAfterClose
  <2> SUFFICES ASSUME Inv, NEW c \in Chans, pc[c] = "bridge"
               PROVE  tr # None /\ state[tr] \in {"up", "dead"}
    BY DEF NoUseAfterClose
  <2>1. Types /\ TransportsOK /\ UseOK
    BY DEF Inv, Struct
  <2>2. Attached
    BY <2>1 DEF UseOK, HandlersGone, Types, Attached
  <2>3. tr # None
    BY <2>1, <2>2 DEF UseOK
  <2> QED BY <2>1, <2>3 DEF TransportsOK, Started
<1> QED BY <1>1, Invariance, PTL

=============================================================================
