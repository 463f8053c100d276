---------------------------- MODULE ServerProofs ----------------------------
(***************************************************************************)
(* The connection limits hold for any number of connections, addresses,    *)
(* keys and accounts, and on every path by which handleConn returns.       *)
(*                                                                         *)
(* The invariant ties three pieces of state together: where a handler is,  *)
(* which slots it holds there, and what the semaphores count.  It needs no *)
(* fairness and no assumption on the limits.                               *)
(***************************************************************************)
EXTENDS Server, FiniteSetTheorems, TLAPS

SlotType ==
    /\ pc \in [Conns -> Stage]
    /\ held \in [Conns -> SUBSET Kinds]
    /\ count \in [Slots -> Nat]

\* The slots a handler holds at each stage; on its way out it may hold any.
HeldAt(stage) ==
    CASE stage = "ip" -> {"global"}
      [] stage = "handshake" -> {"global", "ip"}
      [] stage \in {"proxy", "track", "auth"} -> {"global", "ip", "handshake"}
      [] stage = "key" -> {"ip"}
      [] stage = "account" -> {"ip", "key"}
      [] stage \in {"goodbye", "serve"} -> {"ip", "key", "account"}
      [] OTHER -> {}

Staged == \A c \in Conns : pc[c] # "unwind" => held[c] = HeldAt(pc[c])

Bounded == \A kind \in Kinds, c \in Conns : count[Slot(kind, c)] <= Limit[kind]

SlotInv == SlotType /\ Staged /\ SlotsBalanced /\ Bounded

-----------------------------------------------------------------------------
(* Semaphores *)

\* A semaphore belongs to one kind.
LEMMA SlotHasKind ==
    ASSUME NEW k \in Kinds, NEW l \in Kinds, NEW c \in Conns, NEW d \in Conns,
           Slot(k, c) = Slot(l, d)
    PROVE  k = l
  BY DEF Slot

\* The handlers that hold a semaphore are finitely many.
LEMMA HoldersFinite ==
    ASSUME NEW s
    PROVE  /\ IsFiniteSet(Holders(s))
           /\ Cardinality(Holders(s)) \in Nat
<1>1. Holders(s) \in SUBSET Conns
  BY DEF Holders
<1>2. IsFiniteSet(Holders(s))
  BY <1>1, FS_Subset, ServerAssumption
<1> QED
  BY <1>2, FS_CardinalityType

\* A slot that is taken is counted and has its holder.
LEMMA TakeBalanced ==
    ASSUME SlotType, SlotsBalanced, Bounded, NEW kind \in Kinds, NEW c \in Conns,
           kind \notin held[c], Room(kind, c), Take(kind, c)
    PROVE  /\ held' \in [Conns -> SUBSET Kinds]
           /\ count' \in [Slots -> Nat]
           /\ SlotsBalanced'
           /\ Bounded'
<1> DEFINE t == Slot(kind, c)
<1>1. t \in Slots
  BY DEF Slots
<1>2. held' \in [Conns -> SUBSET Kinds] /\ count' \in [Slots -> Nat]
  BY <1>1 DEF Take, SlotType
<1>3. Holders(t)' = Holders(t) \cup {c}
  BY DEF Holders, Take, SlotType
<1>4. c \notin Holders(t)
  BY SlotHasKind DEF Holders, SlotType
<1>5. ASSUME NEW s \in Slots, s # t PROVE Holders(s)' = Holders(s)
  BY <1>5 DEF Holders, Take, SlotType
<1> HIDE DEF t
<1>6. Cardinality(Holders(t) \cup {c}) = Cardinality(Holders(t)) + 1
  BY <1>4, HoldersFinite, FS_AddElement
<1>7. count'[t] = count[t] + 1 /\ \A s \in Slots : s # t => count'[s] = count[s]
  BY <1>1 DEF Take, SlotType, t
<1>8. SlotsBalanced'
  <2> SUFFICES ASSUME NEW s \in Slots PROVE count'[s] = Cardinality(Holders(s)')
    BY DEF SlotsBalanced
  <2>1. CASE s = t
    BY <2>1, <1>1, <1>3, <1>6, <1>7 DEF SlotsBalanced
  <2>2. CASE s # t
    BY <2>2, <1>5, <1>7 DEF SlotsBalanced
  <2> QED
    BY <2>1, <2>2
<1>9. Bounded'
  <2> SUFFICES ASSUME NEW k \in Kinds, NEW d \in Conns
               PROVE  count'[Slot(k, d)] <= Limit[k]
    BY DEF Bounded
  <2>1. Slot(k, d) \in Slots
    BY DEF Slots
  <2>2. CASE Slot(k, d) = t
    <3>1. k = kind
      BY <2>2, SlotHasKind DEF t
    <3>2. count[t] < Limit[kind] /\ count[t] \in Nat /\ Limit[kind] \in Nat
      BY <1>1, ServerAssumption DEF Room, SlotType, t
    <3> QED
      BY <3>1, <3>2, <1>7, <2>2
  <2>3. CASE Slot(k, d) # t
    BY <2>3, <2>1, <1>7 DEF Bounded
  <2> QED
    BY <2>2, <2>3
<1> QED
  BY <1>2, <1>8, <1>9

\* Slots that are given back are discounted once, and have one holder less.
LEMMA ReleaseBalanced ==
    ASSUME SlotType, SlotsBalanced, Bounded, NEW kinds \in SUBSET Kinds, NEW c \in Conns,
           count' = Released(c, kinds), held' = [held EXCEPT ![c] = @ \ kinds]
    PROVE  /\ held' \in [Conns -> SUBSET Kinds]
           /\ count' \in [Slots -> Nat]
           /\ SlotsBalanced'
           /\ Bounded'
<1> DEFINE Given(s) == \E kind \in kinds \cap held[c] : s = Slot(kind, c)
<1>1. held' \in [Conns -> SUBSET Kinds]
  BY DEF SlotType
<1>2. ASSUME NEW s \in Slots, Given(s)
      PROVE  c \in Holders(s) /\ Holders(s)' = Holders(s) \ {c}
  <2>1. PICK kind \in kinds \cap held[c] : s = Slot(kind, c)
    BY <1>2
  <2>2. \A k \in held'[c] : s # Slot(k, c)
    BY <2>1, SlotHasKind DEF SlotType
  <2> QED
    BY <2>1, <2>2 DEF Holders, SlotType
<1>3. ASSUME NEW s \in Slots, ~Given(s)
      PROVE  Holders(s)' = Holders(s)
  BY <1>3 DEF Holders, SlotType
<1>4. ASSUME NEW s \in Slots
      PROVE  /\ count'[s] = Cardinality(Holders(s)')
             /\ count'[s] \in Nat
             /\ count'[s] <= count[s]
  <2>1. count[s] = Cardinality(Holders(s)) /\ count[s] \in Nat
    BY DEF SlotsBalanced, SlotType
  <2>2. CASE Given(s)
    <3>1. count'[s] = count[s] - 1
      BY <2>2 DEF Released
    <3>2. c \in Holders(s) /\ Holders(s)' = Holders(s) \ {c}
      BY <1>2, <2>2
    <3>3. Cardinality(Holders(s) \ {c}) = Cardinality(Holders(s)) - 1
      BY <3>2, HoldersFinite, FS_RemoveElement
    <3>4. Cardinality(Holders(s) \ {c}) \in Nat
      BY HoldersFinite, FS_RemoveElement, FS_CardinalityType
    <3> QED
      BY <2>1, <3>1, <3>2, <3>3, <3>4
  <2>3. CASE ~Given(s)
    <3>1. count'[s] = count[s]
      BY <2>3 DEF Released
    <3> QED
      BY <1>3, <2>1, <2>3, <3>1
  <2> QED
    BY <2>2, <2>3
<1>5. count' \in [Slots -> Nat]
  <2>1. count' = [s \in Slots |-> count'[s]]
    BY DEF Released
  <2> QED
    BY <2>1, <1>4
<1>6. Bounded'
  <2> SUFFICES ASSUME NEW k \in Kinds, NEW d \in Conns
               PROVE  count'[Slot(k, d)] <= Limit[k]
    BY DEF Bounded
  <2>1. Slot(k, d) \in Slots
    BY DEF Slots
  <2>2. count[Slot(k, d)] <= Limit[k] /\ count[Slot(k, d)] \in Nat /\ Limit[k] \in Nat
    BY <2>1, ServerAssumption DEF Bounded, SlotType
  <2> QED
    BY <2>1, <2>2, <1>4
<1> QED
  BY <1>1, <1>4, <1>5, <1>6 DEF SlotsBalanced

\* Steps that touch neither the slots nor the stage of a handler.
LEMMA SlotsUntouched ==
    ASSUME SlotInv, UNCHANGED <<pc, slots>>
    PROVE  SlotInv'
  BY DEF SlotInv, SlotType, Staged, SlotsBalanced, Holders, Bounded, slots

\* Steps that move a handler and leave the slots alone.
LEMMA MoveSlots ==
    ASSUME SlotInv, UNCHANGED slots, NEW c \in Conns, NEW stage \in Stage, Goto(c, stage),
           stage # "unwind" => held[c] = HeldAt(stage)
    PROVE  SlotInv'
<1>1. SlotType'
  BY DEF SlotInv, SlotType, Goto, slots
<1>2. Staged'
  BY DEF SlotInv, SlotType, Staged, Goto, slots
<1>3. SlotsBalanced' /\ Bounded'
  BY DEF SlotInv, SlotsBalanced, Holders, Bounded, slots
<1> QED
  BY <1>1, <1>2, <1>3 DEF SlotInv

\* Steps that take a slot and move on.
LEMMA TakeSlots ==
    ASSUME SlotInv, NEW c \in Conns, NEW kind \in Kinds, NEW stage \in Stage,
           pc[c] = kind, Room(kind, c), Take(kind, c), Goto(c, stage),
           HeldAt(stage) = HeldAt(kind) \cup {kind}
    PROVE  SlotInv'
<1>1. held[c] = HeldAt(kind) /\ kind \notin held[c]
  BY DEF SlotInv, Staged, HeldAt, Kinds
<1>2. /\ held' \in [Conns -> SUBSET Kinds]
      /\ count' \in [Slots -> Nat]
      /\ SlotsBalanced'
      /\ Bounded'
  BY <1>1, TakeBalanced DEF SlotInv
<1>3. pc' \in [Conns -> Stage]
  BY DEF SlotInv, SlotType, Goto
<1>4. Staged'
  BY <1>1 DEF SlotInv, SlotType, Staged, Goto, Take
<1> QED
  BY <1>2, <1>3, <1>4 DEF SlotInv, SlotType

\* Acquiring, or being refused, keeps the slot invariant.
LEMMA AcquireSlots ==
    ASSUME SlotInv, NEW c \in Conns, NEW kind \in Kinds, NEW stage \in Stage,
           Acquire(kind, c, stage), HeldAt(stage) = HeldAt(kind) \cup {kind}
    PROVE  SlotInv'
<1>1. CASE Room(kind, c)
  BY <1>1, TakeSlots DEF Acquire
<1>2. CASE ~Room(kind, c)
  BY <1>2, MoveSlots DEF Acquire, Stage
<1> QED
  BY <1>1, <1>2

-----------------------------------------------------------------------------
(* The steps of a handler *)

\* The steps before the handshake keep the slot invariant.
LEMMA AdmissionSlots ==
    ASSUME SlotInv, NEW c \in Conns,
           \/ Accept(c) \/ PreAuthGate(c) \/ AcquireGlobal(c) \/ AcquireIP(c)
           \/ AcquireHandshake(c) \/ ProxyStep(c) \/ Track(c)
    PROVE  SlotInv'
<1>0. pc[c] # "unwind" => held[c] = HeldAt(pc[c])
  BY DEF SlotInv, Staged
<1>1. CASE Accept(c)
  BY <1>0, <1>1, MoveSlots DEF Accept, Stage, HeldAt
<1>2. CASE PreAuthGate(c)
  BY <1>0, <1>2, MoveSlots DEF PreAuthGate, Stage, HeldAt
<1>3. CASE AcquireGlobal(c)
  BY <1>3, AcquireSlots DEF AcquireGlobal, Stage, Kinds, HeldAt
<1>4. CASE AcquireIP(c)
  BY <1>4, AcquireSlots DEF AcquireIP, Stage, Kinds, HeldAt
<1>5. CASE AcquireHandshake(c)
  <2>1. "proxy" \in Stage /\ "track" \in Stage /\ "handshake" \in Kinds
    BY DEF Stage, Kinds
  <2>2. HeldAt("proxy") = HeldAt("handshake") \cup {"handshake"}
        /\ HeldAt("track") = HeldAt("handshake") \cup {"handshake"}
    BY DEF HeldAt
  <2> QED
    BY <1>5, <2>1, <2>2, AcquireSlots DEF AcquireHandshake
<1>6. CASE ProxyStep(c)
  BY <1>0, <1>6, MoveSlots DEF ProxyStep, ProxyHeader, ProxyFails, Stage, HeldAt
<1>7. CASE Track(c)
  BY <1>0, <1>7, MoveSlots DEF Track, Stage, HeldAt
<1> QED
  BY <1>1, <1>2, <1>3, <1>4, <1>5, <1>6, <1>7

\* Authentication and what follows it keep the slot invariant.
LEMMA AuthSlots ==
    ASSUME SlotInv, NEW c \in Conns, AuthStep(c) \/ AcquireKey(c) \/ AcquireAccount(c)
    PROVE  SlotInv'
<1>0. pc[c] # "unwind" => held[c] = HeldAt(pc[c])
  BY DEF SlotInv, Staged
<1>1. CASE AuthFails(c)
  BY <1>1, MoveSlots DEF AuthFails, Stage
<1>2. ASSUME NEW m, AuthSucceeds(c, m) PROVE SlotInv'
  <2>1. /\ held' \in [Conns -> SUBSET Kinds]
        /\ count' \in [Slots -> Nat]
        /\ SlotsBalanced'
        /\ Bounded'
    <3>1. {"handshake", "global"} \in SUBSET Kinds
      BY DEF Kinds
    <3> QED
      BY <3>1, <1>2, ReleaseBalanced DEF AuthSucceeds, SlotInv
  <2>2. pc' \in [Conns -> Stage]
    BY <1>2 DEF AuthSucceeds, Goto, SlotInv, SlotType, Stage
  <2>3. held'[c] = HeldAt("key")
    BY <1>0, <1>2 DEF AuthSucceeds, SlotInv, SlotType, HeldAt
  <2>4. Staged'
    BY <1>2, <2>3 DEF AuthSucceeds, Goto, SlotInv, SlotType, Staged
  <2> QED
    BY <2>1, <2>2, <2>4 DEF SlotInv, SlotType
<1>3. CASE AcquireKey(c)
  BY <1>3, AcquireSlots DEF AcquireKey, Stage, Kinds, HeldAt
<1>4. CASE AcquireAccount(c)
  <2>1. CASE Room("account", c)
    <3>1. "goodbye" \in Stage /\ "serve" \in Stage /\ "account" \in Kinds
      BY DEF Stage, Kinds
    <3>2. HeldAt("goodbye") = HeldAt("account") \cup {"account"}
          /\ HeldAt("serve") = HeldAt("account") \cup {"account"}
      BY DEF HeldAt
    <3> QED
      BY <1>4, <2>1, <3>1, <3>2, TakeSlots DEF AcquireAccount
  <2>2. CASE ~Room("account", c)
    BY <1>4, <2>2, MoveSlots DEF AcquireAccount, Stage, slots
  <2> QED
    BY <2>1, <2>2
<1> QED
  BY <1>1, <1>2, <1>3, <1>4 DEF AuthStep

\* The deferred releases keep the slot invariant.
LEMMA EndSlots ==
    ASSUME SlotInv, NEW c \in Conns, Goodbye(c) \/ DispatchEnds(c) \/ Unwind(c)
    PROVE  SlotInv'
<1>1. CASE Goodbye(c) \/ DispatchEnds(c)
  BY <1>1, MoveSlots DEF Goodbye, DispatchEnds, Stage
<1>2. CASE Unwind(c)
  <2>1. held' = [held EXCEPT ![c] = @ \ Kinds]
    BY <1>2 DEF Unwind, SlotInv, SlotType
  <2>2. /\ held' \in [Conns -> SUBSET Kinds]
        /\ count' \in [Slots -> Nat]
        /\ SlotsBalanced'
        /\ Bounded'
    BY <2>1, <1>2, ReleaseBalanced DEF Unwind, SlotInv
  <2>3. pc' \in [Conns -> Stage]
    BY <1>2 DEF Unwind, Goto, SlotInv, SlotType, Stage
  <2>4. Staged'
    BY <1>2 DEF Unwind, Goto, SlotInv, SlotType, Staged, HeldAt
  <2> QED
    BY <2>2, <2>3, <2>4 DEF SlotInv, SlotType
<1> QED
  BY <1>1, <1>2

\* Every step keeps the slot invariant.
LEMMA NextSlots == SlotInv /\ [Next]_vars => SlotInv'
<1> SUFFICES ASSUME SlotInv, [Next]_vars PROVE SlotInv'
  OBVIOUS
<1>1. ASSUME NEW c \in Conns,
             \/ OpenChannel(c) \/ AdmissionStep(c) \/ ChannelEnds(c) \/ RequestsEnd(c)
             \/ PeerCloses(c) \/ CloseConn(c)
      PROVE  UNCHANGED <<pc, slots>>
  BY <1>1 DEF OpenChannel, AdmissionStep, AcceptChannel, RejectChannel, ChannelEnds,
              RequestsEnd, PeerCloses, CloseConn
<1>2. ASSUME Cancel \/ ShutdownStep \/ ServeStep \/ AcceptError
      PROVE  UNCHANGED <<pc, slots>>
  BY <1>2 DEF Cancel, ShutdownStep, CloseListener, SetDraining, DrainEnds, SnapshotConns,
              WatchEnds, ServeStep, StopAccepting, ServeReturns, AuxEnds, ServeOnReturns,
              AcceptError, connections
<1>3. ASSUME UNCHANGED vars PROVE UNCHANGED <<pc, slots>>
  BY <1>3 DEF vars
<1> QED
  BY <1>1, <1>2, <1>3, SlotsUntouched, AdmissionSlots, AuthSlots, EndSlots
     DEF Next, HandlerStep, Exited

\* Nothing is counted and nothing is held when the server starts.
LEMMA InitSlots == Init => SlotInv
<1> SUFFICES ASSUME Init PROVE SlotInv
  OBVIOUS
<1>1. SlotType
  BY DEF Init, SlotType, Stage
<1>2. Staged
  BY DEF Init, Staged, HeldAt
<1>3. \A s \in Slots : Holders(s) = {}
  BY DEF Init, Holders
<1>4. SlotsBalanced
  BY <1>3, FS_EmptySet DEF Init, SlotsBalanced
<1>5. Bounded
  BY ServerAssumption DEF Init, Bounded, Slots
<1> QED
  BY <1>1, <1>2, <1>4, <1>5 DEF SlotInv

\* The inductive invariant the theorems follow from.
LEMMA SlotInvariant == Spec => []SlotInv
  BY InitSlots, NextSlots, PTL DEF Spec

-----------------------------------------------------------------------------
\* No path through handleConn loses a slot or gives one back twice.
THEOREM SlotsStayBalanced == Spec => []SlotsBalanced
<1>1. SlotInv => SlotsBalanced
  BY DEF SlotInv
<1> QED
  BY <1>1, SlotInvariant, PTL

\* The configured limits are never exceeded.
THEOREM LimitsAreKept == Spec => []LimitsHold
<1>1. SlotInv => LimitsHold
  BY DEF SlotInv, SlotsBalanced, Bounded, LimitsHold, Slots
<1> QED
  BY <1>1, SlotInvariant, PTL

\* Clients that have not authenticated occupy a bounded number of handlers.
THEOREM UnauthenticatedStayBounded == Spec => []UnauthenticatedBounded
<1>1. SlotInv => UnauthenticatedBounded
  <2> SUFFICES ASSUME SlotInv, NEW kind \in {"global", "handshake"}
               PROVE  Cardinality({c \in Conns : pc[c] \in {"proxy", "track", "auth"}})
                          <= Limit[kind]
    BY DEF UnauthenticatedBounded
  <2> DEFINE W == {c \in Conns : pc[c] \in {"proxy", "track", "auth"}}
  <2>1. CASE W = {}
    BY <2>1, FS_EmptySet, ServerAssumption DEF Kinds
  <2>2. CASE W # {}
    <3>1. PICK d \in Conns : d \in W
      BY <2>2
    <3>2. kind \in Kinds
      BY DEF Kinds
    <3>3. \A c \in Conns : Slot(kind, c) = Slot(kind, d)
      BY DEF Slot
    <3>4. W \in SUBSET Holders(Slot(kind, d))
      BY <3>3 DEF Holders, SlotInv, Staged, HeldAt
    <3> HIDE DEF W
    <3>5. Cardinality(W) <= Cardinality(Holders(Slot(kind, d)))
      BY <3>4, HoldersFinite, FS_Subset
    <3>6. Slot(kind, d) \in Slots
      BY <3>2 DEF Slots
    <3>7. Cardinality(Holders(Slot(kind, d))) <= Limit[kind]
      BY <3>2, <3>6 DEF SlotInv, SlotsBalanced, Bounded
    <3>8. Cardinality(W) \in Nat /\ Cardinality(Holders(Slot(kind, d))) \in Nat
          /\ Limit[kind] \in Nat
      BY <3>2, <3>4, HoldersFinite, FS_Subset, FS_CardinalityType, ServerAssumption
    <3>9. Cardinality(W) <= Limit[kind]
      BY <3>5, <3>7, <3>8
    <3> QED
      BY <3>9 DEF W
  <2> QED
    BY <2>1, <2>2
<1> QED
  BY <1>1, SlotInvariant, PTL

-----------------------------------------------------------------------------
(* What is left when Serve has returned *)

\* The channel handlers after Accept, each with a number of its own: they give
\* the counter of active channels something to count.
ActiveHandlers == {h \in Conns \X Nat : h[2] < active[h[1]]}

LifeType ==
    /\ pc \in [Conns -> Stage]
    /\ open \in [Conns -> BOOLEAN]
    /\ admitting \in [Conns -> Nat]
    /\ active \in [Conns -> Nat]

\* Where a connection can be open, registered, or have channels; and where it
\* is once Serve has returned.
Placed ==
    \A c \in Conns :
        /\ open[c] => pc[c] \notin {"away", "done"}
        /\ c \in tracked => pc[c] \in {"auth", "key", "account", "goodbye", "serve", "unwind"}
        /\ pc[c] # "serve" => admitting[c] = 0 /\ active[c] = 0
        /\ loop = "returned" => pc[c] \in {"away", "done"}

ChannelsCounted ==
    /\ IsFiniteSet(ActiveHandlers)
    /\ activeChannels = Cardinality(ActiveHandlers)

LifeInv == LifeType /\ tracked \subseteq Conns /\ Placed /\ ChannelsCounted

\* One more active channel is one more handler.
LEMMA ChannelCounted ==
    ASSUME LifeInv, NEW c \in Conns,
           active' = [active EXCEPT ![c] = @ + 1], activeChannels' = activeChannels + 1
    PROVE  ChannelsCounted'
<1> DEFINE h == <<c, active[c]>>
<1>1. active[c] \in Nat
  BY DEF LifeInv, LifeType
<1>2. h \notin ActiveHandlers
  BY <1>1 DEF ActiveHandlers
<1>3. ActiveHandlers' = ActiveHandlers \cup {h}
  <2>1. ASSUME NEW d \in Conns, NEW n \in Nat
        PROVE  n < active'[d] <=> n < active[d] \/ (d = c /\ n = active[c])
    BY DEF LifeInv, LifeType
  <2> QED BY <1>1, <2>1 DEF ActiveHandlers
<1> QED BY <1>2, <1>3, FS_AddElement DEF LifeInv, ChannelsCounted

\* One less is one less.
LEMMA ChannelDiscounted ==
    ASSUME LifeInv, NEW c \in Conns, active[c] > 0,
           active' = [active EXCEPT ![c] = @ - 1], activeChannels' = activeChannels - 1
    PROVE  ChannelsCounted'
<1> DEFINE h == <<c, active[c] - 1>>
<1>1. active[c] \in Nat /\ active[c] - 1 \in Nat
  BY DEF LifeInv, LifeType
<1>2. h \in ActiveHandlers
  BY <1>1 DEF ActiveHandlers
<1>3. ActiveHandlers' = ActiveHandlers \ {h}
  <2>1. ASSUME NEW d \in Conns, NEW n \in Nat
        PROVE  n < active'[d] <=> n < active[d] /\ ~(d = c /\ n = active[c] - 1)
    BY <1>1 DEF LifeInv, LifeType
  <2> QED BY <1>1, <2>1 DEF ActiveHandlers
<1> QED BY <1>2, <1>3, FS_RemoveElement DEF LifeInv, ChannelsCounted

\* Steps that leave the channels of all connections alone.
LEMMA SameChannels ==
    ASSUME LifeInv, UNCHANGED <<active, activeChannels>>
    PROVE  ChannelsCounted'
BY DEF LifeInv, ChannelsCounted, ActiveHandlers

\* The steps of a handler keep the life invariant.
LEMMA HandlerLife ==
    ASSUME LifeInv, NEW c \in Conns,
           Accept(c) \/ HandlerStep(c) \/ ProxyStep(c) \/ AuthStep(c)
    PROVE  LifeInv'
<1>1. UNCHANGED <<admitting, active, activeChannels, loop>>
  BY DEF Accept, HandlerStep, ProxyStep, AuthStep, PreAuthGate, AcquireGlobal, AcquireIP,
         AcquireHandshake, Acquire, Track, AcquireKey, AcquireAccount, Goodbye, DispatchEnds,
         Unwind, ProxyHeader, ProxyFails, AuthFails, AuthSucceeds, handlers, server
<1> USE DEF LifeInv, LifeType, Placed, Stage, Goto, Close, handlers, server
<1>2. CASE Accept(c)
  BY <1>1, <1>2, SameChannels DEF Accept
<1>3. CASE PreAuthGate(c)
  BY <1>1, <1>3, SameChannels DEF PreAuthGate
<1>4. CASE AcquireGlobal(c) \/ AcquireIP(c) \/ AcquireHandshake(c) \/ AcquireKey(c)
  BY <1>1, <1>4, SameChannels
     DEF AcquireGlobal, AcquireIP, AcquireHandshake, AcquireKey, Acquire
<1>5. CASE AcquireAccount(c)
  BY <1>1, <1>5, SameChannels DEF AcquireAccount
<1>6. CASE Track(c) \/ Goodbye(c) \/ ProxyStep(c)
  BY <1>1, <1>6, SameChannels DEF Track, Goodbye, ProxyStep, ProxyHeader, ProxyFails
<1>7. CASE DispatchEnds(c)
  BY <1>1, <1>7, SameChannels DEF DispatchEnds
<1>8. CASE Unwind(c)
  BY <1>1, <1>8, SameChannels DEF Unwind, Forget
<1>9. CASE AuthStep(c)
  BY <1>1, <1>9, SameChannels DEF AuthStep, AuthFails, AuthSucceeds
<1> QED BY <1>2, <1>3, <1>4, <1>5, <1>6, <1>7, <1>8, <1>9 DEF HandlerStep

\* Channels and the shutdown keep the life invariant.
LEMMA ChannelLife ==
    ASSUME LifeInv, NEW c \in Conns,
           \/ OpenChannel(c) \/ AdmissionStep(c) \/ ChannelEnds(c) \/ RequestsEnd(c)
           \/ PeerCloses(c) \/ CloseConn(c)
    PROVE  LifeInv'
<1> USE DEF LifeInv, LifeType, Placed, Close, handlers, server
<1>1. CASE OpenChannel(c)
  BY <1>1, SameChannels DEF OpenChannel
<1>2. CASE AcceptChannel(c)
  <2>1. ChannelsCounted'
    BY <1>2, ChannelCounted DEF AcceptChannel
  <2> QED BY <1>2, <2>1 DEF AcceptChannel
<1>3. CASE RejectChannel(c)
  <2>1. /\ admitting[c] > 0
        /\ admitting' = [admitting EXCEPT ![c] = @ - 1]
        /\ UNCHANGED <<pc, active, tracked, activeChannels, loop>>
    BY <1>3 DEF RejectChannel
  <2>2. UNCHANGED open \/ Close(c)
    BY <1>3 DEF RejectChannel
  <2>3. open' \in [Conns -> BOOLEAN] /\ \A d \in Conns : open'[d] => open[d]
    BY <2>2
  <2>4. admitting' \in [Conns -> Nat] /\ \A d \in Conns : d # c => admitting'[d] = admitting[d]
    BY <2>1
  <2>5. pc[c] = "serve"
    BY <2>1
  <2> QED BY <2>1, <2>3, <2>4, <2>5, SameChannels
<1>4. CASE ChannelEnds(c)
  <2>1. ChannelsCounted'
    BY <1>4, ChannelDiscounted DEF ChannelEnds
  <2> QED BY <1>4, <2>1 DEF ChannelEnds
<1>5. CASE RequestsEnd(c) \/ PeerCloses(c) \/ CloseConn(c)
  BY <1>5, SameChannels DEF RequestsEnd, PeerCloses, CloseConn
<1> QED BY <1>1, <1>2, <1>3, <1>4, <1>5 DEF AdmissionStep

\* Every step keeps the life invariant.
LEMMA NextLife == LifeInv /\ [Next]_vars => LifeInv'
<1> SUFFICES ASSUME LifeInv, [Next]_vars PROVE LifeInv'
  OBVIOUS
<1>1. CASE Cancel \/ ShutdownStep \/ StopAccepting \/ AuxEnds \/ ServeOnReturns \/ AcceptError
  <2>1. UNCHANGED connections /\ (loop' = "returned" => loop = "returned")
    BY <1>1 DEF Cancel, ShutdownStep, CloseListener, SetDraining, DrainEnds, SnapshotConns,
                WatchEnds, StopAccepting, AuxEnds, ServeOnReturns, AcceptError
  <2> QED BY <2>1, SameChannels DEF connections, handlers, LifeInv, LifeType, Placed
<1>2. CASE ServeReturns
  BY <1>2, SameChannels
     DEF ServeReturns, Running, connections, handlers, LifeInv, LifeType, Placed
<1>3. CASE UNCHANGED vars
  BY <1>3, SameChannels DEF vars, handlers, server, LifeInv, LifeType, Placed
<1> QED
  BY <1>1, <1>2, <1>3, HandlerLife, ChannelLife DEF Next, ServeStep, Exited

\* Nobody is there when the server starts.
LEMMA InitLife == Init => LifeInv
<1> SUFFICES ASSUME Init PROVE LifeInv
  OBVIOUS
<1>1. ActiveHandlers = {}
  BY DEF Init, ActiveHandlers
<1> QED
  BY <1>1, FS_EmptySet DEF Init, LifeInv, LifeType, Placed, ChannelsCounted, Stage

\* When Serve has returned after a shutdown every slot is free, no connection
\* is registered or open and no channel is active: wg.Wait waits for enough.
THEOREM ReturnsWithNothingLeft == Spec => []ReturnLeavesNothing
<1>1. SlotInv /\ LifeInv => ReturnLeavesNothing
  <2> SUFFICES ASSUME SlotInv, LifeInv, loop = "returned" PROVE
          /\ \A s \in Slots : count[s] = 0
          /\ tracked = {}
          /\ \A c \in Conns : ~open[c]
          /\ activeChannels = 0
    BY DEF ReturnLeavesNothing
  <2>1. \A c \in Conns : pc[c] \in {"away", "done"}
    BY DEF LifeInv, Placed
  <2>2. \A c \in Conns : held[c] = {}
    BY <2>1 DEF SlotInv, Staged, HeldAt
  <2>3. \A s \in Slots : Holders(s) = {}
    BY <2>2 DEF Holders
  <2>4. \A s \in Slots : count[s] = 0
    BY <2>3, FS_EmptySet DEF SlotInv, SlotsBalanced
  <2>5. \A c \in Conns : active[c] = 0
    BY <2>1 DEF LifeInv, Placed
  <2>6. ActiveHandlers = {}
    BY <2>5 DEF ActiveHandlers
  <2>7. activeChannels = 0
    BY <2>6, FS_EmptySet DEF LifeInv, ChannelsCounted
  <2> QED BY <2>1, <2>4, <2>7 DEF LifeInv, Placed
<1>2. Spec => []LifeInv
  BY InitLife, NextLife, PTL DEF Spec
<1> QED BY <1>1, <1>2, SlotInvariant, PTL

-----------------------------------------------------------------------------
(* Types *)

\* What the two invariants above do not speak of.
ModeType ==
    /\ mode \in [Conns -> {"none", "workspace", "keys", "enrolled"}]
    /\ served \in [Conns -> BOOLEAN]
    /\ requests \in [Conns -> BOOLEAN]

ServerType ==
    /\ listening \in BOOLEAN
    /\ loop \in {"accepting", "waiting", "returned", "failed"}
    /\ cancelled \in BOOLEAN
    /\ watch \in {"select", "drain", "wait", "snapshot", "closing", "done"}
    /\ doomed \subseteq Conns
    /\ draining \in BOOLEAN
    /\ aux \in BOOLEAN
    /\ serving \in BOOLEAN

\* The steps of a connection keep the types of what the handlers remember.
LEMMA ConnModes ==
    ASSUME ModeType, NEW c \in Conns,
           \/ Accept(c) \/ HandlerStep(c) \/ ProxyStep(c) \/ AuthStep(c)
           \/ OpenChannel(c) \/ AdmissionStep(c) \/ ChannelEnds(c) \/ RequestsEnd(c)
           \/ PeerCloses(c) \/ CloseConn(c)
    PROVE  ModeType'
<1>1. CASE \/ Accept(c) \/ ProxyStep(c) \/ AuthFails(c) \/ PreAuthGate(c) \/ AcquireGlobal(c)
           \/ AcquireIP(c) \/ AcquireHandshake(c) \/ Track(c) \/ AcquireKey(c) \/ Goodbye(c)
           \/ DispatchEnds(c) \/ Unwind(c) \/ AdmissionStep(c) \/ ChannelEnds(c)
           \/ PeerCloses(c) \/ CloseConn(c)
  <2>1. UNCHANGED <<mode, served, requests>>
    BY <1>1 DEF Accept, ProxyStep, ProxyHeader, ProxyFails, AuthFails, PreAuthGate,
                AcquireGlobal, AcquireIP, AcquireHandshake, Acquire, Track, AcquireKey,
                Goodbye, DispatchEnds, Unwind, AdmissionStep, AcceptChannel, RejectChannel,
                ChannelEnds, PeerCloses, CloseConn, handlers
  <2> QED BY <2>1 DEF ModeType
<1>2. ASSUME NEW m \in {"workspace", "keys", "enrolled"}, AuthSucceeds(c, m) PROVE ModeType'
  BY <1>2 DEF AuthSucceeds, ModeType
<1>3. CASE AcquireAccount(c)
  <2>1. \/ UNCHANGED requests
        \/ requests' = [requests EXCEPT ![c] = mode[c] # "enrolled"]
    BY <1>3 DEF AcquireAccount
  <2>2. UNCHANGED <<mode, served>>
    BY <1>3 DEF AcquireAccount
  <2> QED BY <2>1, <2>2, Zenon DEF ModeType
<1>4. CASE OpenChannel(c)
  BY <1>4 DEF OpenChannel, ModeType
<1>5. CASE RequestsEnd(c)
  BY <1>5 DEF RequestsEnd, ModeType
<1> QED BY <1>1, <1>2, <1>3, <1>4, <1>5 DEF HandlerStep, AuthStep

\* The steps of a connection leave the server's own state alone, but for the
\* connections closeAllConns has closed.
LEMMA ConnServer ==
    ASSUME ServerType, NEW c \in Conns,
           \/ Accept(c) \/ HandlerStep(c) \/ ProxyStep(c) \/ AuthStep(c)
           \/ OpenChannel(c) \/ AdmissionStep(c) \/ ChannelEnds(c) \/ RequestsEnd(c)
           \/ PeerCloses(c) \/ CloseConn(c)
    PROVE  ServerType'
<1>1. UNCHANGED server \/ CloseConn(c)
  BY DEF Accept, HandlerStep, ProxyStep, AuthStep, PreAuthGate, AcquireGlobal, AcquireIP,
         AcquireHandshake, Acquire, Track, AcquireKey, AcquireAccount, Goodbye, DispatchEnds,
         Unwind, ProxyHeader, ProxyFails, AuthFails, AuthSucceeds, OpenChannel, AdmissionStep,
         AcceptChannel, RejectChannel, ChannelEnds, RequestsEnd, PeerCloses
<1>2. CASE UNCHANGED server
  BY <1>2 DEF server, ServerType
<1>3. CASE CloseConn(c)
  BY <1>3 DEF CloseConn, ServerType
<1> QED BY <1>1, <1>2, <1>3

\* Every step keeps these types; what closeAllConns copies are connections.
LEMMA NextTypes == LifeInv /\ ModeType /\ ServerType /\ [Next]_vars => ModeType' /\ ServerType'
<1> SUFFICES ASSUME LifeInv, ModeType, ServerType, [Next]_vars PROVE ModeType' /\ ServerType'
  OBVIOUS
<1>1. CASE Cancel \/ ShutdownStep \/ ServeStep \/ AcceptError
  <2>1. UNCHANGED connections
    BY <1>1 DEF Cancel, ShutdownStep, CloseListener, SetDraining, DrainEnds, SnapshotConns,
                WatchEnds, ServeStep, StopAccepting, ServeReturns, AuxEnds, ServeOnReturns,
                AcceptError
  <2>2. ModeType'
    BY <2>1 DEF connections, handlers, ModeType
  <2>3. CASE Cancel \/ ShutdownStep
    BY <2>2, <2>3 DEF Cancel, ShutdownStep, CloseListener, SetDraining, DrainEnds,
                      SnapshotConns, WatchEnds, ServerType, LifeInv
  <2>4. CASE ServeStep \/ AcceptError
    BY <2>2, <2>4 DEF ServeStep, StopAccepting, ServeReturns, AuxEnds, ServeOnReturns,
                      AcceptError, ServerType
  <2> QED BY <1>1, <2>3, <2>4
<1>2. CASE UNCHANGED vars
  BY <1>2 DEF vars, handlers, server, ModeType, ServerType
<1> QED BY <1>1, <1>2, ConnModes, ConnServer DEF Next, Exited

\* The counters never go below zero, on any path by which a handler or a
\* channel ends, and every variable keeps its type.
THEOREM TypeCorrect == Spec => []TypeOK
<1>1. Init => ModeType /\ ServerType
  BY DEF Init, ModeType, ServerType
<1>2. SlotInv /\ LifeInv /\ ModeType /\ ServerType => TypeOK
  <2> SUFFICES ASSUME SlotInv, LifeInv, ModeType, ServerType PROVE TypeOK
    OBVIOUS
  <2>1. activeChannels \in Nat
    BY FS_CardinalityType DEF LifeInv, ChannelsCounted
  <2> QED
    BY <2>1 DEF TypeOK, SlotInv, SlotType, LifeInv, LifeType, ModeType, ServerType
<1> QED
  BY <1>1, <1>2, InitSlots, NextSlots, InitLife, NextLife, NextTypes, PTL DEF Spec

=============================================================================
