---------------------------- MODULE RateLimits ----------------------------
(***************************************************************************)
(* The rate limiter (internal/limits/rate.go): token buckets per address   *)
(* before authentication, per address for token prompts, and per account   *)
(* for renewals, the last with a single-use allowance.  Every table is     *)
(* bounded and evicts when a newcomer finds it full.                       *)
(*                                                                         *)
(* The three tables share no state and each has a mutex of its own, so a   *)
(* behaviour is one of a single table: `gate' says which.                  *)
(*                                                                         *)
(* Abstracted away: the keys of the tables, so that entries seen last at   *)
(* the same moment are evicted in any order (the code: by key).            *)
(***************************************************************************)
EXTENDS Integers, FiniteSets

CONSTANTS
    Clients,     \* addresses or accounts
    MaxTokens,   \* MaxTokens[gate]: connections_per_ip, 10, or
                 \* renewal_attempts_per_account_per_minute
    RefillRate,  \* ticks per token
    MaxMapSize,  \* entries a table may hold
    MaxIdle,     \* ticks until an entry is idle
    MaxTime      \* bound: the clock

Gates == {"ip", "key", "account"}

ASSUME RateLimitsAssumption ==
    /\ IsFiniteSet(Clients)
    /\ MaxTokens \in [Gates -> Nat \ {0}]
    /\ RefillRate \in Nat \ {0}
    /\ MaxMapSize \in Nat /\ MaxIdle \in Nat /\ MaxTime \in Nat

VARIABLES
    gate,     \* the table this behaviour is about
    bucket,   \* bucket[c]: its entry for client c
    now       \* the clock

vars == <<gate, bucket, now>>

\* lastRefill and lastSeen are times.  History: born, when the entry was
\* made; passed, the attempts it let through less the allowances granted.
Entry == [tokens: Nat, lastRefill: Nat, lastSeen: Nat, allowance: BOOLEAN,
          born: Nat, passed: Int]

Init ==
    /\ gate \in Gates
    /\ bucket = [c \in {} |-> 0]
    /\ now = 0

\* Mutants: a table that is full one entry late, candidates that are not
\* sorted, allowances that are candidates too, a refill that does not move
\* its own clock.
FullLate(table, limit) == Cardinality(table) > limit
Unsorted(x, y) == TRUE
AnyEntry == DOMAIN bucket
RefillAgain(e) ==
    LET add == (now - e.lastRefill) \div RefillRate
    IN  [e EXCEPT !.tokens = IF @ + add > MaxTokens[gate] THEN MaxTokens[gate] ELSE @ + add]

-----------------------------------------------------------------------------
(* A bucket *)

NewEntry ==
    [tokens |-> MaxTokens[gate], lastRefill |-> now, lastSeen |-> now,
     allowance |-> FALSE, born |-> now, passed |-> 0]

\* refill: whole tokens only; the rest of the time is lost.
Refill(e) ==
    LET add == (now - e.lastRefill) \div RefillRate
        sum == e.tokens + add
    IN  IF add > 0
        THEN [e EXCEPT !.tokens = IF sum > MaxTokens[gate] THEN MaxTokens[gate] ELSE sum,
                       !.lastRefill = now]
        ELSE e

\* Allow: refill, then take a token if there is one.
Take(e) ==
    LET r == Refill(e)
    IN  IF r.tokens > 0
        THEN [r EXCEPT !.tokens = @ - 1, !.passed = @ + 1]
        ELSE r

Seen(e) == [e EXCEPT !.lastSeen = now]

-----------------------------------------------------------------------------
(* Eviction *)

HardLimit == IF MaxMapSize < 1 THEN 1 ELSE MaxMapSize
TargetSize == IF HardLimit \div 2 < 1 THEN 1 ELSE HardLimit \div 2

Full(table, limit) == Cardinality(table) >= limit

\* The entries eviction may touch: an allowance is never dropped.
Evictable == {c \in DOMAIN bucket : ~bucket[c].allowance}

Idle(c) == bucket[c].lastSeen + MaxIdle < now

\* The order of the sort.
Before(x, y) == bucket[x].lastSeen <= bucket[y].lastSeen

\* A list of candidates, sorted.
Listings(S) ==
    {s \in [1 .. Cardinality(S) -> S] :
        /\ \A c \in S : \E i \in DOMAIN s : s[i] = c
        /\ \A i, j \in DOMAIN s : i < j => Before(s[i], s[j])}

First(s, n) == {s[i] : i \in {j \in DOMAIN s : j <= n}}

\* The loops that delete: everything if all the candidates are idle; else the
\* idle ones and then the others, until the table is, with the newcomer, half
\* the limit.
Victims(idle, other) ==
    LET count == Cardinality(DOMAIN bucket) - TargetSize + 1
    IN  IF DOMAIN other = {}
        THEN First(idle, Cardinality(DOMAIN idle))
        ELSE First(idle, count) \cup First(other, count - Cardinality(DOMAIN idle))

\* What a newcomer's eviction may delete.
Evictions ==
    IF Full(DOMAIN bucket, HardLimit)
    THEN {Victims(idle, other) :
             idle \in Listings({c \in Evictable : Idle(c)}),
             other \in Listings({c \in Evictable : ~Idle(c)})}
    ELSE {{}}

Without(gone) == [c \in DOMAIN bucket \ gone |-> bucket[c]]

\* An account is turned away if the eviction made no room; an address never.
Admitted(table) == gate = "account" => ~Full(table, HardLimit)

\* c gets entry e.
Insert(c, e) ==
    \E gone \in Evictions :
        LET left == Without(gone)
        IN  bucket' = IF Admitted(DOMAIN left)
                      THEN [x \in DOMAIN left \cup {c} |->
                               IF x = c THEN e ELSE left[x]]
                      ELSE left

-----------------------------------------------------------------------------
(* The gates *)

\* AllowPreAuthIP, AllowUnknownKeyAttempt: the same code on two tables.
AllowString(c) ==
    IF c \in DOMAIN bucket
    THEN bucket' = [bucket EXCEPT ![c] = Take(Seen(@))]
    ELSE Insert(c, Take(NewEntry))

AllowPreAuthIP(c) == gate = "ip" /\ AllowString(c) /\ UNCHANGED <<gate, now>>
AllowUnknownKeyAttempt(c) == gate = "key" /\ AllowString(c) /\ UNCHANGED <<gate, now>>

\* The attempt that uses an allowance leaves the bucket alone.
Used(e) == [Seen(e) EXCEPT !.allowance = FALSE, !.passed = @ + 1]

\* An allowance is used before the bucket; a newcomer has none.
AllowRenewalAttempt(c) ==
    /\ gate = "account"
    /\ IF c \in DOMAIN bucket
       THEN bucket' = [bucket EXCEPT ![c] =
                          IF @.allowance THEN Used(@) ELSE Take(Seen(@))]
       ELSE Insert(c, Take(NewEntry))
    /\ UNCHANGED <<gate, now>>

\* Allowances do not add up.
Granted(e) == [Seen(e) EXCEPT !.allowance = TRUE,
                              !.passed = IF e.allowance THEN @ ELSE @ - 1]

GrantReconnectAllowance(c) ==
    /\ gate = "account"
    /\ IF c \in DOMAIN bucket
       THEN bucket' = [bucket EXCEPT ![c] = Granted(@)]
       ELSE Insert(c, Granted(NewEntry))
    /\ UNCHANGED <<gate, now>>

Tick ==
    /\ now < MaxTime
    /\ now' = now + 1
    /\ UNCHANGED <<gate, bucket>>

-----------------------------------------------------------------------------
Next ==
    \/ \E c \in Clients :
          \/ AllowPreAuthIP(c) \/ AllowUnknownKeyAttempt(c)
          \/ AllowRenewalAttempt(c) \/ GrantReconnectAllowance(c)
    \/ Tick

Spec == Init /\ [][Next]_vars

-----------------------------------------------------------------------------
(* Properties *)

\* Entries have their type, and no bucket holds more than its maximum.
TypeOK ==
    /\ gate \in Gates /\ now \in 0 .. MaxTime
    /\ DOMAIN bucket \subseteq Clients
    /\ \A c \in DOMAIN bucket :
          bucket[c] \in Entry /\ bucket[c].tokens <= MaxTokens[gate]

\* "bounded map": however many clients come, a table stays within its limit.
SizeBounded == Cardinality(DOMAIN bucket) <= HardLimit

\* The limit itself: in all the time it is known a client gets no more
\* attempts than a full bucket, the tokens of that time, and one for each
\* allowance it was granted (passed does not count those).
RateHolds ==
    \A c \in DOMAIN bucket :
        LET e == bucket[c]
        IN  e.passed <= MaxTokens[gate] + (now - e.born) \div RefillRate

\* An allowance stays until exactly one attempt has used it, though others
\* fill the table and are evicted from it.
AllowanceKept ==
    [][\A c \in DOMAIN bucket :
          bucket[c].allowance =>
              /\ c \in DOMAIN bucket'
              /\ bucket'[c].allowance \/ bucket'[c].passed = bucket[c].passed + 1]_vars

\* A client that keeps coming keeps its bucket while one that was seen less
\* recently keeps his: its limit is not reset by others before theirs.
OldestGoesFirst ==
    [][\A x \in DOMAIN bucket \ DOMAIN bucket',
          y \in DOMAIN bucket \cap DOMAIN bucket' :
              bucket[y].allowance \/ bucket[x].lastSeen <= bucket[y].lastSeen]_vars
===========================================================================
