-------------------------- MODULE RateLimitsProofs --------------------------
(***************************************************************************)
(* The rate limiter for any number of clients, any limits and any rate.    *)
(*                                                                         *)
(* The invariant is one about each entry: the tokens it still has and the  *)
(* attempts it let through were there when it was made, or came with the   *)
(* time up to its last refill.  An unclaimed allowance stands for one      *)
(* attempt that `passed' does not count yet.                               *)
(***************************************************************************)
EXTENDS RateLimits, FiniteSetTheorems, TLAPS

\* Attempts that took a token.
Spent(e) == e.passed + (IF e.allowance THEN 1 ELSE 0)

\* Tokens that n ticks are good for.
Earned(n) == n \div RefillRate

\* Entry e of table g at time t.
EntryOK(e, g, t) ==
    /\ e \in Entry
    /\ e.tokens <= MaxTokens[g]
    /\ e.born <= e.lastRefill
    /\ e.lastRefill <= t
    /\ Spent(e) + e.tokens <= MaxTokens[g] + Earned(e.lastRefill - e.born)

\* Only accounts have allowances, so that an address can always be evicted.
NoneButAccounts ==
    gate # "account" => \A c \in DOMAIN bucket : ~bucket[c].allowance

Inv ==
    /\ gate \in Gates
    /\ now \in 0 .. MaxTime
    /\ DOMAIN bucket \subseteq Clients
    /\ \A c \in DOMAIN bucket : EntryOK(bucket[c], gate, now)
    /\ NoneButAccounts
    /\ SizeBounded

-----------------------------------------------------------------------------
(* Buckets *)

\* Integer division: a whole number of rates, and a rest.
LEMMA EarnedBounds ==
    ASSUME NEW n \in Nat
    PROVE  /\ Earned(n) \in Nat
           /\ Earned(n) * RefillRate <= n
           /\ n < (Earned(n) + 1) * RefillRate
<1>1. RefillRate \in Nat /\ RefillRate > 0
  BY RateLimitsAssumption
<1> QED BY <1>1 DEF Earned

\* What is lost when time is cut in two is never gained.
LEMMA EarnedAdds ==
    ASSUME NEW m \in Nat, NEW n \in Nat
    PROVE  Earned(m) + Earned(n) <= Earned(m + n)
<1> DEFINE a == Earned(m)
           b == Earned(n)
           c == Earned(m + n)
<1>1. RefillRate \in Nat /\ RefillRate > 0
  BY RateLimitsAssumption
<1>2. a \in Nat /\ b \in Nat /\ c \in Nat
  BY EarnedBounds
<1>3. a * RefillRate <= m /\ b * RefillRate <= n /\ m + n < (c + 1) * RefillRate
  BY EarnedBounds
<1> HIDE DEF a, b, c
<1>4. (a + b) * RefillRate = a * RefillRate + b * RefillRate
  BY <1>1, <1>2
<1>5. (a + b) * RefillRate < (c + 1) * RefillRate
  BY <1>1, <1>2, <1>3, <1>4
<1>6. a + b < c + 1
  BY <1>1, <1>2, <1>5
<1>7. a + b <= c
  BY <1>2, <1>6
<1> QED BY <1>7 DEF a, b, c

\* The limit of a table.
LEMMA LimitType == ASSUME gate \in Gates PROVE MaxTokens[gate] \in Nat /\ MaxTokens[gate] > 0
BY RateLimitsAssumption

\* A new entry is full and has let nobody through.
LEMMA NewEntryOK ==
    ASSUME gate \in Gates, now \in Nat
    PROVE  EntryOK(NewEntry, gate, now) /\ ~NewEntry.allowance
<1>1. NewEntry \in Entry
  BY LimitType DEF NewEntry, Entry
<1>2. Spent(NewEntry) = 0 /\ NewEntry.lastRefill - NewEntry.born = 0
      /\ NewEntry.tokens = MaxTokens[gate]
  BY DEF NewEntry, Spent
<1>3. Earned(0) \in Nat
  BY EarnedBounds
<1> QED BY <1>1, <1>2, <1>3, LimitType DEF EntryOK, NewEntry

\* Being seen changes nothing that counts.
LEMMA SeenOK ==
    ASSUME gate \in Gates, now \in Nat, NEW e, EntryOK(e, gate, now)
    PROVE  /\ EntryOK(Seen(e), gate, now)
           /\ Seen(e).allowance = e.allowance
           /\ Seen(e).passed = e.passed
<1>1. e \in Entry
  BY DEF EntryOK
<1>2. /\ Seen(e) \in Entry
      /\ Seen(e).tokens = e.tokens /\ Seen(e).born = e.born
      /\ Seen(e).lastRefill = e.lastRefill
      /\ Seen(e).passed = e.passed /\ Seen(e).allowance = e.allowance
  BY <1>1 DEF Seen, Entry
<1> QED BY <1>2 DEF EntryOK, Spent

\* A refill adds what the time since the last one is good for.
LEMMA RefillOK ==
    ASSUME gate \in Gates, now \in Nat, NEW e, EntryOK(e, gate, now)
    PROVE  /\ EntryOK(Refill(e), gate, now)
           /\ Refill(e).allowance = e.allowance
           /\ Refill(e).passed = e.passed
<1> DEFINE add == (now - e.lastRefill) \div RefillRate
           sum == e.tokens + add
           full == IF sum > MaxTokens[gate] THEN MaxTokens[gate] ELSE sum
<1>1. e \in Entry /\ e.tokens \in Nat /\ e.lastRefill \in Nat /\ e.born \in Nat
      /\ e.passed \in Int /\ e.allowance \in BOOLEAN /\ Spent(e) \in Int
  BY DEF EntryOK, Entry, Spent
<1>2. now - e.lastRefill \in Nat /\ e.lastRefill - e.born \in Nat
      /\ (e.lastRefill - e.born) + (now - e.lastRefill) = now - e.born
      /\ now - e.born \in Nat
  BY <1>1 DEF EntryOK
<1>3. add = Earned(now - e.lastRefill)
  BY DEF Earned
<1>4. add \in Nat
  BY <1>2, <1>3, EarnedBounds
<1>5. Earned(e.lastRefill - e.born) + add <= Earned(now - e.born)
  BY <1>2, <1>3, EarnedAdds
<1>6. Earned(e.lastRefill - e.born) \in Nat /\ Earned(now - e.born) \in Nat
  BY <1>2, EarnedBounds
<1> HIDE DEF add
<1>7. full \in Nat /\ full <= MaxTokens[gate] /\ full <= e.tokens + add
  BY <1>1, <1>4, LimitType
<1>8. CASE add > 0
  <2>1. Refill(e) = [e EXCEPT !.tokens = full, !.lastRefill = now]
    BY <1>8 DEF Refill, add
  <2> HIDE DEF full
  <2>2. /\ Refill(e) \in Entry
        /\ Refill(e).tokens = full /\ Refill(e).lastRefill = now
        /\ Refill(e).born = e.born /\ Refill(e).passed = e.passed
        /\ Refill(e).allowance = e.allowance
    BY <1>1, <1>7, <2>1 DEF Entry
  <2>3. Spent(Refill(e)) = Spent(e)
    BY <2>2 DEF Spent
  <2>4. Spent(e) + e.tokens <= MaxTokens[gate] + Earned(e.lastRefill - e.born)
        /\ e.born <= e.lastRefill /\ e.lastRefill <= now
    BY DEF EntryOK
  <2>5. Spent(e) + full <= MaxTokens[gate] + Earned(now - e.born)
    BY <1>1, <1>4, <1>5, <1>6, <1>7, <2>4, LimitType
  <2> QED BY <1>1, <1>7, <2>2, <2>3, <2>4, <2>5 DEF EntryOK
<1>9. CASE ~(add > 0)
  BY <1>9 DEF Refill, add
<1> QED BY <1>8, <1>9

\* An attempt takes a token, if there is one, and passes.
LEMMA TakeOK ==
    ASSUME gate \in Gates, now \in Nat, NEW e, EntryOK(e, gate, now)
    PROVE  EntryOK(Take(e), gate, now) /\ Take(e).allowance = e.allowance
<1> DEFINE r == Refill(e)
<1>1. EntryOK(r, gate, now) /\ r.allowance = e.allowance
  BY RefillOK
<1> HIDE DEF r
<1>2. r \in Entry /\ r.tokens \in Nat /\ r.passed \in Int
  BY <1>1 DEF EntryOK, Entry
<1>3. CASE r.tokens > 0
  <2>1. Take(e) = [r EXCEPT !.tokens = r.tokens - 1, !.passed = r.passed + 1]
    BY <1>3 DEF Take, r
  <2>2. r.tokens - 1 \in Nat /\ r.passed + 1 \in Int
    BY <1>2, <1>3
  <2>3. /\ Take(e) \in Entry
        /\ Take(e).tokens = r.tokens - 1 /\ Take(e).passed = r.passed + 1
        /\ Take(e).born = r.born /\ Take(e).lastRefill = r.lastRefill
        /\ Take(e).allowance = r.allowance
    BY <1>2, <2>1, <2>2 DEF Entry
  <2>4. Spent(Take(e)) + Take(e).tokens = Spent(r) + r.tokens
    BY <1>2, <2>3 DEF Spent
  <2> QED BY <1>1, <1>2, <2>3, <2>4, LimitType DEF EntryOK
<1>4. CASE ~(r.tokens > 0)
  <2>1. Take(e) = r
    BY <1>4 DEF Take, r
  <2> QED BY <1>1, <2>1
<1> QED BY <1>3, <1>4

\* An allowance that is granted, once, and one that is used.
LEMMA AllowanceOK ==
    ASSUME gate \in Gates, now \in Nat, NEW e, EntryOK(e, gate, now)
    PROVE  /\ EntryOK(Granted(e), gate, now) /\ Granted(e).allowance
           /\ e.allowance => EntryOK(Used(e), gate, now) /\ Used(e).passed = e.passed + 1
<1> DEFINE s == Seen(e)
           n == IF e.allowance THEN s.passed ELSE s.passed - 1
           u == [s EXCEPT !.allowance = FALSE, !.passed = s.passed + 1]
<1>1. EntryOK(s, gate, now) /\ s.allowance = e.allowance /\ s.passed = e.passed
  BY SeenOK
<1>2. Granted(e) = [s EXCEPT !.allowance = TRUE, !.passed = n]
  BY DEF Granted
<1> HIDE DEF s
<1>3. s \in Entry /\ s.passed \in Int /\ s.allowance \in BOOLEAN
  BY <1>1 DEF EntryOK, Entry
<1>4. n \in Int /\ s.passed + 1 \in Int
  BY <1>3
<1>5. EntryOK(Granted(e), gate, now) /\ Granted(e).allowance
  <2>1. Spent(s) = n + 1
    BY <1>1, <1>3 DEF Spent
  <2> HIDE DEF n
  <2>2. /\ Granted(e) \in Entry /\ Granted(e).allowance /\ Granted(e).passed = n
        /\ Granted(e).tokens = s.tokens /\ Granted(e).born = s.born
        /\ Granted(e).lastRefill = s.lastRefill
    BY <1>2, <1>3, <1>4 DEF Entry
  <2>3. Spent(Granted(e)) = Spent(s)
    BY <2>1, <2>2 DEF Spent
  <2> QED BY <1>1, <2>2, <2>3 DEF EntryOK
<1>6. ASSUME e.allowance PROVE EntryOK(u, gate, now) /\ u.passed = e.passed + 1
  <2>1. /\ u \in Entry /\ ~u.allowance /\ u.passed = s.passed + 1
        /\ u.tokens = s.tokens /\ u.born = s.born /\ u.lastRefill = s.lastRefill
    BY <1>3, <1>4 DEF Entry
  <2> HIDE DEF u
  <2>2. Spent(u) = Spent(s)
    <3>1. s.allowance
      BY <1>1, <1>6
    <3>2. Spent(s) = s.passed + 1
      BY <3>1 DEF Spent
    <3>3. Spent(u) = s.passed + 1
      BY <1>3, <2>1 DEF Spent
    <3> QED BY <3>2, <3>3
  <2> QED BY <1>1, <2>1, <2>2 DEF EntryOK
<1>7. Used(e) = u
  BY DEF Used, s
<1> HIDE DEF u
<1> QED BY <1>5, <1>6, <1>7

-----------------------------------------------------------------------------
(* Eviction *)

\* A table has room for at least one entry.
LEMMA LimitPositive == HardLimit \in Nat /\ HardLimit > 0
BY RateLimitsAssumption DEF HardLimit

\* A full table has more entries than eviction leaves.
LEMMA SomethingGoes ==
    ASSUME NEW size \in Nat, size >= HardLimit
    PROVE  size - TargetSize + 1 \in Nat /\ size - TargetSize + 1 >= 1
<1>1. TargetSize \in Nat /\ TargetSize <= HardLimit
  BY LimitPositive DEF TargetSize
<1> QED BY <1>1, LimitPositive

\* A listing: all the candidates, sorted.
LEMMA ListingFacts ==
    ASSUME NEW S, IsFiniteSet(S), NEW s \in Listings(S)
    PROVE  /\ DOMAIN s = 1 .. Cardinality(S) /\ Cardinality(S) \in Nat
           /\ \A i \in DOMAIN s : s[i] \in S
           /\ \A c \in S : \E i \in DOMAIN s : s[i] = c
           /\ \A i, j \in DOMAIN s : i < j => Before(s[i], s[j])
           /\ Cardinality(DOMAIN s) = Cardinality(S)
<1>1. Cardinality(S) \in Nat
  BY FS_CardinalityType
<1>2. /\ s \in [1 .. Cardinality(S) -> S]
      /\ \A c \in S : \E i \in DOMAIN s : s[i] = c
      /\ \A i, j \in DOMAIN s : i < j => Before(s[i], s[j])
  BY DEF Listings
<1>3. DOMAIN s = 1 .. Cardinality(S)
  BY <1>2
<1>4. Cardinality(1 .. Cardinality(S)) = Cardinality(S)
  <2>1. Cardinality(1 .. Cardinality(S)) =
           IF 1 > Cardinality(S) THEN 0 ELSE Cardinality(S) - 1 + 1
    BY <1>1, FS_Interval
  <2> QED BY <1>1, <2>1
<1> QED BY <1>1, <1>2, <1>3, <1>4

\* The two sorted lists and the loops over them: candidates only, the least
\* recent of all of them, and at least one if there is any.
LEMMA VictimsOK ==
    ASSUME Inv, Full(DOMAIN bucket, HardLimit), NEW gone \in Evictions
    PROVE  /\ gone \subseteq Evictable
           /\ \A x \in gone, y \in Evictable \ gone : Before(x, y)
           /\ Evictable # {} => gone # {}
<1> DEFINE I == {c \in Evictable : Idle(c)}
           O == {c \in Evictable : ~Idle(c)}
           size == Cardinality(DOMAIN bucket)
           count == size - TargetSize + 1
<1>1. PICK idle \in Listings(I), other \in Listings(O) : gone = Victims(idle, other)
  BY DEF Evictions
<1>2. IsFiniteSet(DOMAIN bucket) /\ IsFiniteSet(I) /\ IsFiniteSet(O)
  <2>1. IsFiniteSet(DOMAIN bucket)
    BY FS_Subset, RateLimitsAssumption DEF Inv
  <2>2. I \subseteq DOMAIN bucket /\ O \subseteq DOMAIN bucket
    BY DEF Evictable
  <2> QED BY <2>1, <2>2, FS_Subset
<1>3. size \in Nat /\ count \in Nat /\ count >= 1
  <2>1. size \in Nat /\ size >= HardLimit
    BY <1>2, FS_CardinalityType, LimitPositive DEF Full
  <2> QED BY <2>1, SomethingGoes
<1> DEFINE n == Cardinality(I)
           m == Cardinality(O)
<1>4. /\ DOMAIN idle = 1 .. n /\ n \in Nat /\ Cardinality(DOMAIN idle) = n
      /\ \A i \in DOMAIN idle : idle[i] \in I
      /\ \A c \in I : \E i \in DOMAIN idle : idle[i] = c
      /\ \A i, j \in DOMAIN idle : i < j => Before(idle[i], idle[j])
  BY <1>2, ListingFacts
<1>5. /\ DOMAIN other = 1 .. m /\ m \in Nat
      /\ \A i \in DOMAIN other : other[i] \in O
      /\ \A c \in O : \E i \in DOMAIN other : other[i] = c
      /\ \A i, j \in DOMAIN other : i < j => Before(other[i], other[j])
  BY <1>2, ListingFacts
<1>6. Evictable = I \cup O
  OBVIOUS
<1>7. ASSUME NEW x \in I, NEW y \in O PROVE Before(x, y)
  <2>1. x \in DOMAIN bucket /\ y \in DOMAIN bucket /\ Idle(x) /\ ~Idle(y)
    BY DEF Evictable
  <2>2. bucket[x].lastSeen \in Nat /\ bucket[y].lastSeen \in Nat /\ now \in Nat
    BY <2>1, RateLimitsAssumption DEF Inv, EntryOK, Entry
  <2> QED BY <2>1, <2>2, RateLimitsAssumption DEF Idle, Before
<1> HIDE DEF I, O, n, m, size, count
<1>8. CASE m = 0
  <2>1. DOMAIN other = {} /\ O = {}
    BY <1>5, <1>8
  <2>2. gone = First(idle, n)
    BY <1>1, <1>4, <2>1 DEF Victims
  <2>3. gone = I
    BY <1>4, <2>2 DEF First
  <2> QED BY <1>6, <2>1, <2>3
<1>9. CASE m # 0
  <2>1. DOMAIN other # {}
    BY <1>5, <1>9
  <2>2. gone = First(idle, count) \cup First(other, count - n)
    BY <1>1, <1>4, <2>1 DEF Victims, count, size
  <2>3. ASSUME NEW x \in gone
        PROVE  \/ \E i \in DOMAIN idle : x = idle[i] /\ i <= count
               \/ \E j \in DOMAIN other : x = other[j] /\ j <= count - n
    BY <2>2 DEF First
  <2>4. ASSUME NEW i \in DOMAIN idle, i <= count PROVE idle[i] \in gone
    BY <2>2, <2>4 DEF First
  <2>5. ASSUME NEW j \in DOMAIN other, j <= count - n PROVE other[j] \in gone
    BY <2>2, <2>5 DEF First
  <2>6. gone \subseteq Evictable
    BY <1>4, <1>5, <1>6, <2>3
  <2>7. ASSUME NEW x \in gone, NEW y \in Evictable \ gone PROVE Before(x, y)
    <3>1. ASSUME NEW i \in DOMAIN idle, x = idle[i], i <= count, y \in I
          PROVE  Before(x, y)
      <4>1. PICK k \in DOMAIN idle : idle[k] = y
        BY <1>4, <3>1
      <4>2. ~(k <= count)
        BY <2>4, <4>1
      <4>3. i < k
        BY <1>3, <1>4, <3>1, <4>2
      <4> QED BY <1>4, <3>1, <4>1, <4>3
    <3>2. ASSUME NEW j \in DOMAIN other, x = other[j], j <= count - n, y \in O
          PROVE  Before(x, y)
      <4>1. PICK k \in DOMAIN other : other[k] = y
        BY <1>5, <3>2
      <4>2. ~(k <= count - n)
        BY <2>5, <4>1
      <4>3. j < k
        BY <1>3, <1>4, <1>5, <3>2, <4>2
      <4> QED BY <1>5, <3>2, <4>1, <4>3
    <3>3. ASSUME NEW j \in DOMAIN other, j <= count - n, y \in I
          PROVE  FALSE
      <4>1. PICK k \in DOMAIN idle : idle[k] = y
        BY <1>4, <3>3
      <4>2. k <= count
        BY <1>3, <1>4, <1>5, <3>3
      <4> QED BY <2>4, <4>1, <4>2
    <3> QED BY <1>4, <1>6, <1>7, <2>3, <3>1, <3>2, <3>3
  <2>8. gone # {}
    <3>1. CASE n = 0
      <4>1. 1 \in DOMAIN other /\ 1 <= count - n
        BY <1>3, <1>5, <1>9, <3>1
      <4> QED BY <2>5, <4>1
    <3>2. CASE n # 0
      <4>1. 1 \in DOMAIN idle /\ 1 <= count
        BY <1>3, <1>4, <3>2
      <4> QED BY <2>4, <4>1
    <3> QED BY <3>1, <3>2
  <2> QED BY <2>6, <2>7, <2>8
<1> QED BY <1>8, <1>9

\* A newcomer's table: within its limit; an entry that stays is unchanged, an
\* allowance stays, and of the others the least recent go.
LEMMA InsertOK ==
    ASSUME Inv, NEW c \in Clients, c \notin DOMAIN bucket, NEW e,
           EntryOK(e, gate, now), gate # "account" => ~e.allowance, Insert(c, e)
    PROVE  /\ DOMAIN bucket' \subseteq Clients
           /\ \A x \in DOMAIN bucket' : EntryOK(bucket'[x], gate, now)
           /\ gate # "account" => \A x \in DOMAIN bucket' : ~bucket'[x].allowance
           /\ Cardinality(DOMAIN bucket') <= HardLimit
           /\ \A x \in DOMAIN bucket : bucket[x].allowance =>
                 x \in DOMAIN bucket' /\ bucket'[x] = bucket[x]
           /\ \A x \in DOMAIN bucket \ DOMAIN bucket',
                 y \in DOMAIN bucket \cap DOMAIN bucket' :
                    bucket[y].allowance \/ bucket[x].lastSeen <= bucket[y].lastSeen
<1>1. PICK gone \in Evictions :
        bucket' = IF Admitted(DOMAIN Without(gone))
                  THEN [x \in DOMAIN Without(gone) \cup {c} |->
                           IF x = c THEN e ELSE Without(gone)[x]]
                  ELSE Without(gone)
  BY DEF Insert
<1> DEFINE left == DOMAIN bucket \ gone
<1>2. DOMAIN Without(gone) = left /\ \A x \in left : Without(gone)[x] = bucket[x]
  BY DEF Without
<1>3. /\ \A x \in left : x \in DOMAIN bucket' /\ bucket'[x] = bucket[x]
      /\ DOMAIN bucket' \subseteq left \cup {c}
      /\ \A x \in DOMAIN bucket' : bucket'[x] = IF x = c THEN e ELSE bucket[x]
      /\ DOMAIN bucket' = left \/ (DOMAIN bucket' = left \cup {c} /\ Admitted(left))
  BY <1>1, <1>2
<1>4. /\ gone \subseteq Evictable
      /\ \A x \in gone, y \in Evictable \ gone : Before(x, y)
      /\ Full(DOMAIN bucket, HardLimit) /\ Evictable # {} => gone # {}
  <2>1. CASE Full(DOMAIN bucket, HardLimit)
    BY <2>1, VictimsOK
  <2>2. CASE ~Full(DOMAIN bucket, HardLimit)
    BY <2>2 DEF Evictions
  <2> QED BY <2>1, <2>2
<1>5. IsFiniteSet(DOMAIN bucket) /\ IsFiniteSet(left)
      /\ Cardinality(left) <= Cardinality(DOMAIN bucket)
      /\ Cardinality(left) \in Nat /\ Cardinality(DOMAIN bucket) \in Nat
  BY FS_Subset, FS_CardinalityType, RateLimitsAssumption DEF Inv
<1>6. DOMAIN bucket' \subseteq Clients
  BY <1>3 DEF Inv
<1>7. ASSUME NEW x \in DOMAIN bucket'
      PROVE  EntryOK(bucket'[x], gate, now) /\ (gate # "account" => ~bucket'[x].allowance)
  <2>1. x = c \/ x \in DOMAIN bucket
    BY <1>3
  <2>2. bucket'[x] = IF x = c THEN e ELSE bucket[x]
    BY <1>3
  <2> QED BY <2>1, <2>2 DEF Inv, NoneButAccounts
<1>8. Cardinality(DOMAIN bucket') <= HardLimit
  <2>1. CASE DOMAIN bucket' = left
    BY <1>5, <2>1, LimitPositive DEF Inv, SizeBounded
  <2>2. CASE DOMAIN bucket' = left \cup {c} /\ Admitted(left)
    <3>1. c \notin left
      OBVIOUS
    <3>2. Cardinality(left \cup {c}) = Cardinality(left) + 1
      BY <1>5, <3>1, FS_AddElement
    <3>3. Cardinality(left) < HardLimit
      <4>1. CASE gate = "account"
        BY <1>5, <2>2, <4>1, LimitPositive DEF Full, Admitted
      <4>2. CASE ~Full(DOMAIN bucket, HardLimit)
        BY <1>5, <4>2, LimitPositive DEF Full
      <4>3. CASE gate # "account" /\ Full(DOMAIN bucket, HardLimit)
        <5>1. Cardinality(DOMAIN bucket) > 0
          BY <1>5, <4>3, LimitPositive DEF Full
        <5>2. DOMAIN bucket # {}
          BY <5>1, FS_EmptySet
        <5>3. Evictable = DOMAIN bucket
          BY <4>3 DEF Evictable, Inv, NoneButAccounts
        <5>4. gone # {} /\ gone \subseteq DOMAIN bucket
          BY <1>4, <4>3, <5>2, <5>3
        <5>5. left \subseteq DOMAIN bucket /\ left # DOMAIN bucket
          BY <5>4
        <5>6. Cardinality(left) < Cardinality(DOMAIN bucket)
          BY <1>5, <5>5, FS_Subset
        <5> QED BY <1>5, <5>6, LimitPositive DEF Inv, SizeBounded
      <4> QED BY <4>1, <4>2, <4>3
    <3> QED BY <1>5, <2>2, <3>2, <3>3, LimitPositive
  <2> QED BY <1>3, <2>1, <2>2
<1>9. ASSUME NEW x \in DOMAIN bucket, bucket[x].allowance
      PROVE  x \in DOMAIN bucket' /\ bucket'[x] = bucket[x]
  <2>1. x \in left
    BY <1>4, <1>9 DEF Evictable
  <2> QED BY <1>3, <2>1
<1>10. ASSUME NEW x \in DOMAIN bucket \ DOMAIN bucket',
              NEW y \in DOMAIN bucket \cap DOMAIN bucket',
              ~bucket[y].allowance
       PROVE  bucket[x].lastSeen <= bucket[y].lastSeen
  <2>1. x \in gone /\ y \in left
    BY <1>3
  <2>2. y \in Evictable \ gone
    BY <1>10, <2>1 DEF Evictable
  <2>3. Before(x, y)
    BY <1>4, <2>1, <2>2
  <2> QED BY <2>3 DEF Before
<1> QED BY <1>6, <1>7, <1>8, <1>9, <1>10

\* An entry that is replaced in place: the table is as large as before.
LEMMA ReplaceOK ==
    ASSUME Inv, NEW c \in DOMAIN bucket, NEW e, EntryOK(e, gate, now),
           bucket' = [bucket EXCEPT ![c] = e]
    PROVE  /\ DOMAIN bucket' = DOMAIN bucket
           /\ \A x \in DOMAIN bucket : bucket'[x] = IF x = c THEN e ELSE bucket[x]
           /\ \A x \in DOMAIN bucket : EntryOK(bucket'[x], gate, now)
<1>1. DOMAIN bucket' = DOMAIN bucket
      /\ \A x \in DOMAIN bucket : bucket'[x] = IF x = c THEN e ELSE bucket[x]
  OBVIOUS
<1> QED BY <1>1 DEF Inv

\* Time passes: what was in order stays so.
LEMMA LaterOK ==
    ASSUME NEW e, NEW g \in Gates, NEW t \in Nat, EntryOK(e, g, t)
    PROVE  EntryOK(e, g, t + 1)
BY DEF EntryOK, Entry

-----------------------------------------------------------------------------
(* Every step *)

\* What an attempt or a grant does to the table, whichever gate it is.
StepOK ==
    /\ DOMAIN bucket' \subseteq Clients
    /\ \A x \in DOMAIN bucket' : EntryOK(bucket'[x], gate, now)
    /\ gate # "account" => \A x \in DOMAIN bucket' : ~bucket'[x].allowance
    /\ Cardinality(DOMAIN bucket') <= HardLimit
    /\ \A x \in DOMAIN bucket : bucket[x].allowance =>
          /\ x \in DOMAIN bucket'
          /\ bucket'[x].allowance \/ bucket'[x].passed = bucket[x].passed + 1
    /\ \A x \in DOMAIN bucket \ DOMAIN bucket',
          y \in DOMAIN bucket \cap DOMAIN bucket' :
             bucket[y].allowance \/ bucket[x].lastSeen <= bucket[y].lastSeen

\* A newcomer's step is a step of the table.
LEMMA NewcomerStep ==
    ASSUME Inv, NEW c \in Clients, c \notin DOMAIN bucket, NEW e,
           EntryOK(e, gate, now), gate # "account" => ~e.allowance, Insert(c, e)
    PROVE  StepOK
BY InsertOK DEF StepOK

\* So is one that changes a known entry and uses no allowance for nothing.
LEMMA KnownStep ==
    ASSUME Inv, NEW c \in DOMAIN bucket, NEW e, EntryOK(e, gate, now),
           bucket' = [bucket EXCEPT ![c] = e], gate # "account" => ~e.allowance,
           bucket[c].allowance => e.allowance \/ e.passed = bucket[c].passed + 1
    PROVE  StepOK
<1>1. /\ DOMAIN bucket' = DOMAIN bucket
      /\ \A x \in DOMAIN bucket : bucket'[x] = IF x = c THEN e ELSE bucket[x]
      /\ \A x \in DOMAIN bucket : EntryOK(bucket'[x], gate, now)
  BY ReplaceOK
<1>2. DOMAIN bucket' \subseteq Clients /\ Cardinality(DOMAIN bucket') <= HardLimit
  BY <1>1 DEF Inv, SizeBounded
<1>3. \A x \in DOMAIN bucket : bucket[x].allowance =>
          /\ x \in DOMAIN bucket'
          /\ bucket'[x].allowance \/ bucket'[x].passed = bucket[x].passed + 1
  BY <1>1
<1>4. gate # "account" => \A x \in DOMAIN bucket' : ~bucket'[x].allowance
  BY <1>1 DEF Inv, NoneButAccounts
<1> QED BY <1>1, <1>2, <1>3, <1>4 DEF StepOK

\* AllowPreAuthIP and AllowUnknownKeyAttempt keep the accounting.
LEMMA AllowStringStep ==
    ASSUME Inv, NEW c \in Clients, AllowString(c)
    PROVE  StepOK
<1>0. gate \in Gates /\ now \in Nat
  BY RateLimitsAssumption DEF Inv
<1>1. CASE c \in DOMAIN bucket
  <2> DEFINE s == Seen(bucket[c])
  <2>1. EntryOK(s, gate, now) /\ s.allowance = bucket[c].allowance
    BY <1>0, <1>1, SeenOK DEF Inv
  <2>2. EntryOK(Take(s), gate, now) /\ Take(s).allowance = s.allowance
    BY <1>0, <2>1, TakeOK
  <2>3. bucket' = [bucket EXCEPT ![c] = Take(s)]
    BY <1>1 DEF AllowString
  <2>4. (bucket[c].allowance => Take(s).allowance)
        /\ (gate # "account" => ~Take(s).allowance)
    BY <1>1, <2>1, <2>2 DEF Inv, NoneButAccounts
  <2> HIDE DEF s
  <2> QED BY <1>1, <2>2, <2>3, <2>4, KnownStep
<1>2. CASE c \notin DOMAIN bucket
  <2>1. EntryOK(NewEntry, gate, now) /\ ~NewEntry.allowance
    BY <1>0, NewEntryOK
  <2>2. EntryOK(Take(NewEntry), gate, now) /\ ~Take(NewEntry).allowance
    BY <1>0, <2>1, TakeOK
  <2>3. Insert(c, Take(NewEntry))
    BY <1>2 DEF AllowString
  <2> QED BY <1>2, <2>2, <2>3, NewcomerStep
<1> QED BY <1>1, <1>2

\* AllowRenewalAttempt keeps it, with a token or with an allowance.
LEMMA RenewalStep ==
    ASSUME Inv, NEW c \in Clients, AllowRenewalAttempt(c)
    PROVE  StepOK
<1>0. gate \in Gates /\ now \in Nat /\ gate = "account"
  BY RateLimitsAssumption DEF Inv, AllowRenewalAttempt
<1>1. CASE c \in DOMAIN bucket /\ bucket[c].allowance
  <2> DEFINE u == Used(bucket[c])
  <2>1. EntryOK(bucket[c], gate, now)
    BY <1>1 DEF Inv
  <2>2. EntryOK(u, gate, now) /\ u.passed = bucket[c].passed + 1
    BY <1>0, <1>1, <2>1, AllowanceOK
  <2>3. bucket' = [bucket EXCEPT ![c] = u]
    BY <1>1 DEF AllowRenewalAttempt
  <2> HIDE DEF u
  <2> QED BY <1>0, <1>1, <2>2, <2>3, KnownStep
<1>2. CASE ~(c \in DOMAIN bucket /\ bucket[c].allowance)
  <2>1. AllowString(c)
    BY <1>2 DEF AllowRenewalAttempt, AllowString
  <2> QED BY <2>1, AllowStringStep
<1> QED BY <1>1, <1>2

\* GrantReconnectAllowance keeps it: an allowance is one attempt in advance.
LEMMA GrantStep ==
    ASSUME Inv, NEW c \in Clients, GrantReconnectAllowance(c)
    PROVE  StepOK
<1>0. gate \in Gates /\ now \in Nat /\ gate = "account"
  BY RateLimitsAssumption DEF Inv, GrantReconnectAllowance
<1>1. CASE c \in DOMAIN bucket
  <2>1. EntryOK(bucket[c], gate, now)
    BY <1>1 DEF Inv
  <2>2. EntryOK(Granted(bucket[c]), gate, now) /\ Granted(bucket[c]).allowance
    BY <1>0, <2>1, AllowanceOK
  <2>3. bucket' = [bucket EXCEPT ![c] = Granted(bucket[c])]
    BY <1>1 DEF GrantReconnectAllowance
  <2> QED BY <1>0, <1>1, <2>2, <2>3, KnownStep
<1>2. CASE c \notin DOMAIN bucket
  <2>1. EntryOK(NewEntry, gate, now)
    BY <1>0, NewEntryOK
  <2>2. EntryOK(Granted(NewEntry), gate, now)
    BY <1>0, <2>1, AllowanceOK
  <2>3. Insert(c, Granted(NewEntry))
    BY <1>2 DEF GrantReconnectAllowance
  <2> QED BY <1>0, <1>2, <2>2, <2>3, NewcomerStep
<1> QED BY <1>1, <1>2

\* Every step is one of these, or time passing.
LEMMA NextStep ==
    ASSUME Inv, [Next]_vars
    PROVE  \/ StepOK /\ UNCHANGED <<gate, now>>
           \/ Tick
           \/ UNCHANGED vars
<1>1. ASSUME NEW c \in Clients,
             AllowPreAuthIP(c) \/ AllowUnknownKeyAttempt(c)
      PROVE  StepOK /\ UNCHANGED <<gate, now>>
  BY <1>1, AllowStringStep DEF AllowPreAuthIP, AllowUnknownKeyAttempt
<1>2. ASSUME NEW c \in Clients, AllowRenewalAttempt(c)
      PROVE  StepOK /\ UNCHANGED <<gate, now>>
  BY <1>2, RenewalStep DEF AllowRenewalAttempt
<1>3. ASSUME NEW c \in Clients, GrantReconnectAllowance(c)
      PROVE  StepOK /\ UNCHANGED <<gate, now>>
  BY <1>3, GrantStep DEF GrantReconnectAllowance
<1> QED BY <1>1, <1>2, <1>3 DEF Next

\* Empty tables satisfy the invariant.
LEMMA InitInv == Init => Inv
<1> SUFFICES ASSUME Init PROVE Inv
  OBVIOUS
<1>1. DOMAIN bucket = {} /\ gate \in Gates /\ now \in 0 .. MaxTime
  BY RateLimitsAssumption DEF Init
<1>2. Cardinality(DOMAIN bucket) <= HardLimit
  BY <1>1, FS_EmptySet, LimitPositive
<1> QED BY <1>1, <1>2 DEF Inv, NoneButAccounts, SizeBounded

\* Every step keeps it.
LEMMA NextInv == Inv /\ [Next]_vars => Inv'
<1> SUFFICES ASSUME Inv, [Next]_vars PROVE Inv'
  OBVIOUS
<1>1. CASE StepOK /\ UNCHANGED <<gate, now>>
  BY <1>1 DEF StepOK, Inv, NoneButAccounts, SizeBounded, HardLimit
<1>2. CASE Tick
  <2>1. gate' = gate /\ bucket' = bucket /\ now' = now + 1 /\ now \in Nat
        /\ now' \in 0 .. MaxTime
    BY <1>2, RateLimitsAssumption DEF Tick, Inv
  <2>2. \A c \in DOMAIN bucket : EntryOK(bucket[c], gate, now + 1)
    BY <2>1, LaterOK DEF Inv
  <2> QED BY <2>1, <2>2 DEF Inv, NoneButAccounts, SizeBounded, HardLimit
<1>3. CASE UNCHANGED vars
  BY <1>3 DEF vars, Inv, NoneButAccounts, SizeBounded, HardLimit
<1> QED BY <1>1, <1>2, <1>3, NextStep

\* The accounting of internal/limits/rate.go balances in every reachable
\* state, for each of the three tables.
THEOREM Invariance == Spec => []Inv
<1> QED BY InitInv, NextInv, PTL DEF Spec

-----------------------------------------------------------------------------
(* The theorems *)

\* Entries keep their type and no bucket ever holds more than its maximum.
THEOREM TypeCorrect == Spec => []TypeOK
<1>1. Inv => TypeOK
  BY DEF Inv, TypeOK, EntryOK
<1> QED BY <1>1, Invariance, PTL

\* However many clients come, a table stays within its limit (evict and the
\* refusal to insert into a table of allowances).
THEOREM TablesAreBounded == Spec => []SizeBounded
<1>1. Inv => SizeBounded
  BY DEF Inv
<1> QED BY <1>1, Invariance, PTL

\* The limit itself, for every client, rate and limit: a full bucket, what
\* the time is good for, and one for each allowance.
THEOREM RateIsLimited == Spec => []RateHolds
<1>1. Inv => RateHolds
  <2> SUFFICES ASSUME Inv, NEW c \in DOMAIN bucket
               PROVE  bucket[c].passed <= MaxTokens[gate] + (now - bucket[c].born) \div RefillRate
    BY DEF RateHolds
  <2> DEFINE e == bucket[c]
  <2>1. EntryOK(e, gate, now) /\ now \in Nat /\ gate \in Gates
    BY RateLimitsAssumption DEF Inv
  <2> HIDE DEF e
  <2>2. e.tokens \in Nat /\ e.passed \in Int /\ e.born \in Nat /\ e.lastRefill \in Nat
        /\ e.allowance \in BOOLEAN
    BY <2>1 DEF EntryOK, Entry
  <2>3. Spent(e) \in Int /\ e.passed <= Spent(e)
    BY <2>2 DEF Spent
  <2>4. e.lastRefill - e.born \in Nat /\ now - e.lastRefill \in Nat
        /\ (e.lastRefill - e.born) + (now - e.lastRefill) = now - e.born
        /\ now - e.born \in Nat
    BY <2>1, <2>2 DEF EntryOK
  <2>5. Earned(e.lastRefill - e.born) + Earned(now - e.lastRefill) <= Earned(now - e.born)
    BY <2>4, EarnedAdds
  <2>6. Earned(e.lastRefill - e.born) \in Nat /\ Earned(now - e.lastRefill) \in Nat
        /\ Earned(now - e.born) \in Nat
    BY <2>4, EarnedBounds
  <2>7. Spent(e) + e.tokens <= MaxTokens[gate] + Earned(e.lastRefill - e.born)
    BY <2>1 DEF EntryOK
  <2>8. e.passed <= MaxTokens[gate] + Earned(now - e.born)
    BY <2>1, <2>2, <2>3, <2>5, <2>6, <2>7, LimitType
  <2> QED BY <2>8 DEF Earned, e
<1> QED BY <1>1, Invariance, PTL

\* An allowance outlives every eviction and is used by exactly one attempt
\* (GrantReconnectAllowance, AllowRenewalAttempt, evict).
THEOREM AllowancesAreKept == Spec => AllowanceKept
<1> DEFINE Kept == \A c \in DOMAIN bucket :
          bucket[c].allowance =>
              /\ c \in DOMAIN bucket'
              /\ bucket'[c].allowance \/ bucket'[c].passed = bucket[c].passed + 1
<1>1. Inv /\ [Next]_vars => [Kept]_vars
  BY NextStep DEF StepOK, Tick, vars
<1> QED BY <1>1, Invariance, PTL DEF Spec, AllowanceKept

\* The limit of a client that keeps coming is never reset before that of one
\* seen less recently (evict).
THEOREM TheOldestGoesFirst == Spec => OldestGoesFirst
<1> DEFINE Order == \A x \in DOMAIN bucket \ DOMAIN bucket',
          y \in DOMAIN bucket \cap DOMAIN bucket' :
              bucket[y].allowance \/ bucket[x].lastSeen <= bucket[y].lastSeen
<1>1. Inv /\ [Next]_vars => [Order]_vars
  BY NextStep DEF StepOK, Tick, vars
<1> QED BY <1>1, Invariance, PTL DEF Spec, OldestGoesFirst

=============================================================================
