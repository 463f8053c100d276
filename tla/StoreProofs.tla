---------------------------- MODULE StoreProofs ----------------------------
(***************************************************************************)
(* What holds of the state store for every number of accounts, keys, users *)
(* tokens and sessions when ONE process has the directory open.            *)
(*                                                                         *)
(* Three inductive invariants.  StructInv relates the three kinds of files *)
(* and the writes still pending; it survives crashes and failing file      *)
(* operations.  CredInv adds what ties a generation to a token; it needs   *)
(* that no file operation fails while sessions live on, because a cascade  *)
(* that stops before the account record lets generations start again.      *)
(* WriteInv adds that a pending write is exactly the change its operation  *)
(* is for, which makes every write a step of Directory.                    *)
(***************************************************************************)
EXTENDS Store, TLAPS

\* One process has the state directory open.
Single == \A p, q \in Procs : p = q

KeysOf(a) == {k \in Keys : keys[k].exists /\ keys[k].acct = a}

\* A user id is free for account a: no other account is bound to it.
FreeFor(u, a) ==
    u # None => \A b \in Accounts \ {a} : ~(accounts[b].exists /\ accounts[b].user = u)

\* Every file that depends on an account has its account.
Linked ==
    /\ \A k \in Keys : keys[k].exists =>
          keys[k].acct \in Accounts /\ accounts[keys[k].acct].exists
    /\ \A a \in Accounts : creds[a].exists => accounts[a].exists
    /\ \A a \in Accounts : ~creds[a].exists => creds[a] = NoCredential
    /\ \A a \in Accounts : accounts[a].exists => a \in used /\ a \notin deleted
    /\ deleted \subseteq used
    /\ \A a \in wiped : KeysOf(a) = {}

\* What the checks of a mutation established still holds when it writes: the
\* mutation is about to do `step' with the locals l, and `ids' are in use.
PendingAccount(step, l, ids) == step = "acct" =>
    /\ l.acct \in Accounts
    /\ l.arec.exists
    /\ l.acct \in ids /\ l.acct \notin deleted
    /\ accounts[l.acct].exists => l.arec.user = accounts[l.acct].user
    /\ FreeFor(l.arec.user, l.acct)

PendingBind(step, l) == step = "bind" =>
    /\ l.acct \in Accounts
    /\ accounts[l.acct].exists
    /\ l.arec.exists
    /\ l.crec.exists
    /\ l.crec.token \in Tokens
    /\ l.arec.user = Owner[l.crec.token]
    /\ accounts[l.acct].user # None => accounts[l.acct].user = l.arec.user
    /\ FreeFor(l.arec.user, l.acct)

PendingCredential(step, l) == step = "cred" =>
    /\ l.acct \in Accounts
    /\ accounts[l.acct].exists
    /\ l.crec.exists
    /\ l.crec.token # None => accounts[l.acct].user = Owner[l.crec.token]

PendingKey(step, l) ==
    /\ step = "key" =>
          /\ l.key \in Keys
          /\ l.krec.exists
          /\ l.krec.acct \in Accounts
          /\ accounts[l.krec.acct].exists
          /\ keys[l.key].exists => keys[l.key].acct = l.krec.acct
    /\ step = "unlinkKey" => l.key \in Keys

PendingWipe(step, l) ==
    /\ step = "wipeKeys" =>
          /\ l.acct \in Accounts
          /\ accounts[l.acct].exists
          /\ KeysOf(l.acct) \subseteq l.todo
    /\ step = "wipeAcct" =>
          /\ l.acct \in Accounts
          /\ accounts[l.acct].exists
          /\ ~creds[l.acct].exists
          /\ KeysOf(l.acct) = {}

Pending(step, l, ids) ==
    /\ PendingAccount(step, l, ids)
    /\ PendingBind(step, l)
    /\ PendingCredential(step, l)
    /\ PendingKey(step, l)
    /\ PendingWipe(step, l)

StructInv ==
    /\ Linked
    /\ UniqueBinding
    /\ CredentialMatchesBinding
    /\ \A p \in Procs : Pending(pc[p], reg[p], used)

-----------------------------------------------------------------------------
(* Type correctness *)

\* The records and locals that stand for nothing have their types.
LEMMA NoneTypes ==
    /\ NoAccount \in AccountRecord
    /\ NoKey \in KeyRecord
    /\ NoCredential \in CredentialRecord
    /\ NoSnapshot \in Snapshot
    /\ NoLocals \in Locals
  BY DEF NoAccount, NoKey, NoCredential, NoSnapshot, NoLocals, Locals, Snapshot,
         AccountRecord, KeyRecord, CredentialRecord, CredentialState

\* Begin keeps the types if the locals and the set of used ids have theirs.
LEMMA BeginType ==
    ASSUME TypeOK, NEW p \in Procs, NEW step \in Step, NEW l \in Locals,
           step \in {"wipeKeys", "wipeAcct"} => l.acct \in Accounts,
           Begin(p, step, l), used' \subseteq Accounts
    PROVE  TypeOK'
  BY DEF TypeOK, Begin, files

\* Return keeps the types of the two variables it changes.
LEMMA ReturnType ==
    ASSUME TypeOK, NEW p \in Procs, Return(p)
    PROVE  /\ pc' \in [Procs -> Step]
           /\ reg' \in [Procs -> Locals]
           /\ \A q \in Procs : pc'[q] \in {"wipeKeys", "wipeAcct"} => reg'[q].acct \in Accounts
  BY NoneTypes DEF TypeOK, Return, Step

\* The account and key operations keep the types.
LEMMA AccountOpsType ==
    ASSUME TypeOK, NEW p \in Procs, AccountOps(p)
    PROVE  TypeOK'
<1> USE NoneTypes
<1>1. ASSUME NEW a \in Accounts, NEW u \in Users \cup {None}, AddAccount(p, a, u)
      PROVE  TypeOK'
  <2> DEFINE l == [NoLocals EXCEPT !.acct = a,
                     !.arec = [exists |-> TRUE, user |-> u, bind |-> u = None,
                               enabled |-> TRUE]]
  <2>1. l \in Locals
    BY DEF Locals, AccountRecord
  <2>2. Begin(p, "acct", l) /\ used' \subseteq Accounts
    BY <1>1 DEF AddAccount, TypeOK
  <2> QED
    BY <2>1, <2>2, BeginType DEF Step
<1>2. ASSUME NEW a \in Accounts, NEW u \in Users, RefreshUsername(p, a, u)
      PROVE  TypeOK'
  <2> DEFINE l == [NoLocals EXCEPT !.acct = a, !.arec = accounts[a]]
  <2>1. l \in Locals
    BY DEF Locals, TypeOK
  <2>2. Begin(p, "acct", l) /\ used' \subseteq Accounts
    BY <1>2 DEF RefreshUsername, TypeOK
  <2> QED
    BY <2>1, <2>2, BeginType DEF Step
<1>3. ASSUME NEW a \in Accounts, NEW u \in Users, CreateAccount(p, a, u)
      PROVE  TypeOK'
  <2> DEFINE l == [NoLocals EXCEPT !.acct = a,
                     !.arec = [exists |-> TRUE, user |-> u, bind |-> FALSE,
                               enabled |-> TRUE]]
  <2>1. l \in Locals
    BY DEF Locals, AccountRecord
  <2>2. Begin(p, "acct", l) /\ used' \subseteq Accounts
    BY <1>3 DEF CreateAccount, TypeOK
  <2> QED
    BY <2>1, <2>2, BeginType DEF Step
<1>4. ASSUME NEW a \in Accounts, NEW e \in BOOLEAN, SetAccountEnabled(p, a, e)
      PROVE  TypeOK'
  <2> DEFINE l == [NoLocals EXCEPT !.acct = a,
                     !.arec = [accounts[a] EXCEPT !.enabled = e]]
  <2>1. l \in Locals
    BY DEF Locals, AccountRecord, TypeOK
  <2>2. Begin(p, "acct", l) /\ used' \subseteq Accounts
    BY <1>4 DEF SetAccountEnabled, TypeOK
  <2> QED
    BY <2>1, <2>2, BeginType DEF Step
<1>5. ASSUME NEW a \in Accounts, DeleteAccount(p, a)
      PROVE  TypeOK'
  <2> DEFINE l == [NoLocals EXCEPT !.acct = a, !.todo = KeyEntries]
  <2>1. l \in Locals /\ l.acct \in Accounts
    BY DEF Locals, KeyEntries
  <2>2. Begin(p, "wipeKeys", l) /\ used' \subseteq Accounts
    BY <1>5 DEF DeleteAccount, TypeOK
  <2> QED
    BY <2>1, <2>2, BeginType DEF Step
<1>6. ASSUME NEW a \in Accounts, NEW k \in Keys, AddKey(p, a, k)
      PROVE  TypeOK'
  <2> DEFINE l == [NoLocals EXCEPT !.key = k,
                     !.krec = [exists |-> TRUE, acct |-> a, enabled |-> TRUE]]
  <2>1. l \in Locals
    BY DEF Locals, KeyRecord
  <2>2. Begin(p, "key", l) /\ used' \subseteq Accounts
    BY <1>6 DEF AddKey, TypeOK
  <2> QED
    BY <2>1, <2>2, BeginType DEF Step
<1>7. ASSUME NEW a \in Accounts, NEW k \in Keys, DeleteKey(p, a, k)
      PROVE  TypeOK'
  <2> DEFINE l == [NoLocals EXCEPT !.key = k]
  <2>1. l \in Locals
    BY DEF Locals
  <2>2. Begin(p, "unlinkKey", l) /\ used' \subseteq Accounts
    BY <1>7 DEF DeleteKey, TypeOK
  <2> QED
    BY <2>1, <2>2, BeginType DEF Step
<1>8. ASSUME NEW k \in Keys, NEW e \in BOOLEAN, SetKeyEnabled(p, k, e)
      PROVE  TypeOK'
  <2> DEFINE l == [NoLocals EXCEPT !.key = k,
                     !.krec = [keys[k] EXCEPT !.enabled = e]]
  <2>1. l \in Locals
    BY DEF Locals, KeyRecord, TypeOK
  <2>2. Begin(p, "key", l) /\ used' \subseteq Accounts
    BY <1>8 DEF SetKeyEnabled, TypeOK
  <2> QED
    BY <2>1, <2>2, BeginType DEF Step
<1> QED
  BY <1>1, <1>2, <1>3, <1>4, <1>5, <1>6, <1>7, <1>8 DEF AccountOps

\* The credential operations keep the types.
LEMMA SessionOpsType ==
    ASSUME TypeOK, NEW s \in Sessions, SessionOps(s)
    PROVE  TypeOK'
<1> USE NoneTypes, StoreAssumption
<1> Home[s] \in Procs
  OBVIOUS
<1>1. ASSUME NEW a \in Accounts, LoadCredential(s, a)
      PROVE  TypeOK'
  BY <1>1 DEF LoadCredential, TypeOK, Snapshot, CredentialRecord, files
<1>2. ASSUME NEW t \in Tokens, ReplaceCredential(s, t)
      PROVE  TypeOK'
  <2> DEFINE a == snap[s].acct
             l == [NoLocals EXCEPT !.acct = a,
                     !.arec = [accounts[a] EXCEPT !.user = Owner[t]],
                     !.crec = [exists |-> TRUE, gen |-> NextGeneration(creds[a]),
                               state |-> "valid", token |-> t]]
  <2>1. a \in Accounts
    BY <1>2 DEF ReplaceCredential, TypeOK, Snapshot
  <2>a. NextGeneration(creds[a]) \in Nat
    BY <2>1 DEF NextGeneration, TypeOK, CredentialRecord
  <2>2. l \in Locals
    BY <2>1, <2>a DEF Locals, TypeOK, AccountRecord, CredentialRecord, CredentialState
  <2>3. Begin(Home[s], "bind", l) /\ used' \subseteq Accounts
    BY <1>2 DEF ReplaceCredential, TypeOK
  <2> QED
    BY <2>2, <2>3, BeginType DEF Step
<1>3. ASSUME MarkCredentialInvalid(s)
      PROVE  TypeOK'
  <2> DEFINE a == snap[s].acct
             l == [NoLocals EXCEPT !.acct = a,
                     !.crec = [creds[a] EXCEPT !.state = "invalid"]]
  <2>1. a \in Accounts
    BY <1>3 DEF MarkCredentialInvalid, TypeOK, Snapshot
  <2>2. l \in Locals
    BY <2>1 DEF Locals, TypeOK, CredentialRecord, CredentialState
  <2>3. Begin(Home[s], "cred", l) /\ used' \subseteq Accounts
    BY <1>3 DEF MarkCredentialInvalid, TypeOK
  <2> QED
    BY <2>2, <2>3, BeginType DEF Step
<1>4. ASSUME ClearCredential(s)
      PROVE  TypeOK'
  <2> DEFINE a == snap[s].acct
             l == [NoLocals EXCEPT !.acct = a,
                     !.crec = [exists |-> TRUE, gen |-> NextGeneration(creds[a]),
                               state |-> "missing", token |-> None]]
  <2>1. a \in Accounts
    BY <1>4 DEF ClearCredential, TypeOK, Snapshot
  <2>a. NextGeneration(creds[a]) \in Nat
    BY <2>1 DEF NextGeneration, TypeOK, CredentialRecord
  <2>2. l \in Locals
    BY <2>1, <2>a DEF Locals, TypeOK, CredentialRecord, CredentialState
  <2>3. Begin(Home[s], "cred", l) /\ used' \subseteq Accounts
    BY <1>4 DEF ClearCredential, TypeOK
  <2> QED
    BY <2>2, <2>3, BeginType DEF Step
<1> QED
  BY <1>1, <1>2, <1>3, <1>4 DEF SessionOps

\* Every rename and unlink keeps the types.
LEMMA FileOpsType ==
    ASSUME TypeOK, NEW p \in Procs, FileOps(p)
    PROVE  TypeOK'
<1> USE NoneTypes, ReturnType
<1>0. /\ reg[p] \in Locals
      /\ reg[p].acct \in Accounts \cup {None}
      /\ reg[p].arec \in AccountRecord
      /\ reg[p].krec \in KeyRecord
      /\ reg[p].crec \in CredentialRecord
      /\ reg[p].todo \subseteq Keys
  BY DEF TypeOK, Locals
<1>1. CASE RenameAccount(p)
  <2>1. accounts' \in [Accounts -> AccountRecord]
    BY <1>0, <1>1 DEF RenameAccount, TypeOK
  <2>2. CASE pc[p] = "bind"
    BY <1>1, <2>1, <2>2 DEF RenameAccount, TypeOK, Step
  <2>3. CASE pc[p] # "bind"
    BY <1>1, <2>1, <2>3 DEF RenameAccount, TypeOK
  <2> QED
    BY <2>2, <2>3
<1>2. CASE RenameKey(p)
  BY <1>0, <1>2 DEF RenameKey, TypeOK
<1>3. CASE RenameCredential(p)
  BY <1>0, <1>3 DEF RenameCredential, TypeOK
<1>4. CASE UnlinkKey(p)
  BY <1>0, <1>4 DEF UnlinkKey, TypeOK
<1>5. ASSUME NEW k \in Keys, WipeKey(p, k)
      PROVE  TypeOK'
  <2>1. keys' \in [Keys -> KeyRecord]
    BY <1>5 DEF WipeKey, TypeOK
  <2>2. [reg[p] EXCEPT !.todo = @ \ {k}] \in Locals
    BY <1>0 DEF Locals
  <2>3. CASE keys[k].exists
    <3>1. reg' = [reg EXCEPT ![p].todo = @ \ {k}] /\ UNCHANGED pc
      BY <1>5, <2>3 DEF WipeKey
    <3>2. reg' \in [Procs -> Locals]
      BY <3>1, <2>2 DEF TypeOK
    <3>3. \A q \in Procs : reg'[q].acct = reg[q].acct
      BY <3>1 DEF TypeOK, Locals
    <3> QED
      BY <1>5, <2>1, <3>1, <3>2, <3>3 DEF WipeKey, TypeOK
  <2>4. CASE ~keys[k].exists
    BY <1>5, <2>1, <2>4 DEF WipeKey, TypeOK
  <2> QED
    BY <2>3, <2>4
<1>6. CASE WipeCredential(p)
  <2>1. /\ pc' \in [Procs -> Step]
        /\ creds' \in [Accounts -> CredentialRecord]
        /\ \A q \in Procs : pc'[q] \in {"wipeKeys", "wipeAcct"} => reg[q].acct \in Accounts
    BY <1>6 DEF WipeCredential, TypeOK, Step
  <2>2. wiped' \subseteq Accounts
    BY <1>0, <1>6 DEF WipeCredential, TypeOK
  <2> QED
    BY <1>6, <2>1, <2>2 DEF WipeCredential, TypeOK
<1>7. CASE WipeAccount(p)
  BY <1>0, <1>7 DEF WipeAccount, TypeOK
<1> QED
  BY <1>1, <1>2, <1>3, <1>4, <1>5, <1>6, <1>7 DEF FileOps

\* Crashes, file errors and revocations keep the types.
LEMMA EnvironmentType ==
    ASSUME TypeOK,
           \/ \E p \in Procs : Crash(p) \/ FileError(p)
           \/ \E t \in Tokens : Revoke(t)
    PROVE  TypeOK'
  BY NoneTypes, ReturnType DEF Crash, FileError, Revoke, TypeOK, files

\* An empty state directory has its type.
LEMMA InitType == Init => TypeOK
  BY NoneTypes DEF Init, TypeOK, Step

\* Every step keeps the types.
LEMMA NextType == TypeOK /\ [Next]_vars => TypeOK'
<1> SUFFICES ASSUME TypeOK, [Next]_vars PROVE TypeOK'
  OBVIOUS
<1>1. CASE UNCHANGED vars
  BY <1>1 DEF vars, TypeOK
<1> QED
  BY <1>1, AccountOpsType, SessionOpsType, FileOpsType, EnvironmentType DEF Next

\* Every file, register and snapshot of the store has its type in every
\* reachable state, for any number of processes and under any faults: no
\* operation of internal/store writes anything but a whole record.
THEOREM TypeCorrect == Spec => []TypeOK
  BY InitType, NextType, PTL DEF Spec

-----------------------------------------------------------------------------
(* The files belong together *)

\* A mutation that has read and checked leaves the files alone: StructInv is
\* kept if what it is about to write fits.
LEMMA BeginStruct ==
    ASSUME TypeOK, StructInv, Single, NEW p \in Procs, NEW step, NEW l,
           Begin(p, step, l), used \subseteq used', Pending(step, l, used')
    PROVE  StructInv'
<1> USE DEF Begin, files, TypeOK
<1>1. Linked'
  BY DEF StructInv, Linked, KeysOf
<1>2. UniqueBinding' /\ CredentialMatchesBinding'
  BY DEF StructInv, UniqueBinding, CredentialMatchesBinding
<1>3. ASSUME NEW q \in Procs
      PROVE  Pending(pc[q], reg[q], used)'
  <2>1. pc'[q] = step /\ reg'[q] = l
    BY DEF Single
  <2> QED
    BY <2>1 DEF Pending, PendingAccount, PendingBind, PendingCredential, PendingKey,
                PendingWipe, FreeFor, KeysOf
<1> QED
  BY <1>1, <1>2, <1>3 DEF StructInv

\* An account or key operation that passed its checks keeps the structure.
LEMMA AccountOpsStruct ==
    ASSUME TypeOK, StructInv, Single, NEW p \in Procs, AccountOps(p)
    PROVE  StructInv'
<1> USE DEF Pending, PendingAccount, PendingBind, PendingCredential, PendingKey,
            PendingWipe
<1>1. ASSUME NEW a \in Accounts, NEW u \in Users \cup {None}, AddAccount(p, a, u)
      PROVE  StructInv'
  <2> DEFINE l == [NoLocals EXCEPT !.acct = a,
                     !.arec = [exists |-> TRUE, user |-> u, bind |-> u = None,
                               enabled |-> TRUE]]
  <2>1. l.acct = a /\ l.arec.exists /\ l.arec.user = u
    BY DEF NoLocals
  <2>2. a \notin deleted
    BY <1>1 DEF AddAccount, StructInv, Linked
  <2>3. FreeFor(u, a)
    BY <1>1, StoreAssumption DEF AddAccount, FreeFor, BoundElsewhere
  <2>4. Begin(p, "acct", l) /\ used' = used \cup {a} /\ ~accounts[a].exists
    BY <1>1 DEF AddAccount
  <2> HIDE DEF l
  <2>5. Pending("acct", l, used')
    BY <2>1, <2>2, <2>3, <2>4
  <2> QED
    BY <2>4, <2>5, BeginStruct
<1>2. ASSUME NEW a \in Accounts, NEW u \in Users, RefreshUsername(p, a, u)
      PROVE  StructInv'
  <2> DEFINE l == [NoLocals EXCEPT !.acct = a, !.arec = accounts[a]]
  <2>1. l.acct = a /\ l.arec = accounts[a]
    BY DEF NoLocals
  <2>2. Begin(p, "acct", l) /\ used' = used /\ accounts[a].exists
    BY <1>2 DEF RefreshUsername
  <2>3. FreeFor(accounts[a].user, a) /\ a \in used /\ a \notin deleted
    BY <2>2 DEF FreeFor, StructInv, UniqueBinding, Linked
  <2> HIDE DEF l
  <2>4. Pending("acct", l, used')
    BY <2>1, <2>2, <2>3
  <2> QED
    BY <2>2, <2>4, BeginStruct
<1>3. ASSUME NEW a \in Accounts, NEW u \in Users, CreateAccount(p, a, u)
      PROVE  StructInv'
  <2> DEFINE l == [NoLocals EXCEPT !.acct = a,
                     !.arec = [exists |-> TRUE, user |-> u, bind |-> FALSE,
                               enabled |-> TRUE]]
  <2>1. l.acct = a /\ l.arec.exists /\ l.arec.user = u
    BY DEF NoLocals
  <2>2. a \notin deleted /\ ~accounts[a].exists
    BY <1>3 DEF CreateAccount, StructInv, Linked
  <2>3. FreeFor(u, a)
    BY <1>3, StoreAssumption DEF CreateAccount, FreeFor, BoundElsewhere
  <2>4. Begin(p, "acct", l) /\ used' = used \cup {a}
    BY <1>3 DEF CreateAccount
  <2> HIDE DEF l
  <2>5. Pending("acct", l, used')
    BY <2>1, <2>2, <2>3, <2>4
  <2> QED
    BY <2>4, <2>5, BeginStruct
<1>4. ASSUME NEW a \in Accounts, NEW e \in BOOLEAN, SetAccountEnabled(p, a, e)
      PROVE  StructInv'
  <2> DEFINE l == [NoLocals EXCEPT !.acct = a,
                     !.arec = [accounts[a] EXCEPT !.enabled = e]]
  <2>1. l.acct = a /\ l.arec.exists = accounts[a].exists /\ l.arec.user = accounts[a].user
    BY DEF NoLocals, TypeOK, AccountRecord
  <2>2. Begin(p, "acct", l) /\ used' = used /\ accounts[a].exists
    BY <1>4 DEF SetAccountEnabled
  <2>3. FreeFor(accounts[a].user, a) /\ a \in used /\ a \notin deleted
    BY <2>2 DEF FreeFor, StructInv, UniqueBinding, Linked
  <2> HIDE DEF l
  <2>4. Pending("acct", l, used')
    BY <2>1, <2>2, <2>3
  <2> QED
    BY <2>2, <2>4, BeginStruct
<1>5. ASSUME NEW a \in Accounts, DeleteAccount(p, a)
      PROVE  StructInv'
  <2> DEFINE l == [NoLocals EXCEPT !.acct = a, !.todo = KeyEntries]
  <2>1. l.acct = a /\ l.todo = KeyEntries
    BY DEF NoLocals
  <2>2. Begin(p, "wipeKeys", l) /\ used' = used /\ accounts[a].exists
    BY <1>5 DEF DeleteAccount
  <2>3. KeysOf(a) \subseteq KeyEntries
    BY DEF KeysOf, KeyEntries
  <2> HIDE DEF l
  <2>4. Pending("wipeKeys", l, used')
    BY <2>1, <2>2, <2>3
  <2> QED
    BY <2>2, <2>4, BeginStruct
<1>6. ASSUME NEW a \in Accounts, NEW k \in Keys, AddKey(p, a, k)
      PROVE  StructInv'
  <2> DEFINE l == [NoLocals EXCEPT !.key = k,
                     !.krec = [exists |-> TRUE, acct |-> a, enabled |-> TRUE]]
  <2>1. l.key = k /\ l.krec.exists /\ l.krec.acct = a
    BY DEF NoLocals
  <2>2. /\ Begin(p, "key", l) /\ used' = used
        /\ accounts[a].exists /\ ~keys[k].exists
    BY <1>6 DEF AddKey, DigestFree
  <2> HIDE DEF l
  <2>3. Pending("key", l, used')
    BY <2>1, <2>2
  <2> QED
    BY <2>2, <2>3, BeginStruct
<1>7. ASSUME NEW a \in Accounts, NEW k \in Keys, DeleteKey(p, a, k)
      PROVE  StructInv'
  <2> DEFINE l == [NoLocals EXCEPT !.key = k]
  <2>1. l.key = k
    BY DEF NoLocals
  <2>2. Begin(p, "unlinkKey", l) /\ used' = used
    BY <1>7 DEF DeleteKey
  <2> HIDE DEF l
  <2>3. Pending("unlinkKey", l, used')
    BY <2>1
  <2> QED
    BY <2>2, <2>3, BeginStruct
<1>8. ASSUME NEW k \in Keys, NEW e \in BOOLEAN, SetKeyEnabled(p, k, e)
      PROVE  StructInv'
  <2> DEFINE l == [NoLocals EXCEPT !.key = k,
                     !.krec = [keys[k] EXCEPT !.enabled = e]]
  <2>1. l.key = k /\ l.krec.exists = keys[k].exists /\ l.krec.acct = keys[k].acct
    BY DEF NoLocals, TypeOK, KeyRecord
  <2>2. Begin(p, "key", l) /\ used' = used /\ keys[k].exists
    BY <1>8 DEF SetKeyEnabled
  <2>3. keys[k].acct \in Accounts /\ accounts[keys[k].acct].exists
    BY <2>2 DEF StructInv, Linked
  <2> HIDE DEF l
  <2>4. Pending("key", l, used')
    BY <2>1, <2>2, <2>3
  <2> QED
    BY <2>2, <2>4, BeginStruct
<1> QED
  BY <1>1, <1>2, <1>3, <1>4, <1>5, <1>6, <1>7, <1>8 DEF AccountOps

\* A credential operation that passed its checks keeps the structure.
LEMMA SessionOpsStruct ==
    ASSUME TypeOK, StructInv, Single, NEW s \in Sessions, SessionOps(s)
    PROVE  StructInv'
<1> USE StoreAssumption DEF Pending, PendingAccount, PendingBind, PendingCredential,
                            PendingKey, PendingWipe
<1> Home[s] \in Procs
  OBVIOUS
<1>1. ASSUME NEW a \in Accounts, LoadCredential(s, a)
      PROVE  StructInv'
  BY <1>1 DEF LoadCredential, files, StructInv, Linked, KeysOf, FreeFor, UniqueBinding,
              CredentialMatchesBinding
<1>2. ASSUME NEW t \in Tokens, ReplaceCredential(s, t)
      PROVE  StructInv'
  <2> DEFINE a == snap[s].acct
             l == [NoLocals EXCEPT !.acct = a,
                     !.arec = [accounts[a] EXCEPT !.user = Owner[t]],
                     !.crec = [exists |-> TRUE, gen |-> NextGeneration(creds[a]),
                               state |-> "valid", token |-> t]]
  <2>1. a \in Accounts /\ accounts[a].exists
    BY <1>2 DEF ReplaceCredential, TypeOK, Snapshot
  <2>2. /\ l.acct = a /\ l.arec.exists = accounts[a].exists /\ l.arec.user = Owner[t]
        /\ l.crec.exists /\ l.crec.token = t
    BY <2>1 DEF NoLocals, TypeOK, AccountRecord
  <2>3. Begin(Home[s], "bind", l) /\ used' = used
    BY <1>2 DEF ReplaceCredential
  <2>4. accounts[a].user # None => accounts[a].user = Owner[t]
    BY <1>2 DEF ReplaceCredential, IdentityAllowed
  <2>5. FreeFor(Owner[t], a)
    BY <1>2 DEF ReplaceCredential, FreeFor, BoundElsewhere
  <2> HIDE DEF a, l
  <2>6. Pending("bind", l, used')
    BY <2>1, <2>2, <2>4, <2>5
  <2> QED
    BY <2>3, <2>6, BeginStruct
<1>3. ASSUME MarkCredentialInvalid(s)
      PROVE  StructInv'
  <2> DEFINE a == snap[s].acct
             l == [NoLocals EXCEPT !.acct = a,
                     !.crec = [creds[a] EXCEPT !.state = "invalid"]]
  <2>1. a \in Accounts /\ creds[a].exists
    BY <1>3 DEF MarkCredentialInvalid, TypeOK, Snapshot
  <2>2. l.acct = a /\ l.crec.exists = creds[a].exists /\ l.crec.token = creds[a].token
    BY <2>1 DEF NoLocals, TypeOK, CredentialRecord
  <2>3. Begin(Home[s], "cred", l) /\ used' = used
    BY <1>3 DEF MarkCredentialInvalid
  <2>4. /\ accounts[a].exists
        /\ creds[a].token # None => accounts[a].user = Owner[creds[a].token]
    BY <2>1 DEF StructInv, Linked, CredentialMatchesBinding
  <2> HIDE DEF a, l
  <2>5. Pending("cred", l, used')
    BY <2>1, <2>2, <2>4
  <2> QED
    BY <2>3, <2>5, BeginStruct
<1>4. ASSUME ClearCredential(s)
      PROVE  StructInv'
  <2> DEFINE a == snap[s].acct
             l == [NoLocals EXCEPT !.acct = a,
                     !.crec = [exists |-> TRUE, gen |-> NextGeneration(creds[a]),
                               state |-> "missing", token |-> None]]
  <2>1. a \in Accounts /\ accounts[a].exists
    BY <1>4 DEF ClearCredential, TypeOK, Snapshot
  <2>2. l.acct = a /\ l.crec.exists /\ l.crec.token = None
    BY DEF NoLocals
  <2>3. Begin(Home[s], "cred", l) /\ used' = used
    BY <1>4 DEF ClearCredential
  <2> HIDE DEF a, l
  <2>4. Pending("cred", l, used')
    BY <2>1, <2>2
  <2> QED
    BY <2>3, <2>4, BeginStruct
<1> QED
  BY <1>1, <1>2, <1>3, <1>4 DEF SessionOps

\* When the only process returns, no write is pending.
LEMMA ReturnPending ==
    ASSUME TypeOK, Single, NEW p \in Procs, Return(p)
    PROVE  \A q \in Procs : Pending(pc[q], reg[q], used)'
<1>1. \A q \in Procs : pc'[q] = "idle"
  BY DEF Return, TypeOK, Single
<1> QED
  BY <1>1 DEF Pending, PendingAccount, PendingBind, PendingCredential, PendingKey,
              PendingWipe

\* The rename or unlink a mutation was about to do keeps the structure.
LEMMA FileOpsStruct ==
    ASSUME TypeOK, StructInv, Single, NEW p \in Procs, FileOps(p)
    PROVE  StructInv'
<1> DEFINE a == reg[p].acct
<1>0. Pending(pc[p], reg[p], used) /\ reg[p] \in Locals
  BY DEF StructInv, TypeOK
<1>1. CASE RenameAccount(p) /\ pc[p] = "acct"
  <2>1. PendingAccount("acct", reg[p], used)
    BY <1>0, <1>1 DEF Pending
  <2>2. /\ accounts' = [accounts EXCEPT ![a] = reg[p].arec]
        /\ Return(p) /\ UNCHANGED <<keys, creds, used, deleted, wiped>>
    BY <1>1 DEF RenameAccount
  <2>3. Linked'
    BY <2>1, <2>2 DEF PendingAccount, StructInv, Linked, KeysOf, TypeOK
  <2>4. UniqueBinding'
    BY <2>1, <2>2 DEF PendingAccount, StructInv, UniqueBinding, FreeFor, TypeOK
  <2>5. CredentialMatchesBinding'
    BY <2>1, <2>2 DEF PendingAccount, StructInv, CredentialMatchesBinding, TypeOK
  <2> QED
    BY <2>2, <2>3, <2>4, <2>5, ReturnPending DEF StructInv
<1>2. CASE RenameAccount(p) /\ pc[p] = "bind"
  <2>1. PendingBind("bind", reg[p])
    BY <1>0, <1>2 DEF Pending
  <2>2. /\ accounts' = [accounts EXCEPT ![a] = reg[p].arec]
        /\ pc' = [pc EXCEPT ![p] = "cred"]
        /\ UNCHANGED <<keys, creds, reg, used, deleted, wiped>>
    BY <1>2 DEF RenameAccount
  <2>3. Linked'
    BY <2>1, <2>2 DEF PendingBind, StructInv, Linked, KeysOf, TypeOK
  <2>4. UniqueBinding'
    BY <2>1, <2>2 DEF PendingBind, StructInv, UniqueBinding, FreeFor, TypeOK
  <2>5. CredentialMatchesBinding'
    BY <2>1, <2>2, StoreAssumption
       DEF PendingBind, StructInv, CredentialMatchesBinding, TypeOK, CredentialRecord
  <2>6. ASSUME NEW q \in Procs PROVE Pending(pc[q], reg[q], used)'
    <3>1. q = p /\ pc'[q] = "cred" /\ reg'[q] = reg[p]
      BY <2>2 DEF Single, TypeOK
    <3>2. PendingCredential("cred", reg[p])'
      BY <2>1, <2>2 DEF PendingBind, PendingCredential, TypeOK
    <3> QED
      BY <2>2, <3>1, <3>2 DEF Pending, PendingAccount, PendingBind, PendingCredential,
                         PendingKey, PendingWipe
  <2> QED
    BY <2>3, <2>4, <2>5, <2>6 DEF StructInv
<1>3. CASE RenameKey(p)
  <2>1. PendingKey("key", reg[p])
    BY <1>0, <1>3 DEF Pending, RenameKey
  <2>2. /\ keys' = [keys EXCEPT ![reg[p].key] = reg[p].krec]
        /\ wiped' = wiped \ {reg[p].krec.acct}
        /\ Return(p) /\ UNCHANGED <<accounts, creds, used, deleted>>
    BY <1>3 DEF RenameKey
  <2>3. Linked'
    BY <2>1, <2>2 DEF PendingKey, StructInv, Linked, KeysOf, TypeOK
  <2> QED
    BY <2>2, <2>3, ReturnPending
       DEF StructInv, UniqueBinding, CredentialMatchesBinding
<1>4. CASE RenameCredential(p)
  <2>1. PendingCredential("cred", reg[p])
    BY <1>0, <1>4 DEF Pending, RenameCredential
  <2>2. /\ creds' = [creds EXCEPT ![a] = reg[p].crec]
        /\ Return(p) /\ UNCHANGED <<accounts, keys, used, deleted, wiped>>
    BY <1>4 DEF RenameCredential
  <2>3. Linked'
    BY <2>1, <2>2 DEF PendingCredential, StructInv, Linked, KeysOf, TypeOK
  <2>4. CredentialMatchesBinding'
    BY <2>1, <2>2 DEF PendingCredential, StructInv, CredentialMatchesBinding, TypeOK
  <2> QED
    BY <2>2, <2>3, <2>4, ReturnPending DEF StructInv, UniqueBinding
<1>5. CASE UnlinkKey(p)
  <2>1. PendingKey("unlinkKey", reg[p])
    BY <1>0, <1>5 DEF Pending, UnlinkKey
  <2>2. /\ keys' = [keys EXCEPT ![reg[p].key] = NoKey]
        /\ Return(p) /\ UNCHANGED <<accounts, creds, used, deleted, wiped>>
    BY <1>5 DEF UnlinkKey
  <2>3. Linked'
    BY <2>1, <2>2 DEF PendingKey, StructInv, Linked, KeysOf, TypeOK, NoKey
  <2> QED
    BY <2>2, <2>3, ReturnPending
       DEF StructInv, UniqueBinding, CredentialMatchesBinding
<1>6. ASSUME NEW k \in Keys, WipeKey(p, k)
      PROVE  StructInv'
  <2>1. PendingWipe("wipeKeys", reg[p])
    BY <1>0, <1>6 DEF Pending, WipeKey
  <2>2. UNCHANGED <<accounts, creds, used, deleted, wiped>>
    BY <1>6 DEF WipeKey
  <2>3. \A j \in Keys : keys'[j] = IF j = k /\ keys[k].acct = a THEN NoKey ELSE keys[j]
    BY <1>6 DEF WipeKey, TypeOK
  <2>4. Linked'
    BY <2>2, <2>3 DEF StructInv, Linked, KeysOf, NoKey
  <2>5. CASE keys[k].exists
    <3>1. reg' = [reg EXCEPT ![p].todo = @ \ {k}] /\ UNCHANGED pc
      BY <1>6, <2>5 DEF WipeKey
    <3>2. ASSUME NEW q \in Procs PROVE Pending(pc[q], reg[q], used)'
      <4>1. /\ pc'[q] = "wipeKeys"
            /\ reg'[q].acct = a
            /\ reg'[q].todo = reg[p].todo \ {k}
        BY <1>6, <3>1, <1>0 DEF Single, TypeOK, WipeKey, Locals
      <4>2. {j \in Keys : keys'[j].exists /\ keys'[j].acct = a} \subseteq reg[p].todo \ {k}
        BY <2>1, <2>3 DEF KeysOf, PendingWipe, NoKey
      <4>3. PendingWipe(pc[q], reg[q])'
        BY <2>1, <2>2, <4>1, <4>2 DEF PendingWipe, KeysOf
      <4> QED
        BY <4>1, <4>3 DEF Pending, PendingAccount, PendingBind, PendingCredential,
                          PendingKey
    <3> QED
      BY <2>2, <2>4, <3>2 DEF StructInv, UniqueBinding, CredentialMatchesBinding
  <2>6. CASE ~keys[k].exists
    <3>1. Return(p)
      BY <1>6, <2>6 DEF WipeKey
    <3> QED
      BY <2>2, <2>4, <3>1, ReturnPending
         DEF StructInv, UniqueBinding, CredentialMatchesBinding
  <2> QED
    BY <2>5, <2>6
<1>7. CASE WipeCredential(p)
  <2>1. PendingWipe("wipeKeys", reg[p])
    BY <1>0, <1>7 DEF Pending, WipeCredential
  <2>2. /\ creds' = [creds EXCEPT ![a] = NoCredential]
        /\ wiped' = wiped \cup {a}
        /\ pc' = [pc EXCEPT ![p] = "wipeAcct"]
        /\ UNCHANGED <<accounts, keys, reg, used, deleted>>
        /\ reg[p].todo = {}
    BY <1>7 DEF WipeCredential
  <2>3. a \in Accounts /\ accounts[a].exists /\ KeysOf(a) = {}
    BY <2>1, <2>2 DEF PendingWipe
  <2>4. Linked'
    BY <2>2, <2>3 DEF StructInv, Linked, KeysOf, TypeOK, NoCredential
  <2>5. CredentialMatchesBinding'
    BY <2>2 DEF StructInv, CredentialMatchesBinding, TypeOK, NoCredential
  <2>6. ASSUME NEW q \in Procs PROVE Pending(pc[q], reg[q], used)'
    <3>1. pc'[q] = "wipeAcct" /\ reg'[q] = reg[p]
      BY <2>2 DEF Single, TypeOK
    <3>2. PendingWipe(pc[q], reg[q])'
      BY <2>2, <2>3, <3>1 DEF PendingWipe, KeysOf, TypeOK, NoCredential
    <3> QED
      BY <3>1, <3>2 DEF Pending, PendingAccount, PendingBind, PendingCredential,
                        PendingKey
  <2> QED
    BY <2>2, <2>4, <2>5, <2>6 DEF StructInv, UniqueBinding
<1>8. CASE WipeAccount(p)
  <2>1. PendingWipe("wipeAcct", reg[p])
    BY <1>0, <1>8 DEF Pending, WipeAccount
  <2>2. /\ accounts' = [accounts EXCEPT ![a] = NoAccount]
        /\ deleted' = IF accounts[a].exists THEN deleted \cup {a} ELSE deleted
        /\ Return(p) /\ UNCHANGED <<keys, creds, used, wiped>>
    BY <1>8 DEF WipeAccount
  <2>3. a \in Accounts /\ accounts[a].exists /\ ~creds[a].exists /\ KeysOf(a) = {}
    BY <2>1 DEF PendingWipe
  <2>4. Linked'
    BY <2>2, <2>3 DEF StructInv, Linked, KeysOf, TypeOK, NoAccount
  <2>5. UniqueBinding'
    BY <2>2 DEF StructInv, UniqueBinding, TypeOK, NoAccount
  <2>6. CredentialMatchesBinding'
    BY <2>2, <2>3 DEF StructInv, Linked, CredentialMatchesBinding, TypeOK, NoCredential
  <2> QED
    BY <2>2, <2>4, <2>5, <2>6, ReturnPending DEF StructInv
<1> QED
  BY <1>1, <1>2, <1>3, <1>4, <1>5, <1>6, <1>7, <1>8 DEF FileOps, RenameAccount

\* Dropping a mutation half-way, by a crash or an error, keeps the structure.
LEMMA EnvironmentStruct ==
    ASSUME TypeOK, StructInv, Single,
           \/ \E p \in Procs : Crash(p) \/ FileError(p)
           \/ \E t \in Tokens : Revoke(t)
    PROVE  StructInv'
<1>1. ASSUME NEW p \in Procs, Crash(p) \/ FileError(p)
      PROVE  StructInv'
  <2>1. Return(p) /\ UNCHANGED <<accounts, keys, creds, used, deleted, wiped>>
    BY <1>1 DEF Crash, FileError, files
  <2> QED
    BY <2>1, ReturnPending
       DEF StructInv, Linked, KeysOf, UniqueBinding, CredentialMatchesBinding
<1>2. ASSUME NEW t \in Tokens, Revoke(t)
      PROVE  StructInv'
  BY <1>2 DEF Revoke, files, StructInv, Linked, KeysOf, FreeFor, UniqueBinding,
              CredentialMatchesBinding, Pending, PendingAccount, PendingBind,
              PendingCredential, PendingKey, PendingWipe
<1> QED
  BY <1>1, <1>2

\* Every step keeps the structure when there is one process.
LEMMA NextStruct ==
    ASSUME TypeOK, StructInv, Single, [Next]_vars
    PROVE  StructInv'
<1>1. CASE UNCHANGED vars
  BY <1>1 DEF vars, StructInv, Linked, KeysOf, FreeFor, UniqueBinding,
              CredentialMatchesBinding, Pending, PendingAccount, PendingBind,
              PendingCredential, PendingKey, PendingWipe
<1> QED
  BY <1>1, AccountOpsStruct, SessionOpsStruct, FileOpsStruct, EnvironmentStruct DEF Next

\* An empty state directory has the structure.
LEMMA InitStruct == Init => StructInv
  BY DEF Init, StructInv, Linked, KeysOf, UniqueBinding, CredentialMatchesBinding, Pending,
         PendingAccount, PendingBind, PendingCredential, PendingKey, PendingWipe,
         NoAccount, NoKey, NoCredential

\* The structural invariant of one process.
LEMMA StructInvariant == Single => (Spec => [](TypeOK /\ StructInv))
<1> SUFFICES ASSUME Single PROVE Spec => [](TypeOK /\ StructInv)
  OBVIOUS
<1>1. Init => TypeOK /\ StructInv
  BY InitType, InitStruct
<1>2. TypeOK /\ StructInv /\ [Next]_vars => (TypeOK /\ StructInv)'
  BY NextType, NextStruct
<1> QED
  BY <1>1, <1>2, PTL DEF Spec

\* With one process on the directory two accounts are never bound to one Coder
\* user, although AddAccount, ReplaceCredential and LookupOrCreateAccountByCoderID
\* bind in three different ways and may be cut off anywhere.
THEOREM BindingsAreUnique == Single => (Spec => []UniqueBinding)
<1>1. StructInv => UniqueBinding
  BY DEF StructInv
<1> QED
  BY <1>1, StructInvariant, PTL

\* With one process the stored token always belongs to the user its account is
\* bound to: ReplaceCredential's order of writes survives any crash.
THEOREM CredentialsMatchBindings == Single => (Spec => []CredentialMatchesBinding)
<1>1. StructInv => CredentialMatchesBinding
  BY DEF StructInv
<1> QED
  BY <1>1, StructInvariant, PTL

\* With one process DeleteAccount removes every file of the account for good,
\* and no key authenticates a deleted account.
THEOREM DeletionIsComplete ==
    Single => (Spec => [](DeletedLeavesNothing /\ NoKeyAuthenticatesDeleted))
<1>1. TypeOK /\ StructInv => DeletedLeavesNothing /\ NoKeyAuthenticatesDeleted
  BY DEF StructInv, Linked, DeletedLeavesNothing, NoKeyAuthenticatesDeleted,
         Authenticates, TypeOK
<1> QED
  BY <1>1, StructInvariant, PTL

\* With one process a cascade cut off after it removed the credential leaves no
\* key that authenticates the account (the comment of DeleteAccount).
THEOREM CascadeFailsClosed == Single => (Spec => []NoKeyAuthenticatesWiped)
<1>1. StructInv => NoKeyAuthenticatesWiped
  BY DEF StructInv, Linked, KeysOf, NoKeyAuthenticatesWiped, Authenticates
<1> QED
  BY <1>1, StructInvariant, PTL

-----------------------------------------------------------------------------
(* A generation names one token *)

\* The credential write of a mutation: a new generation, or the same token
\* under the same generation.
PendingGeneration(step, l) ==
    /\ step = "bind" =>
          /\ l.crec.gen = creds[l.acct].gen + 1
          /\ l.crec.state = "valid"
    /\ step = "cred" =>
          /\ ValidRecord(l.crec)
          /\ l.crec.state = "invalid" => l.crec.token \in revoked
          /\ \/ l.crec.gen = creds[l.acct].gen + 1
             \/ l.crec.gen = creds[l.acct].gen /\ l.crec.token = creds[l.acct].token

\* The account's credential is gone for good: removed by a cascade that
\* only has to remove the account record.
Doomed(a) ==
    \/ a \in deleted
    \/ \E p \in Procs : pc[p] = "wipeAcct" /\ reg[p].acct = a

\* A session's snapshot is not newer than the file, and if it has the file's
\* generation it has the file's token.
SnapshotAgrees(s) == snap[s].token # None =>
    /\ snap[s].acct \in Accounts
    /\ \/ Doomed(snap[s].acct)
       \/ /\ creds[snap[s].acct].exists
          /\ snap[s].gen <= creds[snap[s].acct].gen
          /\ snap[s].gen = creds[snap[s].acct].gen =>
                snap[s].token = creds[snap[s].acct].token

CredInv ==
    /\ RecordsValid
    /\ InvalidIsJustified
    /\ \A p \in Procs : PendingGeneration(pc[p], reg[p])
    /\ \A s \in Sessions : SnapshotAgrees(s)

\* Starting a mutation keeps the credential invariant if its registers do.
LEMMA BeginCred ==
    ASSUME TypeOK, CredInv, Single, NEW p \in Procs, NEW step, NEW l,
           Begin(p, step, l), PendingGeneration(step, l)
    PROVE  CredInv'
<1> USE DEF Begin, files, TypeOK
<1>1. RecordsValid' /\ InvalidIsJustified'
  BY DEF CredInv, RecordsValid, InvalidIsJustified
<1>2. ASSUME NEW q \in Procs PROVE PendingGeneration(pc[q], reg[q])'
  <2>1. pc'[q] = step /\ reg'[q] = l
    BY DEF Single
  <2> QED
    BY <2>1 DEF PendingGeneration
<1>3. ASSUME NEW s \in Sessions PROVE SnapshotAgrees(s)'
  <2>1. Doomed(snap[s].acct) => snap[s].acct \in deleted
    BY DEF Doomed, Single
  <2> QED
    BY <2>1 DEF CredInv, SnapshotAgrees, Doomed
<1> QED
  BY <1>1, <1>2, <1>3 DEF CredInv

\* The account and key operations do not touch the credentials.
LEMMA AccountOpsCred ==
    ASSUME TypeOK, CredInv, Single, NEW p \in Procs, AccountOps(p)
    PROVE  CredInv'
<1>1. \E l : \E step \in {"acct", "wipeKeys", "key", "unlinkKey"} : Begin(p, step, l)
  BY DEF AccountOps, AddAccount, RefreshUsername, CreateAccount, SetAccountEnabled,
         DeleteAccount, AddKey, DeleteKey, SetKeyEnabled
<1> QED
  BY <1>1, BeginCred DEF PendingGeneration

\* A credential operation prepares a record of the next generation, or marks the one it read.
LEMMA SessionOpsCred ==
    ASSUME TypeOK, StructInv, CredInv, Single, NEW s \in Sessions, SessionOps(s)
    PROVE  CredInv'
<1> USE StoreAssumption
<1> Home[s] \in Procs
  OBVIOUS
<1>1. ASSUME NEW a \in Accounts, LoadCredential(s, a)
      PROVE  CredInv'
  <2>1. /\ UNCHANGED <<accounts, keys, creds, pc, reg, revoked, deleted>>
        /\ snap' = [snap EXCEPT ![s] = [acct |-> a, gen |-> creds[a].gen,
                                        token |-> creds[a].token]]
    BY <1>1 DEF LoadCredential, files
  <2>2. /\ RecordsValid' /\ InvalidIsJustified'
        /\ \A p \in Procs : PendingGeneration(pc[p], reg[p])'
    BY <2>1 DEF CredInv, RecordsValid, InvalidIsJustified, PendingGeneration
  <2>3. ASSUME NEW r \in Sessions, r # s PROVE SnapshotAgrees(r)'
    BY <2>1, <2>3 DEF CredInv, SnapshotAgrees, Doomed, TypeOK
  <2>4. SnapshotAgrees(s)'
    <3>1. snap'[s] = [acct |-> a, gen |-> creds[a].gen, token |-> creds[a].token]
      BY <2>1 DEF TypeOK
    <3>2. creds[a].token # None => creds[a].exists
      BY DEF StructInv, Linked, NoCredential
    <3>3. creds[a].gen <= creds[a].gen
      BY DEF TypeOK, CredentialRecord
    <3> QED
      BY <2>1, <3>1, <3>2, <3>3 DEF SnapshotAgrees
  <2> QED
    BY <2>2, <2>3, <2>4 DEF CredInv
<1>2. ASSUME NEW t \in Tokens, ReplaceCredential(s, t)
      PROVE  CredInv'
  <2> DEFINE a == snap[s].acct
             l == [NoLocals EXCEPT !.acct = a,
                     !.arec = [accounts[a] EXCEPT !.user = Owner[t]],
                     !.crec = [exists |-> TRUE, gen |-> NextGeneration(creds[a]),
                               state |-> "valid", token |-> t]]
  <2>1. /\ l.acct = a /\ l.crec.state = "valid"
        /\ l.crec.gen = creds[a].gen + 1
    BY DEF NoLocals, NextGeneration
  <2>2. Begin(Home[s], "bind", l)
    BY <1>2 DEF ReplaceCredential
  <2> HIDE DEF a, l
  <2>3. PendingGeneration("bind", l)
    BY <2>1 DEF PendingGeneration
  <2> QED
    BY <2>2, <2>3, BeginCred
<1>3. ASSUME MarkCredentialInvalid(s)
      PROVE  CredInv'
  <2> DEFINE a == snap[s].acct
             l == [NoLocals EXCEPT !.acct = a,
                     !.crec = [creds[a] EXCEPT !.state = "invalid"]]
  <2>1. /\ a \in Accounts /\ creds[a].exists /\ creds[a].gen = snap[s].gen
        /\ snap[s].token # None /\ snap[s].token \in revoked
        /\ pc[Home[s]] = "idle"
    BY <1>3 DEF MarkCredentialInvalid, TypeOK, Snapshot, GenerationMatches, Begin
  <2>2. /\ l.acct = a /\ l.crec.state = "invalid"
        /\ l.crec.gen = creds[a].gen /\ l.crec.token = creds[a].token
    BY <2>1 DEF NoLocals, TypeOK, CredentialRecord
  <2>3. Begin(Home[s], "cred", l)
    BY <1>3 DEF MarkCredentialInvalid
  <2>4. ~Doomed(a)
    BY <2>1 DEF Doomed, Single, StructInv, Linked
  <2>5. creds[a].token = snap[s].token
    BY <2>1, <2>4 DEF CredInv, SnapshotAgrees
  <2> HIDE DEF a, l
  <2>6. PendingGeneration("cred", l)
    BY <2>1, <2>2, <2>5 DEF PendingGeneration, ValidRecord
  <2> QED
    BY <2>3, <2>6, BeginCred
<1>4. ASSUME ClearCredential(s)
      PROVE  CredInv'
  <2> DEFINE a == snap[s].acct
             l == [NoLocals EXCEPT !.acct = a,
                     !.crec = [exists |-> TRUE, gen |-> NextGeneration(creds[a]),
                               state |-> "missing", token |-> None]]
  <2>1. /\ l.acct = a /\ l.crec.state = "missing" /\ l.crec.token = None
        /\ l.crec.gen = creds[a].gen + 1
    BY DEF NoLocals, NextGeneration
  <2>2. Begin(Home[s], "cred", l)
    BY <1>4 DEF ClearCredential
  <2> HIDE DEF a, l
  <2>3. PendingGeneration("cred", l)
    BY <2>1 DEF PendingGeneration, ValidRecord
  <2> QED
    BY <2>2, <2>3, BeginCred
<1> QED
  BY <1>1, <1>2, <1>3, <1>4 DEF SessionOps

\* A step that leaves credentials, snapshots and revocations alone and does not
\* end a cascade keeps CredInv when the only process returns.
LEMMA ReturnCred ==
    ASSUME TypeOK, CredInv, Single, NEW p \in Procs, Return(p), pc[p] # "wipeAcct",
           UNCHANGED <<creds, snap, revoked, deleted>>
    PROVE  CredInv'
<1>1. \A q \in Procs : pc'[q] = "idle" /\ pc[q] # "wipeAcct"
  BY DEF Return, TypeOK, Single
<1>2. RecordsValid' /\ InvalidIsJustified'
  BY DEF CredInv, RecordsValid, InvalidIsJustified
<1>3. \A q \in Procs : PendingGeneration(pc[q], reg[q])'
  BY <1>1 DEF PendingGeneration
<1>4. \A s \in Sessions : SnapshotAgrees(s)'
  BY <1>1 DEF CredInv, SnapshotAgrees, Doomed
<1> QED
  BY <1>2, <1>3, <1>4 DEF CredInv

\* The rename of a prepared credential keeps the credential invariant.
LEMMA FileOpsCred ==
    ASSUME TypeOK, StructInv, CredInv, Single, NEW p \in Procs, FileOps(p)
    PROVE  CredInv'
<1> DEFINE a == reg[p].acct
<1>0. /\ Pending(pc[p], reg[p], used) /\ PendingGeneration(pc[p], reg[p])
      /\ reg[p] \in Locals
  BY DEF StructInv, CredInv, TypeOK
<1>1. CASE RenameAccount(p) /\ pc[p] = "acct"
  BY <1>1, ReturnCred DEF RenameAccount
<1>2. CASE RenameAccount(p) /\ pc[p] = "bind"
  <2>1. /\ pc' = [pc EXCEPT ![p] = "cred"]
        /\ UNCHANGED <<creds, reg, snap, revoked, deleted>>
    BY <1>2 DEF RenameAccount
  <2>2. /\ reg[p].crec.gen = creds[a].gen + 1 /\ reg[p].crec.state = "valid"
        /\ reg[p].crec.token \in Tokens
    BY <1>0, <1>2 DEF Pending, PendingBind, PendingGeneration
  <2>3. ASSUME NEW q \in Procs PROVE PendingGeneration(pc[q], reg[q])'
    <3>1. pc'[q] = "cred" /\ reg'[q] = reg[p]
      BY <2>1 DEF TypeOK, Single
    <3> QED
      BY <2>1, <2>2, <3>1, StoreAssumption DEF PendingGeneration, ValidRecord
  <2>4. \A s \in Sessions : SnapshotAgrees(s)'
    BY <1>2, <2>1 DEF CredInv, SnapshotAgrees, Doomed, Single, TypeOK
  <2> QED
    BY <2>1, <2>3, <2>4 DEF CredInv, RecordsValid, InvalidIsJustified
<1>3. CASE RenameKey(p)
  BY <1>3, ReturnCred DEF RenameKey
<1>4. CASE RenameCredential(p)
  <2>1. /\ creds' = [creds EXCEPT ![a] = reg[p].crec]
        /\ Return(p) /\ UNCHANGED <<snap, revoked, deleted>>
        /\ pc[p] = "cred"
    BY <1>4 DEF RenameCredential
  <2>2. PendingCredential("cred", reg[p]) /\ PendingGeneration("cred", reg[p])
    BY <1>0, <2>1 DEF Pending
  <2>3. RecordsValid' /\ InvalidIsJustified'
    BY <2>1, <2>2 DEF CredInv, RecordsValid, InvalidIsJustified, PendingGeneration, TypeOK
  <2>4. \A q \in Procs : PendingGeneration(pc[q], reg[q])'
    BY <2>1 DEF Return, TypeOK, Single, PendingGeneration
  <2>5. ASSUME NEW s \in Sessions PROVE SnapshotAgrees(s)'
    <3> DEFINE b == snap[s].acct
    <3>1. Doomed(b) => b \in deleted
      BY <2>1 DEF Doomed, Single
    <3>2. CASE b # a \/ snap[s].token = None \/ b \in deleted
      BY <2>1, <3>1, <3>2 DEF CredInv, SnapshotAgrees, Doomed, TypeOK
    <3>3. CASE b = a /\ snap[s].token # None /\ b \notin deleted
      <4>1. a \in Accounts /\ creds'[a] = reg[p].crec /\ reg[p].crec.exists
        BY <2>1, <2>2 DEF PendingCredential, TypeOK
      <4>2. /\ snap[s].gen <= creds[a].gen
            /\ snap[s].gen = creds[a].gen => snap[s].token = creds[a].token
        BY <3>1, <3>3 DEF CredInv, SnapshotAgrees
      <4>3. snap[s].gen \in Nat /\ creds[a].gen \in Nat /\ reg[p].crec.gen \in Nat
        BY <1>0, <4>1 DEF TypeOK, Snapshot, CredentialRecord, Locals
      <4>4. /\ snap[s].gen <= reg[p].crec.gen
            /\ snap[s].gen = reg[p].crec.gen => snap[s].token = reg[p].crec.token
        BY <2>2, <4>2, <4>3 DEF PendingGeneration
      <4> QED
        BY <2>1, <3>3, <4>1, <4>4 DEF SnapshotAgrees
    <3> QED
      BY <3>2, <3>3
  <2> QED
    BY <2>3, <2>4, <2>5 DEF CredInv
<1>5. CASE UnlinkKey(p)
  BY <1>5, ReturnCred DEF UnlinkKey
<1>6. ASSUME NEW k \in Keys, WipeKey(p, k)
      PROVE  CredInv'
  <2>1. CASE keys[k].exists
    <3>1. /\ reg' = [reg EXCEPT ![p].todo = @ \ {k}]
          /\ UNCHANGED <<pc, creds, snap, revoked, deleted>>
      BY <1>6, <2>1 DEF WipeKey
    <3>2. \A q \in Procs : reg'[q].acct = reg[q].acct /\ pc[q] = "wipeKeys"
      BY <1>6, <3>1 DEF TypeOK, Locals, Single, WipeKey
    <3>3. \A q \in Procs : PendingGeneration(pc[q], reg[q])'
      BY <3>1, <3>2 DEF PendingGeneration
    <3>4. \A s \in Sessions : SnapshotAgrees(s)'
      BY <3>1, <3>2 DEF CredInv, SnapshotAgrees, Doomed
    <3> QED
      BY <3>1, <3>3, <3>4 DEF CredInv, RecordsValid, InvalidIsJustified
  <2>2. CASE ~keys[k].exists
    BY <1>6, <2>2, ReturnCred DEF WipeKey
  <2> QED
    BY <2>1, <2>2
<1>7. CASE WipeCredential(p)
  <2>1. /\ creds' = [creds EXCEPT ![a] = NoCredential]
        /\ pc' = [pc EXCEPT ![p] = "wipeAcct"]
        /\ UNCHANGED <<reg, snap, revoked, deleted>>
        /\ pc[p] = "wipeKeys"
    BY <1>7 DEF WipeCredential
  <2>2. RecordsValid' /\ InvalidIsJustified'
    BY <2>1 DEF CredInv, RecordsValid, InvalidIsJustified, ValidRecord, NoCredential, TypeOK
  <2>3. \A q \in Procs : PendingGeneration(pc[q], reg[q])'
    BY <2>1 DEF PendingGeneration, Single, TypeOK
  <2>4. ASSUME NEW s \in Sessions PROVE SnapshotAgrees(s)'
    <3>1. pc'[p] = "wipeAcct" /\ reg'[p].acct = a
      BY <2>1 DEF TypeOK
    <3>2. CASE snap[s].acct = a
      <4>1. snap[s].token # None => snap[s].acct \in Accounts
        BY DEF CredInv, SnapshotAgrees
      <4> QED
        BY <2>1, <3>1, <3>2, <4>1 DEF SnapshotAgrees, Doomed
    <3>3. CASE snap[s].acct # a
      <4>1. Doomed(snap[s].acct) => snap[s].acct \in deleted
        BY <2>1 DEF Doomed, Single
      <4> QED
        BY <2>1, <3>3, <4>1 DEF CredInv, SnapshotAgrees, Doomed, TypeOK
    <3> QED
      BY <3>2, <3>3
  <2> QED
    BY <2>2, <2>3, <2>4 DEF CredInv
<1>8. CASE WipeAccount(p)
  <2>1. /\ deleted' = IF accounts[a].exists THEN deleted \cup {a} ELSE deleted
        /\ Return(p) /\ UNCHANGED <<creds, snap, revoked>>
        /\ pc[p] = "wipeAcct"
    BY <1>8 DEF WipeAccount
  <2>2. accounts[a].exists
    BY <1>0, <2>1 DEF Pending, PendingWipe
  <2>3. RecordsValid' /\ InvalidIsJustified'
    BY <2>1 DEF CredInv, RecordsValid, InvalidIsJustified
  <2>4. \A q \in Procs : PendingGeneration(pc[q], reg[q])'
    BY <2>1 DEF PendingGeneration, Return, Single, TypeOK
  <2>5. ASSUME NEW s \in Sessions PROVE SnapshotAgrees(s)'
    <3>1. Doomed(snap[s].acct) => snap[s].acct \in deleted \cup {a}
      BY <2>1 DEF Doomed, Single
    <3> QED
      BY <2>1, <2>2, <3>1 DEF CredInv, SnapshotAgrees, Doomed
  <2> QED
    BY <2>3, <2>4, <2>5 DEF CredInv
<1> QED
  BY <1>1, <1>2, <1>3, <1>4, <1>5, <1>6, <1>7, <1>8 DEF FileOps, RenameAccount

\* A crash loses the snapshots with the mutation; a revocation is for ever.
LEMMA EnvironmentCred ==
    ASSUME TypeOK, CredInv, Single, "io" \notin Faults,
           \/ \E p \in Procs : Crash(p) \/ FileError(p)
           \/ \E t \in Tokens : Revoke(t)
    PROVE  CredInv'
<1>1. ASSUME NEW p \in Procs, Crash(p)
      PROVE  CredInv'
  <2>1. \A q \in Procs : pc'[q] = "idle"
    BY <1>1 DEF Crash, Return, TypeOK, Single
  <2>2. \A s \in Sessions : snap'[s].token = None
    BY <1>1, StoreAssumption DEF Crash, Single, NoSnapshot
  <2> QED
    BY <1>1, <2>1, <2>2 DEF Crash, files, CredInv, RecordsValid, InvalidIsJustified,
                            PendingGeneration, SnapshotAgrees
<1>2. ASSUME NEW t \in Tokens, Revoke(t)
      PROVE  CredInv'
  BY <1>2 DEF Revoke, files, CredInv, RecordsValid, InvalidIsJustified,
              PendingGeneration, SnapshotAgrees, Doomed
<1> QED
  BY <1>1, <1>2 DEF FileError

\* Every step keeps the credential invariant when no file error is possible.
LEMMA NextCred ==
    ASSUME TypeOK, StructInv, CredInv, Single, "io" \notin Faults, [Next]_vars
    PROVE  CredInv'
<1>1. CASE UNCHANGED vars
  BY <1>1 DEF vars, CredInv, RecordsValid, InvalidIsJustified, PendingGeneration,
              SnapshotAgrees, Doomed
<1> QED
  BY <1>1, AccountOpsCred, SessionOpsCred, FileOpsCred, EnvironmentCred DEF Next

\* An empty state directory satisfies the credential invariant.
LEMMA InitCred == Init => CredInv
  BY DEF Init, CredInv, RecordsValid, ValidRecord, InvalidIsJustified, PendingGeneration,
         SnapshotAgrees, NoCredential, NoSnapshot

\* The credential invariant of one process without file errors.
LEMMA CredInvariant ==
    Single /\ "io" \notin Faults => (Spec => [](TypeOK /\ StructInv /\ CredInv))
<1> SUFFICES ASSUME Single, "io" \notin Faults
             PROVE  Spec => [](TypeOK /\ StructInv /\ CredInv)
  OBVIOUS
<1>1. Init => TypeOK /\ StructInv /\ CredInv
  BY InitType, InitStruct, InitCred
<1>2. TypeOK /\ StructInv /\ CredInv /\ [Next]_vars => (TypeOK /\ StructInv /\ CredInv)'
  BY NextType, NextStruct, NextCred
<1> QED
  BY <1>1, <1>2, PTL DEF Spec

\* With one process whose file operations do not fail, whatever crashes: no
\* operation leaves a record that validateCredentialRecord rejects.
THEOREM RecordsStayValid ==
    Single /\ "io" \notin Faults => (Spec => []RecordsValid)
<1>1. CredInv => RecordsValid
  BY DEF CredInv
<1> QED
  BY <1>1, CredInvariant, PTL

\* Under the same assumptions a late 401 never invalidates a newer credential:
\* MarkCredentialInvalid only ever hits the token that was refused.
THEOREM StaleFailuresAreHarmless ==
    Single /\ "io" \notin Faults => (Spec => []InvalidIsJustified)
<1>1. CredInv => InvalidIsJustified
  BY DEF CredInv
<1> QED
  BY <1>1, CredInvariant, PTL

-----------------------------------------------------------------------------
(* What a step may never do *)

\* With one process a linked key never passes to another account without
\* being deleted first: AddKey's look at the digest is still good when it
\* writes, and SetKeyEnabled writes back the owner it read.
THEOREM KeysKeepTheirOwner == Single => (Spec => KeyOwnerStable)
<1> SUFFICES ASSUME Single PROVE Spec => KeyOwnerStable
  OBVIOUS
<1> DEFINE Kept == \A k \in Keys : keys[k].exists /\ keys'[k].exists =>
                                      keys'[k].acct = keys[k].acct
<1>1. TypeOK /\ StructInv /\ [Next]_vars => [Kept]_vars
  <2> SUFFICES ASSUME TypeOK, StructInv, Next PROVE Kept
    OBVIOUS
  <2>1. CASE keys' = keys
    BY <2>1
  <2>2. ASSUME NEW p \in Procs, RenameKey(p) PROVE Kept
    BY <2>2 DEF RenameKey, TypeOK, StructInv, Pending, PendingKey
  <2>3. ASSUME NEW p \in Procs, UnlinkKey(p) PROVE Kept
    BY <2>3 DEF UnlinkKey, NoKey, TypeOK
  <2>4. ASSUME NEW p \in Procs, NEW k \in Keys, WipeKey(p, k) PROVE Kept
    BY <2>4 DEF WipeKey, NoKey, TypeOK
  <2>5. ASSUME NEW p \in Procs, AccountOps(p) PROVE keys' = keys
    BY <2>5 DEF AccountOps, AddAccount, RefreshUsername, CreateAccount, SetAccountEnabled,
                DeleteAccount, AddKey, DeleteKey, SetKeyEnabled, Begin, files
  <2>6. ASSUME NEW s \in Sessions, SessionOps(s) PROVE keys' = keys
    BY <2>6 DEF SessionOps, LoadCredential, ReplaceCredential, MarkCredentialInvalid,
                ClearCredential, Begin, files
  <2> QED
    BY <2>1, <2>2, <2>3, <2>4, <2>5, <2>6
       DEF Next, FileOps, RenameAccount, RenameCredential, WipeCredential, WipeAccount,
           Crash, FileError, Revoke, files
<1> QED
  BY <1>1, StructInvariant, PTL DEF Spec, KeyOwnerStable

\* With one process whose file operations do not fail, a generation names one
\* token: every write of ReplaceCredential and ClearCredential goes to the next
\* generation of the file as it is at the write, not only as it was read.
THEOREM GenerationsAdvance ==
    Single /\ "io" \notin Faults => (Spec => GenerationAdvances)
<1> SUFFICES ASSUME Single, "io" \notin Faults PROVE Spec => GenerationAdvances
  OBVIOUS
<1> DEFINE Advanced == \A a \in Accounts :
              creds[a].exists /\ creds'[a].exists /\ creds'[a] # creds[a] =>
                  \/ creds'[a].gen = creds[a].gen + 1
                  \/ creds'[a].gen = creds[a].gen /\ creds'[a].token = creds[a].token
<1>1. TypeOK /\ CredInv /\ [Next]_vars => [Advanced]_vars
  <2> SUFFICES ASSUME TypeOK, CredInv, Next PROVE Advanced
    OBVIOUS
  <2>1. CASE creds' = creds
    BY <2>1
  <2>2. ASSUME NEW p \in Procs, RenameCredential(p) PROVE Advanced
    BY <2>2 DEF RenameCredential, TypeOK, CredInv, PendingGeneration
  <2>3. ASSUME NEW p \in Procs, WipeCredential(p) PROVE Advanced
    BY <2>3 DEF WipeCredential, NoCredential, TypeOK
  <2>4. ASSUME NEW p \in Procs, AccountOps(p) PROVE creds' = creds
    BY <2>4 DEF AccountOps, AddAccount, RefreshUsername, CreateAccount, SetAccountEnabled,
                DeleteAccount, AddKey, DeleteKey, SetKeyEnabled, Begin, files
  <2>5. ASSUME NEW s \in Sessions, SessionOps(s) PROVE creds' = creds
    BY <2>5 DEF SessionOps, LoadCredential, ReplaceCredential, MarkCredentialInvalid,
                ClearCredential, Begin, files
  <2> QED
    BY <2>1, <2>2, <2>3, <2>4, <2>5
       DEF Next, FileOps, RenameAccount, RenameKey, UnlinkKey, WipeKey, WipeAccount,
           Crash, FileError, Revoke, files
<1> QED
  BY <1>1, CredInvariant, PTL DEF Spec, GenerationAdvances

-----------------------------------------------------------------------------
(* The store implements the directory *)

\* The record a mutation is about to write differs from the file in one
\* respect only: the one its operation is for.
WriteAccount(step, l) == step = "acct" =>
    /\ accounts[l.acct].exists => l.arec.bind = accounts[l.acct].bind
    /\ ~accounts[l.acct].exists =>
          l.arec.enabled = TRUE /\ l.arec.bind = (l.arec.user = None)

WriteBind(step, l) == step = "bind" =>
    /\ accounts[l.acct].enabled
    /\ l.arec.enabled = accounts[l.acct].enabled
    /\ l.arec.bind = accounts[l.acct].bind
    /\ accounts[l.acct].user = None => accounts[l.acct].bind
    /\ l.crec.gen = creds[l.acct].gen + 1
    /\ l.crec.state = "valid"

\* A credential write is a new token, a tombstone or a mark.
WriteCredential(step, l) == step = "cred" =>
    \/ /\ l.crec.token \in Tokens /\ l.crec.state = "valid"
       /\ l.crec.gen = creds[l.acct].gen + 1
       /\ accounts[l.acct].enabled
    \/ /\ l.crec.token = None /\ l.crec.state = "missing"
       /\ l.crec.gen = creds[l.acct].gen + 1
    \/ /\ creds[l.acct].exists /\ creds[l.acct].token # None
       /\ l.crec.token = creds[l.acct].token /\ l.crec.state = "invalid"
       /\ l.crec.gen = creds[l.acct].gen

WriteKey(step, l) ==
    /\ step = "key" => keys[l.key].exists \/ l.krec.enabled = TRUE
    /\ step = "unlinkKey" => keys[l.key].exists

Write(step, l) ==
    /\ WriteAccount(step, l)
    /\ WriteBind(step, l)
    /\ WriteCredential(step, l)
    /\ WriteKey(step, l)

WriteInv ==
    /\ \A k \in Keys : ~keys[k].exists => keys[k] = NoKey
    /\ \A p \in Procs : Write(pc[p], reg[p])

\* Starting a mutation keeps the invariant if what it will write is right.
LEMMA BeginWrite ==
    ASSUME TypeOK, WriteInv, Single, NEW p \in Procs, NEW step, NEW l,
           Begin(p, step, l), Write(step, l)
    PROVE  WriteInv'
<1>1. UNCHANGED <<accounts, keys, creds>>
  BY DEF Begin, files
<1>2. ASSUME NEW q \in Procs PROVE Write(pc[q], reg[q])'
  <2>1. pc'[q] = step /\ reg'[q] = l
    BY DEF Single, Begin, TypeOK
  <2> QED
    BY <1>1, <2>1 DEF Write, WriteAccount, WriteBind, WriteCredential, WriteKey
<1> QED
  BY <1>1, <1>2 DEF WriteInv

\* The account and key operations write the record they read, or a fresh one.
LEMMA AccountOpsWrite ==
    ASSUME TypeOK, StructInv, WriteInv, Single, NEW p \in Procs, AccountOps(p)
    PROVE  WriteInv'
<1> USE DEF Write, WriteAccount, WriteBind, WriteCredential, WriteKey
<1>1. ASSUME NEW a \in Accounts, NEW u \in Users \cup {None}, AddAccount(p, a, u)
      PROVE  WriteInv'
  <2> DEFINE l == [NoLocals EXCEPT !.acct = a,
                     !.arec = [exists |-> TRUE, user |-> u, bind |-> u = None,
                               enabled |-> TRUE]]
  <2>1. l.acct = a /\ l.arec.enabled = TRUE /\ l.arec.user = u /\ l.arec.bind = (u = None)
    BY DEF NoLocals
  <2>2. Begin(p, "acct", l) /\ ~accounts[a].exists
    BY <1>1 DEF AddAccount
  <2> HIDE DEF l
  <2> QED
    BY <2>1, <2>2, BeginWrite
<1>2. ASSUME NEW a \in Accounts, NEW u \in Users, RefreshUsername(p, a, u)
      PROVE  WriteInv'
  <2> DEFINE l == [NoLocals EXCEPT !.acct = a, !.arec = accounts[a]]
  <2>1. l.acct = a /\ l.arec = accounts[a]
    BY DEF NoLocals
  <2>2. Begin(p, "acct", l) /\ accounts[a].exists
    BY <1>2 DEF RefreshUsername
  <2> HIDE DEF l
  <2> QED
    BY <2>1, <2>2, BeginWrite
<1>3. ASSUME NEW a \in Accounts, NEW u \in Users, CreateAccount(p, a, u)
      PROVE  WriteInv'
  <2> DEFINE l == [NoLocals EXCEPT !.acct = a,
                     !.arec = [exists |-> TRUE, user |-> u, bind |-> FALSE,
                               enabled |-> TRUE]]
  <2>1. l.acct = a /\ l.arec.enabled = TRUE /\ l.arec.user = u /\ l.arec.bind = FALSE
    BY DEF NoLocals
  <2>2. Begin(p, "acct", l) /\ ~accounts[a].exists
    BY <1>3 DEF CreateAccount, StructInv, Linked
  <2>3. l.arec.bind = (l.arec.user = None)
    BY <2>1, StoreAssumption
  <2> HIDE DEF l
  <2> QED
    BY <2>1, <2>2, <2>3, BeginWrite
<1>4. ASSUME NEW a \in Accounts, NEW e \in BOOLEAN, SetAccountEnabled(p, a, e)
      PROVE  WriteInv'
  <2> DEFINE l == [NoLocals EXCEPT !.acct = a,
                     !.arec = [accounts[a] EXCEPT !.enabled = e]]
  <2>1. l.acct = a /\ l.arec.bind = accounts[a].bind
    BY DEF NoLocals, TypeOK, AccountRecord
  <2>2. Begin(p, "acct", l) /\ accounts[a].exists
    BY <1>4 DEF SetAccountEnabled
  <2> HIDE DEF l
  <2> QED
    BY <2>1, <2>2, BeginWrite
<1>5. ASSUME NEW a \in Accounts, DeleteAccount(p, a)
      PROVE  WriteInv'
  BY <1>5, BeginWrite DEF DeleteAccount
<1>6. ASSUME NEW a \in Accounts, NEW k \in Keys, AddKey(p, a, k)
      PROVE  WriteInv'
  <2> DEFINE l == [NoLocals EXCEPT !.key = k,
                     !.krec = [exists |-> TRUE, acct |-> a, enabled |-> TRUE]]
  <2>1. l.krec.enabled = TRUE
    BY DEF NoLocals
  <2>2. Begin(p, "key", l)
    BY <1>6 DEF AddKey
  <2> HIDE DEF l
  <2> QED
    BY <2>1, <2>2, BeginWrite
<1>7. ASSUME NEW a \in Accounts, NEW k \in Keys, DeleteKey(p, a, k)
      PROVE  WriteInv'
  <2> DEFINE l == [NoLocals EXCEPT !.key = k]
  <2>1. l.key = k
    BY DEF NoLocals
  <2>2. Begin(p, "unlinkKey", l) /\ keys[k].exists
    BY <1>7 DEF DeleteKey
  <2> HIDE DEF l
  <2> QED
    BY <2>1, <2>2, BeginWrite
<1>8. ASSUME NEW k \in Keys, NEW e \in BOOLEAN, SetKeyEnabled(p, k, e)
      PROVE  WriteInv'
  <2> DEFINE l == [NoLocals EXCEPT !.key = k,
                     !.krec = [keys[k] EXCEPT !.enabled = e]]
  <2>1. l.key = k
    BY DEF NoLocals
  <2>2. Begin(p, "key", l) /\ keys[k].exists
    BY <1>8 DEF SetKeyEnabled
  <2> HIDE DEF l
  <2> QED
    BY <2>1, <2>2, BeginWrite
<1> QED
  BY <1>1, <1>2, <1>3, <1>4, <1>5, <1>6, <1>7, <1>8 DEF AccountOps

\* The credential operations write a new token, a tombstone or a mark.
LEMMA SessionOpsWrite ==
    ASSUME TypeOK, CredInv', WriteInv, Single, NEW s \in Sessions, SessionOps(s)
    PROVE  WriteInv'
<1> USE StoreAssumption DEF Write, WriteAccount, WriteBind, WriteCredential, WriteKey
<1> Home[s] \in Procs
  OBVIOUS
<1>1. ASSUME NEW a \in Accounts, LoadCredential(s, a)
      PROVE  WriteInv'
  BY <1>1 DEF LoadCredential, files, WriteInv
<1>2. ASSUME NEW t \in Tokens, ReplaceCredential(s, t)
      PROVE  WriteInv'
  <2> DEFINE a == snap[s].acct
             l == [NoLocals EXCEPT !.acct = a,
                     !.arec = [accounts[a] EXCEPT !.user = Owner[t]],
                     !.crec = [exists |-> TRUE, gen |-> NextGeneration(creds[a]),
                               state |-> "valid", token |-> t]]
  <2>1. a \in Accounts /\ accounts[a].enabled
    BY <1>2 DEF ReplaceCredential, TypeOK, Snapshot
  <2>2. /\ l.acct = a /\ l.arec.enabled = accounts[a].enabled
        /\ l.arec.bind = accounts[a].bind
        /\ l.crec.gen = creds[a].gen + 1 /\ l.crec.state = "valid"
    BY <2>1 DEF NoLocals, TypeOK, AccountRecord, NextGeneration
  <2>3. Begin(Home[s], "bind", l)
    BY <1>2 DEF ReplaceCredential
  <2>4. accounts[a].user = None => accounts[a].bind
    BY <1>2 DEF ReplaceCredential, IdentityAllowed
  <2> HIDE DEF a, l
  <2>5. Write("bind", l)
    BY <2>1, <2>2, <2>4
  <2> QED
    BY <2>3, <2>5, BeginWrite
<1>3. ASSUME MarkCredentialInvalid(s)
      PROVE  WriteInv'
  <2> DEFINE a == snap[s].acct
             l == [NoLocals EXCEPT !.acct = a,
                     !.crec = [creds[a] EXCEPT !.state = "invalid"]]
  <2>1. a \in Accounts /\ creds[a].exists
    BY <1>3 DEF MarkCredentialInvalid, TypeOK, Snapshot
  <2>2. /\ l.acct = a /\ l.crec.token = creds[a].token
        /\ l.crec.gen = creds[a].gen /\ l.crec.state = "invalid"
    BY <2>1 DEF NoLocals, TypeOK, CredentialRecord
  <2>3. Begin(Home[s], "cred", l)
    BY <1>3 DEF MarkCredentialInvalid
  <2>a. pc'[Home[s]] = "cred" /\ reg'[Home[s]] = l
    BY <2>3 DEF Begin, TypeOK
  <2> HIDE DEF a, l
  <2>4. creds[a].token # None
    BY <2>2, <2>a DEF CredInv, PendingGeneration, ValidRecord
  <2>5. Write("cred", l)
    BY <2>1, <2>2, <2>4
  <2> QED
    BY <2>3, <2>5, BeginWrite
<1>4. ASSUME ClearCredential(s)
      PROVE  WriteInv'
  <2> DEFINE a == snap[s].acct
             l == [NoLocals EXCEPT !.acct = a,
                     !.crec = [exists |-> TRUE, gen |-> NextGeneration(creds[a]),
                               state |-> "missing", token |-> None]]
  <2>1. /\ l.acct = a /\ l.crec.token = None /\ l.crec.state = "missing"
        /\ l.crec.gen = creds[a].gen + 1
    BY DEF NoLocals, NextGeneration
  <2>2. Begin(Home[s], "cred", l)
    BY <1>4 DEF ClearCredential
  <2> HIDE DEF a, l
  <2>3. Write("cred", l)
    BY <2>1
  <2> QED
    BY <2>2, <2>3, BeginWrite
<1> QED
  BY <1>1, <1>2, <1>3, <1>4 DEF SessionOps

\* When the only process returns it has nothing left to write.
LEMMA ReturnWrite ==
    ASSUME TypeOK, Single, NEW p \in Procs, Return(p)
    PROVE  \A q \in Procs : Write(pc[q], reg[q])'
<1>1. \A q \in Procs : pc'[q] = "idle"
  BY DEF Return, TypeOK, Single
<1> QED
  BY <1>1 DEF Write, WriteAccount, WriteBind, WriteCredential, WriteKey

\* A mutation that does one of several writes still has the right ones left.
LEMMA FileOpsWrite ==
    ASSUME TypeOK, StructInv, WriteInv, Single, NEW p \in Procs, FileOps(p)
    PROVE  WriteInv'
<1>0. /\ Pending(pc[p], reg[p], used) /\ Write(pc[p], reg[p]) /\ reg[p] \in Locals
      /\ reg[p].acct \in Accounts \cup {None} /\ reg[p].arec \in AccountRecord
  BY DEF StructInv, WriteInv, TypeOK, Locals
<1>1. CASE RenameAccount(p) /\ pc[p] = "acct"
  <2>1. Return(p) /\ UNCHANGED keys
    BY <1>1 DEF RenameAccount
  <2> QED
    BY <2>1, ReturnWrite DEF WriteInv
<1>2. CASE RenameAccount(p) /\ pc[p] = "bind"
  <2> DEFINE a == reg[p].acct
  <2>1. PendingBind("bind", reg[p]) /\ WriteBind("bind", reg[p])
    BY <1>0, <1>2 DEF Pending, Write
  <2>2. /\ accounts' = [accounts EXCEPT ![a] = reg[p].arec]
        /\ pc' = [pc EXCEPT ![p] = "cred"]
        /\ UNCHANGED <<keys, creds, reg>>
    BY <1>2 DEF RenameAccount
  <2>3. ASSUME NEW q \in Procs PROVE Write(pc[q], reg[q])'
    <3>1. pc'[q] = "cred" /\ reg'[q] = reg[p]
      BY <2>2 DEF Single, TypeOK
    <3>2. WriteCredential("cred", reg[p])'
      BY <2>1, <2>2 DEF PendingBind, WriteBind, WriteCredential, TypeOK
    <3> QED
      BY <2>2, <3>1, <3>2 DEF Write, WriteAccount, WriteBind, WriteCredential, WriteKey
  <2> QED
    BY <2>2, <2>3 DEF WriteInv
<1>3. CASE RenameKey(p)
  <2>1. PendingKey("key", reg[p])
    BY <1>0, <1>3 DEF Pending, RenameKey
  <2>2. Return(p) /\ keys' = [keys EXCEPT ![reg[p].key] = reg[p].krec]
    BY <1>3 DEF RenameKey
  <2>3. \A k \in Keys : ~keys'[k].exists => keys'[k] = NoKey
    BY <2>1, <2>2 DEF PendingKey, WriteInv, TypeOK
  <2> QED
    BY <2>2, <2>3, ReturnWrite DEF WriteInv
<1>4. CASE RenameCredential(p) \/ WipeAccount(p)
  <2>1. Return(p) /\ UNCHANGED keys
    BY <1>4 DEF RenameCredential, WipeAccount
  <2> QED
    BY <2>1, ReturnWrite DEF WriteInv
<1>5. CASE UnlinkKey(p)
  <2>1. Return(p) /\ keys' = [keys EXCEPT ![reg[p].key] = NoKey]
    BY <1>5 DEF UnlinkKey
  <2>2. \A k \in Keys : ~keys'[k].exists => keys'[k] = NoKey
    BY <2>1 DEF WriteInv, TypeOK
  <2> QED
    BY <2>1, <2>2, ReturnWrite DEF WriteInv
<1>6. ASSUME NEW k \in Keys, WipeKey(p, k)
      PROVE  WriteInv'
  <2>1. \A j \in Keys : keys'[j] = IF j = k /\ keys[k].acct = reg[p].acct THEN NoKey ELSE keys[j]
    BY <1>6 DEF WipeKey, TypeOK
  <2>2. \A j \in Keys : ~keys'[j].exists => keys'[j] = NoKey
    BY <2>1 DEF WriteInv
  <2>3. CASE keys[k].exists
    <3>1. \A q \in Procs : pc'[q] = "wipeKeys"
      BY <1>6, <2>3 DEF WipeKey, Single
    <3> QED
      BY <2>2, <3>1 DEF WriteInv, Write, WriteAccount, WriteBind, WriteCredential, WriteKey
  <2>4. CASE ~keys[k].exists
    <3>1. Return(p)
      BY <1>6, <2>4 DEF WipeKey
    <3> QED
      BY <2>2, <3>1, ReturnWrite DEF WriteInv
  <2> QED
    BY <2>3, <2>4
<1>7. CASE WipeCredential(p)
  <2>1. UNCHANGED keys /\ \A q \in Procs : pc'[q] = "wipeAcct"
    BY <1>7 DEF WipeCredential, Single, TypeOK
  <2> QED
    BY <2>1 DEF WriteInv, Write, WriteAccount, WriteBind, WriteCredential, WriteKey
<1> QED
  BY <1>1, <1>2, <1>3, <1>4, <1>5, <1>6, <1>7 DEF FileOps, RenameAccount

\* Every step of one process whose file operations do not fail keeps the
\* pending writes right.
LEMMA NextWrite ==
    ASSUME TypeOK, StructInv, CredInv', WriteInv, Single, [Next]_vars
    PROVE  WriteInv'
<1>1. CASE UNCHANGED vars
  BY <1>1 DEF vars, WriteInv, Write, WriteAccount, WriteBind, WriteCredential, WriteKey
<1>2. ASSUME NEW p \in Procs, Crash(p) \/ FileError(p)
      PROVE  WriteInv'
  <2>1. Return(p) /\ UNCHANGED keys
    BY <1>2 DEF Crash, FileError, files
  <2> QED
    BY <2>1, ReturnWrite DEF WriteInv
<1>3. ASSUME NEW t \in Tokens, Revoke(t)
      PROVE  WriteInv'
  BY <1>3 DEF Revoke, files, WriteInv, Write, WriteAccount, WriteBind, WriteCredential,
              WriteKey
<1> QED
  BY <1>1, <1>2, <1>3, AccountOpsWrite, SessionOpsWrite, FileOpsWrite DEF Next

\* In an empty directory nothing is to be written.
LEMMA InitWrite == Init => WriteInv
  BY DEF Init, WriteInv, Write, WriteAccount, WriteBind, WriteCredential, WriteKey, NoKey

\* The keys and bindings of the directory are those of the store.
LEMMA SameViews ==
    /\ \A a : Dir!KeysOf(a) = KeysOf(a)
    /\ \A u : Dir!Bound(u) = {a \in Accounts : accounts[a].exists /\ accounts[a].user = u}
    /\ Dir!NoAccount = NoAccount /\ Dir!NoKey = NoKey /\ Dir!NoCredential = NoCredential
  BY DEF Dir!KeysOf, KeysOf, Dir!Bound, Dir!NoAccount, Dir!NoKey, Dir!NoCredential,
         NoAccount, NoKey, NoCredential

\* An account that does not exist has neither keys nor a credential.
LEMMA NothingWithout ==
    ASSUME StructInv, NEW a \in Accounts, ~accounts[a].exists
    PROVE  ~creds[a].exists /\ KeysOf(a) = {}
  BY DEF StructInv, Linked, KeysOf

\* Two account records with the same fields are the same record.
LEMMA AccountRecordsEqual ==
    ASSUME NEW r \in AccountRecord, NEW x, NEW u, NEW b, NEW e,
           r.exists = x, r.user = u, r.bind = b, r.enabled = e
    PROVE  r = [exists |-> x, user |-> u, bind |-> b, enabled |-> e]
  BY DEF AccountRecord

\* So are two key records.
LEMMA KeyRecordsEqual ==
    ASSUME NEW r \in KeyRecord, NEW x, NEW a, NEW e,
           r.exists = x, r.acct = a, r.enabled = e
    PROVE  r = [exists |-> x, acct |-> a, enabled |-> e]
  BY DEF KeyRecord

\* And two credential records.
LEMMA CredentialRecordsEqual ==
    ASSUME NEW r \in CredentialRecord, NEW x, NEW g, NEW s, NEW t,
           r.exists = x, r.gen = g, r.state = s, r.token = t
    PROVE  r = [exists |-> x, gen |-> g, state |-> s, token |-> t]
  BY DEF CredentialRecord

\* The account write of AddAccount, LookupOrCreateAccountByCoderID and
\* SetAccountEnabled creates a whole account or enables or disables one.
LEMMA AccountWriteImplements ==
    ASSUME TypeOK, StructInv, WriteInv, NEW p \in Procs, RenameAccount(p), pc[p] = "acct"
    PROVE  Dir!DirNext
<1> DEFINE a == reg[p].acct
           r == reg[p].arec
<1>1. /\ a \in Accounts /\ r \in AccountRecord /\ r.exists = TRUE
      /\ accounts[a].exists => r.user = accounts[a].user
      /\ FreeFor(r.user, a)
  BY DEF StructInv, Pending, PendingAccount, TypeOK, Locals, AccountRecord
<1>2. /\ accounts[a].exists => r.bind = accounts[a].bind
      /\ ~accounts[a].exists => r.enabled = TRUE /\ r.bind = (r.user = None)
  BY DEF WriteInv, Write, WriteAccount
<1>3. accounts' = [accounts EXCEPT ![a] = r] /\ UNCHANGED <<keys, creds>>
  BY DEF RenameAccount
<1>4. accounts[a] \in AccountRecord /\ accounts \in [Accounts -> AccountRecord]
  BY <1>1 DEF TypeOK
<1>5. r.user \in Users \cup {None} /\ r.enabled \in BOOLEAN /\ r.bind \in BOOLEAN
  BY <1>1 DEF AccountRecord
<1> HIDE DEF a, r
<1>6. CASE accounts[a].exists
  <2>1. r = [accounts[a] EXCEPT !.enabled = r.enabled]
    BY <1>1, <1>2, <1>4, <1>6 DEF AccountRecord
  <2>2. accounts' = [accounts EXCEPT ![a].enabled = r.enabled]
    BY <1>3, <1>4, <2>1
  <2>3. Dir!EnableAccount(a, r.enabled)
    BY <1>3, <1>6, <2>2 DEF Dir!EnableAccount
  <2> QED
    BY <1>1, <1>5, <2>3 DEF Dir!DirNext
<1>7. CASE ~accounts[a].exists
  <2>1. ~creds[a].exists /\ Dir!KeysOf(a) = {}
    BY <1>1, <1>7, NothingWithout, SameViews
  <2>2. r.user # None => Dir!Bound(r.user) = {}
    BY <1>1, <1>7, SameViews DEF FreeFor
  <2>3. r = [exists |-> TRUE, user |-> r.user, bind |-> r.bind, enabled |-> TRUE]
    BY <1>1, <1>2, <1>7, AccountRecordsEqual
  <2>4. Dir!CreateAccount(a, r.user, r.bind)
    BY <1>3, <1>7, <2>1, <2>2, <2>3 DEF Dir!CreateAccount
  <2>5. CASE r.user = None
    <3>1. Dir!CreateAccount(a, None, TRUE)
      BY <1>2, <1>7, <2>4, <2>5
    <3> QED
      BY <1>1, <3>1 DEF Dir!DirNext
  <2>6. CASE r.user # None
    <3>1. r.bind = FALSE /\ r.user \in Users
      BY <1>2, <1>5, <1>7, <2>6
    <3>2. Dir!CreateAccount(a, r.user, FALSE)
      BY <2>4, <3>1
    <3> QED
      BY <1>1, <3>1, <3>2 DEF Dir!DirNext
  <2> QED
    BY <2>5, <2>6
<1> QED
  BY <1>6, <1>7

\* The account write of ReplaceCredential binds an unbound account, or changes
\* nothing.
LEMMA BindWriteImplements ==
    ASSUME TypeOK, StructInv, WriteInv, NEW p \in Procs, RenameAccount(p), pc[p] = "bind"
    PROVE  Dir!DirNext \/ UNCHANGED <<accounts, keys, creds>>
<1> DEFINE a == reg[p].acct
           r == reg[p].arec
<1>1. /\ a \in Accounts /\ r \in AccountRecord /\ r.exists = TRUE
      /\ accounts[a].exists = TRUE
      /\ accounts[a].user # None => r.user = accounts[a].user
      /\ r.user \in Users
      /\ FreeFor(r.user, a)
  BY StoreAssumption DEF StructInv, Pending, PendingBind, TypeOK, Locals, AccountRecord
<1>2. /\ accounts[a].enabled
      /\ r.bind = accounts[a].bind /\ r.enabled = accounts[a].enabled
      /\ accounts[a].user = None => accounts[a].bind
  BY DEF WriteInv, Write, WriteBind
<1>3. accounts' = [accounts EXCEPT ![a] = r] /\ UNCHANGED <<keys, creds>>
  BY DEF RenameAccount
<1>4. accounts[a] \in AccountRecord /\ accounts \in [Accounts -> AccountRecord]
  BY <1>1 DEF TypeOK
<1> HIDE DEF a, r
<1>5. r = [accounts[a] EXCEPT !.user = r.user]
  BY <1>1, <1>2, <1>4 DEF AccountRecord
<1>6. CASE accounts[a].user = None
  <2>1. Dir!Bound(r.user) = {}
    BY <1>1, <1>6, SameViews, StoreAssumption DEF FreeFor
  <2>2. accounts' = [accounts EXCEPT ![a].user = r.user]
    BY <1>3, <1>4, <1>5
  <2>3. Dir!BindAccount(a, r.user)
    BY <1>1, <1>2, <1>3, <1>6, <2>1, <2>2 DEF Dir!BindAccount
  <2> QED
    BY <1>1, <2>3 DEF Dir!DirNext
<1>7. CASE accounts[a].user # None
  <2>1. r = accounts[a]
    BY <1>1, <1>4, <1>5, <1>7 DEF AccountRecord
  <2>2. accounts' = accounts
    BY <1>3, <1>4, <2>1
  <2> QED
    BY <1>3, <2>2
<1> QED
  BY <1>6, <1>7

\* A credential write puts a token, clears it or marks it.
LEMMA CredentialWriteImplements ==
    ASSUME TypeOK, StructInv, WriteInv, NEW p \in Procs, RenameCredential(p)
    PROVE  Dir!DirNext
<1> DEFINE a == reg[p].acct
           r == reg[p].crec
<1>1. /\ a \in Accounts /\ r \in CredentialRecord /\ r.exists = TRUE
      /\ accounts[a].exists
      /\ r.token # None => accounts[a].user = Owner[r.token]
  BY DEF StructInv, Pending, PendingCredential, TypeOK, Locals, RenameCredential,
         CredentialRecord
<1>2. WriteCredential("cred", reg[p])
  BY DEF WriteInv, Write, RenameCredential
<1>3. creds' = [creds EXCEPT ![a] = r] /\ UNCHANGED <<accounts, keys>>
  BY DEF RenameCredential
<1>4. creds[a] \in CredentialRecord /\ creds \in [Accounts -> CredentialRecord]
  BY <1>1 DEF TypeOK
<1>5. \/ /\ r.token \in Tokens /\ r.state = "valid" /\ r.gen = creds[a].gen + 1
         /\ accounts[a].enabled
      \/ r.token = None /\ r.state = "missing" /\ r.gen = creds[a].gen + 1
      \/ /\ creds[a].exists /\ creds[a].token # None
         /\ r.token = creds[a].token /\ r.state = "invalid" /\ r.gen = creds[a].gen
  BY <1>2 DEF WriteCredential
<1> HIDE DEF a, r
<1>6. CASE /\ r.token \in Tokens /\ r.state = "valid" /\ r.gen = creds[a].gen + 1
           /\ accounts[a].enabled
  <2>1. r = [exists |-> TRUE, gen |-> creds[a].gen + 1, state |-> "valid",
             token |-> r.token]
    BY <1>1, <1>6, CredentialRecordsEqual
  <2>2. accounts[a].user = Owner[r.token]
    BY <1>1, <1>6, StoreAssumption
  <2>3. Dir!PutCredential(a, r.token)
    BY <1>1, <1>3, <1>6, <2>1, <2>2 DEF Dir!PutCredential
  <2> QED
    BY <1>1, <1>6, <2>3 DEF Dir!DirNext
<1>7. CASE r.token = None /\ r.state = "missing" /\ r.gen = creds[a].gen + 1
  <2>1. r = [exists |-> TRUE, gen |-> creds[a].gen + 1, state |-> "missing",
             token |-> None]
    BY <1>1, <1>7, CredentialRecordsEqual
  <2>2. Dir!ClearCredential(a)
    BY <1>1, <1>3, <2>1 DEF Dir!ClearCredential
  <2> QED
    BY <1>1, <2>2 DEF Dir!DirNext
<1>8. CASE /\ creds[a].exists /\ creds[a].token # None
           /\ r.token = creds[a].token /\ r.state = "invalid" /\ r.gen = creds[a].gen
  <2>1. r = [creds[a] EXCEPT !.state = "invalid"]
    BY <1>1, <1>4, <1>8 DEF CredentialRecord
  <2>2. creds' = [creds EXCEPT ![a].state = "invalid"]
    BY <1>3, <1>4, <2>1
  <2>3. Dir!MarkInvalid(a)
    BY <1>3, <1>8, <2>2 DEF Dir!MarkInvalid
  <2> QED
    BY <1>1, <2>3 DEF Dir!DirNext
<1> QED
  BY <1>5, <1>6, <1>7, <1>8

\* The key write of AddKey and SetKeyEnabled links a free key or enables or
\* disables a linked one.
LEMMA KeyWriteImplements ==
    ASSUME TypeOK, StructInv, WriteInv, NEW p \in Procs, RenameKey(p)
    PROVE  Dir!DirNext
<1> DEFINE k == reg[p].key
           r == reg[p].krec
<1>1. /\ k \in Keys /\ r \in KeyRecord /\ r.exists = TRUE
      /\ r.acct \in Accounts /\ accounts[r.acct].exists
      /\ keys[k].exists => keys[k].acct = r.acct
  BY DEF StructInv, Pending, PendingKey, TypeOK, Locals, RenameKey, KeyRecord
<1>2. keys[k].exists \/ r.enabled = TRUE
  BY DEF WriteInv, Write, WriteKey, RenameKey
<1>3. keys' = [keys EXCEPT ![k] = r] /\ UNCHANGED <<accounts, creds>>
  BY DEF RenameKey
<1>4. /\ keys[k] \in KeyRecord /\ keys \in [Keys -> KeyRecord]
      /\ r.enabled \in BOOLEAN
  BY <1>1 DEF TypeOK, KeyRecord
<1> HIDE DEF k, r
<1>5. CASE keys[k].exists
  <2>1. r = [keys[k] EXCEPT !.enabled = r.enabled]
    BY <1>1, <1>4, <1>5 DEF KeyRecord
  <2>2. keys' = [keys EXCEPT ![k].enabled = r.enabled]
    BY <1>3, <1>4, <2>1
  <2>3. Dir!EnableKey(k, r.enabled)
    BY <1>3, <1>5, <2>2 DEF Dir!EnableKey
  <2> QED
    BY <1>1, <1>4, <2>3 DEF Dir!DirNext
<1>6. CASE ~keys[k].exists
  <2>1. r = [exists |-> TRUE, acct |-> r.acct, enabled |-> TRUE]
    BY <1>1, <1>2, <1>6, KeyRecordsEqual
  <2>2. Dir!LinkKey(k, r.acct)
    BY <1>1, <1>3, <1>6, <2>1 DEF Dir!LinkKey
  <2> QED
    BY <1>1, <2>2 DEF Dir!DirNext
<1> QED
  BY <1>5, <1>6

\* An unlink, of DeleteKey or of the cascade, removes one file in the order
\* the directory allows, or finds nothing to remove.
LEMMA UnlinkImplements ==
    ASSUME TypeOK, StructInv, WriteInv, NEW p \in Procs,
           \/ UnlinkKey(p) \/ WipeCredential(p) \/ WipeAccount(p)
           \/ \E k \in Keys : WipeKey(p, k)
    PROVE  Dir!DirNext \/ UNCHANGED <<accounts, keys, creds>>
<1> DEFINE a == reg[p].acct
<1>0. Pending(pc[p], reg[p], used) /\ Write(pc[p], reg[p])
  BY DEF StructInv, WriteInv
<1>1. CASE UnlinkKey(p)
  <2> DEFINE k == reg[p].key
  <2>1. k \in Keys /\ keys[k].exists
    BY <1>0, <1>1 DEF Pending, PendingKey, Write, WriteKey, UnlinkKey
  <2>2. keys' = [keys EXCEPT ![k] = NoKey] /\ UNCHANGED <<accounts, creds>>
    BY <1>1 DEF UnlinkKey
  <2>3. Dir!UnlinkKey(k)
    BY <2>1, <2>2, SameViews DEF Dir!UnlinkKey
  <2> QED
    BY <2>1, <2>3 DEF Dir!DirNext
<1>2. ASSUME NEW k \in Keys, WipeKey(p, k)
      PROVE  Dir!DirNext \/ UNCHANGED <<accounts, keys, creds>>
  <2>1. UNCHANGED <<accounts, creds>>
    BY <1>2 DEF WipeKey
  <2>2. keys' = IF keys[k].acct = a THEN [keys EXCEPT ![k] = NoKey] ELSE keys
    BY <1>2 DEF WipeKey
  <2>3. CASE keys[k].exists /\ keys[k].acct = a
    <3>1. Dir!UnlinkKey(k)
      BY <2>1, <2>2, <2>3, SameViews DEF Dir!UnlinkKey
    <3> QED
      BY <3>1 DEF Dir!DirNext
  <2>4. CASE ~keys[k].exists
    <3>1. keys[k] = NoKey
      BY <2>4 DEF WriteInv
    <3>2. keys' = keys
      BY <2>2, <3>1 DEF TypeOK
    <3> QED
      BY <2>1, <3>2
  <2>5. CASE keys[k].acct # a
    BY <2>1, <2>2, <2>5
  <2> QED
    BY <2>3, <2>4, <2>5
<1>3. CASE WipeCredential(p)
  <2>1. a \in Accounts /\ KeysOf(a) = {}
    BY <1>0, <1>3 DEF Pending, PendingWipe, WipeCredential
  <2>2. creds' = [creds EXCEPT ![a] = NoCredential] /\ UNCHANGED <<accounts, keys>>
    BY <1>3 DEF WipeCredential
  <2>3. CASE creds[a].exists
    <3>1. Dir!DropCredential(a)
      BY <2>1, <2>2, <2>3, SameViews DEF Dir!DropCredential
    <3> QED
      BY <2>1, <3>1 DEF Dir!DirNext
  <2>4. CASE ~creds[a].exists
    <3>1. creds[a] = NoCredential
      BY <2>1, <2>4 DEF StructInv, Linked
    <3>2. creds' = creds
      BY <2>1, <2>2, <3>1 DEF TypeOK
    <3> QED
      BY <2>2, <3>2
  <2> QED
    BY <2>3, <2>4
<1>4. CASE WipeAccount(p)
  <2>1. a \in Accounts /\ accounts[a].exists /\ ~creds[a].exists /\ KeysOf(a) = {}
    BY <1>0, <1>4 DEF Pending, PendingWipe, WipeAccount
  <2>2. accounts' = [accounts EXCEPT ![a] = NoAccount] /\ UNCHANGED <<keys, creds>>
    BY <1>4 DEF WipeAccount
  <2>3. Dir!DropAccount(a)
    BY <2>1, <2>2, SameViews DEF Dir!DropAccount
  <2> QED
    BY <2>1, <2>3 DEF Dir!DirNext
<1> QED
  BY <1>1, <1>2, <1>3, <1>4

\* Every step of the store is a step of the directory or leaves it alone.
LEMMA StepImplements ==
    ASSUME TypeOK, StructInv, WriteInv, [Next]_vars
    PROVE  [Dir!DirNext]_(Dir!dirVars)
<1> USE DEF Dir!dirVars
<1>1. CASE UNCHANGED vars
  BY <1>1 DEF vars
<1>2. ASSUME NEW p \in Procs, AccountOps(p)
      PROVE  UNCHANGED <<accounts, keys, creds>>
  BY <1>2 DEF AccountOps, AddAccount, RefreshUsername, CreateAccount, SetAccountEnabled,
              DeleteAccount, AddKey, DeleteKey, SetKeyEnabled, Begin, files
<1>3. ASSUME NEW s \in Sessions, SessionOps(s)
      PROVE  UNCHANGED <<accounts, keys, creds>>
  BY <1>3 DEF SessionOps, LoadCredential, ReplaceCredential, MarkCredentialInvalid,
              ClearCredential, Begin, files
<1>4. ASSUME NEW p \in Procs, Crash(p) \/ FileError(p)
      PROVE  UNCHANGED <<accounts, keys, creds>>
  BY <1>4 DEF Crash, FileError, files
<1>5. ASSUME NEW t \in Tokens, Revoke(t)
      PROVE  UNCHANGED <<accounts, keys, creds>>
  BY <1>5 DEF Revoke, files
<1>6. ASSUME NEW p \in Procs, FileOps(p)
      PROVE  Dir!DirNext \/ UNCHANGED <<accounts, keys, creds>>
  <2>1. CASE RenameAccount(p)
    <3>1. pc[p] = "acct" \/ pc[p] = "bind"
      BY <2>1 DEF RenameAccount
    <3> QED
      BY <2>1, <3>1, AccountWriteImplements, BindWriteImplements
  <2> QED
    BY <1>6, <2>1, KeyWriteImplements, CredentialWriteImplements, UnlinkImplements
       DEF FileOps
<1> QED
  BY <1>1, <1>2, <1>3, <1>4, <1>5, <1>6 DEF Next

\* With one process whose file operations do not fail, whatever crashes, the
\* files under the state directory are the abstract directory: every rename
\* and unlink of every operation is one step of it, made in a state that
\* allows it, although its checks were made some steps earlier.
THEOREM StoreImplementsDirectory ==
    Single /\ "io" \notin Faults => (Spec => ImplementsDirectory)
<1> SUFFICES ASSUME Single, "io" \notin Faults PROVE Spec => ImplementsDirectory
  OBVIOUS
<1> DEFINE WInv == TypeOK /\ StructInv /\ CredInv /\ WriteInv
<1>1. Init => WInv
  BY InitType, InitStruct, InitCred, InitWrite
<1>2. WInv /\ [Next]_vars => WInv'
  BY NextType, NextStruct, NextCred, NextWrite
<1>3. Init => Dir!Empty
  BY SameViews DEF Init, Dir!Empty
<1>4. WInv /\ [Next]_vars => [Dir!DirNext]_(Dir!dirVars)
  BY StepImplements
<1> QED
  BY <1>1, <1>2, <1>3, <1>4, PTL DEF Spec, ImplementsDirectory, Dir!DirSpec
=============================================================================
