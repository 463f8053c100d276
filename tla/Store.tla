------------------------------- MODULE Store -------------------------------
(***************************************************************************)
(* The flat-file state store (internal/store): one JSON file per account,  *)
(* per key and per credential, shared by any number of processes.          *)
(*                                                                         *)
(* Inside a process a mutex serialises the operations, so a process runs   *)
(* at most one mutation at a time: pc[p] is how far that mutation has got  *)
(* and reg[p] holds what it has read and is about to write.  An operation  *)
(* is one action that reads, checks and decides (its early returns are the *)
(* guards: a refused call changes nothing), followed by one action per     *)
(* file it renames or unlinks.  Nothing orders the steps of two processes: *)
(* the flock is shared and advisory.                                       *)
(*                                                                         *)
(* Abstracted away: one deployment; labels, user names, time stamps and    *)
(* key material; ciphertext, nonce and key version, which are one `token'  *)
(* field sealed for the (account, generation) of its record.               *)
(***************************************************************************)
EXTENDS Naturals

CONSTANTS
    Accounts,   \* account ids (fresh UUIDs: never handed out twice)
    Keys,       \* SSH public keys, each with its digest as file name
    Users,      \* Coder identities
    Tokens,     \* Coder session tokens
    Owner,      \* Owner[t] is the identity the control plane reports for t
    Procs,      \* processes that have the state directory open
    Sessions,   \* goroutines and admin commands that use the store
    Home,       \* Home[s] is the process session s runs in
    Faults,     \* the failures a run admits: a subset of {"crash", "io"}
    MaxGen,     \* bound on credential generations
    None        \* no identity, no token, no account

ASSUME StoreAssumption ==
    /\ Owner \in [Tokens -> Users]
    /\ Home \in [Sessions -> Procs]
    /\ MaxGen \in Nat
    /\ None \notin Accounts \cup Keys \cup Users \cup Tokens

VARIABLES
    accounts,   \* accounts/<id>.json
    keys,       \* keys/<digest>.json
    creds,      \* credentials/<id>.json
    pc,         \* pc[p]: the next file operation of the mutation p runs
    reg,        \* reg[p]: the locals of that mutation
    snap,       \* snap[s]: the last credential snapshot session s loaded
    revoked,    \* tokens the control plane answers with 401
    used,       \* history: account ids ever handed out
    deleted,    \* history: accounts whose DeleteAccount ran to its end
    wiped       \* history: accounts whose credential a cascade removed and
                \* to which no key has been linked since

files == <<accounts, keys, creds>>
vars == <<accounts, keys, creds, pc, reg, snap, revoked, used, deleted, wiped>>

-----------------------------------------------------------------------------
(* Records.  A file that does not exist is the record with exists = FALSE. *)

AccountRecord == [exists: BOOLEAN, user: Users \cup {None}, bind: BOOLEAN,
                  enabled: BOOLEAN]

KeyRecord == [exists: BOOLEAN, acct: Accounts \cup {None}, enabled: BOOLEAN]

CredentialState == {"missing", "valid", "invalid"}

CredentialRecord == [exists: BOOLEAN, gen: Nat, state: CredentialState,
                     token: Tokens \cup {None}]

\* What a caller keeps of a snapshot: whose it is, its generation, its token.
Snapshot == [acct: Accounts \cup {None}, gen: Nat, token: Tokens \cup {None}]

NoAccount == [exists |-> FALSE, user |-> None, bind |-> FALSE, enabled |-> FALSE]
NoKey == [exists |-> FALSE, acct |-> None, enabled |-> FALSE]

\* The record loadCredentialRecordLocked synthesises when there is no file.
NoCredential == [exists |-> FALSE, gen |-> 0, state |-> "missing", token |-> None]

NoSnapshot == [acct |-> None, gen |-> 0, token |-> None]

\* Where a mutation stands: idle (mutex free), or the file operation it does
\* next.  "bind" is the account rename of ReplaceCredential, which "cred"
\* follows; the "wipe" steps are the cascade of DeleteAccount.
Step == {"idle", "acct", "key", "cred", "bind", "unlinkKey",
         "wipeKeys", "wipeAcct"}

Locals == [acct: Accounts \cup {None}, key: Keys \cup {None}, todo: SUBSET Keys,
           arec: AccountRecord, krec: KeyRecord, crec: CredentialRecord]

NoLocals == [acct |-> None, key |-> None, todo |-> {}, arec |-> NoAccount,
             krec |-> NoKey, crec |-> NoCredential]

\* validateCredentialRecord: state is missing iff there is no ciphertext.
ValidRecord(rec) == (rec.state = "missing") <=> (rec.token = None)

\* Mutants of the helpers below: a duplicate scan that finds nothing, a bump
\* that is forgotten or goes the wrong way, a compare-and-swap that does not
\* compare, an identity that is not checked, a cascade that does not see the
\* keys.
NeverBound(u, a) == FALSE
SameGeneration(rec) == rec.gen
PreviousGeneration(rec) == rec.gen - 1
AnyGeneration(s, a) == TRUE
AnyIdentity(a, u) == TRUE
NoEntries == {}

\* checkDuplicateCoderUserLocked: some other account is bound to u.
BoundElsewhere(u, a) ==
    \E b \in Accounts \ {a} : accounts[b].exists /\ accounts[b].user = u

\* The generation of the record that replaces rec.
NextGeneration(rec) == rec.gen + 1

\* The compare of the compare-and-swap: the record still has the generation
\* that session s captured.
GenerationMatches(s, a) == creds[a].gen = snap[s].gen

\* The identity rules: a bound account takes tokens of its own user only, an
\* unbound one binds only if it was created to.
IdentityAllowed(a, u) ==
    IF accounts[a].user = None THEN accounts[a].bind ELSE accounts[a].user = u

\* No key file has the digest of k yet.
DigestFree(k) == ~keys[k].exists

\* The directory entries DeleteAccount goes through.
KeyEntries == {k \in Keys : keys[k].exists}

\* LookupByPublicKey succeeds for k and yields account a.
Authenticates(k, a) ==
    /\ keys[k].exists /\ keys[k].enabled /\ keys[k].acct = a
    /\ accounts[a].exists /\ accounts[a].enabled

-----------------------------------------------------------------------------
Init ==
    /\ accounts = [a \in Accounts |-> NoAccount]
    /\ keys = [k \in Keys |-> NoKey]
    /\ creds = [a \in Accounts |-> NoCredential]
    /\ pc = [p \in Procs |-> "idle"]
    /\ reg = [p \in Procs |-> NoLocals]
    /\ snap = [s \in Sessions |-> NoSnapshot]
    /\ revoked = {}
    /\ used = {}
    /\ deleted = {}
    /\ wiped = {}

\* A mutation that passed its checks holds the mutex and goes on at `step'.
Begin(p, step, locals) ==
    /\ pc[p] = "idle"
    /\ pc' = [pc EXCEPT ![p] = step]
    /\ reg' = [reg EXCEPT ![p] = locals]
    /\ UNCHANGED <<files, snap, revoked, deleted, wiped>>

\* A mutation returns and releases the mutex.
Return(p) ==
    /\ pc' = [pc EXCEPT ![p] = "idle"]
    /\ reg' = [reg EXCEPT ![p] = NoLocals]

-----------------------------------------------------------------------------
(* Accounts *)

\* AddAccount: `user' is None exactly for an account that binds on its first
\* token (accountAdd takes one of --coder-user-id and --bind-on-first-token).
AddAccount(p, a, user) ==
    /\ a \notin used
    /\ ~accounts[a].exists
    /\ user # None => ~BoundElsewhere(user, None)
    /\ Begin(p, "acct", [NoLocals EXCEPT
                !.acct = a,
                !.arec = [exists |-> TRUE, user |-> user, bind |-> user = None,
                          enabled |-> TRUE]])
    /\ used' = used \cup {a}

\* LookupOrCreateAccountByCoderID on an account bound to u: the record that
\* was read is written back when the user name changed.
RefreshUsername(p, a, u) ==
    /\ accounts[a].exists /\ accounts[a].user = u
    /\ Begin(p, "acct", [NoLocals EXCEPT !.acct = a, !.arec = accounts[a]])
    /\ UNCHANGED used

\* LookupOrCreateAccountByCoderID when no account is bound to u.
CreateAccount(p, a, u) ==
    /\ a \notin used
    /\ ~BoundElsewhere(u, None)
    /\ Begin(p, "acct", [NoLocals EXCEPT
                !.acct = a,
                !.arec = [exists |-> TRUE, user |-> u, bind |-> FALSE,
                          enabled |-> TRUE]])
    /\ used' = used \cup {a}

SetAccountEnabled(p, a, enabled) ==
    /\ accounts[a].exists
    /\ Begin(p, "acct", [NoLocals EXCEPT
                !.acct = a, !.arec = [accounts[a] EXCEPT !.enabled = enabled]])
    /\ UNCHANGED used

\* DeleteAccount reads the account and lists the keys directory; the cascade
\* follows as WipeKey, WipeCredential and WipeAccount.
DeleteAccount(p, a) ==
    /\ accounts[a].exists
    /\ Begin(p, "wipeKeys", [NoLocals EXCEPT
                !.acct = a, !.todo = KeyEntries])
    /\ UNCHANGED used

-----------------------------------------------------------------------------
(* Keys *)

AddKey(p, a, k) ==
    /\ accounts[a].exists
    /\ DigestFree(k)
    /\ Begin(p, "key", [NoLocals EXCEPT
                !.key = k,
                !.krec = [exists |-> TRUE, acct |-> a, enabled |-> TRUE]])
    /\ UNCHANGED used

SetKeyEnabled(p, k, enabled) ==
    /\ keys[k].exists
    /\ Begin(p, "key", [NoLocals EXCEPT
                !.key = k, !.krec = [keys[k] EXCEPT !.enabled = enabled]])
    /\ UNCHANGED used

\* DeleteKey is scoped to the account: another account's key is not found.
DeleteKey(p, a, k) ==
    /\ keys[k].exists
    /\ keys[k].acct = a
    /\ Begin(p, "unlinkKey", [NoLocals EXCEPT !.key = k])
    /\ UNCHANGED used

-----------------------------------------------------------------------------
(* Credentials *)

\* LoadCredential (and LoadCredentialRecord): a missing record is a state, a
\* record that fails validation or has no account is an error.  The read lock
\* waits for the process's own mutation only.
LoadCredential(s, a) ==
    /\ pc[Home[s]] = "idle"
    /\ ValidRecord(creds[a])
    /\ creds[a].token # None => accounts[a].exists
    /\ snap' = [snap EXCEPT ![s] = [acct |-> a, gen |-> creds[a].gen,
                                    token |-> creds[a].token]]
    /\ UNCHANGED <<files, pc, reg, revoked, used, deleted, wiped>>

\* ReplaceCredential with the generation session s captured and a token t the
\* control plane accepted as Owner[t]'s.
ReplaceCredential(s, t) ==
    LET p == Home[s]
        a == snap[s].acct
    IN  /\ a # None
        /\ accounts[a].exists
        /\ accounts[a].enabled
        /\ IdentityAllowed(a, Owner[t])
        /\ ValidRecord(creds[a])
        /\ GenerationMatches(s, a)
        /\ creds[a].gen < MaxGen
        /\ ~BoundElsewhere(Owner[t], a)
        /\ Begin(p, "bind", [NoLocals EXCEPT
                    !.acct = a,
                    !.arec = [accounts[a] EXCEPT !.user = Owner[t]],
                    !.crec = [exists |-> TRUE, gen |-> NextGeneration(creds[a]),
                              state |-> "valid", token |-> t]])
        /\ UNCHANGED used

\* MarkCredentialInvalid, as RecheckAfterFailure calls it: the token of the
\* snapshot was refused with 401 and its generation is marked.
MarkCredentialInvalid(s) ==
    LET a == snap[s].acct
    IN  /\ a # None
        /\ snap[s].token # None
        /\ snap[s].token \in revoked
        /\ creds[a].exists
        /\ ValidRecord(creds[a])
        /\ GenerationMatches(s, a)
        /\ Begin(Home[s], "cred", [NoLocals EXCEPT
                    !.acct = a,
                    !.crec = [creds[a] EXCEPT !.state = "invalid"]])
        /\ UNCHANGED used

\* ClearCredential leaves a tombstone of the next generation.
ClearCredential(s) ==
    LET a == snap[s].acct
    IN  /\ a # None
        /\ accounts[a].exists
        /\ ValidRecord(creds[a])
        /\ GenerationMatches(s, a)
        /\ creds[a].gen < MaxGen
        /\ Begin(Home[s], "cred", [NoLocals EXCEPT
                    !.acct = a,
                    !.crec = [exists |-> TRUE, gen |-> NextGeneration(creds[a]),
                              state |-> "missing", token |-> None]])
        /\ UNCHANGED used

-----------------------------------------------------------------------------
(* File operations: each rename and each unlink is atomic on its own. *)

\* writeRecord(accounts/...): the last step of a mutation, or the first write
\* of ReplaceCredential.
RenameAccount(p) ==
    /\ pc[p] \in {"acct", "bind"}
    /\ accounts' = [accounts EXCEPT ![reg[p].acct] = reg[p].arec]
    /\ IF pc[p] = "bind"
       THEN /\ pc' = [pc EXCEPT ![p] = "cred"]
            /\ UNCHANGED reg
       ELSE Return(p)
    /\ UNCHANGED <<keys, creds, snap, revoked, used, deleted, wiped>>

RenameKey(p) ==
    /\ pc[p] = "key"
    /\ keys' = [keys EXCEPT ![reg[p].key] = reg[p].krec]
    /\ wiped' = wiped \ {reg[p].krec.acct}
    /\ Return(p)
    /\ UNCHANGED <<accounts, creds, snap, revoked, used, deleted>>

RenameCredential(p) ==
    /\ pc[p] = "cred"
    /\ creds' = [creds EXCEPT ![reg[p].acct] = reg[p].crec]
    /\ Return(p)
    /\ UNCHANGED <<accounts, keys, snap, revoked, used, deleted, wiped>>

UnlinkKey(p) ==
    /\ pc[p] = "unlinkKey"
    /\ keys' = [keys EXCEPT ![reg[p].key] = NoKey]
    /\ Return(p)
    /\ UNCHANGED <<accounts, creds, snap, revoked, used, deleted, wiped>>

\* One directory entry of the cascade: a key of another account is passed
\* over, a file a peer removed meanwhile makes DeleteAccount fail.
WipeKey(p, k) ==
    /\ pc[p] = "wipeKeys"
    /\ k \in reg[p].todo
    /\ keys' = IF keys[k].acct = reg[p].acct
               THEN [keys EXCEPT ![k] = NoKey] ELSE keys
    /\ IF keys[k].exists
       THEN /\ reg' = [reg EXCEPT ![p].todo = @ \ {k}]
            /\ UNCHANGED pc
       ELSE Return(p)
    /\ UNCHANGED <<accounts, creds, snap, revoked, used, deleted, wiped>>

\* The keys are gone: the credential file, if there is one, goes next.
WipeCredential(p) ==
    /\ pc[p] = "wipeKeys"
    /\ reg[p].todo = {}
    /\ creds' = [creds EXCEPT ![reg[p].acct] = NoCredential]
    /\ wiped' = wiped \cup {reg[p].acct}
    /\ pc' = [pc EXCEPT ![p] = "wipeAcct"]
    /\ UNCHANGED <<accounts, keys, reg, snap, revoked, used, deleted>>

\* The account record goes last; a missing file is an error.
WipeAccount(p) ==
    /\ pc[p] = "wipeAcct"
    /\ accounts' = [accounts EXCEPT ![reg[p].acct] = NoAccount]
    /\ deleted' = IF accounts[reg[p].acct].exists
                  THEN deleted \cup {reg[p].acct} ELSE deleted
    /\ Return(p)
    /\ UNCHANGED <<keys, creds, snap, revoked, used, wiped>>

-----------------------------------------------------------------------------
(* The environment *)

\* The process dies: the files stay, the mutation and the sessions are gone.
\* A restarted process opens the directory as it finds it.
Crash(p) ==
    /\ "crash" \in Faults
    /\ Return(p)
    /\ snap' = [s \in Sessions |-> IF Home[s] = p THEN NoSnapshot ELSE snap[s]]
    /\ UNCHANGED <<files, revoked, used, deleted, wiped>>

\* A file operation fails: the mutation returns the error, its sessions go on.
\* (A failure after the rename, in the directory fsync, is the rename step
\* followed by this one.)
FileError(p) ==
    /\ "io" \in Faults
    /\ pc[p] # "idle"
    /\ Return(p)
    /\ UNCHANGED <<files, snap, revoked, used, deleted, wiped>>

\* A token expires or is revoked at the control plane.
Revoke(t) ==
    /\ t \notin revoked
    /\ revoked' = revoked \cup {t}
    /\ UNCHANGED <<files, pc, reg, snap, used, deleted, wiped>>

-----------------------------------------------------------------------------
AccountOps(p) ==
    \/ \E a \in Accounts :
          \/ \E u \in Users \cup {None} : AddAccount(p, a, u)
          \/ \E u \in Users : RefreshUsername(p, a, u) \/ CreateAccount(p, a, u)
          \/ \E e \in BOOLEAN : SetAccountEnabled(p, a, e)
          \/ DeleteAccount(p, a)
          \/ \E k \in Keys : AddKey(p, a, k) \/ DeleteKey(p, a, k)
    \/ \E k \in Keys, e \in BOOLEAN : SetKeyEnabled(p, k, e)

SessionOps(s) ==
    \/ \E a \in Accounts : LoadCredential(s, a)
    \/ \E t \in Tokens : ReplaceCredential(s, t)
    \/ MarkCredentialInvalid(s)
    \/ ClearCredential(s)

FileOps(p) ==
    \/ RenameAccount(p)
    \/ RenameKey(p)
    \/ RenameCredential(p)
    \/ UnlinkKey(p)
    \/ \E k \in Keys : WipeKey(p, k)
    \/ WipeCredential(p)
    \/ WipeAccount(p)

Next ==
    \/ \E p \in Procs : AccountOps(p) \/ FileOps(p) \/ Crash(p) \/ FileError(p)
    \/ \E s \in Sessions : SessionOps(s)
    \/ \E t \in Tokens : Revoke(t)

Spec == Init /\ [][Next]_vars

\* The abstract directory, seen through the three file trees.
Dir == INSTANCE Directory WITH
           Accounts <- Accounts, Keys <- Keys, Users <- Users,
           Tokens <- Tokens, Owner <- Owner, None <- None,
           accounts <- accounts, keys <- keys, creds <- creds

-----------------------------------------------------------------------------
(* Properties.  They are claims about one process that may crash between   *)
(* any two file operations; the runs with two processes show which of them *)
(* the shared lock does not give.                                          *)

\* Every file, register and snapshot has its type, and a cascade knows whose
\* account it removes.
TypeOK ==
    /\ accounts \in [Accounts -> AccountRecord]
    /\ keys \in [Keys -> KeyRecord]
    /\ creds \in [Accounts -> CredentialRecord]
    /\ pc \in [Procs -> Step]
    /\ reg \in [Procs -> Locals]
    /\ \A p \in Procs : pc[p] \in {"wipeKeys", "wipeAcct"} => reg[p].acct \in Accounts
    /\ snap \in [Sessions -> Snapshot]
    /\ revoked \subseteq Tokens
    /\ used \subseteq Accounts
    /\ deleted \subseteq Accounts
    /\ wiped \subseteq Accounts

\* No operation ever leaves a record that validateCredentialRecord rejects:
\* such a record cannot be loaded, replaced or cleared any more.
RecordsValid == \A a \in Accounts : ValidRecord(creds[a])

\* A credential is marked invalid only if the control plane refused the very
\* token it holds: a 401 for an older token never hits a newer credential
\* (MarkCredentialInvalid, "a stale failure").
InvalidIsJustified ==
    \A a \in Accounts : creds[a].state = "invalid" => creds[a].token \in revoked

\* UNIQUE (deployment_id, coder_user_id): two accounts are never bound to one
\* Coder user, whatever way they got bound.
UniqueBinding ==
    \A a, b \in Accounts :
        accounts[a].exists /\ accounts[b].exists
            /\ accounts[a].user = accounts[b].user /\ accounts[a].user # None
        => a = b

\* The stored token is always one of the Coder user its account is bound to,
\* also after a crash between the two files ReplaceCredential writes.
CredentialMatchesBinding ==
    \A a \in Accounts :
        creds[a].token # None =>
            accounts[a].exists /\ accounts[a].user = Owner[creds[a].token]

\* When DeleteAccount has returned no file of the account is left, and none
\* comes back.
DeletedLeavesNothing ==
    \A a \in deleted :
        /\ ~accounts[a].exists
        /\ ~creds[a].exists
        /\ \A k \in Keys : ~(keys[k].exists /\ keys[k].acct = a)

\* DeleteAccount: "No state lets a key authenticate against a deleted account".
NoKeyAuthenticatesDeleted ==
    \A k \in Keys, a \in deleted : ~Authenticates(k, a)

\* "... or a wiped credential": once a cascade has removed the credential no
\* key of the account is left, wherever the cascade was cut off, until a key
\* is linked anew.
NoKeyAuthenticatesWiped ==
    \A k \in Keys, a \in wiped : ~Authenticates(k, a)

\* A credential file changes by a step to the next generation, or keeps its
\* generation and its token: a generation names one token.
GenerationAdvances ==
    [][\A a \in Accounts :
          creds[a].exists /\ creds'[a].exists /\ creds'[a] # creds[a] =>
              \/ creds'[a].gen = creds[a].gen + 1
              \/ creds'[a].gen = creds[a].gen /\ creds'[a].token = creds[a].token
      ]_vars

\* The store implements Directory: whatever step a crash cut an operation
\* short after, every rename and unlink is one of its steps, and what the
\* operation checked before it wrote still holds when it writes.  (Also after
\* I/O errors, as long as no other session has a snapshot from before one.)
ImplementsDirectory == Dir!DirSpec

\* A linked key never passes to another account without being deleted first.
KeyOwnerStable ==
    [][\A k \in Keys : keys[k].exists /\ keys'[k].exists =>
                            keys'[k].acct = keys[k].acct]_vars
=============================================================================
