----------------------------- MODULE Directory -----------------------------
(***************************************************************************)
(* What the state store promises its callers: a directory of accounts,     *)
(* keys and credentials that changes one file at a time, every change      *)
(* being one of the steps below and made in a state that allows it.  Store *)
(* (one process that may crash anywhere) is proved to implement it;        *)
(* DeviceKeys uses its steps as the calls that others make.                *)
(***************************************************************************)
EXTENDS Naturals

CONSTANTS
    Accounts, Keys, Users, Tokens,
    Owner,      \* Owner[t]: the identity the control plane reports for t
    None

VARIABLES
    accounts,   \* accounts[a]: [exists, user, bind, enabled]
    keys,       \* keys[k]: [exists, acct, enabled]
    creds       \* creds[a]: [exists, gen, state, token]

dirVars == <<accounts, keys, creds>>

NoAccount == [exists |-> FALSE, user |-> None, bind |-> FALSE, enabled |-> FALSE]
NoKey == [exists |-> FALSE, acct |-> None, enabled |-> FALSE]
NoCredential == [exists |-> FALSE, gen |-> 0, state |-> "missing", token |-> None]

Empty ==
    /\ accounts = [a \in Accounts |-> NoAccount]
    /\ keys = [k \in Keys |-> NoKey]
    /\ creds = [a \in Accounts |-> NoCredential]

\* The account that is bound to u, if there is one.
Bound(u) == {a \in Accounts : accounts[a].exists /\ accounts[a].user = u}

KeysOf(a) == {k \in Keys : keys[k].exists /\ keys[k].acct = a}

-----------------------------------------------------------------------------
\* A new account: nothing of its id is left over from earlier, and no other
\* account has its user.
CreateAccount(a, u, bind) ==
    /\ ~accounts[a].exists /\ ~creds[a].exists /\ KeysOf(a) = {}
    /\ u # None => Bound(u) = {}
    /\ accounts' = [accounts EXCEPT ![a] = [exists |-> TRUE, user |-> u,
                                            bind |-> bind, enabled |-> TRUE]]
    /\ UNCHANGED <<keys, creds>>

\* The first token of an unbound account names its user, once and for good.
BindAccount(a, u) ==
    /\ accounts[a].exists /\ accounts[a].enabled
    /\ accounts[a].user = None /\ accounts[a].bind
    /\ Bound(u) = {}
    /\ accounts' = [accounts EXCEPT ![a].user = u]
    /\ UNCHANGED <<keys, creds>>

EnableAccount(a, enabled) ==
    /\ accounts[a].exists
    /\ accounts' = [accounts EXCEPT ![a].enabled = enabled]
    /\ UNCHANGED <<keys, creds>>

\* The account record goes last of all.
DropAccount(a) ==
    /\ accounts[a].exists /\ ~creds[a].exists /\ KeysOf(a) = {}
    /\ accounts' = [accounts EXCEPT ![a] = NoAccount]
    /\ UNCHANGED <<keys, creds>>

\* A key is linked to an account that exists, and only while it is free.
LinkKey(k, a) ==
    /\ accounts[a].exists
    /\ ~keys[k].exists
    /\ keys' = [keys EXCEPT ![k] = [exists |-> TRUE, acct |-> a, enabled |-> TRUE]]
    /\ UNCHANGED <<accounts, creds>>

EnableKey(k, enabled) ==
    /\ keys[k].exists
    /\ keys' = [keys EXCEPT ![k].enabled = enabled]
    /\ UNCHANGED <<accounts, creds>>

UnlinkKey(k) ==
    /\ keys[k].exists
    /\ keys' = [keys EXCEPT ![k] = NoKey]
    /\ UNCHANGED <<accounts, creds>>

\* A token of the account's own user becomes the next generation.
PutCredential(a, t) ==
    /\ accounts[a].exists /\ accounts[a].enabled
    /\ accounts[a].user = Owner[t]
    /\ creds' = [creds EXCEPT ![a] = [exists |-> TRUE, gen |-> creds[a].gen + 1,
                                      state |-> "valid", token |-> t]]
    /\ UNCHANGED <<accounts, keys>>

\* A tombstone takes the next generation and holds no token.
ClearCredential(a) ==
    /\ accounts[a].exists
    /\ creds' = [creds EXCEPT ![a] = [exists |-> TRUE, gen |-> creds[a].gen + 1,
                                      state |-> "missing", token |-> None]]
    /\ UNCHANGED <<accounts, keys>>

\* A refused token keeps its generation.
MarkInvalid(a) ==
    /\ creds[a].exists /\ creds[a].token # None
    /\ creds' = [creds EXCEPT ![a].state = "invalid"]
    /\ UNCHANGED <<accounts, keys>>

\* The credential goes when no key can authenticate any more.
DropCredential(a) ==
    /\ creds[a].exists /\ KeysOf(a) = {}
    /\ creds' = [creds EXCEPT ![a] = NoCredential]
    /\ UNCHANGED <<accounts, keys>>

-----------------------------------------------------------------------------
DirNext ==
    \/ \E a \in Accounts :
          \/ \E u \in Users : CreateAccount(a, u, FALSE) \/ BindAccount(a, u)
          \/ CreateAccount(a, None, TRUE)
          \/ \E e \in BOOLEAN : EnableAccount(a, e)
          \/ DropAccount(a)
          \/ \E k \in Keys : LinkKey(k, a)
          \/ \E t \in Tokens : PutCredential(a, t)
          \/ ClearCredential(a) \/ MarkInvalid(a) \/ DropCredential(a)
    \/ \E k \in Keys : UnlinkKey(k) \/ \E e \in BOOLEAN : EnableKey(k, e)

DirSpec == Empty /\ [][DirNext]_dirVars
============================================================================
