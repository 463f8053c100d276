-------------------------- MODULE DeviceKeysProofs --------------------------
(***************************************************************************)
(* Enrollments, consoles and admins on one directory, any number of each.  *)
(*                                                                         *)
(* The inductive invariant relates a login to the directory others change  *)
(* between its store calls: from the moment it has an account, that        *)
(* account's id is handed out, and if the account still exists it belongs  *)
(* to the user of the login's token.  That survives every other step       *)
(* because ids are not handed out twice and a binding is made once.  The   *)
(* attempts of a connection bound its guesses until it ends, and a record  *)
(* that waits for its confirmation is not the console's own.               *)
(***************************************************************************)
EXTENDS DeviceKeys, TLAPS

AccountRecord == [exists: BOOLEAN, user: Users \cup {None}, bind: BOOLEAN, enabled: BOOLEAN]
KeyRecord == [exists: BOOLEAN, acct: Accounts \cup {None}, enabled: BOOLEAN]
CredentialRecord == [exists: BOOLEAN, gen: 0 .. MaxGen,
                     state: {"missing", "valid", "invalid"}, token: Tokens \cup {None}]

\* The directory, and the ids: an account that exists has one.
DirInv ==
    /\ accounts \in [Accounts -> AccountRecord]
    /\ keys \in [Keys -> KeyRecord]
    /\ creds \in [Accounts -> CredentialRecord]
    /\ lastId \in 0 .. MaxIds
    /\ ids \in [Keys -> 0 .. lastId]
    /\ used \subseteq Accounts
    /\ \A a \in Accounts : accounts[a].exists => a \in used
    /\ \A k \in Keys : keys[k].exists => keys[k].acct \in Accounts

\* What a step may do to accounts: their ids do not come back, and a binding
\* stays.
Stable ==
    /\ used \subseteq used'
    /\ \A a \in used : accounts'[a].exists =>
          /\ accounts[a].exists
          /\ accounts[a].user # None => accounts'[a].user = accounts[a].user

Linking == {"load", "replace", "link"}

\* Session s of a connection that has sent g tokens.
Fits(s, g) ==
    /\ s.stage \notin {"new", "closed"} => s.key \in Keys
    /\ s.stage \in {"verify", "digest", "owner", "resolve"} \cup Linking => s.token \in Tokens
    /\ s.stage \in {"owner"} \cup Linking => s.acct \in Accounts
    /\ s.tries <= MaxAttempts /\ g <= MaxAttempts
    /\ s.stage # "closed" => g <= s.tries
    /\ s.stage = "challenge" => s.tries < MaxAttempts

\* The account it works on is its user's, if it is there.
Knows(s) ==
    s.stage \in Linking =>
        /\ s.acct \in used
        /\ accounts[s.acct].exists => accounts[s.acct].user = Owner[s.token]

LoginInv ==
    /\ login \in [Logins -> LoginSession]
    /\ guesses \in [Logins -> Nat]
    /\ \A l \in Logins : Fits(login[l], guesses[l]) /\ Knows(login[l])

\* Console s is one of an account; the record it picked is a real one and not
\* its own.
InOrder(s) ==
    /\ s.stage \notin {"new", "closed"} => s.acct \in Accounts
    /\ s.stage = "confirmKey" => s.pick \in Entry /\ s.pick.id # s.own.id

ConsoleInv ==
    /\ console \in [Consoles -> ConsoleSession]
    /\ \A c \in Consoles : InOrder(console[c])

Inv == DirInv /\ revoked \subseteq Tokens /\ LoginInv /\ ConsoleInv

-----------------------------------------------------------------------------
(* The directory *)

\* A step that leaves files and ids alone keeps the directory.
LEMMA SameDirectory ==
    ASSUME Inv, UNCHANGED directory
    PROVE  DirInv' /\ Stable
BY DEF Inv, DirInv, Stable, directory

\* A new account takes an id that was not handed out before, and disturbs no other.
LEMMA CreateAccountDir ==
    ASSUME Inv, NEW a \in Accounts, a \notin used, NEW u \in Users \cup {None},
           NEW b \in BOOLEAN, Dir!CreateAccount(a, u, b),
           used' = used \cup {a}, UNCHANGED <<ids, lastId>>
    PROVE  DirInv' /\ Stable
<1>1. DirInv
  BY DEF Inv
<1>2. [exists |-> TRUE, user |-> u, bind |-> b, enabled |-> TRUE] \in AccountRecord
  BY DEF AccountRecord
<1>3. /\ accounts' \in [Accounts -> AccountRecord]
      /\ UNCHANGED <<keys, creds>>
      /\ \A x \in Accounts : x # a => accounts'[x] = accounts[x]
  BY <1>1, <1>2 DEF DirInv, Dir!CreateAccount
<1>4. DirInv'
  BY <1>1, <1>3 DEF DirInv
<1>5. Stable
  BY <1>1, <1>3 DEF DirInv, Stable
<1> QED BY <1>4, <1>5

\* A stored token changes at most the binding of an unbound account.
LEMMA StoreTokenDir ==
    ASSUME Inv, NEW a \in Accounts, NEW t \in Tokens, StoreToken(a, t)
    PROVE  DirInv' /\ Stable
<1>1. DirInv
  BY DEF Inv
<1>2. Owner[t] \in Users
  BY DeviceKeysAssumption
<1>3. /\ accounts' \in [Accounts -> AccountRecord]
      /\ \A x \in Accounts :
            /\ accounts'[x].exists = accounts[x].exists
            /\ accounts[x].user # None => accounts'[x].user = accounts[x].user
  BY <1>1, <1>2 DEF DirInv, StoreToken, AccountRecord
<1>4. creds[a].gen \in Nat /\ creds[a].gen + 1 \in 0 .. MaxGen
  BY <1>1, DeviceKeysAssumption DEF DirInv, StoreToken, CredentialRecord
<1>5. [exists |-> TRUE, gen |-> creds[a].gen + 1, state |-> "valid", token |-> t]
        \in CredentialRecord
  BY <1>4 DEF CredentialRecord
<1>6. creds' \in [Accounts -> CredentialRecord] /\ UNCHANGED <<keys, ids, lastId, used>>
  BY <1>1, <1>5 DEF DirInv, StoreToken
<1>7. DirInv'
  BY <1>1, <1>3, <1>6 DEF DirInv
<1>8. Stable
  BY <1>1, <1>3, <1>6 DEF DirInv, Stable
<1> QED BY <1>7, <1>8

\* A key is linked under a fresh record id.
LEMMA AddKeyDir ==
    ASSUME Inv, NEW k \in Keys, NEW a \in Accounts, AddKey(k, a), UNCHANGED used
    PROVE  DirInv' /\ Stable
<1>1. DirInv
  BY DEF Inv
<1>2. [exists |-> TRUE, acct |-> a, enabled |-> TRUE] \in KeyRecord
  BY DEF KeyRecord
<1>3. /\ keys' = [keys EXCEPT ![k] = [exists |-> TRUE, acct |-> a, enabled |-> TRUE]]
      /\ lastId < MaxIds /\ lastId' = lastId + 1 /\ ids' = [ids EXCEPT ![k] = lastId + 1]
      /\ UNCHANGED <<accounts, creds>>
  BY DEF AddKey, Dir!LinkKey
<1>4. keys' \in [Keys -> KeyRecord]
      /\ \A x \in Keys : keys'[x].exists => keys'[x].acct \in Accounts
  BY <1>1, <1>2, <1>3 DEF DirInv
<1>5. lastId' \in 0 .. MaxIds /\ lastId + 1 \in 0 .. lastId' /\ 0 .. lastId \subseteq 0 .. lastId'
  BY <1>1, <1>3, DeviceKeysAssumption DEF DirInv
<1>6. ids' \in [Keys -> 0 .. lastId']
  BY <1>1, <1>3, <1>5 DEF DirInv
<1> QED BY <1>1, <1>3, <1>4, <1>5, <1>6 DEF DirInv, Stable

\* Records that stand for a missing file have their types.
LEMMA NoRecordTypes ==
    /\ Dir!NoAccount \in AccountRecord /\ ~Dir!NoAccount.exists
    /\ Dir!NoKey \in KeyRecord /\ ~Dir!NoKey.exists
    /\ Dir!NoCredential \in CredentialRecord
<1>1. 0 \in 0 .. MaxGen
  BY DeviceKeysAssumption
<1> QED BY <1>1 DEF Dir!NoAccount, Dir!NoKey, Dir!NoCredential, AccountRecord, KeyRecord,
                    CredentialRecord

\* DeleteAccount, cut off after any of its parts, only takes files away.
LEMMA CascadeDir ==
    ASSUME Inv, NEW a \in Accounts, Cascade(a), UNCHANGED <<ids, lastId, used>>
    PROVE  DirInv' /\ Stable
<1>1. DirInv
  BY DEF Inv
<1>2. /\ keys' \in [Keys -> KeyRecord]
      /\ \A k \in Keys : keys'[k].exists => keys'[k] = keys[k]
  BY <1>1, NoRecordTypes DEF Cascade, DirInv
<1>3. creds' \in [Accounts -> CredentialRecord]
  BY <1>1, NoRecordTypes DEF Cascade, DirInv
<1>4. /\ accounts' \in [Accounts -> AccountRecord]
      /\ \A x \in Accounts : accounts'[x].exists => accounts'[x] = accounts[x]
  BY <1>1, NoRecordTypes DEF Cascade, DirInv
<1> QED BY <1>1, <1>2, <1>3, <1>4 DEF DirInv, Stable

\* Unlinking a key touches neither accounts nor credentials.
LEMMA UnlinkKeyDir ==
    ASSUME Inv, NEW k \in Keys, Dir!UnlinkKey(k), UNCHANGED <<ids, lastId, used>>
    PROVE  DirInv' /\ Stable
<1>1. DirInv
  BY DEF Inv
<1>2. /\ keys' \in [Keys -> KeyRecord]
      /\ \A x \in Keys : keys'[x].exists => keys'[x] = keys[x]
      /\ UNCHANGED <<accounts, creds>>
  BY <1>1, NoRecordTypes DEF Dir!UnlinkKey, DirInv
<1> QED BY <1>1, <1>2 DEF DirInv, Stable

\* Enabling or disabling changes no binding and no owner.
LEMMA EnableDir ==
    ASSUME Inv, NEW e \in BOOLEAN,
           \/ \E a \in Accounts : Dir!EnableAccount(a, e)
           \/ \E k \in Keys : Dir!EnableKey(k, e),
           UNCHANGED <<ids, lastId, used>>
    PROVE  DirInv' /\ Stable
<1>1. DirInv
  BY DEF Inv
<1>2. ASSUME NEW a \in Accounts, Dir!EnableAccount(a, e) PROVE DirInv' /\ Stable
  <2>1. /\ accounts' \in [Accounts -> AccountRecord] /\ UNCHANGED <<keys, creds>>
        /\ \A x \in Accounts : /\ accounts'[x].exists = accounts[x].exists
                               /\ accounts'[x].user = accounts[x].user
    BY <1>1, <1>2 DEF DirInv, Dir!EnableAccount, AccountRecord
  <2> QED BY <1>1, <2>1 DEF DirInv, Stable
<1>3. ASSUME NEW k \in Keys, Dir!EnableKey(k, e) PROVE DirInv' /\ Stable
  <2>1. /\ keys' \in [Keys -> KeyRecord] /\ UNCHANGED <<accounts, creds>>
        /\ \A x \in Keys : /\ keys'[x].exists = keys[x].exists
                           /\ keys'[x].acct = keys[x].acct
    BY <1>1, <1>3 DEF DirInv, Dir!EnableKey, KeyRecord
  <2> QED BY <1>1, <2>1 DEF DirInv, Stable
<1> QED BY <1>2, <1>3

\* A tombstone changes the credential alone.
LEMMA ClearCredentialDir ==
    ASSUME Inv, NEW a \in Accounts, creds[a].gen < MaxGen, Dir!ClearCredential(a),
           UNCHANGED <<ids, lastId, used>>
    PROVE  DirInv' /\ Stable
<1>1. DirInv
  BY DEF Inv
<1>2. creds[a].gen + 1 \in 0 .. MaxGen
  BY <1>1, DeviceKeysAssumption DEF DirInv, CredentialRecord
<1>3. [exists |-> TRUE, gen |-> creds[a].gen + 1, state |-> "missing", token |-> None]
        \in CredentialRecord
  BY <1>2 DEF CredentialRecord
<1>4. creds' \in [Accounts -> CredentialRecord] /\ UNCHANGED <<accounts, keys>>
  BY <1>1, <1>3 DEF DirInv, Dir!ClearCredential
<1> QED BY <1>1, <1>4 DEF DirInv, Stable

-----------------------------------------------------------------------------
(* One login *)

\* Whatever a step does to the directory, a login that did not move still
\* knows its account.
LEMMA KnowsLater ==
    ASSUME Inv, DirInv', Stable, NEW l \in Logins, login'[l] = login[l]
    PROVE  Knows(login[l])'
<1> SUFFICES ASSUME login[l].stage \in Linking
             PROVE  /\ login[l].acct \in used'
                    /\ accounts'[login[l].acct].exists =>
                          accounts'[login[l].acct].user = Owner[login[l].token]
  BY DEF Knows
<1>1. Fits(login[l], guesses[l]) /\ Knows(login[l])
  BY DEF Inv, LoginInv
<1>2. login[l].acct \in used /\ login[l].token \in Tokens
      /\ (accounts[login[l].acct].exists => accounts[login[l].acct].user = Owner[login[l].token])
  BY <1>1 DEF Fits, Knows
<1>3. Owner[login[l].token] # None
  BY <1>2, DeviceKeysAssumption
<1> QED BY <1>2, <1>3 DEF Stable

\* Session l becomes s, with g tokens sent.
LEMMA OneLogin ==
    ASSUME Inv, DirInv', Stable, UNCHANGED <<revoked, console>>,
           NEW l \in Logins, NEW s \in LoginSession, NEW g \in Nat,
           login' = [login EXCEPT ![l] = s], guesses' = [guesses EXCEPT ![l] = g],
           Fits(s, g),
           s.stage \in Linking =>
              s.acct \in used' /\ (accounts'[s.acct].exists => accounts'[s.acct].user = Owner[s.token])
    PROVE  Inv'
<1>1. /\ login' \in [Logins -> LoginSession] /\ guesses' \in [Logins -> Nat]
      /\ login'[l] = s /\ guesses'[l] = g
      /\ \A m \in Logins : m # l => login'[m] = login[m] /\ guesses'[m] = guesses[m]
  BY DEF Inv, LoginInv
<1>2. ASSUME NEW m \in Logins PROVE Fits(login'[m], guesses'[m]) /\ Knows(login[m])'
  <2>1. CASE m = l
    BY <1>1, <2>1 DEF Knows
  <2>2. CASE m # l
    <3>1. Knows(login[m])'
      BY <1>1, <2>2, KnowsLater
    <3>2. Fits(login[m], guesses[m])
      BY DEF Inv, LoginInv
    <3> QED BY <1>1, <2>2, <3>1, <3>2
  <2> QED BY <2>1, <2>2
<1>3. LoginInv'
  BY <1>1, <1>2 DEF LoginInv
<1>4. ConsoleInv' /\ revoked' \subseteq Tokens
  BY DEF Inv, ConsoleInv
<1> QED BY <1>3, <1>4 DEF Inv

\* No login moves.
LEMMA NoLogin ==
    ASSUME Inv, DirInv', Stable, UNCHANGED <<login, guesses>>
    PROVE  LoginInv'
<1>1. ASSUME NEW m \in Logins PROVE Fits(login'[m], guesses'[m]) /\ Knows(login[m])'
  <2>1. Knows(login[m])'
    BY KnowsLater
  <2> QED BY <2>1 DEF Inv, LoginInv
<1> QED BY <1>1 DEF LoginInv, Inv

\* What the types say of one login.
LEMMA LoginFacts ==
    ASSUME Inv, NEW l \in Logins
    PROVE  /\ login[l] \in LoginSession /\ guesses[l] \in Nat
           /\ login[l].tries \in Nat /\ MaxAttempts \in Nat
           /\ Fits(login[l], guesses[l]) /\ Knows(login[l])
           /\ guesses = [guesses EXCEPT ![l] = guesses[l]]
BY DeviceKeysAssumption DEF Inv, LoginInv, LoginSession

\* The callback gives up: the next one starts with the same count.
LEMMA FailStep ==
    ASSUME Inv, UNCHANGED <<directory, revoked, guesses, console>>, NEW l \in Logins,
           login[l].stage \notin {"new", "closed"}, Fail(l)
    PROVE  Inv'
<1> DEFINE s == [login[l] EXCEPT !.stage = "partial", !.method = "none", !.token = None,
                                 !.acct = None, !.keyExists = FALSE, !.expected = 0]
<1>0. login[l] \in LoginSession /\ guesses[l] \in Nat /\ login[l].tries \in Nat
      /\ MaxAttempts \in Nat /\ Fits(login[l], guesses[l])
      /\ guesses = [guesses EXCEPT ![l] = guesses[l]]
  BY LoginFacts
<1>1. DirInv' /\ Stable
  BY SameDirectory
<1>2. login' = [login EXCEPT ![l] = s]
  BY <1>0 DEF Fail, Inv, LoginInv, LoginSession
<1>3. s \in LoginSession /\ s.stage = "partial" /\ s.key = login[l].key
      /\ s.tries = login[l].tries
  BY <1>0 DEF LoginSession, LoginStage
<1> HIDE DEF s
<1>4. Fits(s, guesses[l]) /\ s.stage \notin Linking
  BY <1>0, <1>3 DEF Fits, Linking
<1> QED BY <1>0, <1>1, <1>2, <1>3, <1>4, OneLogin

\* The next stage, nothing else.
LEMMA GotoStep ==
    ASSUME Inv, DirInv', Stable, UNCHANGED <<revoked, guesses, console>>, NEW l \in Logins,
           NEW stage \in LoginStage \ {"new", "closed"}, Goto(l, stage),
           login[l].stage \notin {"new", "closed"},
           stage \in {"verify", "digest", "owner", "resolve"} \cup Linking =>
              login[l].token \in Tokens,
           stage \in {"owner"} \cup Linking => login[l].acct \in Accounts,
           stage = "challenge" => login[l].tries < MaxAttempts,
           stage \in Linking =>
              /\ login[l].acct \in used'
              /\ accounts'[login[l].acct].exists =>
                    accounts'[login[l].acct].user = Owner[login[l].token]
    PROVE  Inv'
<1> DEFINE s == [login[l] EXCEPT !.stage = stage]
<1>0. login[l] \in LoginSession /\ guesses[l] \in Nat /\ login[l].tries \in Nat
      /\ MaxAttempts \in Nat /\ Fits(login[l], guesses[l])
      /\ guesses = [guesses EXCEPT ![l] = guesses[l]]
  BY LoginFacts
<1>1. login' = [login EXCEPT ![l] = s]
  BY <1>0 DEF Goto, Inv, LoginInv, LoginSession
<1>2. s \in LoginSession /\ s.stage = stage /\ s.key = login[l].key
      /\ s.token = login[l].token /\ s.acct = login[l].acct /\ s.tries = login[l].tries
  BY <1>0 DEF LoginSession
<1> HIDE DEF s
<1>3. Fits(s, guesses[l])
  BY <1>0, <1>2 DEF Fits
<1> QED BY <1>0, <1>1, <1>2, <1>3, OneLogin

-----------------------------------------------------------------------------
(* The token continuations *)

\* A client that proved its key starts with all its attempts.
LEMMA VerifiedEnrollmentInv ==
    ASSUME Inv, NEW l \in Logins, NEW k \in Keys, VerifiedEnrollment(l, k)
    PROVE  Inv'
<1> DEFINE s == [login[l] EXCEPT !.stage = "partial", !.key = k]
<1>0. login[l] \in LoginSession /\ guesses[l] \in Nat /\ login[l].tries \in Nat
      /\ Fits(login[l], guesses[l]) /\ guesses = [guesses EXCEPT ![l] = guesses[l]]
  BY LoginFacts
<1>1. /\ login[l].stage = "new" /\ login' = [login EXCEPT ![l] = s]
      /\ UNCHANGED <<directory, revoked, guesses, console>>
  BY <1>0 DEF VerifiedEnrollment, Inv, LoginInv, LoginSession
<1>2. s \in LoginSession /\ s.stage = "partial" /\ s.key = k /\ s.tries = login[l].tries
  BY <1>0 DEF LoginSession, LoginStage
<1> HIDE DEF s
<1>3. Fits(s, guesses[l]) /\ s.stage \notin Linking
  BY <1>0, <1>1, <1>2 DEF Fits, Linking
<1> QED BY <1>0, <1>1, <1>2, <1>3, OneLogin, SameDirectory

\* A prompt is shown only while attempts are left.
LEMMA KeyboardInteractiveInv ==
    ASSUME Inv, NEW l \in Logins, KeyboardInteractive(l)
    PROVE  Inv'
<1> DEFINE s == [login[l] EXCEPT !.stage = "challenge", !.method = "ki"]
<1>0. login[l] \in LoginSession /\ guesses[l] \in Nat /\ login[l].tries \in Nat
      /\ Fits(login[l], guesses[l]) /\ guesses = [guesses EXCEPT ![l] = guesses[l]]
  BY LoginFacts
<1>1. /\ login[l].stage = "partial" /\ login[l].tries < MaxAttempts
      /\ login' = [login EXCEPT ![l] = s]
      /\ UNCHANGED <<directory, revoked, guesses, console>>
  BY <1>0 DEF KeyboardInteractive, Inv, LoginInv, LoginSession
<1>2. s \in LoginSession /\ s.stage = "challenge" /\ s.key = login[l].key
      /\ s.tries = login[l].tries
  BY <1>0 DEF LoginSession, LoginStage
<1> HIDE DEF s
<1>3. Fits(s, guesses[l]) /\ s.stage \notin Linking
  BY <1>0, <1>1, <1>2 DEF Fits, Linking
<1> QED BY <1>0, <1>1, <1>2, <1>3, OneLogin, SameDirectory

\* A token goes out and is counted.
LEMMA AttemptInv ==
    ASSUME Inv, NEW l \in Logins, NEW t \in Tokens, Answer(l, t) \/ Password(l, t)
    PROVE  Inv'
<1>0. login[l] \in LoginSession /\ guesses[l] \in Nat /\ login[l].tries \in Nat
      /\ MaxAttempts \in Nat /\ Fits(login[l], guesses[l])
  BY LoginFacts
<1>1. PICK m \in {"ki", "password"} : Attempt(l, t, m)
  BY DEF Answer, Password
<1> DEFINE s == [login[l] EXCEPT !.token = t, !.stage = "verify", !.method = m,
                                 !.tries = login[l].tries + 1]
<1>2. /\ login[l].stage \in {"partial", "challenge"} /\ login[l].tries < MaxAttempts
      /\ UNCHANGED <<directory, revoked, console>>
  BY <1>0 DEF Answer, Password, Fits
<1>3. login[l].tries + 1 \in Nat /\ guesses[l] + 1 \in Nat
  BY <1>0
<1>4. login' = [login EXCEPT ![l] = s] /\ guesses' = [guesses EXCEPT ![l] = guesses[l] + 1]
  BY <1>0, <1>1 DEF Attempt, Inv, LoginInv, LoginSession
<1>5. s \in LoginSession /\ s.stage = "verify" /\ s.key = login[l].key /\ s.token = t
      /\ s.tries = login[l].tries + 1
  BY <1>0, <1>3 DEF LoginSession, LoginStage
<1> HIDE DEF s
<1>6. Fits(s, guesses[l] + 1) /\ s.stage \notin Linking
  BY <1>0, <1>2, <1>5 DEF Fits, Linking
<1> QED BY <1>2, <1>3, <1>4, <1>5, <1>6, OneLogin, SameDirectory

\* An unusable answer may use an attempt, and is no guess.
LEMMA AnswerUnusableInv ==
    ASSUME Inv, NEW l \in Logins, AnswerUnusable(l)
    PROVE  Inv'
<1>0. login[l] \in LoginSession /\ guesses[l] \in Nat /\ login[l].tries \in Nat
      /\ MaxAttempts \in Nat /\ Fits(login[l], guesses[l])
      /\ guesses = [guesses EXCEPT ![l] = guesses[l]]
  BY LoginFacts
<1>1. login[l].stage = "challenge" /\ login[l].tries < MaxAttempts
      /\ UNCHANGED <<directory, revoked, guesses, console>>
  BY <1>0 DEF AnswerUnusable, Fits
<1>2. DirInv' /\ Stable
  BY <1>1, SameDirectory
<1>3. login[l].tries + 1 \in Nat
  BY <1>0
<1>4. CASE Fail(l)
  BY <1>1, <1>4, FailStep
<1>5. CASE login' = [login EXCEPT ![l].stage = "partial", ![l].method = "none",
                                  ![l].tries = login[l].tries + 1]
  <2> DEFINE s == [login[l] EXCEPT !.stage = "partial", !.method = "none",
                                   !.tries = login[l].tries + 1]
  <2>1. login' = [login EXCEPT ![l] = s]
    BY <1>0, <1>5 DEF Inv, LoginInv, LoginSession
  <2>2. s \in LoginSession /\ s.stage = "partial" /\ s.key = login[l].key
        /\ s.tries = login[l].tries + 1
    BY <1>0, <1>3 DEF LoginSession, LoginStage
  <2> HIDE DEF s
  <2>3. Fits(s, guesses[l]) /\ s.stage \notin Linking
    BY <1>0, <1>1, <2>2 DEF Fits, Linking
  <2> QED BY <1>0, <1>1, <1>2, <2>1, <2>2, <2>3, OneLogin
<1>6. CASE login[l].tries + 1 < MaxAttempts
           /\ login' = [login EXCEPT ![l].tries = login[l].tries + 1]
  <2> DEFINE s == [login[l] EXCEPT !.tries = login[l].tries + 1]
  <2>1. login' = [login EXCEPT ![l] = s]
    BY <1>0, <1>6 DEF Inv, LoginInv, LoginSession
  <2>2. s \in LoginSession /\ s.stage = "challenge" /\ s.key = login[l].key
        /\ s.tries = login[l].tries + 1
    BY <1>0, <1>1, <1>3 DEF LoginSession, LoginStage
  <2> HIDE DEF s
  <2>3. Fits(s, guesses[l]) /\ s.stage \notin Linking
    BY <1>0, <1>1, <1>6, <2>2 DEF Fits, Linking
  <2> QED BY <1>0, <1>1, <1>2, <2>1, <2>2, <2>3, OneLogin
<1> QED BY <1>4, <1>5, <1>6 DEF AnswerUnusable

\* So does an unusable password.
LEMMA PasswordUnusableInv ==
    ASSUME Inv, NEW l \in Logins, PasswordUnusable(l)
    PROVE  Inv'
<1>0. login[l] \in LoginSession /\ guesses[l] \in Nat /\ login[l].tries \in Nat
      /\ MaxAttempts \in Nat /\ Fits(login[l], guesses[l])
      /\ guesses = [guesses EXCEPT ![l] = guesses[l]]
  BY LoginFacts
<1>1. login[l].stage = "partial" /\ login[l].tries < MaxAttempts
      /\ UNCHANGED <<directory, revoked, guesses, console>>
  BY DEF PasswordUnusable
<1>2. DirInv' /\ Stable
  BY <1>1, SameDirectory
<1> DEFINE s == [login[l] EXCEPT !.tries = login[l].tries + 1]
<1>3. login' = [login EXCEPT ![l] = s]
  BY <1>0 DEF PasswordUnusable, Inv, LoginInv, LoginSession
<1>4. login[l].tries + 1 \in Nat
  BY <1>0
<1>5. s \in LoginSession /\ s.stage = "partial" /\ s.key = login[l].key
      /\ s.tries = login[l].tries + 1
  BY <1>0, <1>1, <1>4 DEF LoginSession, LoginStage
<1> HIDE DEF s
<1>6. Fits(s, guesses[l]) /\ s.stage \notin Linking
  BY <1>0, <1>1, <1>5 DEF Fits, Linking
<1> QED BY <1>0, <1>1, <1>2, <1>3, <1>5, <1>6, OneLogin

\* A verdict on the token moves the login on or back; no guess is added.
LEMMA VerifyTokenInv ==
    ASSUME Inv, NEW l \in Logins, VerifyToken(l)
    PROVE  Inv'
<1>0. Fits(login[l], guesses[l])
  BY LoginFacts
<1>1. login[l].stage = "verify" /\ login[l].token \in Tokens
      /\ UNCHANGED <<directory, revoked, guesses, console>>
  BY <1>0 DEF VerifyToken, Fits
<1>2. DirInv' /\ Stable
  BY <1>1, SameDirectory
<1>3. CASE Fail(l)
  BY <1>1, <1>3, FailStep
<1>4. CASE Goto(l, "challenge") /\ login[l].tries < MaxAttempts
  <2>1. "challenge" \in LoginStage \ {"new", "closed"} /\ "challenge" \notin Linking
    BY DEF LoginStage, Linking
  <2> QED BY <1>1, <1>2, <1>4, <2>1, GotoStep
<1>5. CASE Goto(l, "digest")
  <2>1. "digest" \in LoginStage \ {"new", "closed"} /\ "digest" \notin Linking
    BY DEF LoginStage, Linking
  <2> QED BY <1>1, <1>2, <1>5, <2>1, GotoStep
<1> QED BY <1>3, <1>4, <1>5 DEF VerifyToken, Rejected

-----------------------------------------------------------------------------
(* linkEnrollment *)

\* The digest check only decides where to go on.
LEMMA KeyDigestExistsInv ==
    ASSUME Inv, NEW l \in Logins, KeyDigestExists(l)
    PROVE  Inv'
<1>0. login[l] \in LoginSession /\ guesses[l] \in Nat /\ login[l].tries \in Nat
      /\ Fits(login[l], guesses[l]) /\ guesses = [guesses EXCEPT ![l] = guesses[l]]
  BY LoginFacts
<1>1. login[l].stage = "digest" /\ login[l].token \in Tokens /\ login[l].key \in Keys
      /\ UNCHANGED <<directory, revoked, guesses, console>>
  BY <1>0 DEF KeyDigestExists, Fits
<1>2. DirInv' /\ Stable
  BY <1>1, SameDirectory
<1>3. CASE keys[login[l].key].exists
  <2> DEFINE a == keys[login[l].key].acct
             s == [login[l] EXCEPT !.stage = "owner", !.acct = a, !.keyExists = TRUE]
  <2>1. a \in Accounts
    BY <1>1, <1>3 DEF Inv, DirInv
  <2>2. login' = [login EXCEPT ![l].stage = "owner", ![l].acct = a, ![l].keyExists = TRUE]
    BY <1>3 DEF KeyDigestExists
  <2> HIDE DEF a
  <2>3. login' = [login EXCEPT ![l] = s]
    BY <1>0, <2>2 DEF Inv, LoginInv, LoginSession
  <2>4. s \in LoginSession /\ s.stage = "owner" /\ s.key = login[l].key
        /\ s.token = login[l].token /\ s.acct = a /\ s.tries = login[l].tries
    BY <1>0, <2>1 DEF LoginSession, LoginStage
  <2> HIDE DEF s
  <2>5. Fits(s, guesses[l]) /\ s.stage \notin Linking
    BY <1>0, <1>1, <2>1, <2>4 DEF Fits, Linking
  <2> QED BY <1>0, <1>1, <1>2, <2>3, <2>4, <2>5, OneLogin
<1>4. CASE ~keys[login[l].key].exists
  <2>1. Goto(l, "resolve")
    BY <1>4 DEF KeyDigestExists
  <2>2. "resolve" \in LoginStage \ {"new", "closed"} /\ "resolve" \notin {"owner"} \cup Linking
    BY DEF LoginStage, Linking
  <2> QED BY <1>1, <1>2, <2>1, <2>2, GotoStep
<1> QED BY <1>3, <1>4

\* The account of a linked key is taken only if it is the verified user's.
LEMMA GetLinkedAccountInv ==
    ASSUME Inv, NEW l \in Logins, GetLinkedAccount(l)
    PROVE  Inv'
<1>0. Fits(login[l], guesses[l])
  BY LoginFacts
<1>1. login[l].stage = "owner" /\ login[l].token \in Tokens
      /\ UNCHANGED <<directory, revoked, guesses, console>>
  BY <1>0 DEF GetLinkedAccount, Fits
<1>2. CASE Goto(l, "resolve")
  <2>1. "resolve" \in LoginStage \ {"new", "closed"} /\ "resolve" \notin {"owner"} \cup Linking
    BY DEF LoginStage, Linking
  <2> QED BY <1>1, <1>2, <2>1, GotoStep, SameDirectory
<1>3. CASE Fail(l)
  BY <1>1, <1>3, FailStep
<1> QED BY <1>2, <1>3 DEF GetLinkedAccount

\* An account that was found by its Coder id is the user's.
LEMMA FindAccountInv ==
    ASSUME Inv, NEW l \in Logins, FindAccount(l)
    PROVE  Inv'
<1>0. login[l] \in LoginSession /\ guesses[l] \in Nat /\ login[l].tries \in Nat
      /\ Fits(login[l], guesses[l]) /\ guesses = [guesses EXCEPT ![l] = guesses[l]]
  BY LoginFacts
<1>1. login[l].stage = "resolve" /\ login[l].token \in Tokens
      /\ UNCHANGED <<directory, revoked, guesses, console>>
  BY <1>0 DEF FindAccount, Fits
<1>2. PICK a \in Dir!Bound(Owner[login[l].token]) :
        login' = [login EXCEPT ![l].stage = "load", ![l].acct = a]
  BY DEF FindAccount
<1>3. a \in Accounts /\ a \in used' /\ accounts'[a].user = Owner[login[l].token]
  BY <1>1 DEF Dir!Bound, Inv, DirInv, directory
<1> DEFINE s == [login[l] EXCEPT !.stage = "load", !.acct = a]
<1>4. login' = [login EXCEPT ![l] = s]
  BY <1>0, <1>2 DEF Inv, LoginInv, LoginSession
<1>5. s \in LoginSession /\ s.stage = "load" /\ s.key = login[l].key
      /\ s.token = login[l].token /\ s.acct = a /\ s.tries = login[l].tries
  BY <1>0, <1>3 DEF LoginSession, LoginStage
<1> HIDE DEF s
<1>6. Fits(s, guesses[l])
  BY <1>0, <1>1, <1>3, <1>5 DEF Fits, Linking
<1> QED BY <1>0, <1>1, <1>3, <1>4, <1>5, <1>6, OneLogin, SameDirectory

\* An account created for the login is the user's.
LEMMA CreateAccountInv ==
    ASSUME Inv, NEW l \in Logins, NEW a \in Accounts, CreateAccount(l, a)
    PROVE  Inv'
<1>0. login[l] \in LoginSession /\ guesses[l] \in Nat /\ login[l].tries \in Nat
      /\ Fits(login[l], guesses[l]) /\ guesses = [guesses EXCEPT ![l] = guesses[l]]
  BY LoginFacts
<1>1. /\ login[l].stage = "resolve" /\ login[l].token \in Tokens
      /\ a \notin used /\ Dir!CreateAccount(a, Owner[login[l].token], FALSE)
      /\ used' = used \cup {a}
      /\ login' = [login EXCEPT ![l].stage = "replace", ![l].acct = a]
      /\ UNCHANGED <<ids, lastId, revoked, guesses, console>>
  BY <1>0 DEF CreateAccount, Fits
<1>2. Owner[login[l].token] \in Users
  BY <1>1, DeviceKeysAssumption
<1>3. DirInv' /\ Stable
  BY <1>1, <1>2, CreateAccountDir
<1>4. accounts'[a].user = Owner[login[l].token]
  BY <1>1 DEF Dir!CreateAccount, Inv, DirInv
<1> DEFINE s == [login[l] EXCEPT !.stage = "replace", !.acct = a]
<1>5. login' = [login EXCEPT ![l] = s]
  BY <1>0, <1>1 DEF Inv, LoginInv, LoginSession
<1>6. s \in LoginSession /\ s.stage = "replace" /\ s.key = login[l].key
      /\ s.token = login[l].token /\ s.acct = a /\ s.tries = login[l].tries
  BY <1>0 DEF LoginSession, LoginStage
<1> HIDE DEF s
<1>7. Fits(s, guesses[l])
  BY <1>0, <1>1, <1>6 DEF Fits, Linking
<1> QED BY <1>0, <1>1, <1>3, <1>4, <1>5, <1>6, <1>7, OneLogin

\* From here on a login is where it knows its account.
LEMMA LinkingFacts ==
    ASSUME Inv, NEW l \in Logins, login[l].stage \in Linking
    PROVE  /\ login[l].token \in Tokens /\ login[l].key \in Keys
           /\ login[l].acct \in Accounts /\ login[l].acct \in used
           /\ accounts[login[l].acct].exists =>
                 accounts[login[l].acct].user = Owner[login[l].token]
BY LoginFacts DEF Fits, Knows, Linking

\* The same account, known after any step that is stable.
LEMMA StillKnows ==
    ASSUME Inv, Stable, NEW l \in Logins, login[l].stage \in Linking
    PROVE  /\ login[l].acct \in used'
           /\ accounts'[login[l].acct].exists =>
                 accounts'[login[l].acct].user = Owner[login[l].token]
<1>1. Owner[login[l].token] # None
  BY LinkingFacts, DeviceKeysAssumption
<1> QED BY <1>1, LinkingFacts DEF Stable

\* Loading the credential keeps the login's account.
LEMMA LoadCredentialInv ==
    ASSUME Inv, NEW l \in Logins, LoadCredential(l)
    PROVE  Inv'
<1>0. login[l] \in LoginSession /\ guesses[l] \in Nat /\ login[l].tries \in Nat
      /\ Fits(login[l], guesses[l]) /\ guesses = [guesses EXCEPT ![l] = guesses[l]]
  BY LoginFacts
<1>1. /\ login[l].stage = "load" /\ login[l].stage \in Linking
      /\ UNCHANGED <<directory, revoked, guesses, console>>
  BY DEF LoadCredential, Linking
<1>2. creds[login[l].acct].gen \in Nat
  BY <1>1, LinkingFacts DEF Inv, DirInv, CredentialRecord
<1> DEFINE g == creds[login[l].acct].gen
           s == [login[l] EXCEPT !.stage = "replace", !.expected = g]
<1>3. login' = [login EXCEPT ![l].stage = "replace", ![l].expected = g]
  BY DEF LoadCredential
<1> HIDE DEF g
<1>4. login' = [login EXCEPT ![l] = s]
  BY <1>0, <1>3 DEF Inv, LoginInv, LoginSession
<1>5. s \in LoginSession /\ s.stage = "replace" /\ s.key = login[l].key
      /\ s.token = login[l].token /\ s.acct = login[l].acct /\ s.tries = login[l].tries
  BY <1>0, <1>2 DEF LoginSession, LoginStage, g
<1> HIDE DEF s
<1>6. Fits(s, guesses[l])
  BY <1>0, <1>1, <1>5 DEF Fits, Linking
<1>7. DirInv' /\ Stable
  BY <1>1, SameDirectory
<1> QED BY <1>0, <1>1, <1>4, <1>5, <1>6, <1>7, StillKnows, OneLogin

\* Everything that leads to the link stage or to the end, or fails.
LEMMA LinkingStep ==
    ASSUME Inv, DirInv', Stable, NEW l \in Logins, login[l].stage \in Linking,
           NEW stage \in {"link", "done"}, Goto(l, stage),
           UNCHANGED <<revoked, guesses, console>>
    PROVE  Inv'
<1>1. stage \in LoginStage \ {"new", "closed"} /\ stage # "challenge"
  BY DEF LoginStage
<1>2. login[l].stage \notin {"new", "closed"}
  BY DEF Linking
<1> QED BY <1>1, <1>2, LinkingFacts, StillKnows, GotoStep

\* The verified token is stored under the login's account.
LEMMA ReplaceCredentialInv ==
    ASSUME Inv, NEW l \in Logins, ReplaceCredential(l)
    PROVE  Inv'
<1>1. /\ login[l].stage \in Linking /\ StoreToken(login[l].acct, login[l].token)
      /\ Goto(l, "link") /\ UNCHANGED <<revoked, guesses, console>>
  BY DEF ReplaceCredential, Linking
<1>2. DirInv' /\ Stable
  BY <1>1, LinkingFacts, StoreTokenDir
<1> QED BY <1>1, <1>2, LinkingStep

\* A refused replacement leaves the account as it was.
LEMMA ReplaceRefusedInv ==
    ASSUME Inv, NEW l \in Logins, ReplaceRefused(l)
    PROVE  Inv'
<1>1. /\ login[l].stage \in Linking
      /\ Goto(l, "link") \/ Fail(l)
      /\ UNCHANGED <<directory, revoked, guesses, console>>
  BY DEF ReplaceRefused, Linking
<1>2. login[l].stage \notin {"new", "closed"}
  BY <1>1 DEF Linking
<1> QED BY <1>1, <1>2, LinkingStep, FailStep, SameDirectory

\* A key that was linked meanwhile ends the login well or sends it back.
LEMMA RecoverKeyInv ==
    ASSUME Inv, NEW l \in Logins, RecoverKey(l)
    PROVE  Inv'
<1>1. /\ login[l].stage \in Linking
      /\ Goto(l, "done") \/ Fail(l)
      /\ UNCHANGED <<directory, revoked, guesses, console>>
  BY DEF RecoverKey, Linking
<1>2. login[l].stage \notin {"new", "closed"}
  BY <1>1 DEF Linking
<1> QED BY <1>1, <1>2, LinkingStep, FailStep, SameDirectory

\* The proven key is linked to the login's account.
LEMMA LinkKeyInv ==
    ASSUME Inv, NEW l \in Logins, LinkKey(l)
    PROVE  Inv'
<1>1. login[l].stage \in Linking /\ login[l].stage \notin {"new", "closed"}
      /\ UNCHANGED <<revoked, guesses, console>>
  BY DEF LinkKey, Linking
<1>2. CASE AddKey(login[l].key, login[l].acct) /\ Goto(l, "done") /\ UNCHANGED used
  <2>1. DirInv' /\ Stable
    BY <1>1, <1>2, LinkingFacts, AddKeyDir
  <2> QED BY <1>1, <1>2, <2>1, LinkingStep
<1>3. CASE Fail(l) /\ UNCHANGED directory
  BY <1>1, <1>3, FailStep
<1> QED BY <1>2, <1>3 DEF LinkKey

\* A failing store call sends the login back to its client.
LEMMA StoreFailsInv ==
    ASSUME Inv, NEW l \in Logins, StoreFails(l)
    PROVE  Inv'
BY FailStep DEF StoreFails

\* A login that ends keeps its number of guesses.
LEMMA EndLoginInv ==
    ASSUME Inv, NEW l \in Logins, EndLogin(l)
    PROVE  Inv'
<1> DEFINE s == [NewLogin EXCEPT !.stage = "closed"]
<1>0. guesses[l] \in Nat /\ MaxAttempts \in Nat /\ Fits(login[l], guesses[l])
      /\ guesses = [guesses EXCEPT ![l] = guesses[l]]
  BY LoginFacts
<1>1. login' = [login EXCEPT ![l] = s] /\ UNCHANGED <<directory, revoked, guesses, console>>
  BY DEF EndLogin
<1>2. s \in LoginSession /\ s.stage = "closed" /\ s.tries = 0
  BY DEF NewLogin, LoginSession, LoginStage
<1> HIDE DEF s
<1>3. Fits(s, guesses[l]) /\ s.stage \notin Linking
  BY <1>0, <1>2 DEF Fits, Linking
<1> QED BY <1>0, <1>1, <1>2, <1>3, OneLogin, SameDirectory

\* Every step of an enrollment keeps the invariant.
LEMMA LoginNextInv ==
    ASSUME Inv, NEW l \in Logins, LoginNext(l)
    PROVE  Inv'
BY VerifiedEnrollmentInv, KeyboardInteractiveInv, AttemptInv, AnswerUnusableInv,
   PasswordUnusableInv, VerifyTokenInv, KeyDigestExistsInv, GetLinkedAccountInv,
   FindAccountInv,
   CreateAccountInv, LoadCredentialInv, ReplaceCredentialInv, ReplaceRefusedInv,
   RecoverKeyInv, LinkKeyInv, StoreFailsInv, EndLoginInv DEF LoginNext

-----------------------------------------------------------------------------
(* One console *)

\* Session c becomes s.
LEMMA OneConsole ==
    ASSUME Inv, DirInv', Stable, UNCHANGED <<revoked, login, guesses>>,
           NEW c \in Consoles, NEW s \in ConsoleSession,
           console' = [console EXCEPT ![c] = s], InOrder(s)
    PROVE  Inv'
<1>1. LoginInv'
  BY NoLogin
<1>2. ConsoleInv'
  BY DEF Inv, ConsoleInv
<1> QED BY <1>1, <1>2 DEF Inv

\* What the invariant says about one console.
LEMMA ConsoleFacts ==
    ASSUME Inv, NEW c \in Consoles
    PROVE  console[c] \in ConsoleSession /\ InOrder(console[c])
BY DEF Inv, ConsoleInv

\* What a listing holds is records.
LEMMA ListingType ==
    ASSUME DirInv, NEW a
    PROVE  Listing(a) \subseteq Entry
<1>1. \A k \in Keys : ids[k] \in Nat
  BY DEF DirInv
<1> QED BY <1>1 DEF Listing, Entry, Dir!KeysOf

\* And so it is of a listing taken after the step.
LEMMA ListingTypeNext ==
    ASSUME DirInv', NEW CONSTANT a
    PROVE  Listing(a)' \subseteq Entry
<1>1. \A k \in Keys : ids'[k] \in Nat
  BY DEF DirInv
<1> QED BY <1>1 DEF Listing, Entry, Dir!KeysOf

\* A stage that picks nothing.
LEMMA StageStep ==
    ASSUME Inv, UNCHANGED <<directory, revoked, login, guesses>>, NEW c \in Consoles,
           NEW stage \in ConsoleStage \ {"confirmKey"},
           console[c].stage \notin {"new", "closed"},
           console' = [console EXCEPT ![c].stage = stage]
    PROVE  Inv'
<1> DEFINE s == [console[c] EXCEPT !.stage = stage]
<1>1. console[c] \in ConsoleSession
  BY ConsoleFacts
<1>2. console' = [console EXCEPT ![c] = s]
  BY <1>1 DEF Inv, ConsoleInv, ConsoleSession
<1>3. s \in ConsoleSession /\ s.stage = stage /\ s.acct = console[c].acct
  BY <1>1 DEF ConsoleSession
<1> HIDE DEF s
<1>4. InOrder(s)
  BY <1>3, ConsoleFacts DEF InOrder
<1> QED BY <1>2, <1>3, <1>4, OneConsole, SameDirectory

\* A console starts as the account of the key it authenticated with.
LEMMA KeysCandidateInv ==
    ASSUME Inv, NEW c \in Consoles, NEW k \in Keys, KeysCandidate(c, k)
    PROVE  Inv'
<1> DEFINE e == [key |-> k, id |-> ids[k]]
           a == keys[k].acct
           s == [console[c] EXCEPT !.stage = "candidate", !.own = e, !.acct = a]
<1>1. console[c] \in ConsoleSession
  BY ConsoleFacts
<1>2. e \in Entry /\ a \in Accounts
  BY DEF Inv, DirInv, Entry, KeyRecord, KeysCandidate, Resolves
<1>3. /\ console' = [console EXCEPT ![c].stage = "candidate", ![c].own = e, ![c].acct = a]
      /\ UNCHANGED <<directory, revoked, login, guesses>>
  BY DEF KeysCandidate
<1> HIDE DEF e, a
<1>4. console' = [console EXCEPT ![c] = s]
  BY <1>1, <1>3 DEF Inv, ConsoleInv, ConsoleSession
<1>5. s \in ConsoleSession /\ s.stage = "candidate" /\ s.acct = a
  BY <1>1, <1>2 DEF ConsoleSession, ConsoleStage
<1> HIDE DEF s
<1>6. InOrder(s)
  BY <1>2, <1>5 DEF InOrder
<1> QED BY <1>3, <1>4, <1>5, <1>6, OneConsole, SameDirectory

\* A listing after a step of the directory.
LEMMA RenderStep ==
    ASSUME Inv, DirInv', Stable, UNCHANGED <<revoked, login, guesses>>,
           NEW c \in Consoles, console[c].stage \notin {"new", "closed"}, Render(c)
    PROVE  Inv'
<1>1. PICK a \in {console[c].acct} : \E list \in {console[c].list, Listing(a)'} :
        console' = [console EXCEPT ![c].stage = "menu", ![c].list = list, ![c].pick = NoEntry]
  BY DEF Render
<1>2. PICK list \in {console[c].list, Listing(a)'} :
        console' = [console EXCEPT ![c].stage = "menu", ![c].list = list, ![c].pick = NoEntry]
  BY <1>1
<1>3. console[c] \in ConsoleSession
  BY ConsoleFacts
<1>4. list \in SUBSET Entry
  BY <1>3, ListingTypeNext DEF ConsoleSession
<1> DEFINE s == [console[c] EXCEPT !.stage = "menu", !.list = list, !.pick = NoEntry]
<1>5. console' = [console EXCEPT ![c] = s]
  BY <1>2, <1>3 DEF Inv, ConsoleInv, ConsoleSession
<1>6. s \in ConsoleSession /\ s.stage = "menu" /\ s.acct = console[c].acct
  BY <1>3, <1>4 DEF ConsoleSession, ConsoleStage
<1> HIDE DEF s
<1>7. InOrder(s)
  BY <1>6, ConsoleFacts DEF InOrder
<1> QED BY <1>5, <1>6, <1>7, OneConsole

\* The entry to be confirmed was on the list and is not the console's own.
LEMMA SelectKeyInv ==
    ASSUME Inv, NEW c \in Consoles, NEW e \in console[c].list, SelectKey(c, e)
    PROVE  Inv'
<1> DEFINE s == [console[c] EXCEPT !.stage = "confirmKey", !.pick = e]
<1>1. console[c] \in ConsoleSession
  BY ConsoleFacts
<1>2. e \in Entry /\ e.id # console[c].own.id
  BY <1>1 DEF SelectKey, Guarded, ConsoleSession
<1>3. /\ console' = [console EXCEPT ![c] = s]
      /\ UNCHANGED <<directory, revoked, login, guesses>>
  BY <1>1 DEF SelectKey, Inv, ConsoleInv, ConsoleSession
<1>4. s \in ConsoleSession /\ s.pick = e /\ s.own = console[c].own
      /\ s.acct = console[c].acct /\ console[c].stage = "menu"
  BY <1>1, <1>2 DEF ConsoleSession, ConsoleStage, SelectKey
<1> HIDE DEF s
<1>5. InOrder(s)
  BY <1>2, <1>4, ConsoleFacts DEF InOrder
<1> QED BY <1>3, <1>4, <1>5, OneConsole, SameDirectory

\* What a confirmation is about.
LEMMA ConfirmKeyFacts ==
    ASSUME Inv, NEW c \in Consoles, console[c].stage = "confirmKey"
    PROVE  /\ console[c].pick \in Entry
           /\ console[c].pick.key \in Keys
           /\ console[c].pick.id # console[c].own.id
BY ConsoleFacts DEF InOrder, Entry

\* A confirmed removal keeps directory and console in order.
LEMMA ConfirmKeyInv ==
    ASSUME Inv, NEW c \in Consoles, ConfirmKey(c)
    PROVE  Inv'
<1>1. /\ console[c].stage = "confirmKey" /\ Dir!UnlinkKey(console[c].pick.key)
      /\ UNCHANGED <<ids, lastId, used, revoked, login, guesses>> /\ Render(c)
  BY DEF ConfirmKey
<1>2. DirInv' /\ Stable
  BY <1>1, ConfirmKeyFacts, UnlinkKeyDir
<1> QED BY <1>1, <1>2, RenderStep

\* Asking for confirmation changes the console alone.
LEMMA AskDeleteInv ==
    ASSUME Inv, NEW c \in Consoles, AskDelete(c)
    PROVE  Inv'
<1> DEFINE list == Listing(console[c].acct)
           s == [console[c] EXCEPT !.stage = "confirmDelete", !.list = list]
<1>1. console[c] \in ConsoleSession
  BY ConsoleFacts
<1>2. list \in SUBSET Entry
  BY ListingType DEF Inv
<1>3. /\ console' = [console EXCEPT ![c].stage = "confirmDelete", ![c].list = list]
      /\ UNCHANGED <<directory, revoked, login, guesses>>
  BY DEF AskDelete
<1> HIDE DEF list
<1>4. console' = [console EXCEPT ![c] = s]
  BY <1>1, <1>3 DEF Inv, ConsoleInv, ConsoleSession
<1>5. s \in ConsoleSession /\ s.stage = "confirmDelete" /\ s.acct = console[c].acct
  BY <1>1, <1>2 DEF ConsoleSession, ConsoleStage
<1> HIDE DEF s
<1>6. InOrder(s)
  BY <1>5, ConsoleFacts DEF InOrder, AskDelete
<1> QED BY <1>3, <1>4, <1>5, <1>6, OneConsole, SameDirectory

\* A console that was closed is in order.
LEMMA ClosedConsole ==
    LET s == [NewConsole EXCEPT !.stage = "closed"]
    IN  s \in ConsoleSession /\ InOrder(s)
<1> DEFINE s == [NewConsole EXCEPT !.stage = "closed"]
<1>1. s \in ConsoleSession /\ s.stage = "closed"
  BY DEF NewConsole, ConsoleSession, ConsoleStage
<1> QED BY <1>1 DEF InOrder

\* Both ways a session ends.
LEMMA ConsoleEndsInv ==
    ASSUME Inv, NEW c \in Consoles, ConfirmDelete(c) \/ EndConsole(c)
    PROVE  Inv'
<1> DEFINE s == [NewConsole EXCEPT !.stage = "closed"]
<1>1. s \in ConsoleSession /\ InOrder(s)
  BY ClosedConsole
<1>2. console' = [console EXCEPT ![c] = s] /\ UNCHANGED <<revoked, login, guesses>>
  BY DEF ConfirmDelete, EndConsole
<1> HIDE DEF s
<1>3. DirInv' /\ Stable
  <2>1. CASE UNCHANGED directory
    BY <2>1, SameDirectory
  <2>2. CASE ConfirmDelete(c) /\ Cascade(console[c].acct)
    <3>1. console[c].acct \in Accounts /\ UNCHANGED <<ids, lastId, used>>
      BY <2>2, ConsoleFacts DEF ConfirmDelete, InOrder
    <3> QED BY <2>2, <3>1, CascadeDir
  <2> QED BY <2>1, <2>2 DEF ConfirmDelete, EndConsole, directory
<1> QED BY <1>1, <1>2, <1>3, OneConsole

\* Every step of a console keeps the invariant.
LEMMA ConsoleNextInv ==
    ASSUME Inv, NEW c \in Consoles, ConsoleNext(c)
    PROVE  Inv'
<1>1. ASSUME VerifiedKeyManagement(c) \/ OpenSession(c) PROVE Inv'
  <2>1. PICK stage \in {"open", "accepted"} : console' = [console EXCEPT ![c].stage = stage]
    BY <1>1 DEF VerifiedKeyManagement, OpenSession, Advance
  <2>2. stage \in ConsoleStage \ {"confirmKey"}
    BY DEF ConsoleStage
  <2>3. /\ console[c].stage \notin {"new", "closed"}
        /\ UNCHANGED <<directory, revoked, login, guesses>>
    BY <1>1 DEF VerifiedKeyManagement, OpenSession, Advance
  <2> QED BY <2>1, <2>2, <2>3, StageStep
<1>2. ASSUME BackToMenu(c) PROVE Inv'
  <2>1. console[c].stage \notin {"new", "closed"} /\ Render(c)
        /\ UNCHANGED <<directory, revoked, login, guesses>>
    BY <1>2 DEF BackToMenu
  <2> QED BY <2>1, RenderStep, SameDirectory
<1> QED BY <1>1, <1>2, KeysCandidateInv, SelectKeyInv, ConfirmKeyInv, AskDeleteInv,
           ConsoleEndsInv DEF ConsoleNext

-----------------------------------------------------------------------------
(* The admins *)

\* A step of the directory alone keeps the sessions if accounts stay stable.
LEMMA NoSession ==
    ASSUME Inv, DirInv', Stable, revoked' \subseteq Tokens,
           UNCHANGED <<login, guesses, console>>
    PROVE  Inv'
<1>1. LoginInv'
  BY NoLogin
<1>2. ConsoleInv'
  BY DEF Inv, ConsoleInv
<1> QED BY <1>1, <1>2 DEF Inv

\* Every admin command keeps the invariant.
LEMMA AdminNextInv == ASSUME Inv, AdminNext PROVE Inv'
<1>0. revoked' \subseteq Tokens /\ UNCHANGED <<login, guesses, console>>
  BY DEF Inv, AdminNext, AdminAccountAdd, AdminEnable, AdminKeyAdd, AdminCredentialSet,
         AdminCredentialClear
<1>1. DirInv' /\ Stable
  <2>1. ASSUME NEW a \in Accounts, NEW u \in Users \cup {None}, AdminAccountAdd(a, u)
        PROVE  DirInv' /\ Stable
    <3>1. (u = None) \in BOOLEAN
      OBVIOUS
    <3>2. a \notin used /\ Dir!CreateAccount(a, u, u = None) /\ used' = used \cup {a}
          /\ UNCHANGED <<ids, lastId>>
      BY <2>1 DEF AdminAccountAdd
    <3> QED BY <3>1, <3>2, CreateAccountDir
  <2>2. CASE AdminEnable
    <3>1. PICK e \in BOOLEAN : \/ \E a \in Accounts : Dir!EnableAccount(a, e)
                               \/ \E k \in Keys : Dir!EnableKey(k, e)
      BY <2>2 DEF AdminEnable
    <3>2. UNCHANGED <<ids, lastId, used>>
      BY <2>2 DEF AdminEnable
    <3> QED BY <3>1, <3>2, EnableDir
  <2>3. ASSUME NEW a \in Accounts, NEW k \in Keys, AdminKeyAdd(a, k)
        PROVE  DirInv' /\ Stable
    BY <2>3, AddKeyDir DEF AdminKeyAdd
  <2>4. ASSUME NEW a \in Accounts, NEW t \in Tokens, AdminCredentialSet(a, t)
        PROVE  DirInv' /\ Stable
    BY <2>4, StoreTokenDir DEF AdminCredentialSet
  <2>5. ASSUME NEW a \in Accounts, AdminCredentialClear(a)
        PROVE  DirInv' /\ Stable
    BY <2>5, ClearCredentialDir DEF AdminCredentialClear
  <2> QED BY <2>1, <2>2, <2>3, <2>4, <2>5 DEF AdminNext
<1> QED BY <1>0, <1>1, NoSession

-----------------------------------------------------------------------------
(* The theorems *)

\* It holds of an empty directory without sessions.
LEMMA InitInv == Init => Inv
<1> SUFFICES ASSUME Init PROVE Inv
  OBVIOUS
<1>1. DirInv
  <2>1. 0 \in 0 .. MaxIds /\ 0 \in 0 .. 0
    BY DeviceKeysAssumption
  <2> QED BY <2>1, NoRecordTypes DEF Init, Dir!Empty, DirInv
<1>2. NewLogin \in LoginSession /\ NewLogin.stage = "new" /\ NewLogin.tries = 0
  BY DEF NewLogin, LoginSession, LoginStage
<1>3. LoginInv
  <2>1. Fits(NewLogin, 0) /\ NewLogin.stage \notin Linking
    BY <1>2, DeviceKeysAssumption DEF Fits, Linking
  <2> QED BY <1>2, <2>1 DEF Init, LoginInv, Knows
<1>4. NewConsole \in ConsoleSession /\ NewConsole.stage = "new"
  BY DEF NewConsole, ConsoleSession, ConsoleStage
<1>5. ConsoleInv
  BY <1>4 DEF Init, ConsoleInv, InOrder
<1> QED BY <1>1, <1>3, <1>5 DEF Init, Inv

\* Every step keeps it.
LEMMA NextInv == Inv /\ [Next]_vars => Inv'
<1> SUFFICES ASSUME Inv, [Next]_vars PROVE Inv'
  OBVIOUS
<1>1. ASSUME NEW l \in Logins, LoginNext(l) PROVE Inv'
  BY <1>1, LoginNextInv
<1>2. ASSUME NEW c \in Consoles, ConsoleNext(c) PROVE Inv'
  BY <1>2, ConsoleNextInv
<1>3. ASSUME NEW t \in Tokens, Revoke(t) PROVE Inv'
  <2>1. revoked' \subseteq Tokens /\ UNCHANGED <<directory, login, guesses, console>>
    BY <1>3 DEF Revoke, Inv
  <2> QED BY <2>1, SameDirectory, NoSession
<1>4. CASE UNCHANGED vars
  <2>1. revoked' \subseteq Tokens /\ UNCHANGED <<directory, login, guesses, console>>
    BY <1>4 DEF vars, Inv
  <2> QED BY <2>1, SameDirectory, NoSession
<1> QED BY <1>1, <1>2, <1>3, <1>4, AdminNextInv DEF Next

\* The inductive invariant of enrollment and console sessions holds in every
\* reachable state, whatever they do to the store in between.
THEOREM Invariance == Spec => []Inv
<1> QED BY InitInv, NextInv, PTL DEF Spec

\* Every session and every record keeps its type.
THEOREM TypeCorrect == Spec => []TypeOK
<1>1. Inv => TypeOK
  <2> SUFFICES ASSUME Inv PROVE TypeOK
    OBVIOUS
  <2>1. \A a \in Accounts : /\ accounts[a].user \in Users \cup {None}
                            /\ creds[a].gen \in 0 .. MaxGen
                            /\ creds[a].token \in Tokens \cup {None}
    BY DEF Inv, DirInv, AccountRecord, CredentialRecord
  <2>2. \A k \in Keys : keys[k].acct \in Accounts \cup {None}
    BY DEF Inv, DirInv, KeyRecord
  <2> QED BY <2>1, <2>2 DEF Inv, DirInv, LoginInv, ConsoleInv, TypeOK
<1> QED BY <1>1, Invariance, PTL

\* However a client mixes keyboard-interactive and password and starts them
\* anew, it tries no more than MaxAttempts tokens (enrollmentState.attempts).
THEOREM GuessesAreBounded == Spec => []GuessesBounded
<1>1. Inv => GuessesBounded
  BY DEF Inv, LoginInv, Fits, GuessesBounded
<1> QED BY <1>1, Invariance, PTL

\* Only the last two steps of linkEnrollment report success.
LEMMA DoneBy ==
    ASSUME Inv, [Next]_vars, NEW l \in Logins,
           login[l].stage # "done", login'[l].stage = "done"
    PROVE  RecoverKey(l) \/ LinkKey(l)
<1>0. login \in [Logins -> LoginSession]
  BY DEF Inv, LoginInv
<1>1. login' # login
  OBVIOUS
<1>2. \E m \in Logins : LoginNext(m)
  BY <1>1 DEF Next, ConsoleNext, KeysCandidate, VerifiedKeyManagement, OpenSession, Advance,
              BackToMenu, SelectKey, ConfirmKey, AskDelete, ConfirmDelete, EndConsole,
              AdminNext, AdminAccountAdd, AdminEnable, AdminKeyAdd, AdminCredentialSet,
              AdminCredentialClear, Revoke, vars
<1>3. PICK m \in Logins : LoginNext(m)
  BY <1>2
<1>4. m = l
  <2>1. \A x \in Logins : x # m => login'[x] = login[x]
    BY <1>0, <1>3
       DEF LoginNext, VerifiedEnrollment, KeyboardInteractive, AnswerUnusable, Answer,
           Password, PasswordUnusable, Attempt, VerifyToken, Rejected, KeyDigestExists,
           GetLinkedAccount,
           FindAccount, CreateAccount, LoadCredential, ReplaceCredential, ReplaceRefused,
           RecoverKey, LinkKey, StoreFails, EndLogin, Fail, Goto
  <2> QED BY <2>1
<1>5. ASSUME NEW stage \in LoginStage, Goto(l, stage) PROVE stage = "done"
  BY <1>0, <1>5 DEF Goto, LoginSession
<1>6. ~Fail(l)
  BY <1>0 DEF Fail, LoginSession
<1>7. ~VerifyToken(l) /\ ~GetLinkedAccount(l) /\ ~ReplaceCredential(l) /\ ~ReplaceRefused(l)
      /\ ~StoreFails(l)
  BY <1>5, <1>6 DEF VerifyToken, Rejected, GetLinkedAccount, ReplaceCredential,
                    ReplaceRefused, StoreFails, LoginStage
<1>8. \A k \in Keys : ~VerifiedEnrollment(l, k)
  BY <1>0 DEF VerifiedEnrollment, LoginSession
<1>9. ~KeyboardInteractive(l) /\ ~EndLogin(l) /\ ~LoadCredential(l) /\ ~FindAccount(l)
  BY <1>0 DEF KeyboardInteractive, EndLogin, LoadCredential, FindAccount, LoginSession, NewLogin
<1>10. ~AnswerUnusable(l) /\ ~PasswordUnusable(l)
  BY <1>0, <1>6 DEF AnswerUnusable, PasswordUnusable, LoginSession
<1>11. \A t \in Tokens : ~Answer(l, t) /\ ~Password(l, t)
  BY <1>0 DEF Answer, Password, Attempt, LoginSession
<1>12. ~KeyDigestExists(l)
  BY <1>0, <1>5 DEF KeyDigestExists, LoginSession, LoginStage
<1>13. \A a \in Accounts : ~CreateAccount(l, a)
  BY <1>0 DEF CreateAccount, LoginSession
<1> QED BY <1>3, <1>4, <1>7, <1>8, <1>9, <1>10, <1>11, <1>12, <1>13 DEF LoginNext

\* When linkEnrollment reports success the proven key is on the account of the
\* user whose token was verified, whatever ran between its store calls.
THEOREM EnrolledKeysAreOwned == Spec => EnrolledKeyIsOwned
<1> DEFINE Owned == \A l \in Logins :
          login[l].stage # "done" /\ login'[l].stage = "done" =>
              LET k == keys'[login[l].key]
              IN  k.exists /\ k.acct = login[l].acct
                  /\ accounts'[k.acct].user = Owner[login[l].token]
<1>1. ASSUME Inv, [Next]_vars, NEW l \in Logins,
             login[l].stage # "done", login'[l].stage = "done"
      PROVE  /\ keys'[login[l].key].exists
             /\ keys'[login[l].key].acct = login[l].acct
             /\ accounts'[login[l].acct].user = Owner[login[l].token]
  <2>0. ~Fail(l)
    BY <1>1 DEF Fail, Inv, LoginInv, LoginSession
  <2>1. CASE RecoverKey(l)
    <3>1. login[l].stage \in Linking /\ StillOwned(l) /\ UNCHANGED directory
      BY <2>0, <2>1 DEF RecoverKey, Linking
    <3> QED BY <1>1, <3>1, LinkingFacts DEF StillOwned, Resolves, directory
  <2>2. CASE LinkKey(l)
    <3>1. /\ login[l].stage \in Linking /\ accounts[login[l].acct].exists
          /\ AddKey(login[l].key, login[l].acct)
      BY <2>0, <2>2 DEF LinkKey, Linking
    <3>2. login[l].key \in Keys /\ accounts[login[l].acct].user = Owner[login[l].token]
      BY <1>1, <3>1, LinkingFacts
    <3> QED BY <1>1, <3>1, <3>2 DEF AddKey, Dir!LinkKey, Inv, DirInv
  <2> QED BY <1>1, <2>1, <2>2, DoneBy
<1>2. Inv /\ [Next]_vars => [Owned]_vars
  BY <1>1
<1> QED BY <1>2, Invariance, PTL DEF Spec, EnrolledKeyIsOwned

\* A confirmation removes the record that was shown and picked, by its id, of
\* the console's own account, and never the one it authenticated with
\* (handleNumber, Service.RemoveKey, DeleteKey).
THEOREM ConsoleRemovesOnlyThat == Spec => ConsoleRemovesWhatWasShown
<1> DEFINE Shown == \A c \in Consoles, k \in Keys :
          console[c].stage = "confirmKey" /\ console'[c].stage = "menu"
              /\ keys[k].exists /\ ~keys'[k].exists =>
                  /\ [key |-> k, id |-> ids[k]] = console[c].pick
                  /\ keys[k].acct = console[c].acct
                  /\ console[c].pick # console[c].own
<1>1. ASSUME Inv, [Next]_vars, NEW c \in Consoles, NEW k \in Keys,
             console[c].stage = "confirmKey", console'[c].stage = "menu",
             keys[k].exists, ~keys'[k].exists
      PROVE  /\ [key |-> k, id |-> ids[k]] = console[c].pick
             /\ keys[k].acct = console[c].acct
             /\ console[c].pick # console[c].own
  <2>1. console' # console /\ keys' # keys
    BY <1>1
  <2>2. PICK d \in Consoles : ConfirmKey(d) \/ ConfirmDelete(d)
    BY <1>1, <2>1
       DEF Next, LoginNext, ConsoleNext, AdminNext, VerifiedEnrollment, KeyboardInteractive,
           AnswerUnusable, Answer, Password, PasswordUnusable, VerifyToken,
           KeyDigestExists, GetLinkedAccount,
           FindAccount, CreateAccount, LoadCredential, ReplaceCredential, ReplaceRefused,
           RecoverKey, LinkKey, StoreFails, EndLogin, KeysCandidate, VerifiedKeyManagement,
           OpenSession, Advance, BackToMenu, SelectKey, AskDelete, EndConsole,
           AdminAccountAdd, AdminEnable, AdminKeyAdd, AdminCredentialSet,
           AdminCredentialClear, Revoke, vars, directory
  <2>3. \A x \in Consoles : x # d => console'[x] = console[x]
    BY <1>1, <2>2 DEF ConfirmKey, ConfirmDelete, Render, Inv, ConsoleInv
  <2>4. d = c
    BY <1>1, <2>3
  <2>5. ConfirmKey(c)
    BY <1>1, <2>2, <2>4 DEF ConfirmDelete
  <2>6. /\ FindKey(console[c].pick, console[c].acct) /\ Dir!UnlinkKey(console[c].pick.key)
    BY <2>5 DEF ConfirmKey
  <2>7. console[c].pick \in Entry /\ console[c].pick.id # console[c].own.id
    BY <1>1, ConfirmKeyFacts
  <2>8. k = console[c].pick.key
    BY <1>1, <2>6 DEF Dir!UnlinkKey, Inv, DirInv
  <2>9. ids[k] = console[c].pick.id /\ keys[k].acct = console[c].acct
    BY <2>6, <2>8 DEF FindKey
  <2> QED BY <2>7, <2>8, <2>9 DEF Entry
<1>2. Inv /\ [Next]_vars => [Shown]_vars
  BY <1>1
<1> QED BY <1>2, Invariance, PTL DEF Spec, ConsoleRemovesWhatWasShown

=============================================================================
