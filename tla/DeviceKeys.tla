---------------------------- MODULE DeviceKeys ----------------------------
(***************************************************************************)
(* How an SSH key gets on and off an account while everybody works on the  *)
(* same directory: self-enrollment over login@ (internal/sshauth,          *)
(* enrollment.go), the key-management console over login-admin@            *)
(* (internal/keymgmt, internal/server/keymanagement.go) and the admin      *)
(* commands (internal/app).                                                *)
(*                                                                         *)
(* The store is Directory: a call is one step (Store shows that for the    *)
(* calls of one process), and an enrollment is a sequence of calls between *)
(* which the others run.  A login goes back to "partial" whenever its      *)
(* callback returns an error: the client may start another one until the   *)
(* connection ends.                                                        *)
(*                                                                         *)
(* Abstracted away: banners, the workspace hint, audit events; the rate    *)
(* limiters, which may refuse at any consultation (RateLimits models       *)
(* them); the number typed at the menu, which is the entry it stands for.  *)
(***************************************************************************)
EXTENDS Naturals

CONSTANTS
    Accounts, Keys, Users, Tokens, Owner, None,
    Logins,       \* connections to the enrollment user
    Consoles,     \* connections to the key-management user
    MaxAttempts,  \* token attempts per connection (default 3)
    MaxGen,       \* bound: credential generations
    MaxIds        \* bound: key record ids handed out

ASSUME DeviceKeysAssumption ==
    /\ Owner \in [Tokens -> Users]
    /\ MaxAttempts \in Nat \ {0}
    /\ MaxGen \in Nat /\ MaxIds \in Nat
    /\ None \notin Accounts \cup Keys \cup Users \cup Tokens

VARIABLES
    accounts, keys, creds,  \* the directory
    ids,        \* ids[k]: the id of k's record; AddKey draws a fresh one
    lastId,     \* ids handed out so far
    used,       \* account ids handed out so far
    revoked,    \* tokens the control plane refuses
    login,      \* login[l]: the enrollment session of connection l
    guesses,    \* history: guesses[l], tokens of l sent to the control plane
    console     \* console[c]: the key-management session of connection c

directory == <<accounts, keys, creds, ids, lastId, used>>
vars == <<directory, revoked, login, guesses, console>>

Dir == INSTANCE Directory

LoginStage == {"new", "partial", "challenge", "verify", "digest", "owner",
               "resolve", "load", "replace", "link", "done", "closed"}

\* The proven key, the callback that runs, the token it got, and what
\* linkEnrollment has found out so far.
LoginSession == [stage: LoginStage, key: Keys \cup {None},
                 method: {"none", "ki", "password"}, token: Tokens \cup {None},
                 acct: Accounts \cup {None}, keyExists: BOOLEAN,
                 expected: Nat, tries: Nat]

ConsoleStage == {"new", "candidate", "open", "accepted", "menu", "confirmKey",
                 "confirmDelete", "closed"}

\* A key record as the menu shows it.
Entry == [key: Keys, id: Nat]

NoEntry == [key |-> None, id |-> 0]

\* SessionKeyID, Account.ID, the last rendered listing and the entry that
\* waits for its confirmation.
ConsoleSession == [stage: ConsoleStage, own: Entry \cup {NoEntry},
                   acct: Accounts \cup {None}, list: SUBSET Entry,
                   pick: Entry \cup {NoEntry}]

NewLogin == [stage |-> "new", key |-> None, method |-> "none", token |-> None,
             acct |-> None, keyExists |-> FALSE, expected |-> 0, tries |-> 0]

NewConsole == [stage |-> "new", own |-> NoEntry, acct |-> None, list |-> {},
               pick |-> NoEntry]

Init ==
    /\ Dir!Empty
    /\ ids = [k \in Keys |-> 0]
    /\ lastId = 0
    /\ used = {}
    /\ revoked = {}
    /\ login = [l \in Logins |-> NewLogin]
    /\ guesses = [l \in Logins |-> 0]
    /\ console = [c \in Consoles |-> NewConsole]

\* LookupByPublicKey succeeds for k.
Resolves(k) ==
    /\ keys[k].exists /\ keys[k].enabled
    /\ accounts[keys[k].acct].exists /\ accounts[keys[k].acct].enabled

\* ListKeysForAccount.
Listing(a) == {[key |-> k, id |-> ids[k]] : k \in Dir!KeysOf(a)}

\* Mutants: attempts that do not count, an owner that is not compared, a
\* record found by its key instead of its id.
UncountedAttempt(l, t, method) ==
    /\ guesses' = [guesses EXCEPT ![l] = @ + 1]
    /\ login' = [login EXCEPT ![l].token = t, ![l].stage = "verify",
                              ![l].method = method]
SameOwner(l) == Resolves(login[l].key)
FindByKey(e, a) == keys[e.key].exists /\ keys[e.key].acct = a

-----------------------------------------------------------------------------
(* Calls of the store that change more than one file, or draw an id *)

\* AddKey: the account exists, the digest is free, the record gets a new id.
AddKey(k, a) ==
    /\ lastId < MaxIds
    /\ Dir!LinkKey(k, a)
    /\ lastId' = lastId + 1
    /\ ids' = [ids EXCEPT ![k] = lastId + 1]

\* ReplaceCredential refuses: no account, a disabled one, a wrong identity.
Refuses(a, t) ==
    LET acct == accounts[a]
    IN  \/ ~acct.exists \/ ~acct.enabled
        \/ acct.user # None /\ acct.user # Owner[t]
        \/ acct.user = None /\ ~acct.bind
        \/ \E b \in Dir!Bound(Owner[t]) : b # a

\* ReplaceCredential stores t: the binding and the next generation.
StoreToken(a, t) ==
    /\ creds[a].gen < MaxGen
    /\ accounts' = [accounts EXCEPT ![a].user = IF @ = None THEN Owner[t] ELSE @]
    /\ creds' = [creds EXCEPT ![a] = [exists |-> TRUE, gen |-> creds[a].gen + 1,
                                      state |-> "valid", token |-> t]]
    /\ UNCHANGED <<keys, ids, lastId, used>>

\* DeleteKey: the record with the id of e, if it is one of account a.
FindKey(e, a) ==
    keys[e.key].exists /\ ids[e.key] = e.id /\ keys[e.key].acct = a

\* DeleteAccount's cascade: some of the keys, all of them, the credential too,
\* or everything; all but the last return an error.
Cascade(a) ==
    \E gone \in SUBSET Dir!KeysOf(a), more \in {"keys", "credential", "account"} :
        /\ more # "keys" => gone = Dir!KeysOf(a)
        /\ keys' = [k \in Keys |-> IF k \in gone THEN Dir!NoKey ELSE keys[k]]
        /\ creds' = IF more = "keys" THEN creds
                    ELSE [creds EXCEPT ![a] = Dir!NoCredential]
        /\ accounts' = IF more # "account" THEN accounts
                       ELSE [accounts EXCEPT ![a] = Dir!NoAccount]

-----------------------------------------------------------------------------
(* login@: the token continuations *)

Goto(l, stage) == login' = [login EXCEPT ![l].stage = stage]

\* The callback returns an error; the client may try the next one.
Fail(l) == login' = [login EXCEPT ![l].stage = "partial", ![l].method = "none",
                                  ![l].token = None, ![l].acct = None,
                                  ![l].keyExists = FALSE, ![l].expected = 0]

\* ErrTokenRejected: keyboard-interactive asks again while the gate lets it
\* and attempts remain, a password attempt is over.
Rejected(l) ==
    \/ Fail(l)
    \/ /\ login[l].method = "ki"
       /\ login[l].tries < MaxAttempts
       /\ Goto(l, "challenge")

\* enrollmentCandidate and verifiedEnrollment: any key that is proven, no
\* store lookup; the gate lets the connection through.
VerifiedEnrollment(l, k) ==
    /\ login[l].stage = "new"
    /\ login' = [login EXCEPT ![l].stage = "partial", ![l].key = k]
    /\ UNCHANGED <<directory, revoked, guesses, console>>

\* keyboardInteractive starts and prompts.
KeyboardInteractive(l) ==
    /\ login[l].stage = "partial"
    /\ login[l].tries < MaxAttempts
    /\ login' = [login EXCEPT ![l].stage = "challenge", ![l].method = "ki"]
    /\ UNCHANGED <<directory, revoked, guesses, console>>

\* One attempt: a token that passed sanitization and the limiter goes to the
\* control plane.
Attempt(l, t, method) ==
    /\ guesses' = [guesses EXCEPT ![l] = @ + 1]
    /\ login' = [login EXCEPT ![l].token = t, ![l].stage = "verify",
                              ![l].method = method, ![l].tries = @ + 1]

\* The answer to the challenge.
Answer(l, t) ==
    /\ login[l].stage = "challenge"
    /\ Attempt(l, t, "ki")
    /\ UNCHANGED <<directory, revoked, console>>

\* An attempt that ends before the control plane: the limiter refuses, or the
\* answer is no token at all.  A challenge that is broken off does not count.
AnswerUnusable(l) ==
    /\ login[l].stage = "challenge"
    /\ LET n == login[l].tries + 1
       IN  \/ Fail(l)
           \/ login' = [login EXCEPT ![l].stage = "partial", ![l].method = "none",
                                     ![l].tries = n]
           \/ n < MaxAttempts /\ login' = [login EXCEPT ![l].tries = n]
    /\ UNCHANGED <<directory, revoked, guesses, console>>

\* password: gated, bounded by the same counter.
Password(l, t) ==
    /\ login[l].stage = "partial"
    /\ login[l].tries < MaxAttempts
    /\ Attempt(l, t, "password")
    /\ UNCHANGED <<directory, revoked, console>>

\* A password that is no token, or that the limiter stops, counts as well.
PasswordUnusable(l) ==
    /\ login[l].stage = "partial"
    /\ login[l].tries < MaxAttempts
    /\ login' = [login EXCEPT ![l].tries = @ + 1]
    /\ UNCHANGED <<directory, revoked, guesses, console>>

\* Verify answers 401, or fails in a way that is not retried, or accepts.
VerifyToken(l) ==
    /\ login[l].stage = "verify"
    /\ \/ login[l].token \in revoked /\ Rejected(l)
       \/ Fail(l)
       \/ login[l].token \notin revoked /\ Goto(l, "digest")
    /\ UNCHANGED <<directory, revoked, guesses, console>>

-----------------------------------------------------------------------------
(* login@: linkEnrollment, one store call per step.  A store that fails ends *)
(* the callback after any of them (StoreFails).                             *)

KeyDigestExists(l) ==
    /\ login[l].stage = "digest"
    /\ LET k == keys[login[l].key]
       IN  IF k.exists
           THEN login' = [login EXCEPT ![l].stage = "owner", ![l].acct = k.acct,
                                       ![l].keyExists = TRUE]
           ELSE Goto(l, "resolve")
    /\ UNCHANGED <<directory, revoked, guesses, console>>

\* GetAccount of the linked account: gone is an error, another user's (or
\* nobody's) is the key conflict.
GetLinkedAccount(l) ==
    /\ login[l].stage = "owner"
    /\ LET acct == accounts[login[l].acct]
       IN  IF acct.exists /\ acct.user = Owner[login[l].token]
           THEN Goto(l, "resolve")
           ELSE Fail(l)
    /\ UNCHANGED <<directory, revoked, guesses, console>>

\* LookupOrCreateAccountByCoderID finds the account of the token's user ...
FindAccount(l) ==
    /\ login[l].stage = "resolve"
    /\ \E a \in Dir!Bound(Owner[login[l].token]) :
          login' = [login EXCEPT ![l].stage = "load", ![l].acct = a]
    /\ UNCHANGED <<directory, revoked, guesses, console>>

\* ... or creates it, bound, with generation 0 expected.
CreateAccount(l, a) ==
    /\ login[l].stage = "resolve"
    /\ a \notin used
    /\ Dir!CreateAccount(a, Owner[login[l].token], FALSE)
    /\ used' = used \cup {a}
    /\ login' = [login EXCEPT ![l].stage = "replace", ![l].acct = a]
    /\ UNCHANGED <<ids, lastId, revoked, guesses, console>>

LoadCredential(l) ==
    /\ login[l].stage = "load"
    /\ login' = [login EXCEPT ![l].stage = "replace",
                              ![l].expected = creds[login[l].acct].gen]
    /\ UNCHANGED <<directory, revoked, guesses, console>>

\* ReplaceCredential stores the token ...
ReplaceCredential(l) ==
    LET a == login[l].acct
        t == login[l].token
    IN  /\ login[l].stage = "replace"
        /\ ~Refuses(a, t)
        /\ creds[a].gen = login[l].expected
        /\ StoreToken(a, t)
        /\ Goto(l, "link")
        /\ UNCHANGED <<revoked, guesses, console>>

\* ... or refuses it, or has a newer generation, which counts as success.
ReplaceRefused(l) ==
    LET a == login[l].acct
    IN  /\ login[l].stage = "replace"
        /\ IF Refuses(a, login[l].token)
           THEN Fail(l)
           ELSE creds[a].gen # login[l].expected /\ Goto(l, "link")
        /\ UNCHANGED <<directory, revoked, guesses, console>>

\* LookupByPublicKey still finds the key on the account it was found on.
StillOwned(l) ==
    Resolves(login[l].key) /\ keys[login[l].key].acct = login[l].acct

\* The key was linked before: its record is recovered, not changed.
RecoverKey(l) ==
    /\ login[l].stage = "link" /\ login[l].keyExists
    /\ IF StillOwned(l) THEN Goto(l, "done") ELSE Fail(l)
    /\ UNCHANGED <<directory, revoked, guesses, console>>

\* AddKey, or its refusal: the account is gone, the digest has been taken.
LinkKey(l) ==
    LET k == login[l].key
        a == login[l].acct
    IN  /\ login[l].stage = "link" /\ ~login[l].keyExists
        /\ IF accounts[a].exists /\ ~keys[k].exists
           THEN AddKey(k, a) /\ Goto(l, "done") /\ UNCHANGED used
           ELSE Fail(l) /\ UNCHANGED directory
        /\ UNCHANGED <<revoked, guesses, console>>

\* A store call fails.
StoreFails(l) ==
    /\ login[l].stage \in {"digest", "owner", "resolve", "load", "replace", "link"}
    /\ Fail(l)
    /\ UNCHANGED <<directory, revoked, guesses, console>>

\* The deadline, the client, or a restart of the gateway ends the connection
\* wherever it stands.
EndLogin(l) ==
    /\ login[l].stage \notin {"new", "done", "closed"}
    /\ login' = [login EXCEPT ![l] = [NewLogin EXCEPT !.stage = "closed"]]
    /\ UNCHANGED <<directory, revoked, guesses, console>>

-----------------------------------------------------------------------------
(* login-admin@: the console *)

\* keysCandidate: only an enrolled key, on an enabled account.
KeysCandidate(c, k) ==
    /\ console[c].stage = "new"
    /\ Resolves(k)
    /\ console' = [console EXCEPT ![c].stage = "candidate",
                                  ![c].own = [key |-> k, id |-> ids[k]],
                                  ![c].acct = keys[k].acct]
    /\ UNCHANGED <<directory, revoked, login, guesses>>

\* verifiedKeyManagement, the one session channel, and its requests: pty-req
\* and env are acknowledged, exec ends the channel (EndConsole).
Advance(c, from, to) ==
    /\ console[c].stage = from
    /\ console' = [console EXCEPT ![c].stage = to]
    /\ UNCHANGED <<directory, revoked, login, guesses>>

VerifiedKeyManagement(c) == Advance(c, "candidate", "open")
OpenSession(c) == Advance(c, "open", "accepted")

\* renderListing after a step that leaves the console at the menu; a listing
\* that fails leaves the old one in place.
Render(c) ==
    \E a \in {console[c].acct} : \E list \in {console[c].list, Listing(a)'} :
        console' = [console EXCEPT ![c].stage = "menu", ![c].list = list,
                                   ![c].pick = NoEntry]

\* shell, "r", invalid input, the session's own key, a cancelled
\* confirmation, a removal that failed.
BackToMenu(c) ==
    /\ console[c].stage \in {"accepted", "menu", "confirmKey", "confirmDelete"}
    /\ UNCHANGED <<directory, revoked, login, guesses>>
    /\ Render(c)

\* The entry is not the key of this session.
Guarded(c, e) == e.id # console[c].own.id

\* A number: the entry of the last listing it stands for.
SelectKey(c, e) ==
    /\ console[c].stage = "menu"
    /\ e \in console[c].list
    /\ Guarded(c, e)
    /\ console' = [console EXCEPT ![c].stage = "confirmKey", ![c].pick = e]
    /\ UNCHANGED <<directory, revoked, login, guesses>>

\* The same number again: DeleteKey by record id, scoped to the account.
ConfirmKey(c) ==
    LET e == console[c].pick
    IN  /\ console[c].stage = "confirmKey"
        /\ FindKey(e, console[c].acct)
        /\ Dir!UnlinkKey(e.key)
        /\ UNCHANGED <<ids, lastId, used, revoked, login, guesses>>
        /\ Render(c)

\* "d": a fresh listing, then the DELETE prompt.
AskDelete(c) ==
    /\ console[c].stage = "menu"
    /\ console' = [console EXCEPT ![c].stage = "confirmDelete",
                                  ![c].list = Listing(console[c].acct)]
    /\ UNCHANGED <<directory, revoked, login, guesses>>

\* DELETE: the cascade, complete or not, ends the session.
ConfirmDelete(c) ==
    /\ console[c].stage = "confirmDelete"
    /\ IF accounts[console[c].acct].exists
       THEN Cascade(console[c].acct)
       ELSE UNCHANGED <<accounts, keys, creds>>
    /\ console' = [console EXCEPT ![c] = [NewConsole EXCEPT !.stage = "closed"]]
    /\ UNCHANGED <<ids, lastId, used, revoked, login, guesses>>

\* "q", end of input, exec instead of shell, a rejected candidate.
EndConsole(c) ==
    /\ console[c].stage \notin {"new", "closed"}
    /\ console' = [console EXCEPT ![c] = [NewConsole EXCEPT !.stage = "closed"]]
    /\ UNCHANGED <<directory, revoked, login, guesses>>

-----------------------------------------------------------------------------
(* The admin commands and the control plane *)

\* accountAdd: bound to a user or to bind on its first token.
AdminAccountAdd(a, u) ==
    /\ a \notin used
    /\ Dir!CreateAccount(a, u, u = None)
    /\ used' = used \cup {a}
    /\ UNCHANGED <<ids, lastId, revoked, login, guesses, console>>

\* accountSetEnabled, keySetEnabled, and cmdDisconnect, which disables.
AdminEnable ==
    /\ \/ \E a \in Accounts, e \in BOOLEAN : Dir!EnableAccount(a, e)
       \/ \E k \in Keys, e \in BOOLEAN : Dir!EnableKey(k, e)
    /\ UNCHANGED <<ids, lastId, used, revoked, login, guesses, console>>

AdminKeyAdd(a, k) ==
    /\ AddKey(k, a)
    /\ UNCHANGED <<used, revoked, login, guesses, console>>

\* credentialSet of a token the control plane accepts.
AdminCredentialSet(a, t) ==
    /\ t \notin revoked
    /\ ~Refuses(a, t)
    /\ StoreToken(a, t)
    /\ UNCHANGED <<revoked, login, guesses, console>>

AdminCredentialClear(a) ==
    /\ creds[a].gen < MaxGen
    /\ Dir!ClearCredential(a)
    /\ UNCHANGED <<ids, lastId, used, revoked, login, guesses, console>>

Revoke(t) ==
    /\ t \notin revoked
    /\ revoked' = revoked \cup {t}
    /\ UNCHANGED <<directory, login, guesses, console>>

-----------------------------------------------------------------------------
LoginNext(l) ==
    \/ \E k \in Keys : VerifiedEnrollment(l, k)
    \/ KeyboardInteractive(l) \/ AnswerUnusable(l) \/ PasswordUnusable(l)
    \/ \E t \in Tokens : Answer(l, t) \/ Password(l, t)
    \/ VerifyToken(l) \/ KeyDigestExists(l) \/ GetLinkedAccount(l)
    \/ FindAccount(l) \/ (\E a \in Accounts : CreateAccount(l, a))
    \/ LoadCredential(l) \/ ReplaceCredential(l) \/ ReplaceRefused(l)
    \/ RecoverKey(l) \/ LinkKey(l) \/ StoreFails(l) \/ EndLogin(l)

ConsoleNext(c) ==
    \/ \E k \in Keys : KeysCandidate(c, k)
    \/ VerifiedKeyManagement(c) \/ OpenSession(c) \/ BackToMenu(c)
    \/ \E e \in console[c].list : SelectKey(c, e)
    \/ ConfirmKey(c) \/ AskDelete(c) \/ ConfirmDelete(c) \/ EndConsole(c)

AdminNext ==
    \/ \E a \in Accounts, u \in Users \cup {None} : AdminAccountAdd(a, u)
    \/ AdminEnable
    \/ \E a \in Accounts, k \in Keys : AdminKeyAdd(a, k)
    \/ \E a \in Accounts, t \in Tokens : AdminCredentialSet(a, t)
    \/ \E a \in Accounts : AdminCredentialClear(a)

Next ==
    \/ \E l \in Logins : LoginNext(l)
    \/ \E c \in Consoles : ConsoleNext(c)
    \/ AdminNext
    \/ \E t \in Tokens : Revoke(t)

Spec == Init /\ [][Next]_vars

-----------------------------------------------------------------------------
(* Properties *)

\* Every session and every record has its type.
TypeOK ==
    /\ \A a \in Accounts :
          /\ accounts[a].user \in Users \cup {None}
          /\ creds[a].gen \in 0 .. MaxGen
          /\ creds[a].token \in Tokens \cup {None}
    /\ \A k \in Keys : keys[k].acct \in Accounts \cup {None}
    /\ ids \in [Keys -> 0 .. lastId] /\ lastId \in 0 .. MaxIds
    /\ used \subseteq Accounts /\ revoked \subseteq Tokens
    /\ login \in [Logins -> LoginSession]
    /\ guesses \in [Logins -> Nat]
    /\ console \in [Consoles -> ConsoleSession]

\* "key linked": when an enrollment reports success the proven key is linked
\* to the account of the user whose token was verified, whatever consoles,
\* admins and other enrollments did between its store calls.
EnrolledKeyIsOwned ==
    [][\A l \in Logins :
          login[l].stage # "done" /\ login'[l].stage = "done" =>
              LET k == keys'[login[l].key]
              IN  k.exists /\ k.acct = login[l].acct
                  /\ accounts'[k.acct].user = Owner[login[l].token]]_vars

\* MaxAttempts bounds the tokens one connection gets to try, in whatever order
\* it mixes the two continuations and starts them anew after an error.
GuessesBounded == \A l \in Logins : guesses[l] <= MaxAttempts

\* The console removes the very record the user saw and confirmed: not one
\* linked since under the same key, not one of another account, and not the
\* record this session authenticated with.
ConsoleRemovesWhatWasShown ==
    [][\A c \in Consoles, k \in Keys :
          console[c].stage = "confirmKey" /\ console'[c].stage = "menu"
              /\ keys[k].exists /\ ~keys'[k].exists =>
                  /\ [key |-> k, id |-> ids[k]] = console[c].pick
                  /\ keys[k].acct = console[c].acct
                  /\ console[c].pick # console[c].own]_vars

===========================================================================
