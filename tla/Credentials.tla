---------------------------- MODULE Credentials ----------------------------
(***************************************************************************)
(* One account's Coder credential as its connections use it: the verified  *)
(* stage of authentication (sshauth/callbacks.go), inline renewal          *)
(* (sshauth/renewal.go), revalidation at channel open (server/channels.go) *)
(* and the recheck after a failed child (tunnel/recheck.go), all of them   *)
(* through the verification cache and its single flight                    *)
(* (coderapi/cache.go) to a control plane that accepts, refuses with 401,  *)
(* or fails.                                                               *)
(*                                                                         *)
(* A store call of the gateway is one step, under the mutex of its store;  *)
(* a call to the control plane is a step that starts it and one that gets  *)
(* its answer.  What a connection loaded it keeps: by the time it acts the *)
(* credential may be another one.  The credential commands are a process   *)
(* of their own (app/credential.go), which does not share the mutex: one   *)
(* step reads and compares, another writes, and with Overlap the gateway   *)
(* may write in between.                                                   *)
(*                                                                         *)
(* Abstracted away: other accounts and disabled ones (DeviceKeys has       *)
(* them), keys, banners, audit, metrics; time: a cached verdict and a      *)
(* validation stamp may turn stale at any moment.                          *)
(***************************************************************************)
EXTENDS Naturals

CONSTANTS
    Conns,        \* connections that prove a key of the account
    Users, Tokens, Owner, None,
    Revocable,    \* tokens the control plane may come to refuse
    MaxAttempts,  \* token attempts per connection
    MaxGen,       \* bound: credential generations
    Overlap       \* the gateway may write while a command is in its store call

ASSUME CredentialsAssumption ==
    /\ Owner \in [Tokens -> Users]
    /\ Revocable \subseteq Tokens
    /\ MaxAttempts \in Nat \ {0}
    /\ MaxGen \in Nat
    /\ Overlap \in BOOLEAN
    /\ None \notin Users \cup Tokens \cup Conns

VARIABLES
    acct,      \* the account record: [user, bind]
    cred,      \* the credential record: [gen, state, token, fresh]
    cli,       \* the record a credential command is about to write
    revoked,   \* tokens the control plane refuses from now on
    cache,     \* cache[g]: the verdict cached for generation g
    flight,    \* flight[g]: the call in flight for generation g
    conn       \* conn[c]: where connection c stands and what it loaded

vars == <<acct, cred, cli, revoked, cache, flight, conn>>

Gens == 1 .. MaxGen

AccountRecord == [user: Users \cup {None}, bind: BOOLEAN]

\* fresh: LastValidatedAt is within the cache TTL.
CredentialRecord == [gen: 0 .. MaxGen, state: {"missing", "valid", "invalid"},
                     token: Tokens \cup {None}, fresh: BOOLEAN]

\* The generation and the token, if any, of a command's record.
Command == [gen: Gens, token: Tokens \cup {None}]
NoCommand == [gen |-> 0, token |-> None]

\* What a verification says, and (history) which token it is about.
Verdict == [kind: {"valid", "invalid", "forbidden", "unavailable"},
            token: Tokens \cup {None}]

NoVerdict == [kind |-> "none", token |-> None]

\* One singleflight call: who leads it with which token, who waits with it.
NoFlight == [leader |-> None, token |-> None, waiting |-> {}]

Stage == {"new", "candidate", "verifying", "renew", "checking", "replacing",
          "final", "revalidating", "open", "reverify", "marking", "closed"}

\* user and bind as the candidate lookup returned them, the snapshot's
\* generation and token, the replacement token, the attempts so far; said is
\* the verdict the connection was given.  What a stage no longer needs is
\* forgotten.
Connection == [stage: Stage, user: Users \cup {None}, bind: BOOLEAN,
               gen: 0 .. MaxGen, token: Tokens \cup {None},
               paste: Tokens \cup {None}, tries: Nat,
               said: Verdict \cup {NoVerdict}]

NewConn == [stage |-> "new", user |-> None, bind |-> FALSE, gen |-> 0,
            token |-> None, paste |-> None, tries |-> 0, said |-> NoVerdict]

Closed == [NewConn EXCEPT !.stage = "closed"]

\* Authenticated; a channel runs with generation g.
Final == [NewConn EXCEPT !.stage = "final"]
Open(g) == [NewConn EXCEPT !.stage = "open", !.gen = g]

\* Admin-bound or to be bound on the first token; no credential yet.
Init ==
    /\ acct \in AccountRecord
    /\ acct.bind <=> acct.user = None
    /\ cred = [gen |-> 0, state |-> "missing", token |-> None, fresh |-> FALSE]
    /\ cli = NoCommand
    /\ revoked = {}
    /\ cache = [g \in Gens |-> NoVerdict]
    /\ flight = [g \in Gens |-> NoFlight]
    /\ conn = [c \in Conns |-> NewConn]

\* Mutants: a cache that forgets the generation, a renewable outage, an
\* outage that counts as a refusal, a swap that does not compare, an identity
\* that is not checked, waiters that are not told.
OneSlot(g) == 1
OutageRenewable(kind) == kind \in {"invalid", "unavailable"}
AnyFailure(kind) == kind # "valid"
AnyGeneration(g) == TRUE
AnyIdentity(user, bind, t) == TRUE
LeaderOnly(g) == {flight[g].leader}

-----------------------------------------------------------------------------
(* The control plane and the verification cache *)

\* What Verify may answer for t: its own verdict, 403 or a reply that makes
\* no sense, or nothing (unreachable, 5xx, no API slot, a cancelled context).
Answers(t) ==
    [kind: {IF t \in revoked THEN "invalid" ELSE "valid", "forbidden",
            "unavailable"}, token: {t}]

\* CredentialErrorKind.Renewable, for the kinds Verify yields.
Renewable(kind) == kind = "invalid"

\* The part of the cache key that is not the account.
CacheKey(g) == g

\* VerifyCached finds a verdict, finds a call in flight and joins it, or
\* leads a call of its own.  The caller waits at `stage'.
VerifyCached(c, stage, g, t) ==
    LET k == CacheKey(g)
    IN  \/ /\ flight[k] = NoFlight
           /\ cache[k] # NoVerdict
           /\ conn' = [conn EXCEPT ![c].stage = stage, ![c].gen = g, ![c].token = t,
                                   ![c].said = cache[k]]
           /\ UNCHANGED flight
        \/ /\ flight[k] = NoFlight
           /\ cache[k] = NoVerdict
           /\ flight' = [flight EXCEPT ![k] = [leader |-> c, token |-> t,
                                               waiting |-> {c}]]
           /\ conn' = [conn EXCEPT ![c].stage = stage, ![c].gen = g, ![c].token = t,
                                   ![c].said = NoVerdict]
        \/ /\ flight[k] # NoFlight
           /\ flight' = [flight EXCEPT ![k].waiting = @ \cup {c}]
           /\ conn' = [conn EXCEPT ![c].stage = stage, ![c].gen = g, ![c].token = t,
                                   ![c].said = NoVerdict]

\* Everyone who shares the call gets its answer.
Told(g) == flight[g].waiting

\* The call returns.  A connection that led it and is gone has cancelled it
\* for all.  Only an acceptance and a 401 are cached.
FlightReturns(g) ==
    /\ flight[g] # NoFlight
    /\ \E v \in Answers(flight[g].token) :
          /\ conn[flight[g].leader].stage = "closed" => v.kind = "unavailable"
          /\ cache' = IF v.kind \in {"valid", "invalid"}
                      THEN [cache EXCEPT ![g] = v] ELSE cache
          /\ conn' = [c \in Conns |->
                        IF c \in Told(g) /\ conn[c].stage # "closed"
                        THEN [conn[c] EXCEPT !.said = v] ELSE conn[c]]
    /\ flight' = [flight EXCEPT ![g] = NoFlight]
    /\ UNCHANGED <<acct, cred, cli, revoked>>

\* The TTL of a verdict has passed: the next lookup deletes it.
CacheExpires(g) ==
    /\ cache[g] # NoVerdict
    /\ cache' = [cache EXCEPT ![g] = NoVerdict]
    /\ UNCHANGED <<acct, cred, cli, revoked, flight, conn>>

-----------------------------------------------------------------------------
(* The store: the credential record *)

\* The generation compare of ReplaceCredential and MarkCredentialInvalid.
Current(g) == cred.gen = g

IdentityAllowed(user, bind, t) ==
    IF user = None THEN bind ELSE user = Owner[t]

\* A record as ReplaceCredential and ClearCredential write it, and the account
\* with the identity of its token.
Record(g, t) ==
    [gen |-> g, state |-> IF t = None THEN "missing" ELSE "valid", token |-> t,
     fresh |-> t # None]

Bound(t) == [acct EXCEPT !.user = Owner[t]]

\* The gateway's mutex keeps its own connections apart; a command only if the
\* two do not overlap.
Exclusive == Overlap \/ cli = NoCommand

-----------------------------------------------------------------------------
(* Authentication *)

\* publicKeyCallback: LookupByPublicKey yields the account as it is now.
PublicKeyCallback(c) ==
    /\ conn[c].stage = "new"
    /\ conn' = [conn EXCEPT ![c].stage = "candidate", ![c].user = acct.user,
                            ![c].bind = acct.bind]
    /\ UNCHANGED <<acct, cred, cli, revoked, cache, flight>>

\* startRenewal: partial success with the token continuations.
StartRenewal(c, g, t) ==
    conn' = [conn EXCEPT ![c].stage = "renew", ![c].gen = g, ![c].token = t]

\* verifiedPublicKeyCallback loads the credential: none is renewed, one with
\* a token is verified, whatever its state.
VerifiedPublicKeyCallback(c) ==
    /\ conn[c].stage = "candidate"
    /\ IF cred.token = None
       THEN StartRenewal(c, cred.gen, None) /\ UNCHANGED flight
       ELSE VerifyCached(c, "verifying", cred.gen, cred.token)
    /\ UNCHANGED <<acct, cred, cli, revoked, cache>>

\* The verdict is in: admit the bound user's token, renew what the control
\* plane refused, reject the rest.
VerifiedVerdict(c) ==
    LET v == conn[c].said
    IN  /\ conn[c].stage = "verifying"
        /\ v # NoVerdict
        /\ conn' = [conn EXCEPT ![c] =
                        CASE v.kind = "valid" /\ @.user = Owner[v.token] -> Final
                          [] Renewable(v.kind) ->
                               [@ EXCEPT !.stage = "renew", !.said = NoVerdict]
                          [] OTHER -> Closed]
        /\ UNCHANGED <<acct, cred, cli, revoked, cache, flight>>

-----------------------------------------------------------------------------
(* Renewal *)

\* The answer to a challenge of keyboardInteractive, or a password: both
\* continuations count the same attempts.  The token is counted, passes the
\* limiter and goes to Verify, past the cache.
Paste(c, t) ==
    /\ conn[c].stage = "renew"
    /\ conn[c].tries < MaxAttempts
    /\ conn' = [conn EXCEPT ![c].stage = "checking", ![c].paste = t,
                            ![c].tries = @ + 1]
    /\ UNCHANGED <<acct, cred, cli, revoked, cache, flight>>

\* The attempt is void: no token, the limiter, or a refusal by Verify or by
\* the identity rules.  The continuations stay on offer.
VoidAttempt(c) == conn' = [conn EXCEPT ![c].stage = "renew", ![c].paste = None]

PasteUnusable(c) ==
    /\ conn[c].stage = "renew"
    /\ conn[c].tries < MaxAttempts
    /\ conn' = [conn EXCEPT ![c].stage = "renew", ![c].tries = @ + 1]
    /\ UNCHANGED <<acct, cred, cli, revoked, cache, flight>>

\* Verify has answered; the binding is the one the candidate lookup saw.
PasteChecked(c) ==
    /\ conn[c].stage = "checking"
    /\ \E v \in Answers(conn[c].paste) :
          IF v.kind = "valid" /\ IdentityAllowed(conn[c].user, conn[c].bind, v.token)
          THEN conn' = [conn EXCEPT ![c].stage = "replacing"]
          ELSE VoidAttempt(c)
    /\ UNCHANGED <<acct, cred, cli, revoked, cache, flight>>

\* ReplaceCredential: the store's own rules, then the compare-and-swap.
ReplaceCredential(c) ==
    LET t == conn[c].paste
    IN  /\ conn[c].stage = "replacing"
        /\ IdentityAllowed(acct.user, acct.bind, t)
        /\ Current(conn[c].gen)
        /\ cred.gen < MaxGen
        /\ Exclusive
        /\ cred' = Record(cred.gen + 1, t)
        /\ acct' = Bound(t)
        /\ conn' = [conn EXCEPT ![c] = Final]
        /\ UNCHANGED <<cli, revoked, cache, flight>>

\* ErrGenerationConflict is a success: the connection goes on with whatever
\* credential is current.
AlreadyUpdated(c) ==
    /\ conn[c].stage = "replacing"
    /\ IdentityAllowed(acct.user, acct.bind, conn[c].paste)
    /\ ~Current(conn[c].gen)
    /\ conn' = [conn EXCEPT ![c] = Final]
    /\ UNCHANGED <<acct, cred, cli, revoked, cache, flight>>

\* ErrWrongIdentity, a disabled account, a store that fails.
ReplaceFails(c) ==
    /\ conn[c].stage = "replacing"
    /\ VoidAttempt(c)
    /\ UNCHANGED <<acct, cred, cli, revoked, cache, flight>>

-----------------------------------------------------------------------------
(* Channels *)

\* A channel open loads the newest credential: one that is missing or marked
\* closes the connection, a stale validation is renewed through the cache.
OpenChannel(c) ==
    /\ conn[c].stage = "final"
    /\ \/ /\ cred.state # "valid"
          /\ conn' = [conn EXCEPT ![c] = Closed]
          /\ UNCHANGED flight
       \/ /\ cred.state = "valid" /\ cred.fresh
          /\ conn' = [conn EXCEPT ![c] = Open(cred.gen)]
          /\ UNCHANGED flight
       \/ /\ cred.state = "valid" /\ ~cred.fresh
          /\ VerifyCached(c, "revalidating", cred.gen, cred.token)
    /\ UNCHANGED <<acct, cred, cli, revoked, cache>>

\* rejectOnRevalidationFailure: an outage costs the channel, anything else
\* the connection.
Revalidated(c) ==
    LET v == conn[c].said
    IN  /\ conn[c].stage = "revalidating"
        /\ v # NoVerdict
        /\ conn' = [conn EXCEPT ![c] = CASE v.kind = "valid" -> Open(@.gen)
                                         [] v.kind = "unavailable" -> Final
                                         [] OTHER -> Closed]
        /\ UNCHANGED <<acct, cred, cli, revoked, cache, flight>>

ChannelEnds(c) ==
    /\ conn[c].stage = "open"
    /\ conn' = [conn EXCEPT ![c] = Final]
    /\ UNCHANGED <<acct, cred, cli, revoked, cache, flight>>

\* The child fails before it was of use: RecheckAfterFailure looks only at
\* the generation the child ran with.
RecheckLoad(c) ==
    /\ conn[c].stage = "open"
    /\ conn' = [conn EXCEPT ![c] =
                    IF Current(@.gen) /\ cred.token # None
                    THEN [@ EXCEPT !.stage = "reverify", !.token = cred.token]
                    ELSE Final]
    /\ UNCHANGED <<acct, cred, cli, revoked, cache, flight>>

\* A failure that tells something about the credential itself.
Condemns(kind) == kind = "invalid"

RecheckVerify(c) ==
    /\ conn[c].stage = "reverify"
    /\ \E v \in Answers(conn[c].token) :
          conn' = [conn EXCEPT ![c] =
                      IF Condemns(v.kind) THEN [@ EXCEPT !.stage = "marking"] ELSE Final]
    /\ UNCHANGED <<acct, cred, cli, revoked, cache, flight>>

\* MarkCredentialInvalid compares generations once more: a stale failure
\* must not hit a newer credential.
MarkCredentialInvalid(c) ==
    /\ conn[c].stage = "marking"
    /\ Exclusive
    /\ cred' = IF Current(conn[c].gen) THEN [cred EXCEPT !.state = "invalid"] ELSE cred
    /\ conn' = [conn EXCEPT ![c] = Final]
    /\ UNCHANGED <<acct, cli, revoked, cache, flight>>

-----------------------------------------------------------------------------
(* Everybody else *)

\* The client leaves, a deadline passes, the handshake is given up.
EndConn(c) ==
    /\ conn[c].stage \notin {"new", "closed"}
    /\ conn' = [conn EXCEPT ![c] = Closed]
    /\ UNCHANGED <<acct, cred, cli, revoked, cache, flight>>

\* credential set and credential clear, up to the compare inside the store
\* call: the token was accepted, the identity is allowed, and the command goes
\* on to write the generation after the one it read.
CredentialSet(t) ==
    /\ cli = NoCommand /\ cred.gen < MaxGen
    /\ t \notin revoked
    /\ IdentityAllowed(acct.user, acct.bind, t)
    /\ cli' = [gen |-> cred.gen + 1, token |-> t]
    /\ UNCHANGED <<acct, cred, revoked, cache, flight, conn>>

CredentialClear ==
    /\ cli = NoCommand /\ cred.gen < MaxGen
    /\ cli' = [gen |-> cred.gen + 1, token |-> None]
    /\ UNCHANGED <<acct, cred, revoked, cache, flight, conn>>

\* The renames of the command: the account's identity and the record.
CommandWrites ==
    /\ cli # NoCommand
    /\ cred' = Record(cli.gen, cli.token)
    /\ acct' = IF cli.token = None THEN acct ELSE Bound(cli.token)
    /\ cli' = NoCommand
    /\ UNCHANGED <<revoked, cache, flight, conn>>

Revoke(t) ==
    /\ t \notin revoked
    /\ revoked' = revoked \cup {t}
    /\ UNCHANGED <<acct, cred, cli, cache, flight, conn>>

\* The validation stamp of the record is older than the TTL.
StampExpires ==
    /\ cred.fresh
    /\ cred' = [cred EXCEPT !.fresh = FALSE]
    /\ UNCHANGED <<acct, cli, revoked, cache, flight, conn>>

-----------------------------------------------------------------------------
AuthNext(c) == PublicKeyCallback(c) \/ VerifiedPublicKeyCallback(c) \/ VerifiedVerdict(c)

RenewalNext(c) ==
    \/ PasteUnusable(c) \/ PasteChecked(c)
    \/ \E t \in Tokens : Paste(c, t)
    \/ ReplaceCredential(c) \/ AlreadyUpdated(c) \/ ReplaceFails(c)

ChannelNext(c) ==
    \/ OpenChannel(c) \/ Revalidated(c) \/ ChannelEnds(c)
    \/ RecheckLoad(c) \/ RecheckVerify(c) \/ MarkCredentialInvalid(c)

CommandNext == (\E t \in Tokens : CredentialSet(t)) \/ CredentialClear \/ CommandWrites

Next ==
    \/ \E c \in Conns : AuthNext(c) \/ RenewalNext(c) \/ ChannelNext(c) \/ EndConn(c)
    \/ \E g \in Gens : FlightReturns(g) \/ CacheExpires(g)
    \/ CommandNext
    \/ \E t \in Revocable : Revoke(t)
    \/ StampExpires

\* The HTTP client has a timeout, so a call in flight returns; a handler that
\* has its verdict goes on.
Fairness ==
    /\ \A g \in Gens : WF_vars(FlightReturns(g))
    /\ \A c \in Conns : WF_vars(VerifiedVerdict(c)) /\ WF_vars(Revalidated(c))

Spec == Init /\ [][Next]_vars /\ Fairness

-----------------------------------------------------------------------------
(* Properties *)

\* Records, verdicts and connections have their types; a record without a
\* token is a tombstone and says so.
TypeOK ==
    /\ acct \in AccountRecord
    /\ cred \in CredentialRecord
    /\ cli \in Command \cup {NoCommand}
    /\ cred.state = "missing" <=> cred.token = None
    /\ revoked \subseteq Tokens
    /\ cache \in [Gens -> Verdict \cup {NoVerdict}]
    /\ flight \in [Gens -> [leader: Conns \cup {None}, token: Tokens \cup {None},
                            waiting: SUBSET Conns]]
    /\ conn \in [Conns -> Connection]

\* A verdict a connection acts on is about the very token it loaded, though
\* it may come from the cache or from the call of another connection: a
\* renewed credential is never condemned, or admitted, by the verdict on the
\* one it replaced.  "the generation is incremented so in-flight validations
\* of the old credential cannot be confused with the next one": so it is as
\* long as gateway and commands do not overlap.
VerdictIsAboutToken ==
    \A c \in Conns :
        conn[c].stage \in {"verifying", "revalidating"} /\ conn[c].said # NoVerdict
            => conn[c].said.token = conn[c].token

\* "Overload must never mark a credential invalid": a credential is marked
\* only if the control plane refused the token it holds.
MarkedOnlyIfRefused ==
    cred.state = "invalid" => cred.token \in revoked

\* Renewal is offered for a missing or a refused credential: an outage, also
\* one shared through the single flight, asks nobody for a new token.
RenewalOnlyIfRefused ==
    \A c \in Conns : conn[c].stage = "renew" =>
        conn[c].token = None \/ conn[c].token \in revoked

\* A stored token is one of the user the account is bound to, and was bound to
\* before if it was bound at all: storing a token writes the identity of that
\* token into the account, and renewal compares with the binding it read before
\* the client even proved its key (replaceCredential, ReplaceCredential).
TokenOfBoundUser ==
    [][cred'.token # None =>
          /\ acct'.user = Owner[cred'.token]
          /\ acct.user \in {None, acct'.user}]_vars

\* A renewal takes a while, from the refusal through the prompts to the store.
\* What it then overwrites is no working credential: there is none, or the
\* control plane has refused the token, whatever the other connections and,
\* before and after, the commands have stored meanwhile (replaceCredential).
WorkingTokenKept ==
    [][\A c \in Conns :
          conn[c].stage = "replacing" /\ conn'[c].stage = "final" /\ cred' # cred =>
              cred.token = None \/ cred.token \in revoked]_vars

\* Whoever waits for a verdict gets one, also when the connection that led
\* the call has gone.
VerdictArrives ==
    \A c \in Conns :
        conn[c].stage \in {"verifying", "revalidating"} ~>
            conn[c].stage \notin {"verifying", "revalidating"}

\* "a concurrent renewal won the CAS, so the stored credential is already
\* valid" (replaceCredential).
AlreadyUpdatedIsValid ==
    [][\A c \in Conns :
          conn[c].stage = "replacing" /\ conn'[c].stage = "final" =>
              cred'.state = "valid"]_vars

\* "reject the channel AND close the entire outer transport; the next
\* connection enters partial-auth renewal" (startJumpTunnel): a connection
\* that finds the credential marked invalid is not told that it is valid.
InvalidIsRenewed ==
    [][\A c \in Conns :
          conn[c].stage = "candidate" /\ conn'[c].stage = "verifying"
              /\ cred.state = "invalid" => conn'[c].said.kind # "valid"]_vars
============================================================================
