------------------------- MODULE CredentialsProofs -------------------------
(***************************************************************************)
(* One credential, any number of connections, tokens and generations.      *)
(*                                                                         *)
(* The invariant says that a generation names one token: there is a        *)
(* function `tok' with which the record, every cached verdict, every call  *)
(* in flight and every connection agree.  Verdicts are shared by           *)
(* generation, so that is what makes a verdict one about the token its     *)
(* reader loaded; with it a 401 is traced back to the token it refused.    *)
(* It needs writers that do not overlap: with a command in another process *)
(* that writes the generation a renewal has just used, a generation names  *)
(* two tokens.  The theorems assume ~Overlap.                              *)
(***************************************************************************)
EXTENDS Credentials, TLAPS

TokenOrNone == Tokens \cup {None}

\* The type invariant but for the command.
Types ==
    /\ acct \in AccountRecord
    /\ cred \in CredentialRecord
    /\ cred.state = "missing" <=> cred.token = None
    /\ revoked \subseteq Tokens
    /\ cache \in [Gens -> Verdict \cup {NoVerdict}]
    /\ flight \in [Gens -> [leader: Conns \cup {None}, token: Tokens \cup {None},
                            waiting: SUBSET Conns]]
    /\ conn \in [Conns -> Connection]

\* Stages in which a connection holds a generation and its token, waits for
\* a shared verdict, or offers renewal.
Holding == {"verifying", "revalidating", "renew", "checking", "replacing",
            "reverify", "marking"}
Awaiting == {"verifying", "revalidating"}
Renewing == {"renew", "checking", "replacing"}

TokenMatches == cred.token # None => acct.user = Owner[cred.token]

\* The record: generation 0 has no token.
RecordOK(tok) ==
    /\ tok \in [0 .. MaxGen -> TokenOrNone]
    /\ cred.token = tok[cred.gen]
    /\ cred.token # None => cred.gen \in Gens
    /\ TokenMatches
    /\ MarkedOnlyIfRefused

\* A verdict v on generation g.
VerdictOK(tok, g, v) ==
    v # NoVerdict =>
        /\ g <= cred.gen
        /\ v.token = tok[g]
        /\ v.kind = "invalid" => v.token \in revoked

\* A call in flight for g, and those who wait for it.
FlightOK(tok, g) ==
    flight[g] # NoFlight =>
        /\ g <= cred.gen
        /\ flight[g].leader \in Conns
        /\ flight[g].token \in Tokens
        /\ flight[g].token = tok[g]
        /\ \A c \in flight[g].waiting :
              \/ conn[c].stage = "closed"
              \/ /\ conn[c].stage \in Awaiting
                 /\ conn[c].gen = g
                 /\ conn[c].said = NoVerdict

\* A connection d: what it holds belongs together, and what it was told is
\* about what it holds.
ConnectionOK(tok, d) ==
    /\ d.stage \in Holding => d.gen <= cred.gen /\ d.token = tok[d.gen]
    /\ d.stage \in Awaiting => d.token \in Tokens /\ VerdictOK(tok, d.gen, d.said)
    /\ d.stage \in Renewing => d.token = None \/ d.token \in revoked
    /\ d.stage \in {"checking", "replacing"} => d.paste \in Tokens
    /\ d.stage \in {"reverify", "marking"} => d.token \in Tokens
    /\ d.stage = "marking" => d.token \in revoked

Agree(tok) ==
    /\ RecordOK(tok)
    /\ \A g \in Gens : VerdictOK(tok, g, cache[g]) /\ FlightOK(tok, g)
    /\ \A c \in Conns : ConnectionOK(tok, conn[c])

Core == Types /\ \E tok : Agree(tok)

\* A command that is about to write: what it compared with is still there.
CommandOK ==
    cli # NoCommand =>
        /\ cli \in Command
        /\ cred.gen < MaxGen /\ cli.gen = cred.gen + 1
        /\ cli.token # None => IdentityAllowed(acct.user, acct.bind, cli.token)

Inv == Core /\ CommandOK

-----------------------------------------------------------------------------
(* Steps of one connection *)

\* A connection is waiting for nobody: it has been told, or did not ask.
Told1(c) == conn[c].stage \notin Awaiting \/ conn[c].said # NoVerdict

\* A connection between two channels, with one, or at its end holds nothing.
LEMMA PlainConnections ==
    ASSUME NEW tok
    PROVE  /\ Final \in Connection /\ Final.stage = "final" /\ ConnectionOK(tok, Final)
           /\ Closed \in Connection /\ Closed.stage = "closed"
           /\ ConnectionOK(tok, Closed)
           /\ \A g \in 0 .. MaxGen :
                 /\ Open(g) \in Connection
                 /\ Open(g).stage = "open"
                 /\ ConnectionOK(tok, Open(g))
<1>1. NewConn \in Connection
  BY CredentialsAssumption DEF NewConn, Connection, Stage
<1>2. Final \in Connection /\ Final.stage = "final"
  BY <1>1 DEF Final, Connection, Stage
<1>3. Closed \in Connection /\ Closed.stage = "closed"
  BY <1>1 DEF Closed, Connection, Stage
<1>4. ASSUME NEW g \in 0 .. MaxGen PROVE Open(g) \in Connection /\ Open(g).stage = "open"
  BY <1>1 DEF Open, Connection, Stage
<1>5. ASSUME NEW d, d.stage \in {"final", "closed", "open"} PROVE ConnectionOK(tok, d)
  BY <1>5 DEF ConnectionOK, Holding, Awaiting, Renewing
<1> QED BY <1>2, <1>3, <1>4, <1>5

\* Steps that change one connection and nothing else.
LEMMA ConnectionStep ==
    ASSUME Types, NEW tok, Agree(tok), NEW c \in Conns,
           UNCHANGED <<acct, cred, revoked, cache, flight>>,
           conn' = [conn EXCEPT ![c] = conn'[c]],
           conn'[c] \in Connection,
           ConnectionOK(tok, conn'[c]),
           (conn[c].stage # "closed" /\ Told1(c)) \/ conn'[c].stage = "closed"
    PROVE  Core'
<1>1. Types'
  BY DEF Types
<1>2. RecordOK(tok)'
  BY DEF Agree, RecordOK, TokenMatches, MarkedOnlyIfRefused
<1>3. ASSUME NEW g \in Gens PROVE VerdictOK(tok, g, cache[g])' /\ FlightOK(tok, g)'
  <2>1. VerdictOK(tok, g, cache[g])'
    BY DEF Agree, VerdictOK
  <2>2. flight[g].waiting \subseteq Conns
    BY DEF Types
  <2>3. ASSUME flight[g] # NoFlight, NEW d \in flight[g].waiting
        PROVE  \/ conn'[d].stage = "closed"
               \/ /\ conn'[d].stage \in Awaiting
                  /\ conn'[d].gen = g
                  /\ conn'[d].said = NoVerdict
    <3>1. CASE d = c
      BY <3>1, <2>2, <2>3 DEF Agree, FlightOK, Told1, Types
    <3>2. CASE d # c
      BY <3>2, <2>2, <2>3 DEF Agree, FlightOK, Types
    <3> QED BY <3>1, <3>2
  <2> QED BY <2>1, <2>3 DEF Agree, FlightOK
<1>4. ASSUME NEW d \in Conns PROVE ConnectionOK(tok, conn[d])'
  <2>1. CASE d = c
    BY <2>1 DEF ConnectionOK, VerdictOK, Types
  <2>2. CASE d # c
    BY <2>2 DEF Agree, ConnectionOK, VerdictOK, Types
  <2> QED BY <2>1, <2>2
<1> QED BY <1>1, <1>2, <1>3, <1>4 DEF Core, Agree

\* A connection that asks for a verdict on the current credential gets the
\* cached one, leads a call or joins one; either way it is on that token.
LEMMA VerifyStep ==
    ASSUME Types, NEW tok, Agree(tok), NEW c \in Conns, NEW stage \in Awaiting,
           conn[c].stage \notin Awaiting \cup {"closed"},
           cred.token # None,
           VerifyCached(c, stage, cred.gen, cred.token),
           UNCHANGED <<acct, cred, revoked, cache>>
    PROVE  Core'
<1> DEFINE g == cred.gen
<1>1. g \in Gens /\ g \in 0 .. MaxGen /\ cred.token \in Tokens /\ cred.token = tok[g]
  BY DEF Agree, RecordOK, Types, CredentialRecord
<1>2. Told1(c)
  BY DEF Told1
<1>3. conn[c] \in Connection
  BY DEF Types
<1>4. stage \in Stage
  BY DEF Awaiting, Stage
<1>5. CASE flight[g] = NoFlight /\ cache[g] # NoVerdict
  <2>1. conn' = [conn EXCEPT ![c].stage = stage, ![c].gen = g, ![c].token = cred.token,
                             ![c].said = cache[g]]
        /\ UNCHANGED flight
    BY <1>5 DEF VerifyCached, CacheKey
  <2>2. cache[g] \in Verdict \cup {NoVerdict} /\ VerdictOK(tok, g, cache[g])
    BY <1>1 DEF Agree, Types
  <2>3. conn'[c] = [conn[c] EXCEPT !.stage = stage, !.gen = g, !.token = cred.token,
                                   !.said = cache[g]]
    BY <2>1 DEF Types
  <2>4. conn'[c] \in Connection
    BY <2>2, <2>3, <1>1, <1>3, <1>4 DEF Connection
  <2>5. ConnectionOK(tok, conn'[c])
    BY <2>2, <2>3, <1>1, <1>3 DEF ConnectionOK, Connection, Awaiting, Holding, Renewing
  <2>6. conn' = [conn EXCEPT ![c] = conn'[c]]
    BY <2>1, <2>3 DEF Types
  <2> QED BY <1>2, <2>1, <2>4, <2>5, <2>6, ConnectionStep
<1>6. CASE ~(flight[g] = NoFlight /\ cache[g] # NoVerdict)
  <2> DEFINE d == [conn[c] EXCEPT !.stage = stage, !.gen = g, !.token = cred.token,
                                  !.said = NoVerdict]
             w == IF flight[g] = NoFlight THEN {c} ELSE flight[g].waiting \cup {c}
             l == IF flight[g] = NoFlight THEN c ELSE flight[g].leader
  <2>1. conn' = [conn EXCEPT ![c] = d]
    BY <1>6 DEF VerifyCached, CacheKey, Types
  <2>2. flight[g] # NoFlight => flight[g].token = cred.token /\ flight[g].leader \in Conns
    BY <1>1 DEF Agree, FlightOK
  <2>3. flight[g] \in [leader: Conns \cup {None}, token: Tokens \cup {None},
                       waiting: SUBSET Conns]
    BY <1>1 DEF Types
  <2>4. flight' = [flight EXCEPT ![g] = [leader |-> l, token |-> cred.token,
                                         waiting |-> w]]
    <3>1. CASE flight[g] = NoFlight
      BY <3>1, <1>6 DEF VerifyCached, CacheKey
    <3>2. CASE flight[g] # NoFlight
      <4>1. flight' = [flight EXCEPT ![g].waiting = @ \cup {c}]
        BY <3>2 DEF VerifyCached, CacheKey
      <4>2. [flight[g] EXCEPT !.waiting = @ \cup {c}]
                = [leader |-> l, token |-> cred.token, waiting |-> w]
        BY <3>2, <2>2, <2>3
      <4> QED BY <4>1, <4>2
    <3> QED BY <3>1, <3>2
  <2>5. d \in Connection
    BY <1>1, <1>3, <1>4 DEF Connection
  <2>6. Types'
    BY <2>1, <2>2, <2>3, <2>4, <2>5, <1>1 DEF Types
  <2>7. RecordOK(tok)'
    BY DEF Agree, RecordOK, TokenMatches, MarkedOnlyIfRefused
  <2>8. ASSUME NEW h \in Gens PROVE VerdictOK(tok, h, cache[h])'
    BY DEF Agree, VerdictOK
  <2>9. ASSUME NEW e \in Conns PROVE ConnectionOK(tok, conn[e])'
    <3>1. CASE e = c
      BY <3>1, <2>1, <1>1, <1>3 DEF ConnectionOK, VerdictOK, Connection, Types, Awaiting,
                                    Holding, Renewing
    <3>2. CASE e # c
      BY <3>2, <2>1 DEF Agree, ConnectionOK, VerdictOK, Types
    <3> QED BY <3>1, <3>2
  <2>10. ASSUME NEW h \in Gens PROVE FlightOK(tok, h)'
    <3>1. ASSUME NEW e \in Conns, e # c PROVE conn'[e] = conn[e]
      BY <3>1, <2>1 DEF Types
    <3>2. conn'[c].stage \in Awaiting /\ conn'[c].gen = g /\ conn'[c].said = NoVerdict
      BY <2>1, <1>3 DEF Types, Connection
    <3>3. CASE h = g
      <4>1. flight'[g] = [leader |-> l, token |-> cred.token, waiting |-> w]
        BY <2>4, <1>1 DEF Types
      <4>2. l \in Conns
        BY <2>2
      <4>3. ASSUME NEW e \in w, e # c
            PROVE  conn'[e].stage = "closed" \/
                   (conn'[e].stage \in Awaiting /\ conn'[e].gen = g /\ conn'[e].said = NoVerdict)
        BY <4>3, <3>1, <2>3, <1>1 DEF Agree, FlightOK
      <4> QED BY <3>2, <3>3, <4>1, <4>2, <4>3, <1>1 DEF FlightOK, Types, CredentialRecord
    <3>4. CASE h # g
      <4>1. flight'[h] = flight[h] /\ flight[h].waiting \subseteq Conns
        BY <3>4, <2>4 DEF Types
      <4>2. flight[h] # NoFlight => c \notin flight[h].waiting
        BY DEF Agree, FlightOK
      <4> QED BY <3>1, <4>1, <4>2 DEF Agree, FlightOK
    <3> QED BY <3>3, <3>4
  <2> QED BY <2>6, <2>7, <2>8, <2>9, <2>10 DEF Core, Agree
<1> QED BY <1>5, <1>6

-----------------------------------------------------------------------------
(* The control plane, the cache and the store *)

\* The answer of a call reaches those who wait with its very token; a 401 is
\* about a token that is refused now.
LEMMA FlightStep ==
    ASSUME Types, NEW tok, Agree(tok), NEW g \in Gens, FlightReturns(g)
    PROVE  Core'
<1>1. PICK v \in Answers(flight[g].token) :
          /\ cache' = IF v.kind \in {"valid", "invalid"}
                      THEN [cache EXCEPT ![g] = v] ELSE cache
          /\ conn' = [c \in Conns |->
                        IF c \in Told(g) /\ conn[c].stage # "closed"
                        THEN [conn[c] EXCEPT !.said = v] ELSE conn[c]]
  BY DEF FlightReturns
<1>2. flight[g] # NoFlight /\ flight' = [flight EXCEPT ![g] = NoFlight]
      /\ UNCHANGED <<acct, cred, revoked>>
  BY DEF FlightReturns
<1>3. flight[g].token \in Tokens /\ flight[g].token = tok[g] /\ g <= cred.gen
  BY <1>2 DEF Agree, FlightOK
<1>4. v \in Verdict /\ v.token = tok[g] /\ (v.kind = "invalid" => v.token \in revoked)
  BY <1>1, <1>3 DEF Answers, Verdict
<1>5. VerdictOK(tok, g, v)'
  BY <1>2, <1>3, <1>4 DEF VerdictOK
<1>6. NoFlight \in [leader: Conns \cup {None}, token: Tokens \cup {None},
                    waiting: SUBSET Conns]
  BY DEF NoFlight
<1>7. ASSUME NEW c \in Conns
      PROVE  /\ conn'[c] \in Connection
             /\ conn'[c] = conn[c] \/
                   (conn'[c] = [conn[c] EXCEPT !.said = v] /\ conn[c].stage \in Awaiting
                    /\ conn[c].gen = g)
             /\ conn'[c].stage = conn[c].stage
  <2>1. conn[c] \in Connection
    BY DEF Types
  <2>2. CASE c \in Told(g) /\ conn[c].stage # "closed"
    <3>1. conn'[c] = [conn[c] EXCEPT !.said = v]
      BY <1>1, <2>2
    <3>2. conn[c].stage \in Awaiting /\ conn[c].gen = g
      BY <1>2, <2>2 DEF Agree, FlightOK, Told
    <3> QED BY <3>1, <3>2, <2>1, <1>4 DEF Connection
  <2>3. CASE ~(c \in Told(g) /\ conn[c].stage # "closed")
    BY <1>1, <2>1, <2>3
  <2> QED BY <2>2, <2>3
<1>8. Types'
  <2>1. conn' \in [Conns -> Connection]
    BY <1>1, <1>7
  <2>2. flight' \in [Gens -> [leader: Conns \cup {None}, token: Tokens \cup {None},
                              waiting: SUBSET Conns]]
    BY <1>2, <1>6 DEF Types
  <2>3. cache' \in [Gens -> Verdict \cup {NoVerdict}]
    BY <1>1, <1>4 DEF Types
  <2> QED BY <1>2, <2>1, <2>2, <2>3 DEF Types
<1>9. RecordOK(tok)'
  BY <1>2 DEF Agree, RecordOK, TokenMatches, MarkedOnlyIfRefused
<1>10. ASSUME NEW h \in Gens PROVE VerdictOK(tok, h, cache[h])'
  <2>1. CASE h = g /\ v.kind \in {"valid", "invalid"}
    BY <2>1, <1>1, <1>5 DEF Types
  <2>2. CASE ~(h = g /\ v.kind \in {"valid", "invalid"})
    <3>1. cache'[h] = cache[h]
      BY <2>2, <1>1 DEF Types
    <3> QED BY <3>1, <1>2 DEF Agree, VerdictOK
  <2> QED BY <2>1, <2>2
<1>11. ASSUME NEW h \in Gens PROVE FlightOK(tok, h)'
  <2>1. CASE h = g
    BY <2>1, <1>2 DEF FlightOK, Types
  <2>2. CASE h # g
    <3>1. flight'[h] = flight[h] /\ flight[h].waiting \subseteq Conns
      BY <2>2, <1>2 DEF Types
    <3>2. ASSUME flight[h] # NoFlight, NEW c \in flight[h].waiting
          PROVE  conn'[c] = conn[c] \/ conn'[c].stage = "closed"
      <4>1. c \in Conns
        BY <3>1
      <4>2. conn[c].stage = "closed" \/ conn[c].gen = h
        BY <3>2 DEF Agree, FlightOK
      <4> QED BY <2>2, <4>1, <4>2, <1>7
    <3> QED BY <3>1, <3>2, <1>2 DEF Agree, FlightOK
  <2> QED BY <2>1, <2>2
<1>12. ASSUME NEW c \in Conns PROVE ConnectionOK(tok, conn[c])'
  <2>1. CASE conn'[c] = conn[c]
    BY <2>1, <1>2 DEF Agree, ConnectionOK, VerdictOK
  <2>2. CASE conn'[c] # conn[c]
    <3>1. conn'[c] = [conn[c] EXCEPT !.said = v] /\ conn[c].stage \in Awaiting
          /\ conn[c].gen = g
      BY <2>2, <1>7
    <3>2. conn[c] \in Connection
      BY DEF Types
    <3> QED BY <3>1, <3>2, <1>2, <1>5 DEF Agree, ConnectionOK, Connection
  <2> QED BY <2>1, <2>2
<1> QED BY <1>8, <1>9, <1>10, <1>11, <1>12 DEF Core, Agree

\* A verdict that has expired is forgotten.
LEMMA ExpiryStep ==
    ASSUME Types, NEW tok, Agree(tok), NEW g \in Gens, CacheExpires(g)
    PROVE  Core'
<1>1. /\ cache' = [cache EXCEPT ![g] = NoVerdict]
      /\ UNCHANGED <<acct, cred, revoked, flight, conn>>
  BY DEF CacheExpires
<1>2. Types'
  BY <1>1 DEF Types
<1>3. RecordOK(tok)'
  BY <1>1 DEF Agree, RecordOK, TokenMatches, MarkedOnlyIfRefused
<1>4. ASSUME NEW h \in Gens PROVE VerdictOK(tok, h, cache[h])'
  BY <1>1 DEF Agree, VerdictOK, Types
<1>5. ASSUME NEW h \in Gens PROVE FlightOK(tok, h)'
  BY <1>1 DEF Agree, FlightOK
<1>6. ASSUME NEW c \in Conns PROVE ConnectionOK(tok, conn[c])'
  BY <1>1 DEF Agree, ConnectionOK, VerdictOK
<1> QED BY <1>2, <1>3, <1>4, <1>5, <1>6 DEF Core, Agree

\* The record gets its next generation, with token t or none, while one
\* connection at most gets out of the way: nobody has heard of it before.
LEMMA NextGeneration ==
    ASSUME Types, NEW tok, Agree(tok), NEW t \in TokenOrNone,
           cred.gen < MaxGen, cred'.gen = cred.gen + 1, cred'.token = t,
           cred' \in CredentialRecord, cred'.state # "invalid",
           (cred'.state = "missing") <=> (t = None),
           acct' \in AccountRecord, TokenMatches',
           UNCHANGED <<revoked, cache, flight>>,
           conn' \in [Conns -> Connection],
           \A c \in Conns : \/ conn'[c] = conn[c]
                            \/ /\ conn[c].stage \notin Awaiting \cup {"closed"}
                               /\ conn'[c].stage \notin Holding
    PROVE  Core'
<1> PICK tok2 : tok2 = [tok EXCEPT ![cred.gen + 1] = t]
  OBVIOUS
<1>0. cred.gen \in Nat /\ cred.gen + 1 \in 0 .. MaxGen /\ cred.gen + 1 \in Gens
      /\ cred.gen \in 0 .. MaxGen
  BY CredentialsAssumption DEF Types, CredentialRecord, Gens
<1>1. tok2 \in [0 .. MaxGen -> TokenOrNone]
  BY DEF Agree, RecordOK
<1>2. \A g \in 0 .. MaxGen : g <= cred.gen => tok2[g] = tok[g] /\ g <= cred.gen + 1
  BY <1>0 DEF Agree, RecordOK
<1>3. tok2[cred.gen + 1] = t
  BY <1>0 DEF Agree, RecordOK
<1>4. Types'
  BY DEF Types
<1>5. RecordOK(tok2)'
  BY <1>0, <1>1, <1>3 DEF RecordOK, MarkedOnlyIfRefused
<1>6. ASSUME NEW g \in Gens PROVE VerdictOK(tok2, g, cache[g])'
  <2>1. g \in 0 .. MaxGen
    BY DEF Gens
  <2> QED BY <1>2, <2>1 DEF Agree, VerdictOK
<1>7. ASSUME NEW g \in Gens PROVE FlightOK(tok2, g)'
  <2>1. g \in 0 .. MaxGen
    BY DEF Gens
  <2>2. flight[g].waiting \subseteq Conns
    BY DEF Types
  <2>3. ASSUME flight[g] # NoFlight, NEW c \in flight[g].waiting PROVE conn'[c] = conn[c]
    BY <2>2, <2>3 DEF Agree, FlightOK
  <2> QED BY <1>2, <2>1, <2>3 DEF Agree, FlightOK
<1>8. ASSUME NEW c \in Conns PROVE ConnectionOK(tok2, conn[c])'
  <2>1. CASE conn'[c] = conn[c]
    <3>1. conn[c] \in Connection
      BY DEF Types
    <3>2. conn[c].gen \in 0 .. MaxGen
      BY <3>1 DEF Connection
    <3> QED BY <1>2, <2>1, <3>2 DEF Agree, ConnectionOK, VerdictOK, Awaiting, Holding
  <2>2. CASE conn'[c] # conn[c]
    BY <2>2 DEF ConnectionOK, Holding, Awaiting, Renewing
  <2> QED BY <2>1, <2>2
<1> QED BY <1>4, <1>5, <1>6, <1>7, <1>8 DEF Core, Agree

\* The record of a stored token is a credential record.
LEMMA ValidRecord ==
    ASSUME NEW g \in 0 .. MaxGen, NEW t \in Tokens
    PROVE  [gen |-> g, state |-> "valid", token |-> t, fresh |-> TRUE]
             \in CredentialRecord
  BY DEF CredentialRecord

\* A token that passed the identity rules is stored: it is one of the bound
\* user, because the rules are checked on the record that is written.
LEMMA StoreStep ==
    ASSUME Types, NEW tok, Agree(tok), NEW t \in Tokens,
           cred.gen < MaxGen, cred' = Record(cred.gen + 1, t), acct' = Bound(t),
           UNCHANGED <<revoked, cache, flight>>,
           \/ UNCHANGED conn
           \/ \E c \in Conns : /\ conn[c].stage \notin Awaiting \cup {"closed"}
                               /\ conn' = [conn EXCEPT ![c] = Final]
    PROVE  Core'
<1>1. t # None /\ Owner[t] \in Users /\ Owner[t] # None
  BY CredentialsAssumption
<1>2. acct \in AccountRecord /\ cred \in CredentialRecord
  BY DEF Types
<1>3. cred' = [gen |-> cred.gen + 1, state |-> "valid", token |-> t, fresh |-> TRUE]
  BY <1>1 DEF Record
<1>4. acct' \in AccountRecord /\ acct'.user = Owner[t]
  BY <1>1, <1>2 DEF AccountRecord, Bound
<1>5. cred' \in CredentialRecord
  <2>1. cred.gen + 1 \in 0 .. MaxGen
    BY <1>2, CredentialsAssumption DEF CredentialRecord
  <2> QED BY <1>3, <2>1, ValidRecord
<1>6. TokenMatches'
  BY <1>3, <1>4 DEF TokenMatches
<1>7. Final \in Connection /\ Final.stage \notin Holding
  BY PlainConnections DEF Holding
<1>8. conn' \in [Conns -> Connection]
  BY <1>7 DEF Types
<1>9. ASSUME NEW c \in Conns
      PROVE  \/ conn'[c] = conn[c]
             \/ /\ conn[c].stage \notin Awaiting \cup {"closed"}
                /\ conn'[c].stage \notin Holding
  BY <1>7 DEF Types
<1> QED
  <2>1. t \in TokenOrNone
    BY DEF TokenOrNone
  <2> QED BY <1>1, <1>3, <1>4, <1>5, <1>6, <1>8, <1>9, <2>1, NextGeneration

-----------------------------------------------------------------------------
(* The actions *)

\* Authentication: the callback acts on a verdict about the token it loaded.
LEMMA AuthInv ==
    ASSUME Types, NEW tok, Agree(tok), NEW c \in Conns, AuthNext(c)
    PROVE  Core'
<1>0. conn[c] \in Connection /\ ConnectionOK(tok, conn[c]) /\ cred \in CredentialRecord
      /\ acct \in AccountRecord
  BY DEF Types, Agree
<1>1. CASE PublicKeyCallback(c)
  <2>1. conn' = [conn EXCEPT ![c] = [conn[c] EXCEPT
                    !.stage = "candidate", !.user = acct.user, !.bind = acct.bind]]
        /\ conn[c].stage = "new" /\ UNCHANGED <<acct, cred, revoked, cache, flight>>
    BY <1>1 DEF PublicKeyCallback, Types
  <2>2. conn'[c] = [conn[c] EXCEPT
                    !.stage = "candidate", !.user = acct.user, !.bind = acct.bind]
    BY <2>1 DEF Types
  <2>3. conn'[c] \in Connection /\ ConnectionOK(tok, conn'[c])
    BY <2>2, <1>0 DEF Connection, Stage, ConnectionOK, Holding, Awaiting, Renewing,
                       AccountRecord
  <2> QED BY <2>1, <2>2, <2>3, ConnectionStep DEF Told1, Awaiting
<1>2. CASE VerifiedPublicKeyCallback(c)
  <2>1. conn[c].stage = "candidate" /\ UNCHANGED <<acct, cred, revoked, cache>>
    BY <1>2 DEF VerifiedPublicKeyCallback
  <2>2. CASE cred.token = None
    <3>1. conn' = [conn EXCEPT ![c].stage = "renew", ![c].gen = cred.gen,
                               ![c].token = None]
          /\ UNCHANGED flight
      BY <1>2, <2>2 DEF VerifiedPublicKeyCallback, StartRenewal
    <3>2. conn'[c] = [conn[c] EXCEPT !.stage = "renew", !.gen = cred.gen, !.token = None]
          /\ conn' = [conn EXCEPT ![c] = conn'[c]]
      BY <3>1 DEF Types
    <3>3. conn'[c] \in Connection /\ ConnectionOK(tok, conn'[c])
      <4>1. conn'[c] \in Connection
        BY <3>2, <1>0 DEF Connection, Stage, CredentialRecord
      <4>2. cred.gen <= cred.gen /\ None = tok[cred.gen]
        BY <2>2, <1>0, CredentialsAssumption DEF CredentialRecord, Agree, RecordOK
      <4> QED BY <4>1, <4>2, <3>2, <1>0
              DEF Connection, ConnectionOK, Holding, Awaiting, Renewing
    <3> QED BY <3>1, <3>2, <3>3, <2>1, ConnectionStep DEF Told1, Awaiting
  <2>3. CASE cred.token # None
    <3>1. VerifyCached(c, "verifying", cred.gen, cred.token)
      BY <1>2, <2>3 DEF VerifiedPublicKeyCallback
    <3> QED BY <2>1, <2>3, <3>1, VerifyStep DEF Awaiting
  <2> QED BY <2>2, <2>3
<1>3. CASE VerifiedVerdict(c)
  <2> DEFINE v == conn[c].said
             d == CASE v.kind = "valid" /\ conn[c].user = Owner[v.token] -> Final
                    [] Renewable(v.kind) ->
                         [conn[c] EXCEPT !.stage = "renew", !.said = NoVerdict]
                    [] OTHER -> Closed
  <2>1. conn[c].stage = "verifying" /\ v # NoVerdict /\ conn' = [conn EXCEPT ![c] = d]
        /\ UNCHANGED <<acct, cred, revoked, cache, flight>>
    BY <1>3 DEF VerifiedVerdict, Types
  <2>2. conn'[c] = d /\ conn' = [conn EXCEPT ![c] = conn'[c]]
    BY <2>1 DEF Types
  <2>3. d \in Connection /\ ConnectionOK(tok, d)
    <3>1. Final \in Connection /\ ConnectionOK(tok, Final) /\ Closed \in Connection
          /\ ConnectionOK(tok, Closed)
      BY PlainConnections
    <3>2. CASE Renewable(v.kind)
      <4>1. v.kind = "invalid" /\ VerdictOK(tok, conn[c].gen, v)
        BY <3>2, <2>1, <1>0 DEF Renewable, ConnectionOK, Awaiting
      <4>2. conn[c].token \in revoked
        BY <4>1, <2>1, <1>0 DEF VerdictOK, ConnectionOK, Holding
      <4>3. d = [conn[c] EXCEPT !.stage = "renew", !.said = NoVerdict]
        BY <4>1, <3>2
      <4> HIDE DEF d
      <4>4. d \in Connection
        BY <4>3, <1>0 DEF Connection, Stage
      <4> QED BY <4>2, <4>3, <4>4, <2>1, <1>0
              DEF Connection, ConnectionOK, Holding, Awaiting, Renewing
    <3>3. CASE ~Renewable(v.kind)
      <4>1. d = Final \/ d = Closed
        BY <3>3
      <4> QED BY <4>1, <3>1
    <3> QED BY <3>2, <3>3
  <2> HIDE DEF d
  <2> QED BY <2>1, <2>2, <2>3, ConnectionStep DEF Told1, Awaiting
<1> QED BY <1>1, <1>2, <1>3 DEF AuthNext

\* Renewal: the compare-and-swap makes the next generation, every other step
\* concerns one connection alone.
LEMMA RenewalInv ==
    ASSUME Types, NEW tok, Agree(tok), NEW c \in Conns, RenewalNext(c)
    PROVE  Core'
<1>0. conn[c] \in Connection /\ ConnectionOK(tok, conn[c])
  BY DEF Types, Agree
<1>1. CASE PasteUnusable(c)
  <2>1. conn[c].stage = "renew" /\ UNCHANGED <<acct, cred, revoked, cache, flight>>
        /\ conn' = [conn EXCEPT ![c].stage = "renew", ![c].tries = @ + 1]
    BY <1>1 DEF PasteUnusable
  <2>2. conn'[c] = [conn[c] EXCEPT !.stage = "renew", !.tries = conn[c].tries + 1]
        /\ conn' = [conn EXCEPT ![c] = conn'[c]]
    BY <2>1 DEF Types
  <2>3. conn'[c] \in Connection /\ ConnectionOK(tok, conn'[c])
    <3>0. conn[c].tries \in Nat /\ conn[c].tries + 1 \in Nat
      BY <1>0 DEF Connection
    <3>1. conn'[c] \in Connection
      BY <3>0, <2>2, <1>0 DEF Connection, Stage
    <3>2. conn[c].stage = "renew"
      BY <2>1
    <3> QED BY <3>1, <3>2, <2>2, <1>0
            DEF Connection, ConnectionOK, Holding, Awaiting, Renewing
  <2> QED BY <2>1, <2>2, <2>3, ConnectionStep DEF Told1, Awaiting
<1>2. ASSUME conn[c].stage \in {"checking", "replacing"}, VoidAttempt(c),
             UNCHANGED <<acct, cred, revoked, cache, flight>>
      PROVE  Core'
  <2>1. conn'[c] = [conn[c] EXCEPT !.stage = "renew", !.paste = None]
        /\ conn' = [conn EXCEPT ![c] = conn'[c]]
    BY <1>2 DEF Types, VoidAttempt
  <2>2. conn'[c] \in Connection /\ ConnectionOK(tok, conn'[c])
    BY <2>1, <1>2, <1>0 DEF Connection, Stage, ConnectionOK, Holding, Awaiting, Renewing
  <2> QED BY <1>2, <2>1, <2>2, ConnectionStep DEF Told1, Awaiting
<1>3. CASE PasteChecked(c)
  <2>1. conn[c].stage = "checking" /\ UNCHANGED <<acct, cred, revoked, cache, flight>>
    BY <1>3 DEF PasteChecked
  <2>2. CASE conn' = [conn EXCEPT ![c].stage = "replacing"]
    <3>1. conn'[c] = [conn[c] EXCEPT !.stage = "replacing"]
          /\ conn' = [conn EXCEPT ![c] = conn'[c]]
      BY <2>2 DEF Types
    <3>2. conn'[c] \in Connection /\ ConnectionOK(tok, conn'[c])
      BY <3>1, <2>1, <1>0 DEF Connection, Stage, ConnectionOK, Holding, Awaiting, Renewing
    <3> QED BY <2>1, <3>1, <3>2, ConnectionStep DEF Told1, Awaiting
  <2> QED BY <1>2, <1>3, <2>1, <2>2 DEF PasteChecked
<1>4. ASSUME NEW t \in Tokens, Paste(c, t) PROVE Core'
  <2>1. conn[c].stage = "renew" /\ UNCHANGED <<acct, cred, revoked, cache, flight>>
        /\ conn' = [conn EXCEPT ![c].stage = "checking", ![c].paste = t, ![c].tries = @ + 1]
    BY <1>4 DEF Paste
  <2>2. conn'[c] = [conn[c] EXCEPT !.stage = "checking", !.paste = t,
                                   !.tries = conn[c].tries + 1]
        /\ conn' = [conn EXCEPT ![c] = conn'[c]]
    BY <2>1 DEF Types
  <2>3. conn'[c] \in Connection /\ ConnectionOK(tok, conn'[c])
    <3>0. conn[c].tries \in Nat /\ conn[c].tries + 1 \in Nat
      BY <1>0 DEF Connection
    <3>1. conn'[c] \in Connection
      BY <3>0, <2>2, <1>0 DEF Connection, Stage
    <3>2. conn[c].stage = "renew"
      BY <2>1
    <3> QED BY <3>1, <3>2, <2>2, <1>0
            DEF Connection, ConnectionOK, Holding, Awaiting, Renewing
  <2> QED BY <2>1, <2>2, <2>3, ConnectionStep DEF Told1, Awaiting
<1>5. Final \in Connection /\ Final.stage = "final"
  BY PlainConnections DEF Final
<1>6. CASE ReplaceCredential(c)
  <2> DEFINE t == conn[c].paste
  <2>1. conn[c].stage = "replacing" /\ t \in Tokens
        /\ conn' = [conn EXCEPT ![c] = Final] /\ UNCHANGED <<revoked, cache, flight>>
    BY <1>6, <1>0 DEF ReplaceCredential, ConnectionOK
  <2>2. cred.gen < MaxGen /\ cred' = Record(cred.gen + 1, t) /\ acct' = Bound(t)
    BY <1>6 DEF ReplaceCredential
  <2> HIDE DEF t
  <2> QED BY <2>1, <2>2, <1>5, StoreStep DEF Awaiting
<1>7. CASE AlreadyUpdated(c)
  <2>1. conn[c].stage = "replacing" /\ conn' = [conn EXCEPT ![c] = Final]
        /\ UNCHANGED <<acct, cred, revoked, cache, flight>>
    BY <1>7 DEF AlreadyUpdated
  <2>2. conn'[c] = Final
    BY <2>1 DEF Types
  <2>3. ConnectionOK(tok, Final)
    BY PlainConnections
  <2> QED BY <2>1, <2>2, <2>3, <1>5, ConnectionStep DEF Told1, Awaiting
<1>8. CASE ReplaceFails(c)
  BY <1>2, <1>8 DEF ReplaceFails
<1> QED BY <1>1, <1>3, <1>4, <1>6, <1>7, <1>8 DEF RenewalNext

\* Channels and rechecks: a connection marks the credential only with the
\* generation, and hence the token, that was refused.
LEMMA ChannelInv ==
    ASSUME Types, NEW tok, Agree(tok), NEW c \in Conns, ChannelNext(c)
    PROVE  Core'
<1>0. conn[c] \in Connection /\ ConnectionOK(tok, conn[c]) /\ cred \in CredentialRecord
  BY DEF Types, Agree
<1>1. cred.gen \in 0 .. MaxGen /\ conn[c].gen \in 0 .. MaxGen
  BY <1>0 DEF CredentialRecord, Connection
<1> DEFINE Alone == UNCHANGED <<acct, cred, revoked, cache, flight>>
           Plain == {Final, Closed} \cup {Open(g) : g \in 0 .. MaxGen}
<1>2. ASSUME Alone, NEW d \in Plain, conn' = [conn EXCEPT ![c] = d], Told1(c),
             conn[c].stage # "closed"
      PROVE  Core'
  <2>1. d \in Connection /\ ConnectionOK(tok, d)
    BY PlainConnections
  <2>2. conn'[c] = d
    BY <1>2 DEF Types
  <2> HIDE DEF Plain
  <2> QED BY <1>2, <2>1, <2>2, ConnectionStep
<1>3. CASE OpenChannel(c)
  <2>1. conn[c].stage = "final" /\ UNCHANGED <<acct, cred, revoked, cache>> /\ Told1(c)
    BY <1>3 DEF OpenChannel, Told1, Awaiting
  <2>2. CASE conn' = [conn EXCEPT ![c] = Closed] /\ UNCHANGED flight
    BY <2>1, <2>2, <1>2
  <2>3. CASE conn' = [conn EXCEPT ![c] = Open(cred.gen)] /\ UNCHANGED flight
    <3>1. Open(cred.gen) \in Plain
      BY <1>1
    <3> HIDE DEF Plain
    <3> QED BY <2>1, <2>3, <3>1, <1>2
  <2>4. CASE cred.state = "valid" /\ VerifyCached(c, "revalidating", cred.gen, cred.token)
    <3>1. cred.token # None
      BY <2>4 DEF Types
    <3> QED BY <2>1, <2>4, <3>1, VerifyStep DEF Awaiting
  <2> QED BY <1>3, <2>2, <2>3, <2>4 DEF OpenChannel
<1>4. CASE Revalidated(c)
  <2> DEFINE d == CASE conn[c].said.kind = "valid" -> Open(conn[c].gen)
                    [] conn[c].said.kind = "unavailable" -> Final
                    [] OTHER -> Closed
  <2>1. conn[c].stage = "revalidating" /\ conn[c].said # NoVerdict /\ Alone
        /\ conn' = [conn EXCEPT ![c] = d]
    BY <1>4 DEF Revalidated
  <2>2. d \in Plain
    BY <1>1
  <2>3. Told1(c)
    BY <2>1 DEF Told1
  <2> HIDE DEF d, Plain
  <2> QED BY <2>1, <2>2, <2>3, <1>2
<1>5. CASE ChannelEnds(c)
  <2>1. conn[c].stage = "open" /\ Alone /\ conn' = [conn EXCEPT ![c] = Final] /\ Told1(c)
    BY <1>5 DEF ChannelEnds, Told1, Awaiting
  <2> QED BY <2>1, <1>2
<1>6. CASE RecheckLoad(c)
  <2>1. conn[c].stage = "open" /\ Alone /\ Told1(c)
    BY <1>6 DEF RecheckLoad, Told1, Awaiting
  <2>2. CASE Current(conn[c].gen) /\ cred.token # None
    <3>1. conn' = [conn EXCEPT ![c] = [conn[c] EXCEPT !.stage = "reverify",
                                                      !.token = cred.token]]
      BY <1>6, <2>2 DEF RecheckLoad
    <3>2. conn'[c] = [conn[c] EXCEPT !.stage = "reverify", !.token = cred.token]
      BY <3>1 DEF Types
    <3>3. cred.token \in Tokens
      BY <2>2, <1>0 DEF CredentialRecord
    <3>4. conn'[c] \in Connection
      BY <3>2, <3>3, <1>0 DEF Connection, Stage
    <3>5. conn[c].gen <= cred.gen /\ cred.token = tok[conn[c].gen]
      BY <2>2, <1>1, CredentialsAssumption DEF Current, Agree, RecordOK
    <3>6. ConnectionOK(tok, conn'[c])
      BY <3>2, <3>3, <3>5, <1>0 DEF Connection, ConnectionOK, Holding, Awaiting, Renewing
    <3> QED BY <2>1, <3>1, <3>2, <3>4, <3>6, ConnectionStep
  <2>3. CASE ~(Current(conn[c].gen) /\ cred.token # None)
    <3>1. conn' = [conn EXCEPT ![c] = Final]
      BY <1>6, <2>3 DEF RecheckLoad
    <3> QED BY <2>1, <3>1, <1>2
  <2> QED BY <2>2, <2>3
<1>7. CASE RecheckVerify(c)
  <2>1. conn[c].stage = "reverify" /\ Alone /\ Told1(c)
    BY <1>7 DEF RecheckVerify, Told1, Awaiting
  <2>2. PICK v \in Answers(conn[c].token) :
            conn' = [conn EXCEPT ![c] =
                        IF Condemns(v.kind) THEN [conn[c] EXCEPT !.stage = "marking"]
                        ELSE Final]
    BY <1>7 DEF RecheckVerify
  <2>3. CASE Condemns(v.kind)
    <3>1. conn' = [conn EXCEPT ![c] = [conn[c] EXCEPT !.stage = "marking"]]
      BY <2>2, <2>3
    <3>2. conn'[c] = [conn[c] EXCEPT !.stage = "marking"]
      BY <3>1 DEF Types
    <3>3. conn[c].token \in revoked
      BY <2>3 DEF Condemns, Answers
    <3>4. conn'[c] \in Connection /\ ConnectionOK(tok, conn'[c])
      BY <2>1, <3>2, <3>3, <1>0 DEF Connection, Stage, ConnectionOK, Holding, Awaiting,
                                    Renewing
    <3> QED BY <2>1, <3>1, <3>2, <3>4, ConnectionStep
  <2>4. CASE ~Condemns(v.kind)
    <3>1. conn' = [conn EXCEPT ![c] = Final]
      BY <2>2, <2>4
    <3> QED BY <2>1, <3>1, <1>2
  <2> QED BY <2>3, <2>4
<1>8. CASE MarkCredentialInvalid(c)
  <2>1. conn[c].stage = "marking" /\ conn' = [conn EXCEPT ![c] = Final]
        /\ UNCHANGED <<acct, revoked, cache, flight>>
    BY <1>8 DEF MarkCredentialInvalid
  <2>2. CASE ~Current(conn[c].gen)
    <3>1. UNCHANGED cred
      BY <1>8, <2>2 DEF MarkCredentialInvalid
    <3> QED BY <2>1, <3>1, <1>2 DEF Told1, Awaiting
  <2>3. CASE Current(conn[c].gen)
    <3>1. cred' = [cred EXCEPT !.state = "invalid"]
      BY <1>8, <2>3 DEF MarkCredentialInvalid
    <3>2. cred.token \in revoked /\ cred.token # None
      BY <2>1, <2>3, <1>0, CredentialsAssumption
         DEF Current, ConnectionOK, Holding, Agree, RecordOK
    <3>3. /\ cred' \in CredentialRecord /\ cred'.state = "invalid"
          /\ cred'.token = cred.token /\ cred'.gen = cred.gen
      BY <3>1, <1>0 DEF CredentialRecord
    <3>4. Final \in Connection /\ Final.stage = "final"
      BY PlainConnections
    <3>5. conn' \in [Conns -> Connection]
      BY <2>1, <3>4 DEF Types
    <3>6. Types'
      BY <2>1, <3>2, <3>3, <3>5 DEF Types
    <3>7. RecordOK(tok)'
      BY <2>1, <3>2, <3>3 DEF Agree, RecordOK, TokenMatches, MarkedOnlyIfRefused
    <3>8. ASSUME NEW g \in Gens PROVE VerdictOK(tok, g, cache[g])'
      BY <2>1, <3>3 DEF Agree, VerdictOK
    <3>9. ASSUME NEW g \in Gens PROVE FlightOK(tok, g)'
      <4>1. flight[g].waiting \subseteq Conns
        BY DEF Types
      <4>2. flight[g] # NoFlight => c \notin flight[g].waiting
        BY <2>1 DEF Agree, FlightOK, Awaiting
      <4>3. ASSUME NEW e \in Conns, e # c PROVE conn'[e] = conn[e]
        BY <4>3, <2>1 DEF Types
      <4> QED BY <2>1, <3>3, <4>1, <4>2, <4>3 DEF Agree, FlightOK
    <3>10. ASSUME NEW e \in Conns PROVE ConnectionOK(tok, conn[e])'
      <4>1. CASE e = c
        BY <4>1, <2>1, <3>4 DEF Types, ConnectionOK, Holding, Awaiting, Renewing
      <4>2. CASE e # c
        <5>1. conn'[e] = conn[e]
          BY <4>2, <2>1 DEF Types
        <5> QED BY <5>1, <2>1, <3>3 DEF Agree, ConnectionOK, VerdictOK
      <4> QED BY <4>1, <4>2
    <3> QED BY <3>6, <3>7, <3>8, <3>9, <3>10 DEF Core, Agree
  <2> QED BY <2>2, <2>3
<1> QED BY <1>3, <1>4, <1>5, <1>6, <1>7, <1>8 DEF ChannelNext

\* The others: a client leaves, a command decides or writes, a token is
\* revoked, a stamp turns stale.
LEMMA OthersInv ==
    ASSUME Types, CommandOK, NEW tok, Agree(tok),
           \/ \E c \in Conns : EndConn(c)
           \/ CommandNext
           \/ \E t \in Revocable : Revoke(t)
           \/ StampExpires
    PROVE  Core'
<1>0. cred \in CredentialRecord
  BY DEF Types
<1>1. ASSUME NEW c \in Conns, EndConn(c) PROVE Core'
  <2>1. conn' = [conn EXCEPT ![c] = Closed] /\ UNCHANGED <<acct, cred, revoked, cache, flight>>
    BY <1>1 DEF EndConn
  <2>2. conn'[c] = Closed
    BY <2>1 DEF Types
  <2>3. Closed \in Connection /\ Closed.stage = "closed" /\ ConnectionOK(tok, Closed)
    BY PlainConnections
  <2> QED BY <2>1, <2>2, <2>3, ConnectionStep
<1>2. CASE UNCHANGED <<acct, cred, revoked, cache, flight, conn>>
  <2>1. Types'
    BY <1>2 DEF Types
  <2>2. Agree(tok)'
    BY <1>2 DEF Agree, RecordOK, TokenMatches, MarkedOnlyIfRefused, VerdictOK, FlightOK,
                ConnectionOK
  <2> QED BY <2>1, <2>2 DEF Core
<1>3. ASSUME NEW t \in Revocable, Revoke(t) PROVE Core'
  <2>1. revoked' = revoked \cup {t} /\ UNCHANGED <<acct, cred, cache, flight, conn>>
    BY <1>3 DEF Revoke
  <2>2. Types'
    BY <2>1, CredentialsAssumption DEF Types
  <2>3. Agree(tok)'
    BY <2>1 DEF Agree, RecordOK, TokenMatches, MarkedOnlyIfRefused, VerdictOK, FlightOK,
                ConnectionOK
  <2> QED BY <2>2, <2>3 DEF Core
<1>4. CASE CommandWrites
  <2>0. cli \in Command /\ cred.gen < MaxGen /\ cli.gen = cred.gen + 1
        /\ cred' = Record(cred.gen + 1, cli.token) /\ UNCHANGED <<revoked, cache, flight, conn>>
    BY <1>4 DEF CommandWrites, CommandOK
  <2>1. CASE cli.token = None
    <3>1. cred' = [gen |-> cred.gen + 1, state |-> "missing", token |-> None, fresh |-> FALSE]
          /\ UNCHANGED acct
      BY <2>0, <2>1, <1>4 DEF CommandWrites, Record
    <3>2. cred' \in CredentialRecord
      <4>1. cred.gen + 1 \in 0 .. MaxGen
        BY <1>0, <2>0, CredentialsAssumption DEF CredentialRecord
      <4> QED BY <3>1, <4>1 DEF CredentialRecord
    <3>3. TokenMatches' /\ None \in TokenOrNone
      BY <3>1 DEF TokenMatches, TokenOrNone
    <3>4. acct' \in AccountRecord /\ conn' \in [Conns -> Connection]
      BY <2>0, <3>1 DEF Types
    <3> QED BY <2>0, <3>1, <3>2, <3>3, <3>4, NextGeneration
  <2>2. CASE cli.token # None
    <3>1. cli.token \in Tokens /\ acct' = Bound(cli.token)
      BY <2>0, <2>2, <1>4 DEF Command, CommandWrites
    <3> QED BY <2>0, <3>1, StoreStep
  <2> QED BY <2>1, <2>2
<1>5. CASE StampExpires
  <2>1. cred' = [cred EXCEPT !.fresh = FALSE] /\ UNCHANGED <<acct, revoked, cache, flight, conn>>
    BY <1>5 DEF StampExpires
  <2>2. /\ cred' \in CredentialRecord /\ cred'.gen = cred.gen /\ cred'.token = cred.token
        /\ cred'.state = cred.state
    BY <1>0, <2>1 DEF CredentialRecord
  <2>3. Types'
    BY <2>1, <2>2 DEF Types
  <2>4. Agree(tok)'
    BY <2>1, <2>2 DEF Agree, RecordOK, TokenMatches, MarkedOnlyIfRefused, VerdictOK,
                      FlightOK, ConnectionOK
  <2> QED BY <2>3, <2>4 DEF Core
<1> QED BY <1>1, <1>2, <1>3, <1>4, <1>5 DEF CommandNext, CredentialSet, CredentialClear

\* What a command compared with stays as it is until it writes: the gateway
\* writes only when no command is under way.
LEMMA CommandInv == ASSUME ~Overlap, Core, CommandOK, Next PROVE CommandOK'
<1>0. cred \in CredentialRecord /\ cred.gen \in 0 .. MaxGen /\ MaxGen \in Nat
  BY CredentialsAssumption DEF Core, Types, CredentialRecord
<1>1. CASE UNCHANGED <<acct, cli>> /\ cred'.gen = cred.gen
  BY <1>1 DEF CommandOK, IdentityAllowed
<1>2. CASE cli' = NoCommand
  BY <1>2 DEF CommandOK
<1>3. ASSUME NEW t \in Tokens, CredentialSet(t) PROVE CommandOK'
  <2>1. cli' = [gen |-> cred.gen + 1, token |-> t] /\ UNCHANGED <<acct, cred>>
        /\ cred.gen < MaxGen /\ IdentityAllowed(acct.user, acct.bind, t)
    BY <1>3 DEF CredentialSet
  <2>2. cred.gen + 1 \in Gens
    BY <1>0, <2>1 DEF Gens
  <2> QED BY <2>1, <2>2 DEF CommandOK, Command, IdentityAllowed
<1>4. CASE CredentialClear
  <2>1. cli' = [gen |-> cred.gen + 1, token |-> None] /\ UNCHANGED <<acct, cred>>
        /\ cred.gen < MaxGen
    BY <1>4 DEF CredentialClear
  <2>2. cred.gen + 1 \in Gens
    BY <1>0, <2>1 DEF Gens
  <2> QED BY <2>1, <2>2 DEF CommandOK, Command
<1>5. CASE CommandWrites
  BY <1>2, <1>5 DEF CommandWrites
<1>6. ASSUME NEW c \in Conns, AuthNext(c) \/ EndConn(c) PROVE CommandOK'
  BY <1>1, <1>6 DEF AuthNext, PublicKeyCallback, VerifiedPublicKeyCallback, VerifiedVerdict,
                    EndConn
<1>7. ASSUME NEW c \in Conns, RenewalNext(c) PROVE CommandOK'
  <2>1. CASE ReplaceCredential(c)
    BY <1>2, <2>1 DEF ReplaceCredential, Exclusive
  <2> QED BY <1>1, <1>7, <2>1 DEF RenewalNext, PasteUnusable, PasteChecked, Paste,
                                  AlreadyUpdated, ReplaceFails
<1>8. ASSUME NEW c \in Conns, ChannelNext(c) PROVE CommandOK'
  <2>1. CASE MarkCredentialInvalid(c)
    BY <1>2, <2>1 DEF MarkCredentialInvalid, Exclusive
  <2> QED BY <1>1, <1>8, <2>1 DEF ChannelNext, OpenChannel, Revalidated, ChannelEnds,
                                  RecheckLoad, RecheckVerify
<1>9. ASSUME NEW g \in Gens, FlightReturns(g) \/ CacheExpires(g) PROVE CommandOK'
  BY <1>1, <1>9 DEF FlightReturns, CacheExpires
<1>10. CASE (\E t \in Revocable : Revoke(t)) \/ StampExpires
  BY <1>0, <1>1, <1>10 DEF Revoke, StampExpires, CredentialRecord
<1> QED BY <1>3, <1>4, <1>5, <1>6, <1>7, <1>8, <1>9, <1>10 DEF Next, CommandNext

\* Every step preserves the invariant.
LEMMA NextInv == ASSUME ~Overlap, Inv, [Next]_vars PROVE Inv'
<1>1. Types /\ CommandOK /\ Core
  BY DEF Inv, Core
<1>2. PICK tok : Agree(tok)
  BY DEF Inv, Core
<1>3. CASE UNCHANGED vars
  <2>1. Types'
    BY <1>1, <1>3 DEF Types, vars
  <2>2. Agree(tok)'
    BY <1>2, <1>3 DEF vars, Agree, RecordOK, TokenMatches, MarkedOnlyIfRefused,
                      VerdictOK, FlightOK, ConnectionOK
  <2>3. CommandOK'
    BY <1>1, <1>3 DEF CommandOK, IdentityAllowed, vars
  <2> QED BY <2>1, <2>2, <2>3 DEF Inv, Core
<1>4. CASE Next
  <2>1. Core'
    BY <1>1, <1>2, <1>4, AuthInv, RenewalInv, ChannelInv, OthersInv, FlightStep, ExpiryStep
       DEF Next
  <2> QED BY <1>1, <1>4, <2>1, CommandInv DEF Inv
<1> QED BY <1>3, <1>4

\* No credential, no verdict, no connection that holds anything.
LEMMA InitInv == Init => Inv
<1> SUFFICES ASSUME Init PROVE Inv
  OBVIOUS
<1> DEFINE tok == [g \in 0 .. MaxGen |-> None]
<1>1. NewConn \in Connection /\ ConnectionOK(tok, NewConn)
  BY CredentialsAssumption
     DEF NewConn, Connection, Stage, ConnectionOK, Holding, Awaiting, Renewing
<1>2. Types
  <2>1. cred \in CredentialRecord /\ cred.state = "missing" /\ cred.token = None
    BY CredentialsAssumption DEF Init, CredentialRecord
  <2>2. flight \in [Gens -> [leader: Conns \cup {None}, token: Tokens \cup {None},
                             waiting: SUBSET Conns]]
    BY DEF Init, NoFlight
  <2>3. conn \in [Conns -> Connection]
    BY <1>1 DEF Init
  <2> QED BY <2>1, <2>2, <2>3 DEF Init, Types
<1>3. RecordOK(tok)
  BY CredentialsAssumption
     DEF Init, RecordOK, TokenMatches, MarkedOnlyIfRefused, TokenOrNone
<1>4. ASSUME NEW g \in Gens PROVE VerdictOK(tok, g, cache[g]) /\ FlightOK(tok, g)
  BY DEF Init, VerdictOK, FlightOK
<1>5. ASSUME NEW c \in Conns PROVE ConnectionOK(tok, conn[c])
  BY <1>1 DEF Init
<1> HIDE DEF tok
<1>6. CommandOK
  BY DEF Init, CommandOK
<1> QED BY <1>2, <1>3, <1>4, <1>5, <1>6 DEF Inv, Core, Agree

\* The inductive invariant the theorems follow from.
LEMMA Invariant == ~Overlap => (Spec => []Inv)
<1> SUFFICES ASSUME ~Overlap PROVE Spec => []Inv
  OBVIOUS
<1>1. Inv /\ [Next]_vars => Inv'
  BY NextInv
<1> QED BY <1>1, InitInv, PTL DEF Spec

-----------------------------------------------------------------------------
\* Records, verdicts, connections and commands keep their types.
THEOREM TypeCorrect == ~Overlap => (Spec => []TypeOK)
<1>1. Inv => TypeOK
  BY DEF Inv, Core, Types, CommandOK, TypeOK
<1> QED BY <1>1, Invariant, PTL

\* A verdict from the cache or from another connection's call (VerifyCached)
\* is about the token its reader loaded.
THEOREM VerdictsAreAboutTokens == ~Overlap => (Spec => []VerdictIsAboutToken)
<1>1. Inv => VerdictIsAboutToken
  <2> SUFFICES ASSUME Inv, NEW c \in Conns, conn[c].stage \in {"verifying", "revalidating"},
                      conn[c].said # NoVerdict
               PROVE  conn[c].said.token = conn[c].token
    BY DEF VerdictIsAboutToken
  <2>1. PICK tok : ConnectionOK(tok, conn[c])
    BY DEF Inv, Core, Agree
  <2> QED BY <2>1 DEF ConnectionOK, Holding, Awaiting, VerdictOK
<1> QED BY <1>1, Invariant, PTL

\* MarkCredentialInvalid hits only a token the control plane refused, however
\* long ago the child that led to it was started.
THEOREM OnlyRefusedAreMarked == ~Overlap => (Spec => []MarkedOnlyIfRefused)
<1>1. Inv => MarkedOnlyIfRefused
  BY DEF Inv, Core, Agree, RecordOK
<1> QED BY <1>1, Invariant, PTL

\* startRenewal is reached for a missing or a refused token only.
THEOREM OnlyRefusedAreRenewed == ~Overlap => (Spec => []RenewalOnlyIfRefused)
<1>1. Inv => RenewalOnlyIfRefused
  BY DEF Inv, Core, Agree, ConnectionOK, Renewing, RenewalOnlyIfRefused
<1> QED BY <1>1, Invariant, PTL

\* A step that writes the account writes the identity of a token that its
\* binding allows.
LEMMA Binders ==
    ASSUME Inv, Next, acct' # acct
    PROVE  \E t \in Tokens : acct' = Bound(t) /\ IdentityAllowed(acct.user, acct.bind, t)
<1>1. ASSUME NEW c \in Conns, AuthNext(c) \/ ChannelNext(c) \/ EndConn(c) PROVE FALSE
  BY <1>1 DEF AuthNext, PublicKeyCallback, VerifiedPublicKeyCallback, VerifiedVerdict,
              ChannelNext, OpenChannel, Revalidated, ChannelEnds, RecheckLoad,
              RecheckVerify, MarkCredentialInvalid, EndConn
<1>2. ASSUME NEW c \in Conns, RenewalNext(c)
      PROVE  \E t \in Tokens : acct' = Bound(t) /\ IdentityAllowed(acct.user, acct.bind, t)
  <2>1. ReplaceCredential(c)
    BY <1>2 DEF RenewalNext, PasteUnusable, PasteChecked, Paste, AlreadyUpdated, ReplaceFails
  <2>2. conn[c].paste \in Tokens
    BY <2>1 DEF ReplaceCredential, Inv, Core, Agree, ConnectionOK
  <2> QED BY <2>1, <2>2 DEF ReplaceCredential
<1>3. ASSUME NEW g \in Gens, FlightReturns(g) \/ CacheExpires(g) PROVE FALSE
  BY <1>3 DEF FlightReturns, CacheExpires
<1>4. ASSUME (\E t \in Revocable : Revoke(t)) \/ StampExpires PROVE FALSE
  BY <1>4 DEF Revoke, StampExpires
<1>5. CASE CommandNext
  <2>1. CommandWrites
    BY <1>5 DEF CommandNext, CredentialSet, CredentialClear
  <2>2. cli # NoCommand /\ cli.token # None /\ acct' = Bound(cli.token)
    BY <2>1 DEF CommandWrites
  <2> QED BY <2>2 DEF Inv, CommandOK, Command
<1> QED BY <1>1, <1>2, <1>3, <1>4, <1>5 DEF Next

\* A stored token is one of the user the account is, and was, bound to.
THEOREM TokensAreOfBoundUser == ~Overlap => (Spec => TokenOfBoundUser)
<1> SUFFICES ASSUME ~Overlap PROVE Spec => TokenOfBoundUser
  OBVIOUS
<1> DEFINE Owned == cred'.token # None =>
                        /\ acct'.user = Owner[cred'.token]
                        /\ acct.user \in {None, acct'.user}
<1>1. Inv /\ Inv' /\ [Next]_vars => [Owned]_vars
  <2> SUFFICES ASSUME Inv, Inv', Next PROVE Owned
    OBVIOUS
  <2>1. TokenMatches'
    BY DEF Inv, Core, Agree, RecordOK
  <2>2. acct.user \in {None, acct'.user}
    <3>1. CASE acct' # acct
      <4>1. PICK t \in Tokens : acct' = Bound(t) /\ IdentityAllowed(acct.user, acct.bind, t)
        BY <3>1, Binders
      <4>2. acct'.user = Owner[t]
        BY <4>1 DEF Bound, Inv, Core, Types, AccountRecord
      <4> QED BY <4>1, <4>2 DEF IdentityAllowed
    <3> QED BY <3>1
  <2> QED BY <2>1, <2>2 DEF TokenMatches
<1> QED BY <1>1, Invariant, PTL DEF Spec, TokenOfBoundUser

\* The steps that write the record, and what they do to connections.
LEMMA Writers ==
    ASSUME Next, cred' # cred
    PROVE  \/ \E c \in Conns : ReplaceCredential(c) \/ MarkCredentialInvalid(c)
           \/ UNCHANGED conn
<1>1. ASSUME NEW c \in Conns, AuthNext(c) PROVE FALSE
  BY <1>1 DEF AuthNext, PublicKeyCallback, VerifiedPublicKeyCallback, VerifiedVerdict
<1>2. ASSUME NEW c \in Conns, RenewalNext(c) PROVE ReplaceCredential(c)
  BY <1>2 DEF RenewalNext, PasteUnusable, PasteChecked, Paste, AlreadyUpdated, ReplaceFails
<1>3. ASSUME NEW c \in Conns, ChannelNext(c) PROVE MarkCredentialInvalid(c)
  BY <1>3 DEF ChannelNext, OpenChannel, Revalidated, ChannelEnds, RecheckLoad, RecheckVerify
<1>4. ASSUME NEW c \in Conns, EndConn(c) PROVE FALSE
  BY <1>4 DEF EndConn
<1>5. ASSUME NEW g \in Gens, FlightReturns(g) \/ CacheExpires(g) PROVE FALSE
  BY <1>5 DEF FlightReturns, CacheExpires
<1>6. ASSUME CommandNext \/ (\E t \in Revocable : Revoke(t)) \/ StampExpires
      PROVE  UNCHANGED conn
  BY <1>6 DEF CommandNext, CredentialSet, CredentialClear, CommandWrites, Revoke, StampExpires
<1> QED BY <1>1, <1>2, <1>3, <1>4, <1>5, <1>6 DEF Next

\* However long a renewal takes and whatever is stored meanwhile, the token its
\* ReplaceCredential overwrites is one the control plane has refused, if there
\* is one: the compare of generations is one of tokens, and the token of that
\* generation was refused when the renewal was offered.
THEOREM WorkingTokensAreKept == ~Overlap => (Spec => WorkingTokenKept)
<1> SUFFICES ASSUME ~Overlap PROVE Spec => WorkingTokenKept
  OBVIOUS
<1> DEFINE Kept(c) ==
        conn[c].stage = "replacing" /\ conn'[c].stage = "final" /\ cred' # cred =>
            cred.token = None \/ cred.token \in revoked
<1>1. Inv /\ [Next]_vars => [\A c \in Conns : Kept(c)]_vars
  <2> SUFFICES ASSUME Inv, Next, NEW c \in Conns, conn[c].stage = "replacing",
                      conn'[c].stage = "final", cred' # cred
               PROVE  cred.token = None \/ cred.token \in revoked
    BY DEF vars
  <2>1. conn' # conn
    OBVIOUS
  <2>2. PICK d \in Conns : ReplaceCredential(d) \/ MarkCredentialInvalid(d)
    BY <2>1, Writers
  <2>3. conn' = [conn EXCEPT ![d] = Final] /\ conn \in [Conns -> Connection]
    BY <2>2 DEF ReplaceCredential, MarkCredentialInvalid, Inv, Core, Types
  <2>4. c = d
    BY <2>3
  <2>5. ReplaceCredential(c)
    BY <2>2, <2>4 DEF MarkCredentialInvalid
  <2>6. cred.gen = conn[c].gen
    BY <2>5 DEF ReplaceCredential, Current
  <2>7. PICK tok : RecordOK(tok) /\ ConnectionOK(tok, conn[c])
    BY DEF Inv, Core, Agree
  <2>8. cred.token = conn[c].token
    BY <2>6, <2>7 DEF RecordOK, ConnectionOK, Holding
  <2> QED BY <2>7, <2>8 DEF ConnectionOK, Renewing
<1> QED BY <1>1, Invariant, PTL DEF Spec, WorkingTokenKept
=============================================================================
