# coder-ssh-gateway: a TLA+ verification project

The gateway lets SSH clients reach Coder workspaces. It keeps SSH keys and
encrypted Coder tokens in a state directory, authenticates clients by key,
renews and enrolls tokens over the SSH authentication dialogue, and runs one
`coder` child process per tunnel or workspace connection. This directory holds
TLA+ models of that program, the TLC runs that check them on small instances,
and TLAPS proofs for every size of instance.

Run a check with `tlc -config <cfg> <module>` and a proof with
`tlapm <module>.tla`. `PROJECT.json` lists components, runs, mutants, the map
from definitions to source lines, findings, hazards and theorems.

## 1. Inventory

| Component (`internal/...`) | State | Operations | What is hard | What makes it correct |
|---|---|---|---|---|
| `store` | one JSON file per account, key, credential; an in-process mutex; a shared advisory flock | add/delete/enable accounts and keys, lookup, load/replace/clear/mark-invalid a credential, look-up-or-create by Coder id | crashes between files, several processes, stale generations, cascades that stop half-way | one account per Coder user; a token belongs to its account's user; deletion is complete and fails closed; a late 401 hurts nobody |
| `server` listener and connection | connection registry, draining flag, active-channel count, listener | accept, admission by semaphores, PROXY header, handshake, dispatch, drain, close all | a dozen early returns with slots in hand; registration racing the shutdown | slots balance and bound; handshakes end; shutdown completes and leaves nothing |
| `limits` semaphores | counts, global and per address, key, account, connection | acquire, release | entries that come and go with their counts | count = holders <= limit |
| `limits` rate | token buckets, reconnect allowances | allow, grant, evict | clock jumps, eviction at the bound | nobody gets more than the rate |
| `server` channels, global requests | per-connection transport under a mutex, slots of each channel | admit session/relay/jump, forward requests, close | goroutines racing for one lazily created child; waits that go in a circle | one transport; bounded children; nothing used after close; everything ends with the connection |
| `tunnel` supervisor, proxy, starter | child process, copy loops, timers | launch, supervise, cancel, reap | a select over eight sources, signals racing the wait | ends completely, loses no output, reports the right code |
| `tunnel` workspace transport, session bridge | inner SSH client, queued requests | start, bridge, relay, close | requests acknowledged before the inner session exists | queued and live requests are decided alike; start-up time-outs |
| `tunnel` recheck, registry | none; map of tunnels and eviction order | recheck after failure; add/remove/list | recheck of an old generation; a bound that removal undermines | marks only what was refused; registry bounded |
| `sshauth` | per-connection candidate, attempts, generation | public key, verified key, renewal, enrollment | store calls in sequence, other connections in between | only valid credentials pass; renewal terminates |
| `coderapi` | cache by (account, generation), single flight | verify, cached verify | stale verdicts, first caller's context shared | a verdict is about the token it is used for |
| `keymgmt` | listing shown to the user | list, remove by number, delete account | two sessions of one account | removes what was shown |
| `audit`, `app` retention | day file, directory | record, roll, prune | midnight, several instances | no event lost, no young file pruned |
| `health`, `metrics`, `app` | serving flag, auxiliary goroutines | probes, serve, admin commands | waits at the end of ServeOn | readiness tells the truth |
| `route`, `secretbox`, `config`, host keys, CLI | none to speak of | parsing, sealing, validation | input spaces | unit-tested; not modelled |

Interaction: the listener starts one handler goroutine per connection; the
handler authenticates through `sshauth` (store and control plane), then
dispatches channels; channel handlers load and revalidate the credential, share
one transport per connection or start a jump tunnel of their own; a tunnel that
fails rechecks the credential and may mark its generation invalid in the store,
which every other connection, instance and admin command shares. Enrollment,
the key-management console and the admin commands work on the same directory at
the same time, and rate limits stand in front of connections and of every token
that somebody pastes.

## 2. Modules

| Module | Models | Checked by |
|---|---|---|
| `Directory` | what the store promises: an abstract directory that changes one file at a time | implemented by `Store` |
| `Store` | the state directory and every mutation of it, file operation by file operation | `MCStore`, `StoreProofs` |
| `Credentials` | one account's credential: authentication, verification cache, renewal, channel-open revalidation, recheck | `MCCredentials`, `CredentialsProofs` |
| `DeviceKeys` | how keys get on and off accounts: self-enrollment, the console, admin commands, over the steps of `Directory` | `MCDeviceKeys`, `DeviceKeysProofs` |
| `RateLimits` | the three bucket tables, allowances, eviction | `MCRateLimits`, `RateLimitsProofs` |
| `Server` | listener, `handleConn`, registry, shutdown, `ServeOn` | `MCServer`, `ServerProofs` |
| `Supervisor` | one jump tunnel: supervisor, copy loops, waiter, child | its own cfg, `SupervisorProofs` |
| `Workspace` | one workspace connection: channels, transport, global requests | `MCWorkspace`, `WorkspaceProofs` |
| `SessionBridge` | one session channel: early requests, replay, live requests, copies, exit status | `MCSessionBridge`, `SessionBridgeProofs` |

How they fit together. `Store` implements `Directory` (`ImplementsDirectory`,
checked and proved),
and `DeviceKeys` takes `Directory`'s steps for the store calls of enrollment,
console and commands. `Credentials` looks at one account and one record with
the same rules and makes the verdict, which `Workspace` takes as a free choice,
explicit. `Supervisor`'s `CancelEnds` is what `Workspace` assumes of a jump
(`TunnelEnds`); the start of `Workspace`'s transport is the one event
`SessionBridge` waits for. `RateLimits` decides what `Server` and `DeviceKeys`
leave open: a limiter may refuse at any consultation.

### Directory

Each step of `Directory` is one change of one file and says in which state it
may be made: an account is created only when nothing of its id is left, a key
linked only while free, a token stored only for the bound user and as the next
generation, a credential dropped only when the account has no key, an account
dropped last. The refinement mapping is the identity on the three file
variables; `pc`, registers and snapshots of `Store` are hidden, so a step of
`Store` that only decides is a stutter.

### Store

`accounts`, `keys`, `creds` are the files. A mutation holds its process's mutex:
one action reads and decides (its early returns are the guards; a refused call
changes nothing and is no step), then each rename or unlink is a step of its
own; `pc[p]` and `reg[p]` are how far the mutation is and what it carries.
`snap[s]` is the credential snapshot a goroutine or command captured, so
replace, clear and mark-invalid run with a generation of any age. `Crash` may
come between any two file operations, `FileError` makes one fail. `revoked`,
`used`, `deleted`, `wiped` are history the properties speak of.

Two simplifications. All reads of an operation are one step: exact for one
process, whose mutex excludes others, and for several processes a restriction,
so that a violation found with two processes is a real one and nothing is
claimed to hold for them. Labels, time stamps and ciphertext are left out; a
sealed token is bound to its record.

### Server

`pc[c]` is the statement `handleConn` is about to execute; deferred calls are
one step, `Unwind`. Channels are counted, not named. The rate gate, the outcome
of authentication and of channel admission are free choices. An entry of a
mapped semaphore that was removed is one with count zero. The path for
permissions that do not parse (unreachable from `BuildCallbacks`) is the one of
`AuthFails`. A relay is counted without a look at its connection
(`channels.go:509-510`), so only a key-management channel is accepted on
condition that the connection is open (`AcceptChannel`).

### Supervisor

Bytes are abstracted to whether the child has written any and whether the
upward loop is parked in a write. `channel` distinguishes the gateway's
CHANNEL_CLOSE from the client's answer, because blocked reads and writes of an
SSH channel end only with the latter. The end of standard error comes with the
exit. A descendant that leaves the process group and keeps a pipe open is not
modelled.

### Workspace

Actors that need the transport are the channel handlers or bind goroutines and
the global-request goroutine; `mu` is `workspaceContext.mu`, kept during a
start. The verdict on the credential is a free choice. Two transports are
enough for one connection: the one being closed and one more. Draining is
Server's business, a jump tunnel is Supervisor's (`TunnelEnds`), and the
channels the workspace opens towards the client are left out.

### DeviceKeys

A store call is one step. `login[l]` is one connection to the enrollment user:
its stage is the store call `linkEnrollment` makes next, its other fields what
the earlier ones returned. `Fail` is every error return; the client may start a
continuation again, so a session goes round until its attempts are used up.
`console[c]` holds the session's own key, the last listing and the entry that
waits for confirmation; a number typed at the menu is the entry it stands for,
and `ids` tells two records under one key apart. `Cascade` is `DeleteAccount`
with an error after any of its parts. Admin commands are
single steps too, though other processes: what is shown holds for commands that
no write of the gateway interrupts.

### Credentials

`conn[c]` is a connection with what it loaded: the binding from the candidate
lookup, the generation and token of the snapshot, the attempts. `flight[g]` is
the single-flight call of a generation; the answer goes to whoever waits, and a
leader that has gone has cancelled the call for all. `cache[g]` may expire at
any time, and so may the validation stamp of the record (`fresh`). The control
plane answers a token by its own verdict, with another refusal, or not at all
(outage, overload, cancelled context). `Revocable` are the tokens an instance
lets the control plane come to refuse.

The gateway's store calls are single steps under its mutex. `credential set` and
`credential clear` run in a process of their own: `CredentialSet` and
`CredentialClear` go up to the compare inside the store call, `cli` is the record
the command is about to write, `CommandWrites` is its rename. `Overlap` says
whether the gateway may write in between. Without it gateway and commands take
turns in the store, which is what the passing run and the proofs are about; with
it one generation may name two tokens (section 3). A relay whose
credential is missing or invalid leaves the connection open
(`rejectTransportFailure`) where `OpenChannel` closes it.

### SessionBridge

The goroutine that serves the channel is `stage`; the copies and the waiter are
`input`, `drained` and `waitCh`. A request is a type and whether its payload is
valid. `acked` and `applied` record what the client was promised and what the
inner session took. Standard output and error are one counted stream.

A request to the inner session holds the loop at "replay" or "asking" until the
workspace answers (`Asking`); `window-change` and `signal` ask for no answer, so
for them taken means sent. `session.Close` only sends a close (`closing`): the
session is over when the workspace answers it or the transport breaks
(`InnerEnds`), and `eof` tells whether the workspace had ended the output by
then. Output that was in flight when a session broke off is lost (`CopyEnds`). A
subsystem's wait is for the copies alone (`WaitReturns`).

### RateLimits

The three tables share no state, so `gate` picks one per behaviour. Time is a
clock in ticks; `born` and `passed` record since when a bucket exists and what
it let through, where an allowance counts when it is granted as one attempt
less. An eviction is the code's: the candidates, without allowances, in two
sorted lists (`Listings`), idle ones and others, and the loops that delete from
the front of the first and then of the second up to a count (`Victims`). Keys
are abstract, so ties in the sort go any way. After it an account is admitted
only if there is room, an address always (`Admitted`).

## 3. Runs

| Run | Instance | Result |
|---|---|---|
| `store_binding` | 2 accounts, 2 users, 1 key, 1 process, crashes and I/O errors, generations <= 2 | holds: `TypeOK`, `UniqueBinding`, `CredentialMatchesBinding`, `NoKeyAuthenticatesWiped`, `ImplementsDirectory` |
| `store_credential` | 1 account, 2 tokens, 2 sessions, generations <= 3, crashes | holds: `RecordsValid`, `InvalidIsJustified` |
| `store_race` | 2 processes | violated: `RecordsValid` |
| `enrollment` | 1 enrollment with 2 attempts, 1 console, admins, 2 accounts, 2 users, 1 key | holds: `GuessesBounded`, `EnrolledKeyIsOwned` |
| `console` | 2 consoles, 1 account, 2 keys, 3 records, admins | holds: `ConsoleRemovesWhatWasShown` |
| `credential_use` | 2 connections, 3 tokens of 2 users (one of them revoked at some time), 2 attempts, generations <= 2, commands that do not overlap, fairness | holds: `VerdictIsAboutToken`, `MarkedOnlyIfRefused`, `RenewalOnlyIfRefused`, `TokenOfBoundUser`, `WorkingTokenKept`, `VerdictArrives` |
| `credential_invalid` | the same with 1 attempt | violated: `InvalidIsRenewed` |
| `rate_limits` | 5 clients, tables of 4, a token every 2 ticks, idle after 1, 3 ticks | holds: `SizeBounded`, `RateHolds`, `AllowanceKept`, `OldestGoesFirst` |
| `server_lifecycle` | 2 connections, 2 channels each, PROXY header, accept errors, shutdown, fairness | holds: `SlotsBalanced`, `UnauthenticatedBounded`, `ReturnLeavesNothing`, `HandshakesEnd`, `DrainedShutdownCompletes` |
| `tunnel_ends` | the whole state space, stream errors, fairness | holds: `NothingOutlives`, `NoOutputLost`, `StartedIsNotTimedOut`, `InputEndEnds`, `CancelEnds`, `SilentStartEnds` |
| `workspace_connection` | session, relay, jump and requests; 3 channels, 2 per account, 2 processes; fairness | holds: `ChildrenBounded`, `OneTransport`, `NoUseAfterClose`, `CancelledUnwinds` |
| `session_bridge` | 3 requests, 2 chunks of output, fairness | holds: `AckedIsApplied`, `StatusIsTruthful`, `NoMuteEnd`, `SessionUnwinds`, `ExitReachesClient` |

Every module also states `TypeOK`. It is proved for all of them; add it to the
`INVARIANTS` of a cfg when the module is changed.
`DeletedLeavesNothing`, `KeyOwnerStable`, `GenerationAdvances` and `LimitsHold`
are proved and left to the proofs.

Each violated property is what a comment or a document of the repository says;
`findings` in `PROJECT.json` quotes it and tells the trace. In
`credential_invalid`: a tunnel fails, the recheck gets a 401 and marks the
credential; the acceptance cached before stays; the next connection is
authenticated on it, and its first channel is refused because of the mark. This
goes on until the cached verdict expires.

Bounds. Two accounts and two users are what a double binding takes, one key
what a wrong owner takes (its account varies), two sessions and three
generations what a stale snapshot needs to be overtaken twice. Two connections
from one address and account exceed the handshake and the account limit and,
with two channels each, let a channel be admitted while another is active and
the server is draining; the proofs cover any number. `MaxGen` and `MaxChannels`
are the only caps on counters; a state at `MaxGen` refuses further
replacements. The Supervisor has no bound: its state space is finite. The three
channels of `workspace_connection` exceed the account's limit, and three actors
(bind goroutine, relay, requests) compete for the transport while a jump takes
one of two process slots. Two processes are what `OneTransport` needs, since a
second transport must find one; they are not all in use at once there, so that
half of `ChildrenBounded` rests on the proof, and on the same instance with
`MCLimitTight`, one process, where transport and jump exclude each other and the
invariant holds too (147,092 states).

One enrollment is enough for `EnrolledKeyIsOwned` because everything another
one could do to its key and account (create it, store a token, add the key, or
lose it) is also a step of an admin or a console; two attempts let the two
continuations alternate. Three record ids are what a key needs to be removed
and added again behind a listing. Two connections make a leader and a follower
of a flight, and two generations a stale verdict; of the three tokens two
belong to the bound user, so that a renewal is possible after a revocation, and
one to another user. Five clients overfill a table of four, whose eviction then
has a choice, and three ticks make some entries idle and some not, with a whole
token and a remainder refilled. Three requests are a set-up request, a start,
and one that comes too early, too late or twice; two chunks of output let one be
copied and one be lost.

Symmetry is used in `store_binding`, `enrollment`, `console` and `rate_limits`,
which have no liveness property. `MaxGen`, `MaxIds`, `MaxTime`, `MaxRequests`
and `MaxOutput` are bounds of the models, `MaxAttempts` and the limits are
values of the configuration.

Deadlock is checked wherever the system should go on or end in its terminal
state (`Exited`, `Finished`); it is off where clients may all have left for
good and in runs that use up their ids and generations.

Each property has a mutant: an operator that changes one definition as a
plausible bug would, and that makes TLC report the property.

Further disagreements between code and comment. The first group is stated as
properties in the modules: checked alone, on the instance named, TLC shows a
trace.

- `Store.InvalidIsJustified` with `Faults = {"io"}`: `DeleteAccount` removes the
  credential before the account record (`store.go:846`); if it fails in between
  the generations start again at 0 and an old 401 matches a new record, against
  `credential.go:289-292`. If that record is a tombstone the mark leaves one
  that `validateCredentialRecord` rejects (`RecordsValid`), and the write is no
  step of `Directory` either. It takes two sessions, one of which has a snapshot
  from before the error; `store_binding`, which has I/O errors, has one session,
  so `ImplementsDirectory` holds there. The attempt to prove the refinement for
  I/O errors too is what showed this.
- `Server.ShutdownCompletes` (one connection, `FairSpec`): a connection that
  registers after `closeAllConns` (`listener.go:308`) copied the map is never
  closed and `Serve` waits for it, against `listener.go:228-234`.
- `Server.FailedListenerShows` (`AcceptFails = TRUE`, `FairSpec`): after an
  accept error `ServeOn` (`serve.go:380`) waits for goroutines nobody cancels,
  ready and without a listener, against `serve.go:325-328`.
- `Supervisor.UsefulExitIsNoFailure`: the select may take the exit before the
  first byte it also has (`supervisor.go:132`); a tunnel that worked is
  rechecked, against `recheck.go:29-30`.
- `Workspace.ConnectionEndEnds` (one relay, `FairSpec`): the dispatcher waits
  for a relay whose workspace side stays open before it closes the transport
  (`channels.go:217`), against `workspace_transport.go:248-251`.
- `Workspace.NoOrphan` (one session and requests): a forward request handled
  after `workspaceContext.close` took the transport starts another one that
  nobody closes (`global_requests.go:113`), against `channels.go:129-130`.
- `Credentials.VerdictIsAboutToken` with `Overlap = TRUE`: a command has compared
  generation 0 (`credential.go:250`); a connection renews and stores its token as
  generation 1; another one verifies it, and the verdict is cached; the command
  writes its own token, also as generation 1. The next channel open whose
  validation stamp is stale loads the command's token and gets the cached verdict
  on the other, against `credential.go:325-327` ("cannot be confused with the next
  one") and `SECURITY.md:197` ("wrong-generation writes never overwrite").
  `store_race` shows the same gap from the side of the files.
- `Credentials.AlreadyUpdatedIsValid`: the loser of the compare-and-swap
  continues as if the credential were valid, also if an admin cleared it,
  against `renewal.go:296-298`; its first channel open is refused.
- `SessionBridge.DecisionsAgree`: an `env` or a second start request after a
  queued start is acknowledged early and refused on replay, which ends the
  session, against `workspace_session_deferred.go:24-26`.

The second group is visible in the modules or was met while reading:

- `renewal.go:254` speaks of a reconnect allowance; renewal grants none, only
  enrollment does (`GrantReconnectAllowance`).
- `enrollment.go:131-135` says the pre-token gate is consulted before each
  prompt; a keyboard-interactive callback that is started again is not gated
  (`KeyboardInteractive` in DeviceKeys).
- The enrollment banner reports a stored credential also when the
  compare-and-swap was lost to a clear (`ReplaceRefused` in DeviceKeys).
- `workspace_session_deferred.go:88-92` says that an early `window-change` is
  "acknowledged and dropped, matching the live bridge's pre-start handling"; the
  code refuses it, as its test expects (`workspace_session_deferred_test.go:167`),
  and the live bridge sends it on before a start (`workspace_session.go:232`)
  (`QueueDecision` and `Validates` in SessionBridge).
- A subsystem is reported with exit status 0 however it ended, also when the
  transport broke and its output was cut off (`workspace_session.go:217-222`,
  against `workspace_transport.go:303-304`; `WaitReturns` in SessionBridge), and
  `finishSession` followed by `fail` may send two statuses (`SendStatus`).
- `abortSession` waits for the workspace to answer its close, and `BridgeSession`
  for the input copy before it closes the inner session: with a workspace that
  is there and does not answer or read, a session whose client has gone stays
  (`Owed`, the exception in `SessionUnwinds`).
- A replay that fails after a start request returns without collecting the wait
  goroutine (`workspace_session.go:98`), against the comment of `abortSession`
  (149-151) that it is owned by `forwardSessionRequests` (`ReplayFails`).
- `tunnel/registry.go`: a removed id stays in the eviction order, so the map
  may exceed its bound.
- `audit.go`: a roll whose `Close` fails leaves a closed file behind and every
  later roll fails, though the comment says that the next record retries.
- `connection.go:183-185` says the per-address slot is released after
  authentication; `defer releaseIP()` (77) holds it for the connection's life
  (`AuthSucceeds` in Server, `HeldAt` in ServerProofs).
- `supervisor.go:215-217` says the trigger path is taken only before the wait
  fires; the select may take a trigger when the result is ready as well, and
  then signals a group that was reaped (`Terminate` in Supervisor).
- A client that goes away while the upward loop is parked in a write
  (`proxy.go:36`) is not noticed; the connection context is not cancelled by a
  disconnect (`UpParks` in Supervisor).
- `rejectTransportFailure` (`channels.go:539`) closes the whole connection for a
  process limit or a failed start, with the text for an invalid credential, and
  closes nothing for an invalid credential (`Missed` in Workspace).
- With two processes an account that one deletes may be written back by the
  other (`RefreshUsername`, `SetAccountEnabled` in Store).
- Several documents still describe an exclusive lock on the state directory
  (`README.md:181`, `docs/operator-guide.md:251`), which ADR 0004 replaced by a
  shared one.

## 4. Fairness

`Server`: goroutines that are not blocked run; deadlines fire (PROXY header,
handshake), so reading a header and authenticating end; admission ends because
its calls have time-outs; a closed connection ends the key-management session.
Nothing is assumed of clients, and nothing of workspace channels, which may
outlive their connection.

`Supervisor`: goroutines run, armed timers expire, SIGKILL ends a child, a
client answers CHANNEL_CLOSE (RFC 4254, 5.3) or the TCP keepalive finds its
dead connection. Strong fairness of `UpEnds` says that a client that has ended
its input sent finitely much, so that the loop does not park for ever between
reads while the child goes on reading. Neither the client nor the child need
read, write or exit.

`Credentials`: a call to the control plane returns (the HTTP client has a
timeout) and a handler that has its verdict goes on. Nothing is assumed of
clients or admins.

`SessionBridge`: the transport start ends (its time-outs), goroutines run, a
client that is there reads its output, and a client whose channel or connection
was closed answers or is cut off; the input such a client has left is finite,
hence strong fairness of `InputEnds` for a closed channel. The workspace owes
nothing: it need not open a session, answer a request or a close, read its input
or exit. `SessionUnwinds` therefore names what a session may wait for in vain.
No client need leave.

`Workspace`: goroutines run; a waiter gets the mutex if it is free again and
again (Go's mutex is starvation-free), hence strong fairness of `LockStep` and
`DetachTransport`; starts end (startup time-out); a closed connection ends the
client's side of a channel, a dead child the workspace's; a cancelled context
ends a tunnel, which is `CancelEnds` of Supervisor. A living workspace owes
nothing.

## 5. Proofs

All proofs are for every value of the constants, under the named assumptions of
the modules (`StoreAssumption`, `ServerAssumption`, `SupervisorAssumption`,
`CredentialsAssumption`, `DeviceKeysAssumption`, `RateLimitsAssumption`,
`WorkspaceAssumption`, `BridgeAssumption`), which TLC evaluates in every run.
They use the safety part of each specification; none assumes fairness. The
layout is the same everywhere: an inductive invariant made of named parts, one
lemma per action or group of actions, a last lemma for `Next`, and the theorems.
Before it was proved each invariant was checked by TLC on the instance of its
run; that of `CredentialsProofs` with its `\E tok`, the token each generation
held, ranging over the functions `RecordOK` allows.

`StoreProofs`. `TypeCorrect` holds for any number of processes. The rest is for
one process (`Single`), as the two-process runs show it must be. An invariant
about files alone is not inductive: what a mutation has checked must still be
true when it writes. `StructInv` therefore adds `Linked` (every dependent file
has its account; deleted ids are not reused; a wiped account has no keys) and
`Pending`, which says for each kind of half-done mutation what its registers
guarantee about the files. It survives crashes and I/O errors and gives
`BindingsAreUnique`, `CredentialsMatchBindings`, `DeletionIsComplete`,
`CascadeFailsClosed` and, as an action property, `KeysKeepTheirOwner`.
`CredInv` adds that a pending credential write is of the next generation or
keeps the token, and that a snapshot with the file's generation has the file's
token (unless the account is doomed). That last part fails when a cascade may
stop on an error (section 3), so `RecordsStayValid`,
`StaleFailuresAreHarmless` and `GenerationsAdvance` assume that file operations
do not fail; crashes are allowed, since a crash takes the snapshots with it.

The refinement, `StoreImplementsDirectory`, is under the same assumption. Its
invariant `WriteInv` says that the record a mutation is about to write differs
from the file as it is now only in what the operation is for: a fresh account
or a changed flag, a binding, a new token or a tombstone or a mark, a fresh key
or a changed flag. One lemma per kind of write then names the step of
`Directory` it is (`AccountWriteImplements`, `BindWriteImplements`,
`CredentialWriteImplements`, `KeyWriteImplements`, `UnlinkImplements`) and
derives that step's guard from `Linked` and `Pending`; everything else stutters.
That a mark never hits a tombstone is where `CredInv` is needed.

`ServerProofs`. `SlotInv` ties the stage of a handler to the slots it holds
(`Staged`) and the slots to the counts (`SlotsBalanced`, `Bounded`). The lemmas
`TakeBalanced` and `ReleaseBalanced` do the cardinality once; each action then
moves a handler, takes one slot or gives some back. Results:
`SlotsStayBalanced`, `LimitsAreKept`, `UnauthenticatedStayBounded`. `LifeInv`
adds where a handler can be while its connection is open, registered or has
channels, and that the global channel count is the number of active channels
over all connections (a cardinality: the sum has no induction here). With
`SlotInv` it gives `ReturnsWithNothingLeft`, and with the types of the
remaining variables (`ModeType`, `ServerType`) `TypeCorrect`, which includes
that no count goes below zero.

`SupervisorProofs`. `Knowledge` says that what the supervisor and the waiter
know is so: a reaped child's output was read, a seen byte exists, the startup
timer is off once it was seen, and the select is left by a trigger or with the
child reaped. Results: `TypeCorrect`, `TunnelsLeaveNothing`, `OutputIsRead`,
`StartsCount`.

`CredentialsProofs`. The theorems assume `~Overlap`: a command's compare and write
have no write of the gateway between them, which `CommandOK` keeps (the record a
command is about to write is of the next generation and its token allowed); with
`Overlap` TLC refutes the first of them (section 3). Verdicts are cached and
shared by generation, while the properties are about tokens. The invariant says
that there is a function `tok` from generations to tokens with which the record,
the cached verdicts, the flights and all connections agree (`Agree`); a
replacement extends it at the next generation, which nobody holds yet. Results:
`VerdictsAreAboutTokens`, `OnlyRefusedAreMarked`, `OnlyRefusedAreRenewed`, and two
action properties. `TokensAreOfBoundUser`: who writes the account writes the
identity of a token that its binding allows (lemma `Binders`), so it is never
rebound. `WorkingTokensAreKept`: what is current when a renewal writes is what
its connection had found missing or refused, since a generation has one token.

`RateLimitsProofs`. `RateHolds` is not inductive: it does not know how many
tokens a bucket still has. The invariant is an account of each entry: tokens
left and attempts spent are at most the full bucket and what the time between
birth and last refill has earned. `EarnedBounds` and the lemmas after it do the
integer division (two intervals earn at most what their sum does), which
`Refill` needs because it throws remainders away. For the evictions,
`ListingFacts` says what sorting gives (everybody is in the list, nobody before
one seen earlier), `VictimsOK` follows the two lists through the loops, and
`SomethingGoes` that a full table of addresses, which have no allowances
(`NoneButAccounts`), makes room. Results: `TablesAreBounded`, `RateIsLimited`,
`AllowancesAreKept`, `TheOldestGoesFirst`.

`WorkspaceProofs`. The invariant says where a handler of each kind can be and
what it holds there, that the lock is held exactly while one child starts and
none is bound, that the charged children are the ones that exist, and that
whoever got a transport finds it bound until the dispatcher, with all handlers
gone, detaches it. Results: `ChildrenAreBounded`, `ThereIsOneTransport`,
`NothingIsUsedAfterClose`.

`DeviceKeysProofs`. What other actors may do to an account is `Stable`: ids are
not handed out twice, a binding is made once. Every step of the directory has
it, so a login that has an account has, if anybody still has it, the account of
its token's user. Results: `GuessesAreBounded` and the action properties
`EnrolledKeysAreOwned` and `ConsoleRemovesOnlyThat`.

`SessionBridgeProofs`. Until a session is live, what was acknowledged is what
was applied followed by what is queued; replay moves the boundary (a lemma on
sequences), a failed replay ends the session. A result in the wait channel
implies that the copies are done and, but for a subsystem, that the program ended
with that result; copies are done only when all output was copied, when it broke
off, or when the client is gone. Results:
`PromisesAreKept`, `StatusesAreTruthful`, `NoEndIsMute`.

Model-checked only: liveness, since the prover does not do fairness
(`HandshakesEnd`, `DrainedShutdownCompletes`, `InputEndEnds`, `CancelEnds`,
`SilentStartEnds`, `CancelledUnwinds`, `VerdictArrives`, `SessionUnwinds`,
`ExitReachesClient`), and what is expected to be violated. Every invariant and
action property of a passing run is proved; for `Store` and `Credentials` under
the assumptions named above. `NoKeyAuthenticatesDeleted` is proved with `DeletedLeavesNothing`,
which implies it.

## 6. What is not modelled, and what is left

Not modelled at all: host-name parsing, cryptography, configuration, prompts,
metrics, log and audit formatting, host-key loading: data without control, or
pure I/O. `ReencryptAll`, `UpdateAccountIdentity` and `TouchKeyLastUsed` of the
store have no caller in the gateway. The tunnel registry and the audit log are
sequential code under one mutex each whose behaviour a unit test reaches; what
reading them showed is in section 3. Channels opened by the workspace towards
the client, the readiness poll, and the bytes of tokens in memory (when they
are wiped) are left out of the modules that touch them.

Left to prove:

1. The handler-level facts the liveness properties of `Server` rest on (which
   handler can be waiting for what).
2. The composition: that the store calls of `Credentials` on its one record are
   steps of `Directory` restricted to one account.
