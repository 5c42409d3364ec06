# CAP in TLA+

A verification development for the CAP SDKs. CAP is a wire protocol (protobuf
packets over NATS) with which a scheduler hands jobs to workers; the SDKs
implement the worker's side, the agent runtimes and thin clients. The modules
here are translated from the source, checked by TLC on small instances and, for
the properties that matter most, proved by TLAPS for every value of the
constants. `PROJECT.json` says which lines each definition stands for, which
hazards of the code the properties aim at, and for every property one plausible
bug that it catches.

    tlc -workers 2 -config MCNodeAgent.cfg MCNodeAgent     # one run
    tlapm NodeAgentProofs.tla                              # one module's proofs

## The system and its parts

| part | where | here |
|---|---|---|
| Go managed worker: settlement of CAP-PRODUCTION jobs | `sdk/go/worker/managed_production*.go`, `managed_replay*.go`, `managed_subscribe.go` | `ManagedSettlement`, `ReplayOutbox` |
| Go managed worker: session, heartbeat, start and stop | `sdk/go/worker/managed.go`, `managed_trust*.go` | partly, in `ManagedSettlement` |
| Go runtime agent | `sdk/go/runtime` | admission in `ProductionAdmission` |
| Node agent: start, reconnect, trust, close | `sdk/node/src/runtime.ts`, `runtime-worker-trust.ts` | `NodeAgent` |
| Node worker-trust exchange | `sdk/node/src/worker-trust-*.ts` | `TrustExchange`; its wire in `NodeBoundary`, `PacketPath` |
| Node client, simple worker, emit helpers, codec, signing, packet checks | `sdk/node/src/client.ts`, `worker.ts`, `codec.ts`, `security.ts`, `validate.ts`, ... | `PacketCodec`, `NodeBoundary`, `PacketPath` |
| generated code for Node | `node/cap_pb.js` (protobufjs), `node/cordum/agent/v1/*_pb.js` (google-protobuf) | `CapPb`, `AgentPb`, read by `PacketCodec` |
| Go client and signing | `sdk/go/client`, `sdk/go/signing.go` | the packet it signs, in `PacketPath` |
| Python agent | `sdk/python/cap/runtime.py`, `worker_trust_runtime*.py` | admission in `ProductionAdmission` |
| in-memory replay stores (Go, Node, Python) | `production_replay.*` | `ProductionAdmission` |
| production packets: codec, signature, validation | `production_*` in each SDK | which check refuses which fault, in `ProductionAdmission`; the Node wire in `PacketPath` |
| everything else | | see "What is not modelled and why" |

How they meet: a managed worker (Go) receives jobs from a JetStream consumer and
keeps its progress in a durable replay store; an agent (Go runtime, Node, Python)
receives them from plain NATS subscriptions. Both hold a short-lived session,
obtained by a signed challenge and response with the scheduler (ISSUE), renewed
before it expires (RENEW) and, in enforce mode, required to admit a job and to
publish its result.

## ManagedSettlement: how a Go worker settles a job

One goroutine per delivered message (`Slot`) runs
`handleManagedProductionMessage`: acquire the semaphore (`AcquireSlot`), verify and
admit (`Admit`), compute the lease (`BeginReplay`), claim the replay record
(`Claim`), run the handler with a renewal goroutine beside it (`RenewTick`,
`RenewReply`, `RenewExit`), stop the renewal (`LeaseStopped`), store the outcome
(`Complete`) or give the claim back (`Abort`), publish (`Publish`) and settle
(`Settle`: ack, nak or term). `pc[s]` is the call the goroutine is in. JetStream
is external and modelled from its use: delivery to some member of the queue
group, `MaxAckPending`, `AckWait`, redelivery. The worker process can be
cancelled, closed, lose its session, crash at any point (`Crash`) and be started
again (`Restart`); the replay store survives.

The replay store is the user's; it is modelled by the contract of its interface
(`managed_replay.go`) and the repository's own test store: each call is atomic in
the store, and a call can
also be applied and reported as failed, or not applied and reported as failed
(`MaxFaults` bounds such faults together with crashes and lost sessions).

Time is counted down, one unit per `Tick`: the lease left in a record
(`rec[k].left`), the time to redelivery (`ackLeft`) and the time to the expiry
of the signature (`ttl`). A deadline the code computes before a store call is
kept in `until` from the moment `time.Now()` is read, so a slow call is a stale
deadline, as in the code. The renewal ticker may be late; `late` is history, the
running handlers whose lease ran out before its renewal was done.

`ReplayOutbox` is the promise: a key is decided at most once, only the decision
is published, an input is acknowledged only after its decision was published.
`ManagedSettlementRefinement` maps records in state completed to decisions;
`ImplementsOutbox` is the abstract specification under that mapping.

| property | says |
|---|---|
| `PublishedIsDurable` | every published result is the record's outcome, for that body |
| `AckedIsPublished` | an acked input's result was published |
| `OutcomeIsFinal` | no step changes a completed record |
| `LeaseIsRespected` | while a lease is live only its holder moves the record out of claimed |
| `HandlersExclusive` | two handlers of one job run with a live context only where a renewal was late |
| `EveryInputSettles` | every input is acked or terminated in the end, unless a worker stays subscribed without a session for good |
| `CompletedIsReplayedUntilAcked` | a completed outcome stays publishable until the ack: **violated**, see below |

Runs (`MCManagedSettlement`):

- `settlement_crash`: two messages with one replay key, different bodies and
  different expiries, two goroutines, two possible outcomes, two faults anywhere.
  Two goroutines are what a redelivery during a live delivery, or a conflict,
  takes; two outcomes make a second execution visible; two faults allow a crash
  and the failure of the recovery. The message that loses the record is
  terminated and never answered with the other's result. The ticker is late
  whenever it likes, so leases also run out under a live handler.
- `settlement_live`: two workers on one consumer with `MaxAckPending` 1, a job
  addressed to one of them, a malformed message.
- `settlement_lost_outcome`: the violation.

`Lease` is 2 units, so that a ticker at one third of it and a late one both
exist; lifetimes of 2 to 4 units lie around the lease on both sides.

Fairness (`settlement_live`): goroutines are scheduled, calls and handlers
return, JetStream redelivers, time passes, a cancelled worker is closed and a
stopped one is started again (by the operator or the supervisor). Faults, crashes,
lapses and the cancellation of a running worker are never fair. So nothing stops a
worker whose token has lapsed: `renewTrustLoop` only returns, `Run` goes on, and
since admission looks at the session before the expiry, the worker naks every
message it is given, expired ones too. `NaksForEver` names that state, the one
exception of `EveryInputSettles`.

What TLC and the proofs found: apart from the one disagreement below everything
above holds, with any faults. `settlement_lost_outcome` shows that the README of
the Go SDK promises more than the code keeps: once the input's signature has
expired, admission terminates the redelivery before the store is asked, so an
outcome that was completed and not yet published is never published.

## NodeAgent: an agent from start() to close()

All of the agent runs on one event loop. Each async function is a task with a
program counter (`start`, `watcher`, `renewal`, `closer`), and one action is what
it does from one await to the next. Tasks that wait only for a promise of the
program itself are microtasks; the loop takes events of the network and of timers
only when none is left. `Quiet` says so and guards every such event. The order
among ready microtasks is left open, which allows more than the queue of
microtasks would: what holds here holds for it.

| state | code |
|---|---|
| `state`, `nc`, `interrupted`, `watching`, `subs`, `heartbeat`, `closing` | fields of `Agent` (`runtime.ts`) |
| `admitting` | `RuntimeWorkerTrust.admitting` |
| `lifecycle`, `token`, `age`, `wake` | `WorkerTrustLifecycle`: open or closed, its session, its renewal timer |
| `queue`, `begun`, `stale`, `answer` | the serialized exchange: who waits, when the head began, what the caller has not yet seen |
| `up`, `epoch`, `late`, `events` | the NATS connection: transport up, how many transports so far, an abandoned connect, unread status events (external) |
| `job`, `draining` | messages in flight, subscriptions being drained |

`Start`, `ConnectSucceeds`/`ConnectFails`, `Connected`, `Authenticated`, `Started`
are `startInternal`; `WatchDisconnect`, `WatchReconnect`, `Reauthenticate`,
`Reauthenticated`, `Resumed`, `ReauthFailed`, `WatchEnds` the status watcher;
`ExchangeBegins`, `ExchangeSucceeds`, `ExchangeFails`, `ExchangeCancelled` the
serialized ISSUE or RENEW; `RenewalWakes`, `Renewed`, `BackoffEnds`,
`RenewalFailed` the renewal loop; `Deliver`, `ReplayAnswers`, `HandlerReturns` a
message; `Close`, `CloseTrust`, `DrainConnection`, `ConnectionClosed`, `Closed`,
`CloseResumes` the shutdown. `token` and `begun` are the epoch in which the
session was asked for, which the code does not keep: it is what lets a property
say "a session of this transport".

| property | says |
|---|---|
| `AdmitsOnThisTransport` | an enforcing agent admits only under a session asked for on the transport the job came by |
| `ClosedIsQuiet` | after closeResources has closed the lifecycle nothing under way holds a session, a subscription, a renewal or a handler |
| `NeverInstalledAfterClose` | a closed lifecycle holds no session, however late an answer comes |
| `CloseResolves` | close() resolves, with the connection released, also one that arrives late |
| `RecoversAfterReconnect` | an enforcing agent serves again on the new transport, unless it fails or closes |
| `SessionKeptWhileClosing` | close() keeps the session while a job is in flight: **violated** |
| `LiveSessionIsRenewed` | a serving agent's session has a renewal loop: **violated** |

`ClosedIsQuiet` speaks of handlers only outside warn mode: a warning agent admits
what the drain still delivers, after the wait for the handlers in flight.

Runs (`MCNodeAgent`): `node_safety` (all modes, admission through the replay store,
two jobs, two lost connections, one fault, a renewal timer that may be late),
`node_live` (the same modes and admission, one job, a connection whose publish is
awaited, a renewal timer that is not late), and the
violations `node_shutdown` and `node_renewal`. Two lost connections are what it
takes to have a second disconnect during a reauthentication; one fault makes
every failure path reachable; two jobs allow one in the handler while another
arrives. Jobs are symmetric. An agent may idle for ever, and a closed one stops,
so deadlock is not an error here.

`AsyncPublish`: the SDK's own connection publishes synchronously. A connection
given by the user may return a promise; then a job can arrive between the
reauthentication and the end of the handshake's publish while a later disconnect
is not yet read. `AdmitsOnThisTransport` is stated and proved for the first kind.

Fairness (`node_live`): the loop runs each ready task (`WF` of the watcher, `SF` of
exchange and renewal), and what can happen only finitely often (startup, closing,
a drain, a handler, the client's reconnect) happens if it stays possible again
and again whenever the loop is quiet (`SF` of `Pending`: the loop serves events in
the order they come). Losing connections, faults, and the calls of start() and
close() are never fair.

Findings: (1) close() during the drain of a reauthentication lets it go on and
drop the session that an in-flight result needs, which
`runtime-worker-trust-shutdown.test.ts` says is kept. (2) A renewal that fails
while the connection is lost is still draining when the reauthentication calls
`startRenewal`, which then does nothing: the new session is never renewed.

Abstracted: the periodic heartbeats themselves (only the timer's existence; that
ticks of `heartbeatLoop` may overlap is not modelled), retries and timeouts inside
one exchange (one outcome: session, tokenless or error; `TrustExchange` opens it
up), the content of packets, the connection's own give-up after its maximal
number of reconnects.

## ProductionAdmission: from a raw packet to its handler

One module for the Go, Node and Python agents (`sdk`, chosen in `Init`), because the
profile asks the same of all three. `Verify`, `Refuse` and `NoSession` are a
delivery: the session check, then `GoAdmissible`, `NodeAdmissible` or
`PyAdmissible`, each the conjunction of its SDK's checks in their order. A packet is
its audience, message id, body, expiry and at most one fault; each check names the
faults it refuses. `ReadClock` is the store's `now := time.Now()`, which all three
stores read before they lock, and `Admit` is the locked part: prune, look up,
record. A packet answered "first" is handed to its handler (`dispatched`).

`MayRun` is the scheduling. The Go client runs one goroutine per subscription
(`lifecycle.go:86`), so calls for different subjects interleave at every step. Node
and Python do not await between the first check and the store's answer, so during
a call only the clock moves.

Where the verifiers differ, the operators say so: only Node refuses a nested field
that is repeated or not minimally encoded (`NodeNestedWire`); an absent
protocol_version is refused on the wire by Node and Python and by the envelope
check in Go; the bounds on labels and budgets are checked by Go and Python; labels,
delegation and compensation mirrors are compared only by Go (the other two call
themselves the "admission-layer subset").

| property | says |
|---|---|
| `TypeOK` | types, and one entry per replay key |
| `OnceInWindow` | until expiry plus skew a message id reaches a handler once, in every SDK |
| `RedeliveryIsIdle` | in Node and Python a packet never reaches a handler twice at all |
| `AnswersTrue` | a duplicate was dispatched before; a conflict has a dispatched competitor on the same subject |
| `RetentionBounded` | no record outlives the longest lifetime and twice the skew |
| `NeverTwice` | the same as `RedeliveryIsIdle`, for Go: **violated**, see below |

Runs: `production_admission` (all SDKs, two subjects, four sound packets and one
per fault, three deliveries, skew 1, lifetime 2, clock to 4). Three deliveries are
the least that lets a packet be admitted, redelivered, and its record pruned by a
third call meanwhile; the clock passes the window of three of the packets. The
model stops when deliveries and time are used up, so deadlock is not checked.

`go_replay_race` (violation): the Go store compares the expiry with a time read
before its lock. A redelivery that reads it just inside the window and then waits
finds its record pruned by a call for another subject, and is first-seen again. The
packet is then past expiry plus skew, so `OnceInWindow` holds; what fails is the
comment in `production_admission.go:177`, "never run side effects twice".

Left out: a restart, which empties the in-memory store (a durable store is the
deployment's), and what the agent does after admission (`NodeAgent` has it for Node).

## TrustExchange: how a Node worker gets, renews and loses its session

`WorkerTrustLifecycle` serializes its callers on one promise, runs the exchange for
the first of them with retries, and keeps or drops the session; the exchange itself
is two requests to the scheduler (challenge request, authenticate), and each answer
passes the checks of `worker-trust-flow.ts`, `-packet.ts` and `-time.ts`.

| state | code |
|---|---|
| `current`, `closed`, `queue`, `serving`, `attempt` | `WorkerTrustLifecycle`: session, closed, the callers chained in `runSerialized`, the loop of `exchangeWithRetries` |
| `asked`, `exch` | exchanges begun; the number stands for request id, trace id and nonce, and `exch[i]` is where `exchange()` is and what it holds |
| `inbox`, `sent`, `granted` | packets under way both ways, and what the scheduler granted (external) |
| `now`, `offset` | the worker's clock, and what the scheduler's is ahead by |
| `last` | history: the last token installed |

`authenticate`, `reauthenticate`, `renew`, `close` are the calls; `Serve`, `Retry`,
`Installed`, `Failed`, `Abandoned` are `exchangeWithRetries` between two awaits;
`OnChallenge`, `OnResult`, `RequestFails` are `exchange()`. The checks keep their
names and their order (`verifyChallenge`, `verifySchedulerPacket`, `requireFreshTimestamp`,
`requireSameChallenge`, `verifyResult`, ...). The scheduler is not in the repository:
`SendChallenge`, `Accept` and `Reject` are what the code and `spec/14` expect of it.
The network loses packets freely; that a packet comes too late, reaches another
exchange, is wrong in one field, that the scheduler rejects, or that a request fails
with an error `classifyRequestError` does not call operational (it is rethrown and
not retried), is a fault. After close() nothing under way is read any more.

| property | says |
|---|---|
| `AnswerIsOwn` | an exchange returns only the session granted for its own challenge, and the session in force is one of those |
| `RenewsTheLatest` | a running renewal shows the last token installed, whatever was queued, retried or dropped meanwhile |
| `NeverGoesBack` | what is installed is newer than everything installed before |
| `ClocksAgree` | a worker with a session has a clock within the bounds the checks on both sides imply |
| `ExchangeIsShort` | a result is believed only a bounded time after the request was created |
| `HonestAnswerIsTaken` | with equal clocks the checks refuse no honest scheduler |
| `CallersAreAnswered` | every call is answered, also across timeouts, retries and close() |

Run `trust_exchange`: warn and enforce, clocks apart by -1, 0 and 2 with a skew of 1
(inside, equal, outside the bounds), challenge lifetime 1, session lifetime 2, two
attempts per caller, five exchanges (two callers with all their attempts and one
more exchange), one fault, time to 2, at which a session has expired. `Room` keeps
back calls that could need more exchanges than the bound. A lifecycle may idle for
ever, and a closed one stops, so deadlock is not an error here. Fairness: the event
loop runs what is ready, and `request()` and `sleep()` have timers. Nothing is
assumed of the scheduler, the network or the callers.

What the model shows beside the properties, for whoever changes this code:

- `spec/14-capability-negotiation.md:186` says that a rejected or malformed result
  "MUST NOT change local token state". `handleFailure`
  (`worker-trust-lifecycle.ts:146-151`) drops the session when a renewal fails that
  way (`AfterFailure`), in both modes.
- `spec/14:139` says that a RENEW authenticate "MUST contain the current active
  session token". The token is read
  when `renew` is called and compared again when the caller's turn comes
  (`Serve`), but a challenge round trip lies before it is shown, and it may expire
  meanwhile; `RenewsTheLatest` is what the code does guarantee.
- A caller queued or asleep when close() is called still begins one more exchange
  (`Retry`, `Serve`), whose result nobody reads (`Abandoned`).

## PacketPath: what a packet says at the other end

| module | models |
|---|---|
| `PacketRows` | the kinds of fields the generated code writes and reads |
| `CapPb` | `node/cap_pb.js` (protobufjs): one table per message |
| `AgentPb` | `node/cordum/agent/v1/*_pb.js` (google-protobuf): one table per message and the slots of its accessors |
| `PacketCodec` | encode, decode, set and get of both libraries over those tables; `codec.ts` |
| `NodeBoundary` | the packets the SDK builds, the checks and the signature on the way out and in, the exact production wire, the canonical trust wire, the worker's result; Go's `signing.go` |
| `PacketPath` | a packet from its writer over hops that decode and encode it again to a Node worker, and the worker's answer back |

Bytes are the fields on the wire with the order they stand in; a scalar is a token
(`zero` is the proto3 default, `wide` needs more than 53 bits, `huge` is longer than
any bound), a signature names its key and the bytes it covers. So order, defaults,
presence, unknown fields, oneofs and map keys are there, and varints, UTF-8 and the
curve are not. The tables were read off the generated encoders and decoders
separately for each library: that they agree is a result (`TablesAgree`,
`ContentSurvives`), not an assumption. They list every field because a difference
in any one of them is what these two would show.

`SetField` and `Write` are an application that writes any message with either
library; `Publish` is the SDK (submitJob, emitProgress, emitCancel, handshakes,
heartbeats); `GoSubmit` the Go client; `Produce` a CAP-PRODUCTION producer;
`Marshal` the trust packets that `validateWorkerTrustPacket` and the size bound let
pass, out of candidates with every lifetime of a challenge, with and without token,
with repeated and oversized topics. `Relay` is a component that decodes and encodes again,
`NewerPeer` one that adds a field of a newer schema. `Receive` and `HandlerEnds` are
`processWorkerMessage`, split at the handler's await; in `Receive` a middleware may
throw while it wraps the handler, which is outside the handler's try.

| property | says |
|---|---|
| `ContentSurvives` | both libraries read what the writer said, for every field of every message, after any hops |
| `SettlesAfterOneHop` | a second hop by the same library changes nothing |
| `SignatureSurvives` | what the SDK signs verifies after hops by either library |
| `HandlerSeesWhatWasSigned` | a worker that checks keys never runs a request that says something else than was signed |
| `GoAndNodeAgree` | Node accepts what the Go client signed: **violated**, see below |
| `FailureIsAnswered` | a handler that throws or returns nothing is answered with FAILED for its job |
| `ProductionIsExact` | a production wire survives protobufjs hops; one that verifies says what was signed and no more |
| `TrustWireIsCanonical` | what is marshalled is accepted, also after protobufjs hops; what is accepted says what was marshalled |

Run `packet_path`: all messages, two setter calls (a field set twice, two members of
the oneof, two fields in either order), two hops. The two calls are enough for the
pairs because an encoder treats fields one by one; two hops give every pair of
libraries. A path ends, so deadlock is not checked.

`packet_go_node` (violation): `spec/11-security-best-practices.md:32` says "Map entries
MUST be ordered by key so all SDKs produce identical bytes". `codec.ts:117-124` sorts
the keys and inserts them into a JavaScript object, which lists integer-like keys by
value: of the labels "10" and "9" Go signs the first one first, Node encodes the
second one first, and the worker refuses the packet. The bytes also differ for a
nested message that is set and empty: Go writes it, `codec.ts:138-144` drops it.

The exceptions in the properties, and what else the model shows, are behaviour of
the code:

- google-protobuf reads 64-bit integers as JavaScript numbers, so a hop rounds one
  beyond 53 bits; a checking worker then refuses the packet.
- protobufjs does not clear the other members of a oneof; `verify` refuses such an
  object, and one that is encoded without it says both.
- google-protobuf writes fields 14 and 18 after 22, so a trust packet with a token
  that such a hop has passed is no longer canonical; a production packet may no
  longer be the bytes that were signed.
- `worker.ts` counts a result before it checks it, compares the status with the
  name only (a handler that returns the number 5 counts as completed), and only
  logs a result that does not pass its own checks: such a job is never answered.
  Neither is one whose middleware throws while it wraps the handler
  (`worker.ts:121-125`).
- `validateBudget` (`validate.ts:96-111`) refuses a negative amount only where it is a
  JavaScript number. `fromObject` and `decode` give these 64-bit fields as `Long`
  objects, so the worker accepts a packet with a negative budget (`IsNumber`).
- A timestamp of exactly the epoch is left out of the trust packets: `stripDefaults`
  drops the then empty message, and the packet that was marshalled is not accepted.

## What is proved

Every theorem below holds for any sets of workers, goroutines, messages, jobs and
any bounds, from the assumptions on the constants named in the modules
(`ConstantsAssumption`, and for the settlement `SameBodyAssumption`: messages with
one signed body have one expiry and one addressee).

`ManagedSettlementProofs`

- `TypeCorrect`, with `GoroutineOK` (a busy goroutine has its message) and
  `RecordOK` (what a claimed or completed record contains).
- `OutcomeFinal`, `LeaseRespected`: action properties, from one lemma that says
  what any step can do to a record (`StoreStep`: kept, claimed, aborted or
  completed by one goroutine, which holds it or finds it free).
- `OneOutcome` (`PublishedIsDurable`) and `NoLostResult` (`AckedIsPublished`).
  Neither is inductive: that a publisher publishes the durable outcome needs
  `PublisherOK` (a goroutine at its publish has the outcome of the completed
  record), that needs `ClaimOK` (a record held by a goroutine is for its
  message's body), and that an ack follows a publish needs `AckerOK`.
- `Refinement`: every step maps to a step of `ReplayOutbox` or a stutter.

`ManagedExclusionProofs`

- `OneLiveHandler`: `Spec => []HandlersExclusive`. The inductive invariant adds that
  a handler with a live context whose renewal is not late holds a live lease, or has
  just been outlived by the signature (`LiveLease`), and that copies of one body
  expire together (`SameExpiry`).

`NodeAgentProofs`

- `TypeCorrect`, and `ClosedLifecycleHoldsNone` (`NeverInstalledAfterClose`), which
  is inductive as it stands.
- `QuietWhenClosed` (`ClosedIsQuiet`), from `StartOK` (once resources are released
  neither startup nor watcher subscribes again), `LifecycleOK` (without an open
  lifecycle nobody asks for a session) and `ShutdownOK` (what each stage of
  closeResources has already waited for).
- `FreshAdmission`: `~AsyncPublish => (Spec => []AdmitsOnThisTransport)`. The
  invariant follows a session from the request to the admission: unread status
  events alternate and end in the transport's present state (`EventsOK`); the
  exchange's line has each caller at most once, and only a caller that waits
  (`LineOK`); and whoever may open admission either holds a session of this
  transport, or has a disconnect as the first unread event, which will close
  admission before the next job is taken (`FreshOrTold`, `FreshOK`).

`ProductionAdmissionProofs`

- `AdmissionTypes`, `OncePerWindow` (`OnceInWindow`), `StoreIsHonest`
  (`AnswersTrue`) and `BoundedRetention` (`RetentionBounded`), for any packets, subjects, skew, lifetime and
  number of deliveries, from one invariant. `OnceInWindow` is not inductive: it
  needs that a packet whose window is open is on record (`WindowOK`), which in turn
  needs that the time a call prunes with is never ahead of the clock (`CallsOK`).
  The three verifiers and the three stores enter only through `AdmissibleFacts` and
  `OutcomeFacts`.
- `IdleRedelivery` (`RedeliveryIsIdle`), from `OneThread`: outside Go one call is in
  progress at a time, so a record found unexpired is still there when it is looked up.
- Assumed: `SdkAssumption`, `PacketAssumption`, `BoundAssumption` (the skew is at most
  the lifetime, which each verifier checks).

`TrustExchangeProofs`

- `TrustTypes`, `OwnAnswer` (`AnswerIsOwn`), `LatestToken` (`RenewsTheLatest`),
  `BoundedClocks` (`ClocksAgree`), `NoFalseAlarm` (`HonestAnswerIsTaken`), and the
  action properties `OnlyNewerSessions` (`NeverGoesBack`) and `ShortExchanges`
  (`ExchangeIsShort`), for any clocks, skew, lifetimes, retries, and numbers of
  exchanges, callers and faults, from one invariant. It says what the queue, the
  session, the running exchange and every packet under way owe each other:
  `QueueInv` (a renewal being served carries the last token, and the callers that
  wait have exchanges left), `CurrentInv` (the session in force is the last one
  installed), `ExchangeOk` (only the last exchange runs, and it holds its own
  challenge), `LetterOk` and `PacketOk` (what a packet can say, given how far the
  exchange it belongs to has come). None of the properties is inductive without the
  packets: an exchange is safe because of what the answers still under way can
  contain. The clock bound comes from both sides: a challenge that was believed
  bounds how far the worker is ahead, an accepted authenticate how far it is behind.
- Assumed: `ConstantsAssumption`, of which the proofs use that a challenge lives at
  least one unit and at most the skew. In the code both are one minute.

Only model-checked: the liveness properties (they rest on fairness, which the
prover does not handle); the packet path, whose codecs are recursive over nested
messages, which the prover's library cannot do induction on; and the violations.

## What is not modelled and why

- ECDSA, digests, UTF-8, varints: a signature is the key and the bytes it covers, a
  scalar a token. Logging and metrics, except the worker's counter.
- The Go managed worker's heartbeat and order of startup, the Go runtime agent's
  and the Python agent's lifecycle: each would be a module of the size of
  `NodeAgent` asking the same questions with goroutines and locks, or asyncio tasks
  and cancellation, in place of the event loop. `ManagedSettlement` takes the Go
  worker's session as held or lost.
- The Go and Python sides of the trust exchange: the same packets and checks as
  `TrustExchange`, with other code around them.
- Resource references (`production_resource*`): sequential look-ups with digest
  checks, no state between calls.
- Conversions of generated messages from and to plain objects, the type checks of
  `verify`, and RPC stubs; generated code of other languages, which only hands the
  schema to the language's runtime.
- The Python guard: an HTTP client with a decision cache, apart from the bus.
- Secondary SDKs (C++, .NET, Java, PHP, Ruby, Rust): ports of the simple client and
  worker without trust or durable replay.
- Conformance kit, release tooling, code generation, examples: sequential programs
  over files.
- NATS, JetStream and the scheduler are modelled only as far as the SDKs rely on
  them.
