----------------------------- MODULE NodeAgent -----------------------------
(***************************************************************************)
(* The Node SDK's Agent from start() to close(): its NATS connection, its   *)
(* authenticated session, the watcher that reauthenticates after every      *)
(* reconnect, the renewal loop, the handlers in flight and the shutdown.    *)
(*                                                                          *)
(* All of it runs on one event loop, so a step is what an async function    *)
(* does from one await to the next. A step that only waits for another      *)
(* promise of the program is a microtask; the loop takes the network's and  *)
(* the timers' events only when no microtask is left, which is Quiet below. *)
(* close() is the user's call and may come at any await.                    *)
(***************************************************************************)
EXTENDS Naturals, Sequences, FiniteSets

CONSTANTS
    Modes,        \* the worker-trust modes an agent may be started in
    Production,   \* TRUE: an enforcing agent has CAP-PRODUCTION admission
    Job,          \* the job requests a scheduler may send
    AsyncPublish, \* TRUE: the connection's publish() returns a pending promise
    Timely,       \* TRUE: the renewal timer is never late
    MaxDrops,     \* bound on lost connections
    MaxFaults     \* bound on failed connects, exchanges and publishes

ASSUME ConstantsAssumption ==
    /\ Modes \subseteq {"off", "warn", "enforce"}
    /\ Production \in BOOLEAN
    /\ AsyncPublish \in BOOLEAN
    /\ Timely \in BOOLEAN
    /\ MaxDrops \in Nat
    /\ MaxFaults \in Nat

VARIABLES
    mode,        \* settings.mode
    state,       \* Agent.state
    nc,          \* Agent.nc is set; the blob store goes with it
    up,          \* the transport under nc is connected
    epoch,       \* how many transports nc has had
    late,        \* a connect() that startup gave up may still be answered
    events,      \* status events the watcher has not read
    interrupted, \* startupTransportInterrupted
    watching,    \* statusWatchActive
    start,       \* where startInternal is
    watcher,     \* where watchConnectionStatus is
    renewal,     \* where renewLoop is
    closer,      \* where closeResources is
    closing,     \* closePromise: none, pending, done
    subs,        \* Agent.subscriptions is not empty
    draining,    \* the subscriptions a task took from it are still draining
    heartbeat,   \* heartbeatHandle is set
    job,         \* where each job is
    admitting,   \* RuntimeWorkerTrust.admitting
    lifecycle,   \* the WorkerTrustLifecycle: none, open, closed
    token,       \* its session: the epoch it was asked for in, 0 for none
    age,         \* of that session: 0, Due, Expired
    wake,        \* time until the renewal loop's timer fires
    queue,       \* callers of the serialized exchange, its head being served
    begun,       \* the epoch in which the head's exchange began, 0 if it has not
    stale,       \* the token a queued RENEW carries is not the current one
    answer,      \* the outcome of an exchange its caller has not yet seen
    faults       \* faults that may still happen

agent == <<mode, state, nc>>
transport == <<up, epoch, late>>
status == <<events, interrupted, watching>>
intake == <<subs, draining, heartbeat>>
session == <<token, age>>
exchange == <<queue, begun, stale>>
vars == <<agent, transport, status, start, watcher, renewal, closer, closing, intake,
          job, admitting, lifecycle, session, wake, exchange, answer, faults>>

Due == 1       \* renewalDelayMs has passed
Expired == 2   \* expiresAt has passed

Drainer == {"watcher", "renewal", "closer"}
Caller == {"start", "watcher", "renewal"}

TypeOK ==
    /\ mode \in Modes
    /\ state \in {"idle", "starting", "running", "closing", "closed"}
    /\ nc \in BOOLEAN
    /\ up \in BOOLEAN
    /\ epoch \in 0..(MaxDrops + 1)
    /\ late \in BOOLEAN
    /\ events \in Seq({"disconnect", "reconnect"})
    /\ interrupted \in BOOLEAN
    /\ watching \in BOOLEAN
    /\ start \in {"none", "connect", "connected", "auth", "handshake", "failed",
                  "resolved", "rejected"}
    /\ watcher \in {"none", "next", "drain", "issue", "handshake", "failing", "done"}
    /\ renewal \in {"none", "sleep", "renew", "backoff", "failing"}
    /\ closer \in {"none", "drain", "trust", "connection", "store", "done"}
    /\ closing \in {"none", "pending", "done"}
    /\ subs \in BOOLEAN
    /\ draining \in [Drainer -> BOOLEAN]
    /\ heartbeat \in BOOLEAN
    /\ job \in [Job -> {"sent", "replay", "handler", "answered", "lost", "refused"}]
    /\ admitting \in BOOLEAN
    /\ lifecycle \in {"none", "open", "closed"}
    /\ token \in 0..(MaxDrops + 1)
    /\ age \in 0..Expired
    /\ wake \in 0..Due
    /\ queue \in Seq(Caller)
    /\ begun \in 0..(MaxDrops + 1)
    /\ stale \in BOOLEAN
    /\ answer \in [Caller -> {"none", "session", "tokenless", "error"}]
    /\ faults \in 0..MaxFaults

Init ==
    /\ mode \in Modes
    /\ state = "idle" /\ nc = FALSE
    /\ up = FALSE /\ epoch = 0 /\ late = FALSE
    /\ events = <<>> /\ interrupted = FALSE /\ watching = FALSE
    /\ start = "none" /\ watcher = "none" /\ renewal = "none"
    /\ closer = "none" /\ closing = "none"
    /\ subs = FALSE /\ draining = [d \in Drainer |-> FALSE] /\ heartbeat = FALSE
    /\ job = [j \in Job |-> "sent"]
    /\ admitting = FALSE /\ lifecycle = "none"
    /\ token = 0 /\ age = 0 /\ wake = 0
    /\ queue = <<>> /\ begun = 0 /\ stale = FALSE
    /\ answer = [c \in Caller |-> "none"]
    /\ faults = MaxFaults
-----------------------------------------------------------------------------
Fault == faults > 0 /\ faults' = faults - 1
NoFault == UNCHANGED faults

HasSession == token # 0 /\ age # Expired
MayPublish == mode = "enforce" => HasSession
InFlight == {j \in Job : job[j] \in {"replay", "handler"}}
Draining == \E d \in Drainer : draining[d]

(* What each task could do next without waiting for the network or a timer. *)
StartReady ==
    \/ start = "connect" /\ closing # "none"
    \/ start = "connected"
    \/ start = "auth" /\ (mode = "off" \/ answer["start"] # "none")
    \/ start = "handshake" /\ ~AsyncPublish

WatcherReady ==
    \/ watcher = "next" /\ (events # <<>> \/ ~nc)
    \/ watcher \in {"drain", "failing"} /\ ~draining["watcher"]
    \/ watcher = "issue" /\ answer["watcher"] # "none"
    \/ watcher = "handshake" /\ ~AsyncPublish

RenewalReady ==
    \/ renewal \in {"sleep", "backoff"} /\ lifecycle = "closed"
    \/ renewal = "renew" /\ answer["renewal"] # "none"
    \/ renewal = "failing" /\ ~draining["renewal"]

ExchangeReady == queue # <<>> /\ (begun = 0 \/ lifecycle = "closed")

CloserReady ==
    \/ closer = "drain" /\ ~draining["closer"] /\ InFlight = {}
    \/ closer = "trust" /\ renewal = "none"
    \/ closing = "pending" /\ start = "rejected"

Quiet == ~(StartReady \/ WatcherReady \/ RenewalReady \/ ExchangeReady \/ CloserReady)
-----------------------------------------------------------------------------
(* Parts the tasks share.                                                    *)

(* drainHandlerSubscriptions up to its await: the list is emptied at once *)
Drain(d) ==
    /\ subs' = FALSE
    /\ draining' = [draining EXCEPT ![d] = subs]

(* onTrustFailure up to its await *)
TrustFailure(d) ==
    /\ admitting' = FALSE
    /\ heartbeat' = FALSE
    /\ Drain(d)

(* RuntimeWorkerTrust.close up to its await *)
TrustClose ==
    /\ admitting' = FALSE
    /\ lifecycle' = IF lifecycle = "none" THEN "none" ELSE "closed"
    /\ token' = 0

(* closeResources up to its first await *)
CloseResources ==
    /\ closer' = "drain"
    /\ watching' = FALSE
    /\ heartbeat' = FALSE
    /\ Drain("closer")

(* Fault: the loop sleeps for the whole lifetime of the session. *)
SleepUntilExpiry == renewal' = "sleep" /\ wake' = Expired - age

(* renewalDelayMs: until the session is due, at once when it is overdue *)
Sleep == renewal' = "sleep" /\ wake' = IF age = 0 THEN Due ELSE 0

(* startRenewal: nothing while an earlier loop is still on its way out *)
StartRenewal ==
    IF lifecycle = "open" /\ HasSession /\ renewal = "none"
    THEN Sleep
    ELSE UNCHANGED <<renewal, wake>>

(* runSerialized: the caller c waits for its turn *)
Enqueue(c) ==
    /\ queue' = Append(queue, c)
    /\ answer' = [answer EXCEPT ![c] = "none"]

Answered(c) == answer' = [answer EXCEPT ![c] = "none"]
-----------------------------------------------------------------------------
(* start()                                                                   *)

Start ==
    /\ state = "idle"
    /\ state' = "starting"
    /\ start' = "connect"
    /\ UNCHANGED <<mode, nc, transport, status, watcher, renewal, closer, closing, intake,
                   job, admitting, lifecycle, session, wake, exchange, answer>>
    /\ NoFault

(* The catch of startInternal up to its await *)
StartFails == start' = "failed" /\ CloseResources

ConnectSucceeds ==
    /\ Quiet /\ start = "connect"
    /\ start' = "connected"
    /\ nc' = TRUE /\ up' = TRUE /\ epoch' = 1
    /\ UNCHANGED <<mode, state, late, status, watcher, renewal, closer, closing, intake,
                   job, admitting, lifecycle, session, wake, exchange, answer>>
    /\ NoFault

(* connectRuntime fails: refused, timed out, or cancelled by close(). The two *)
(* latter leave the connect() pending.                                        *)
ConnectFails ==
    /\ start = "connect"
    /\ IF closing # "none" THEN late' = TRUE /\ NoFault
       ELSE Quiet /\ late' \in BOOLEAN /\ Fault
    /\ StartFails
    /\ UNCHANGED <<agent, up, epoch, events, interrupted, watcher, renewal, closing,
                   job, admitting, lifecycle, session, wake, exchange, answer>>

(* closeLateConnection, or the connect() fails after all *)
LateConnection ==
    /\ Quiet /\ late
    /\ late' = FALSE
    /\ UNCHANGED <<agent, up, epoch, status, start, watcher, renewal, closer, closing,
                   intake, job, admitting, lifecycle, session, wake, exchange, answer>>
    /\ NoFault

Continuous == state = "starting" /\ ~interrupted

(* requireStartupContinuity, startStatusWatcher, and the call of authenticate *)
Connected ==
    /\ start = "connected"
    /\ \/ ~Continuous /\ StartFails
          /\ UNCHANGED <<watcher, admitting, lifecycle, queue, answer>>
       \/ /\ Continuous
          /\ start' = "auth"
          /\ IF mode = "off"
             THEN admitting' = TRUE /\ UNCHANGED <<watching, watcher, lifecycle, queue, answer>>
             ELSE /\ watching' = TRUE /\ watcher' = "next"
                  /\ lifecycle' = "open"
                  /\ Enqueue("start")
                  /\ UNCHANGED admitting
          /\ UNCHANGED <<closer, subs, draining, heartbeat>>
    /\ UNCHANGED <<agent, transport, events, interrupted, renewal, closing, job,
                   session, wake, begun, stale>>
    /\ NoFault

(* authenticate returned: admission opens, then requireStartupContinuity,     *)
(* subscribeHandlers and publishStartupHandshake, which reads the token first *)
Authenticated ==
    /\ start = "auth"
    /\ mode = "off" \/ answer["start"] # "none"
    /\ admitting' = IF answer["start"] = "error" THEN admitting ELSE TRUE
    /\ IF answer["start"] # "error" /\ Continuous
       THEN IF MayPublish
            THEN start' = "handshake" /\ subs' = TRUE
                 /\ UNCHANGED <<closer, watching, heartbeat, draining>>
            ELSE start' = "failed" /\ closer' = "drain" /\ watching' = FALSE
                 /\ heartbeat' = FALSE /\ subs' = FALSE
                 /\ draining' = [draining EXCEPT !["closer"] = TRUE]
       ELSE StartFails
    /\ Answered("start")
    /\ UNCHANGED <<agent, transport, events, interrupted, watcher, renewal, closing, job,
                   lifecycle, session, wake, exchange>>
    /\ NoFault

(* publishStartupHandshake returned; with trust off its failure is ignored *)
Started ==
    /\ start = "handshake"
    /\ AsyncPublish => Quiet
    /\ \/ /\ Continuous
          /\ start' = "resolved"
          /\ heartbeat' = TRUE
          /\ state' = "running"
          /\ StartRenewal
          /\ UNCHANGED <<closer, watching, subs, draining>> /\ NoFault
       \/ /\ StartFails
          /\ IF Continuous THEN mode # "off" /\ Fault ELSE NoFault
          /\ UNCHANGED <<state, renewal, wake>>
    /\ UNCHANGED <<mode, nc, transport, events, interrupted, watcher, closing, job,
                   admitting, lifecycle, session, exchange, answer>>
-----------------------------------------------------------------------------
(* The transport. The client resubscribes by itself when it reconnects; only *)
(* a running watcher is told.                                                *)

Notify(e) == events' = IF watcher \in {"none", "done"} THEN events ELSE Append(events, e)

Disconnect ==
    /\ Quiet /\ nc /\ up
    /\ epoch <= MaxDrops
    /\ up' = FALSE
    /\ Notify("disconnect")
    /\ UNCHANGED <<agent, epoch, late, interrupted, watching, start, watcher, renewal, closer,
                   closing, intake, job, admitting, lifecycle, session, wake, exchange, answer>>
    /\ NoFault

Reconnect ==
    /\ Quiet /\ nc /\ ~up
    /\ up' = TRUE /\ epoch' = epoch + 1
    /\ Notify("reconnect")
    /\ UNCHANGED <<agent, late, interrupted, watching, start, watcher, renewal, closer, closing,
                   intake, job, admitting, lifecycle, session, wake, exchange, answer>>
    /\ NoFault

(* A subscription has drained, or is dropped when draining takes too long. *)
DrainDone(d) ==
    /\ Quiet /\ draining[d]
    /\ draining' = [draining EXCEPT ![d] = FALSE]
    /\ UNCHANGED <<agent, transport, status, start, watcher, renewal, closer, closing, subs,
                   heartbeat, job, admitting, lifecycle, session, wake, exchange, answer>>
    /\ NoFault
-----------------------------------------------------------------------------
(* watchConnectionStatus: one event at a time, so what happens during a      *)
(* reauthentication waits in the queue.                                      *)

WatchEnds ==
    /\ watcher = "next"
    /\ IF events = <<>> THEN ~nc ELSE ~watching
    /\ watcher' = "done"
    /\ events' = <<>>
    /\ UNCHANGED <<agent, transport, interrupted, watching, start, renewal, closer, closing,
                   intake, job, admitting, lifecycle, session, wake, exchange, answer>>
    /\ NoFault

WatchDisconnect ==
    /\ watcher = "next" /\ watching
    /\ events # <<>> /\ Head(events) = "disconnect"
    /\ events' = Tail(events)
    /\ interrupted' = (interrupted \/ state = "starting")
    /\ admitting' = FALSE
    /\ heartbeat' = FALSE
    /\ UNCHANGED <<agent, transport, watching, start, watcher, renewal, closer, closing, subs,
                   draining, job, lifecycle, session, wake, exchange, answer>>
    /\ NoFault

(* reauthenticateAfterReconnect up to its first await *)
WatchReconnect ==
    /\ watcher = "next" /\ watching
    /\ events # <<>> /\ Head(events) = "reconnect"
    /\ events' = Tail(events)
    /\ IF state = "running" /\ nc
       THEN TrustFailure("watcher") /\ watcher' = "drain"
       ELSE UNCHANGED <<admitting, heartbeat, subs, draining, watcher>>
    /\ UNCHANGED <<agent, transport, interrupted, watching, start, renewal, closer, closing,
                   job, lifecycle, session, wake, exchange, answer>>
    /\ NoFault

(* The catch of reauthenticateAfterReconnect: enforce stops admission, warn   *)
(* only logs.                                                                 *)
ReauthFails ==
    IF mode = "enforce"
    THEN TrustFailure("watcher") /\ watcher' = "failing"
    ELSE watcher' = "next" /\ UNCHANGED <<admitting, heartbeat, subs, draining>>

(* Drained: reauthenticate drops the session and queues for an ISSUE, which a *)
(* closed lifecycle refuses.                                                  *)
Reauthenticate ==
    /\ watcher = "drain" /\ ~draining["watcher"]
    /\ token' = 0
    /\ stale' = TRUE
    /\ \/ /\ lifecycle = "open"
          /\ watcher' = "issue"
          /\ admitting' = FALSE
          /\ Enqueue("watcher")
          /\ UNCHANGED <<heartbeat, subs, draining>>
       \/ /\ lifecycle = "closed"
          /\ ReauthFails
          /\ UNCHANGED <<queue, answer>>
    /\ UNCHANGED <<agent, transport, status, start, renewal, closer, closing, job, lifecycle,
                   age, wake, begun>>
    /\ NoFault

(* Fault: the handlers are not subscribed again. *)
ReauthenticatedUnsubscribed ==
    /\ watcher = "issue" /\ answer["watcher"] # "none"
    /\ Answered("watcher")
    /\ IF answer["watcher"] = "error" THEN ReauthFails
       ELSE /\ watcher' = "handshake" /\ admitting' = TRUE
            /\ UNCHANGED <<heartbeat, subs, draining>>
    /\ UNCHANGED <<agent, transport, status, start, renewal, closer, closing, job, lifecycle,
                   session, wake, exchange>>
    /\ NoFault

(* The ISSUE is answered: admission opens again, the handlers are subscribed  *)
(* and the capability handshake is published, unless the agent is closing.    *)
Reauthenticated ==
    /\ watcher = "issue" /\ answer["watcher"] # "none"
    /\ Answered("watcher")
    /\ IF answer["watcher"] = "error" THEN ReauthFails
       ELSE IF state # "running"
       THEN watcher' = "next" /\ admitting' = TRUE /\ UNCHANGED <<heartbeat, subs, draining>>
       ELSE IF MayPublish
       THEN watcher' = "handshake" /\ admitting' = TRUE /\ subs' = TRUE
            /\ UNCHANGED <<heartbeat, draining>>
       ELSE /\ watcher' = "failing" /\ admitting' = FALSE /\ heartbeat' = FALSE
            /\ subs' = FALSE
            /\ draining' = [draining EXCEPT !["watcher"] = TRUE]
    /\ UNCHANGED <<agent, transport, status, start, renewal, closer, closing, job, lifecycle,
                   session, wake, exchange>>
    /\ NoFault

(* Fault: the watcher asks for a new iterator, and the old one's events go. *)
ResumedForgetsEvents ==
    /\ watcher = "handshake" /\ nc
    /\ watcher' = "next"
    /\ events' = <<>>
    /\ heartbeat' = TRUE
    /\ StartRenewal
    /\ UNCHANGED <<agent, transport, interrupted, watching, start, closer, closing, subs,
                   draining, job, admitting, lifecycle, session, exchange, answer>>
    /\ NoFault

(* The handshake is published: startHeartbeat, which needs nc, and            *)
(* startRenewal. The agent's state is not looked at again.                    *)
Resumed ==
    /\ watcher = "handshake"
    /\ AsyncPublish => Quiet
    /\ \/ /\ nc
          /\ watcher' = "next"
          /\ heartbeat' = TRUE
          /\ StartRenewal
          /\ UNCHANGED <<admitting, subs, draining>> /\ NoFault
       \/ /\ ReauthFails
          /\ IF nc THEN Fault ELSE NoFault
          /\ UNCHANGED <<renewal, wake>>
    /\ UNCHANGED <<agent, transport, status, start, closer, closing, job, lifecycle,
                   session, exchange, answer>>

ReauthFailed ==
    /\ watcher = "failing" /\ ~draining["watcher"]
    /\ watcher' = "next"
    /\ UNCHANGED <<agent, transport, status, start, renewal, closer, closing, intake, job,
                   admitting, lifecycle, session, wake, exchange, answer>>
    /\ NoFault
-----------------------------------------------------------------------------
(* The serialized exchange: exchangeWithRetries, its retries folded into one *)
(* exchange of any duration.                                                 *)

Serve(c, outcome) ==
    /\ queue' = Tail(queue)
    /\ begun' = 0
    /\ answer' = [answer EXCEPT ![c] = outcome]

(* handleFailure: what becomes of the session, and what the caller is told *)
FailedToken(c, kind) ==
    IF (c = "renewal" /\ (mode = "enforce" \/ kind = "security")) \/ age = Expired
    THEN 0 ELSE token
FailedAnswer(kind) == IF mode = "warn" /\ kind = "operational" THEN "tokenless" ELSE "error"

(* A RENEW looks first whether its token is still the current one. *)
ExchangeBegins ==
    LET c == Head(queue) IN
    /\ queue # <<>> /\ begun = 0
    /\ IF c = "renewal" /\ (stale \/ ~HasSession)
       THEN IF HasSession
            THEN Serve(c, "session") /\ UNCHANGED token
            ELSE Serve(c, "error") /\ token' = 0
       ELSE begun' = epoch /\ UNCHANGED <<queue, answer, token>>
    /\ UNCHANGED <<agent, transport, status, start, watcher, renewal, closer, closing, intake,
                   job, admitting, lifecycle, age, wake, stale>>
    /\ NoFault

ExchangeSucceeds ==
    LET c == Head(queue) IN
    /\ Quiet /\ queue # <<>> /\ begun # 0 /\ up
    /\ Serve(c, "session")
    /\ token' = begun /\ age' = 0
    /\ stale' = TRUE
    /\ UNCHANGED <<agent, transport, status, start, watcher, renewal, closer, closing, intake,
                   job, admitting, lifecycle, wake>>
    /\ NoFault

(* No answer while the transport is down, which the client reports as an      *)
(* operational error; otherwise an unavailable or a refusing scheduler.       *)
ExchangeFails ==
    LET c == Head(queue) IN
    /\ Quiet /\ queue # <<>> /\ begun # 0
    /\ \E kind \in {"operational", "security"} :
         /\ IF ~up /\ kind = "operational" THEN NoFault ELSE up /\ Fault
         /\ Serve(c, FailedAnswer(kind))
         /\ token' = FailedToken(c, kind)
    /\ UNCHANGED <<agent, transport, status, start, watcher, renewal, closer, closing, intake,
                   job, admitting, lifecycle, age, wake, stale>>

(* Fault: the session is installed without a second look at `closed`. *)
ExchangeInstallsLate ==
    LET c == Head(queue) IN
    /\ queue # <<>> /\ begun # 0 /\ lifecycle = "closed"
    /\ Serve(c, "session")
    /\ token' = begun
    /\ UNCHANGED <<agent, transport, status, start, watcher, renewal, closer, closing, intake,
                   job, admitting, lifecycle, age, wake, stale>>
    /\ NoFault

(* closeSignal wins the race, and a session that comes later is not installed *)
ExchangeCancelled ==
    LET c == Head(queue) IN
    /\ queue # <<>> /\ begun # 0 /\ lifecycle = "closed"
    /\ Serve(c, "error")
    /\ UNCHANGED <<agent, transport, status, start, watcher, renewal, closer, closing, intake,
                   job, admitting, lifecycle, session, wake, stale>>
    /\ NoFault
-----------------------------------------------------------------------------
(* renewLoop                                                                 *)

RenewalEnds == renewal' = "none" /\ UNCHANGED wake

(* The head of the loop: go to sleep, or return without a live session *)
RenewalLoops == IF lifecycle = "open" /\ HasSession THEN Sleep ELSE RenewalEnds

(* Fault: close() does not wake the renewal loop's timer. *)
RenewalSleepsOn ==
    /\ renewal = "sleep" /\ Quiet /\ wake = 0 /\ HasSession
    /\ renewal' = "renew" /\ stale' = FALSE
    /\ Enqueue("renewal")
    /\ UNCHANGED <<agent, transport, status, start, watcher, closer, closing, intake, job,
                   admitting, lifecycle, session, wake, begun>>
    /\ NoFault

(* The loop's timer fires, or close() wakes it: renew() up to its await. *)
RenewalWakes ==
    /\ renewal = "sleep"
    /\ \/ /\ lifecycle = "closed"
          /\ RenewalEnds
          /\ UNCHANGED <<token, stale, queue, answer, admitting, heartbeat, subs, draining>>
       \/ /\ Quiet /\ wake = 0
          /\ IF HasSession
             THEN /\ renewal' = "renew" /\ stale' = FALSE
                  /\ Enqueue("renewal")
                  /\ UNCHANGED <<token, admitting, heartbeat, subs, draining>>
             ELSE /\ renewal' = "failing" /\ token' = 0
                  /\ TrustFailure("renewal")
                  /\ UNCHANGED <<stale, queue, answer>>
          /\ UNCHANGED wake
    /\ UNCHANGED <<agent, transport, status, start, watcher, closer, closing, job, lifecycle,
                   age, begun>>
    /\ NoFault

(* The RENEW is answered: sleep again, try again soon, or give up. *)
Renewed ==
    /\ renewal = "renew" /\ answer["renewal"] # "none"
    /\ Answered("renewal")
    /\ \/ /\ answer["renewal"] = "session"
          /\ RenewalLoops
          /\ UNCHANGED <<admitting, heartbeat, subs, draining>>
       \/ /\ answer["renewal"] = "tokenless"
          /\ IF HasSession THEN renewal' = "backoff" /\ UNCHANGED wake ELSE RenewalEnds
          /\ UNCHANGED <<admitting, heartbeat, subs, draining>>
       \/ /\ answer["renewal"] = "error"
          /\ IF lifecycle = "closed"
             THEN RenewalEnds /\ UNCHANGED <<admitting, heartbeat, subs, draining>>
             ELSE renewal' = "failing" /\ TrustFailure("renewal") /\ UNCHANGED wake
    /\ UNCHANGED <<agent, transport, status, start, watcher, closer, closing, job, lifecycle,
                   session, exchange>>
    /\ NoFault

BackoffEnds ==
    /\ renewal = "backoff"
    /\ lifecycle = "open" => Quiet
    /\ RenewalLoops
    /\ UNCHANGED <<agent, transport, status, start, watcher, closer, closing, intake, job,
                   admitting, lifecycle, session, exchange, answer>>
    /\ NoFault

(* onTrustFailure has drained: the loop returns, renewTask is cleared *)
RenewalFailed ==
    /\ renewal = "failing" /\ ~draining["renewal"]
    /\ RenewalEnds
    /\ UNCHANGED <<agent, transport, status, start, watcher, closer, closing, intake, job,
                   admitting, lifecycle, session, exchange, answer>>
    /\ NoFault
-----------------------------------------------------------------------------
(* onMessage                                                                 *)

(* verifyInbound, or productionSessionActive: what a packet meets on arrival *)
Admissible == admitting /\ (mode = "enforce" => HasSession)

Deliver(j) ==
    /\ Quiet /\ nc /\ up
    /\ subs \/ Draining
    /\ job[j] = "sent"
    /\ job' = [job EXCEPT ![j] = IF ~Admissible THEN "refused"
                                 ELSE IF Production /\ mode = "enforce" THEN "replay"
                                 ELSE "handler"]
    /\ UNCHANGED <<agent, transport, status, start, watcher, renewal, closer, closing, intake,
                   admitting, lifecycle, session, wake, exchange, answer>>
    /\ NoFault

(* decodeProductionPacket: the replay store answers first, duplicate or error *)
ReplayAnswers(j) ==
    /\ Quiet /\ job[j] = "replay"
    /\ job' \in {[job EXCEPT ![j] = "handler"], [job EXCEPT ![j] = "refused"]}
    /\ UNCHANGED <<agent, transport, status, start, watcher, renewal, closer, closing, intake,
                   admitting, lifecycle, session, wake, exchange, answer>>
    /\ NoFault

(* The handler is done and publishResult is called: without nc it only logs,  *)
(* without a token an enforcing agent throws, publishFailure throws the same  *)
(* way, and trackMessage logs.                                                *)
HandlerReturns(j) ==
    /\ Quiet /\ job[j] = "handler"
    /\ job' = [job EXCEPT ![j] = IF nc /\ MayPublish THEN "answered" ELSE "lost"]
    /\ UNCHANGED <<agent, transport, status, start, watcher, renewal, closer, closing, intake,
                   admitting, lifecycle, session, wake, exchange, answer>>
    /\ NoFault
-----------------------------------------------------------------------------
(* close()                                                                   *)

(* Called once: while starting it cancels the startup, closes the trust       *)
(* lifecycle and waits for startInternal; else it releases the resources.     *)
Close ==
    /\ closing = "none"
    /\ \/ /\ state = "starting"
          /\ state' = "closing" /\ closing' = "pending"
          /\ TrustClose
          /\ UNCHANGED <<closer, watching, heartbeat, subs, draining>>
       \/ /\ state \in {"idle", "running"}
          /\ state' = "closing" /\ closing' = "pending"
          /\ CloseResources
          /\ UNCHANGED <<admitting, lifecycle, token>>
       \/ /\ state = "closed"
          /\ closing' = "done"
          /\ UNCHANGED <<state, closer, watching, heartbeat, subs, draining, admitting,
                         lifecycle, token>>
    /\ UNCHANGED <<mode, nc, transport, events, interrupted, start, watcher, renewal, job,
                   age, wake, exchange, answer>>
    /\ NoFault

(* The subscriptions have drained and no handler is left. *)
CloseTrust ==
    /\ closer = "drain" /\ ~draining["closer"] /\ InFlight = {}
    /\ closer' = "trust"
    /\ TrustClose
    /\ UNCHANGED <<agent, transport, status, start, watcher, renewal, closing, intake, job,
                   age, wake, exchange, answer>>
    /\ NoFault

(* Fault: trust.close() is not awaited. *)
DrainConnectionAtOnce ==
    /\ closer = "trust"
    /\ closer' = "connection"
    /\ UNCHANGED <<agent, transport, status, start, watcher, renewal, closing, intake, job,
                   admitting, lifecycle, session, wake, exchange, answer>>
    /\ NoFault

(* renewTask has ended: connection.drain() is called *)
DrainConnection ==
    /\ closer = "trust" /\ renewal = "none"
    /\ closer' = "connection"
    /\ UNCHANGED <<agent, transport, status, start, watcher, renewal, closing, intake, job,
                   admitting, lifecycle, session, wake, exchange, answer>>
    /\ NoFault

(* The connection has drained, or was closed when draining failed. *)
ConnectionClosed ==
    /\ Quiet /\ closer = "connection"
    /\ closer' = "store"
    /\ nc' = FALSE /\ up' = FALSE
    /\ UNCHANGED <<mode, state, epoch, late, status, start, watcher, renewal, closing, intake,
                   job, admitting, lifecycle, session, wake, exchange, answer>>
    /\ NoFault

(* store.close() returned: startInternal rejects, or close() resolves *)
Closed ==
    /\ Quiet /\ closer = "store"
    /\ closer' = "done"
    /\ state' = "closed"
    /\ IF start = "failed" THEN start' = "rejected" /\ UNCHANGED closing
       ELSE closing' = "done" /\ UNCHANGED start
    /\ UNCHANGED <<mode, nc, transport, status, watcher, renewal, intake, job, admitting,
                   lifecycle, session, wake, exchange, answer>>
    /\ NoFault

(* close() was waiting for a startup that failed *)
CloseResumes ==
    /\ closing = "pending" /\ start = "rejected"
    /\ closing' = "done"
    /\ UNCHANGED <<agent, transport, status, start, watcher, renewal, closer, intake, job,
                   admitting, lifecycle, session, wake, exchange, answer>>
    /\ NoFault
-----------------------------------------------------------------------------
Tick ==
    /\ Quiet
    /\ HasSession \/ (renewal = "sleep" /\ wake > 0)
    /\ Timely => ~(renewal = "sleep" /\ wake = 0)
    /\ age' = IF HasSession THEN age + 1 ELSE age
    /\ wake' = IF wake = 0 THEN 0 ELSE wake - 1
    /\ UNCHANGED <<agent, transport, status, start, watcher, renewal, closer, closing, intake,
                   job, admitting, lifecycle, token, exchange, answer>>
    /\ NoFault

Startup == ConnectSucceeds \/ ConnectFails \/ Connected \/ Authenticated \/ Started
Watch == \/ WatchEnds \/ WatchDisconnect \/ WatchReconnect
         \/ Reauthenticate \/ Reauthenticated \/ Resumed \/ ReauthFailed
Exchange == ExchangeBegins \/ ExchangeSucceeds \/ ExchangeFails \/ ExchangeCancelled
Renewal == RenewalWakes \/ Renewed \/ BackoffEnds \/ RenewalFailed
Closing == CloseTrust \/ DrainConnection \/ ConnectionClosed \/ Closed \/ CloseResumes
Message(j) == ReplayAnswers(j) \/ HandlerReturns(j)

Next ==
    \/ Start \/ Close
    \/ Startup \/ Watch \/ Exchange \/ Renewal \/ Closing
    \/ LateConnection \/ Disconnect \/ Reconnect
    \/ \E d \in Drainer : DrainDone(d)
    \/ \E j \in Job : Deliver(j) \/ Message(j)
    \/ Tick

Spec == Init /\ [][Next]_vars

(* What can only happen so often: one disjunct cannot crowd out another. *)
Pending ==
    \/ Startup \/ Closing \/ LateConnection \/ Reconnect
    \/ \E d \in Drainer : DrainDone(d)
    \/ \E j \in Job : Message(j)

(* The event loop runs every task that is ready. It serves the events of the  *)
(* network and the timers in the order they come, so one that can be served   *)
(* again and again, whenever the loop is quiet, is served: every await        *)
(* returns and the client reconnects. Losing a connection, a fault and the    *)
(* calls of start() and close() are never fair.                               *)
Fairness == WF_vars(Watch) /\ SF_vars(Exchange \/ Renewal) /\ SF_vars(Pending)

FairSpec == Spec /\ Fairness
-----------------------------------------------------------------------------
(* What makes the properties below inductive.                                *)

(* Once the resources are being released, the startup is over and neither it  *)
(* nor a reauthentication subscribes again.                                   *)
StartOK ==
    /\ state = "idle" => start = "none"
    /\ state = "running" => start = "resolved"
    /\ closer # "none" => start \in {"none", "failed", "resolved", "rejected"} /\ ~subs
    /\ closer # "none" /\ start \in {"none", "resolved"} => state \in {"closing", "closed"}

(* Without a lifecycle, which an agent with trust off never has, there is no  *)
(* session and nobody who could ask for one.                                  *)
LifecycleOK ==
    /\ lifecycle = "none" => queue = <<>> /\ token = 0
    /\ lifecycle = "closed" => token = 0
    /\ mode = "off" => /\ lifecycle = "none" /\ watcher = "none" /\ renewal = "none"
                       /\ ~draining["watcher"] /\ ~draining["renewal"]

(* After trust.close() the waits of closeResources stay satisfied. *)
ShutdownOK ==
    /\ closer \in {"trust", "connection", "store", "done"} =>
          /\ lifecycle # "open"
          /\ ~draining["closer"]
          /\ mode # "warn" => InFlight = {}
    /\ closer \in {"connection", "store", "done"} => renewal = "none"

(* Until the resources are being released: which task can be where. *)
WatchOK ==
    closer = "none" =>
        /\ start \in {"none", "connect", "connected"} =>
              lifecycle = "none" /\ watcher = "none" /\ ~admitting
        /\ start = "connected" => nc /\ up
        /\ start \in {"auth", "handshake"} => watcher \in {"none", "next"}
        /\ start = "resolved" => state = "running"
        /\ start \notin {"failed", "rejected"}
        /\ watcher # "none" => watcher # "done" /\ watching /\ nc

(* The unread events alternate and end with what the transport is now. While  *)
(* a reauthentication runs, the event it answers was a reconnect.             *)
EventsOK ==
    closer = "none" =>
        /\ watcher = "none" => events = <<>>
        /\ \A i \in 1..(Len(events) - 1) : events[i] # events[i + 1]
        /\ events # <<>> => (up <=> events[Len(events)] = "reconnect")
        /\ watcher \in {"drain", "issue", "handshake", "failing"} =>
              IF events = <<>> THEN up ELSE Head(events) = "disconnect"

(* The watcher waits in line at most once, and only for an answer. *)
LineOK ==
    /\ queue = <<>> => begun = 0
    /\ \A i \in 1..Len(queue) :
          queue[i] = "watcher" => watcher = "issue" /\ answer["watcher"] = "none"
    /\ \A i, j \in 1..Len(queue) : queue[i] = "watcher" /\ queue[j] = "watcher" => i = j

(* The session, and the one being asked for, belong to this transport. *)
Fresh == (token # 0 => token = epoch) /\ (begun # 0 => begun = epoch)

(* An enforcing agent has a fresh session, or an unread disconnect first in   *)
(* line: whenever it admits, whenever it is about to, and while the startup   *)
(* has not been interrupted.                                                  *)
FreshOrTold == IF events = <<>> THEN up /\ Fresh ELSE Head(events) = "disconnect"

FreshOK ==
    closer = "none" /\ mode = "enforce" =>
        /\ \A c \in Caller : answer[c] # "tokenless"
        /\ start \in {"auth", "handshake"} => watcher = "next"
        /\ admitting => watcher \in {"next", "handshake"} /\ FreshOrTold
        /\ start = "auth" /\ state = "starting" /\ ~interrupted => FreshOrTold
        /\ watcher = "issue" /\ answer["watcher"] = "session" => FreshOrTold
        /\ watcher = "issue" /\ begun # 0 /\ Head(queue) = "watcher" /\ events = <<>>
              => begun = epoch
-----------------------------------------------------------------------------
(* An enforcing agent takes a job only under a session it asked for on the    *)
(* transport the job arrived by: reconnects, renewals in flight and events    *)
(* queued behind a reauthentication never let an earlier session admit. (A    *)
(* closing agent no longer watches the connection.)                           *)
AdmitsOnThisTransport ==
    mode = "enforce" /\ closer = "none" /\ Quiet /\ up /\ Admissible => token = epoch

(* Once closeResources has closed the trust lifecycle, and for ever after, no *)
(* handler runs, none can start, no session is held and nobody renews one:    *)
(* not a renewal, a reauthentication or a startup that was under way.         *)
ClosedIsQuiet ==
    closer \in {"connection", "store", "done"} =>
        /\ mode # "warn" => InFlight = {}
        /\ ~subs
        /\ token = 0
        /\ renewal = "none"

(* worker-trust-lifecycle.test.ts:175 "never installs a session that          *)
(* completes after close".                                                    *)
NeverInstalledAfterClose == lifecycle = "closed" => token = 0

(* test/runtime-worker-trust-shutdown.test.ts:38: close() "keeps the live     *)
(* session until an in-flight terminal result publishes". Only a renewal that *)
(* fails may end it earlier.                                                  *)
SessionKeptWhileClosing ==
    [][state = "closing" /\ InFlight # {} /\ HasSession
         => token' # 0 \/ answer'["renewal"] = "error"]_vars

(* test/worker-trust-lifecycle.test.ts:188: a session is renewed "before      *)
(* expiry", so an agent at rest with a live session has a renewal loop.       *)
LiveSessionIsRenewed ==
    state = "running" /\ Quiet /\ watcher = "next" /\ Admissible /\ token # 0
        => renewal # "none"

(* close() resolves: none of the waits of the shutdown is circular, whatever  *)
(* the startup, the watcher and the renewal loop were waiting for.            *)
CloseResolves == closing = "pending" ~> closing = "done" /\ ~nc /\ ~late

(* After a lost connection an enforcing agent serves again under a session of *)
(* the new transport, unless somebody stops it or a fault beyond the lost     *)
(* connections has happened.                                                  *)
RecoversAfterReconnect ==
    state = "running" /\ mode = "enforce" /\ ~up
        ~> \/ state # "running"
           \/ up /\ subs /\ Admissible /\ token = epoch
           \/ faults < MaxFaults
=============================================================================
