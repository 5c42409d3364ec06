-------------------------- MODULE NodeAgentProofs --------------------------
(* Proofs about NodeAgent for any jobs, modes, faults and lost connections.  *)
EXTENDS NodeAgent, TLAPS

(* Only an exchange installs a session, and a quiet loop with an exchange     *)
(* under way is not closed.                                                   *)
LEMMA InstallStep ==
    NeverInstalledAfterClose /\ [Next]_vars => NeverInstalledAfterClose'
  <1> SUFFICES ASSUME NeverInstalledAfterClose, [Next]_vars PROVE NeverInstalledAfterClose'
    OBVIOUS
  <1> USE DEF NeverInstalledAfterClose, session
  <1>1. CASE Startup
    BY <1>1, ZenonT(60) DEF Startup, ConnectSucceeds, ConnectFails, Connected, Authenticated, Started
  <1>2. CASE Watch
    BY <1>2 DEF Watch, WatchEnds, WatchDisconnect, WatchReconnect, Reauthenticate,
                Reauthenticated, Resumed, ReauthFailed
  <1>3. CASE Exchange
    BY <1>3 DEF Exchange, ExchangeBegins, ExchangeSucceeds, ExchangeFails, ExchangeCancelled,
                FailedToken, Quiet, ExchangeReady
  <1>4. CASE Renewal
    BY <1>4 DEF Renewal, RenewalWakes, Renewed, BackoffEnds, RenewalFailed
  <1>5. CASE Closing \/ Close
    BY <1>5 DEF Closing, Close, CloseTrust, DrainConnection, ConnectionClosed, Closed,
                CloseResumes, TrustClose
  <1>6. CASE Start \/ LateConnection \/ Disconnect \/ Reconnect \/ Tick
             \/ \E d \in Drainer : DrainDone(d)
    BY <1>6 DEF Start, LateConnection, Disconnect, Reconnect, Tick, DrainDone
  <1>7. CASE \E j \in Job : Deliver(j) \/ Message(j)
    BY <1>7 DEF Deliver, Message, ReplayAnswers, HandlerReturns
  <1>8. CASE UNCHANGED vars
    BY <1>8 DEF vars
  <1> QED BY <1>1, <1>2, <1>3, <1>4, <1>5, <1>6, <1>7, <1>8 DEF Next

(* worker-trust-lifecycle.ts: no session is held by a closed lifecycle, not   *)
(* even when the exchange that asked for it is answered after close().        *)
THEOREM ClosedLifecycleHoldsNone == Spec => []NeverInstalledAfterClose
  <1>1. Init => NeverInstalledAfterClose
    BY DEF Init, NeverInstalledAfterClose
  <1> QED BY <1>1, InstallStep, PTL DEF Spec
-----------------------------------------------------------------------------
(* Type correctness, in four parts. *)
(* What is TRUE or FALSE *)
Flags ==
    /\ nc \in BOOLEAN /\ up \in BOOLEAN /\ late \in BOOLEAN
    /\ interrupted \in BOOLEAN /\ watching \in BOOLEAN
    /\ subs \in BOOLEAN /\ heartbeat \in BOOLEAN /\ draining \in [Drainer -> BOOLEAN]
    /\ admitting \in BOOLEAN /\ stale \in BOOLEAN

(* Where each task is *)
Places ==
    /\ mode \in Modes
    /\ state \in {"idle", "starting", "running", "closing", "closed"}
    /\ start \in {"none", "connect", "connected", "auth", "handshake", "failed",
                  "resolved", "rejected"}
    /\ watcher \in {"none", "next", "drain", "issue", "handshake", "failing", "done"}
    /\ renewal \in {"none", "sleep", "renew", "backoff", "failing"}
    /\ closer \in {"none", "drain", "trust", "connection", "store", "done"}
    /\ closing \in {"none", "pending", "done"}
    /\ lifecycle \in {"none", "open", "closed"}

(* The counters; a connection that is down has had a transport to spare *)
Counts ==
    /\ epoch \in 0..(MaxDrops + 1)
    /\ token \in 0..(MaxDrops + 1)
    /\ begun \in 0..(MaxDrops + 1)
    /\ nc /\ ~up => epoch <= MaxDrops
    /\ age \in 0..Expired
    /\ wake \in 0..Due
    /\ faults \in 0..MaxFaults

(* What waits for somebody *)
Queues ==
    /\ events \in Seq({"disconnect", "reconnect"})
    /\ queue \in Seq(Caller)
    /\ answer \in [Caller -> {"none", "session", "tokenless", "error"}]
    /\ job \in [Job -> {"sent", "replay", "handler", "answered", "lost", "refused"}]

TypeInv == Flags /\ Places /\ Counts /\ Queues

LEMMA FlagsStep == Flags /\ [Next]_vars => Flags'
  <1> SUFFICES ASSUME Flags, [Next]_vars PROVE Flags'
    OBVIOUS
  <1> USE ConstantsAssumption
      DEF Flags, Drainer, Caller, Due, Expired, agent, transport, status, intake, session, exchange, Fault, NoFault
  <1>1. CASE Startup
    <2>1. CASE ConnectSucceeds
      BY <2>1 DEF ConnectSucceeds
    <2>2. CASE ConnectFails
      BY <2>2, ZenonT(60) DEF ConnectFails, StartFails, CloseResources, Drain
    <2>3. CASE Connected
      BY <2>3, ZenonT(60) DEF Connected, StartFails, CloseResources, Drain, Enqueue
    <2>4. CASE Authenticated
      BY <2>4, ZenonT(60) DEF Authenticated, StartFails, CloseResources, Drain, Answered
    <2>5. CASE Started
      BY <2>5, ZenonT(60) DEF Started, StartFails, CloseResources, Drain, StartRenewal, Sleep
    <2> QED BY <1>1, <2>1, <2>2, <2>3, <2>4, <2>5 DEF Startup
  <1>2. CASE Watch
    <2>1. CASE WatchEnds
      BY <2>1 DEF WatchEnds
    <2>2. CASE WatchDisconnect
      BY <2>2, ZenonT(60) DEF WatchDisconnect
    <2>3. CASE WatchReconnect
      BY <2>3, ZenonT(60) DEF WatchReconnect, TrustFailure, Drain
    <2>4. CASE Reauthenticate
      BY <2>4, ZenonT(60) DEF Reauthenticate, ReauthFails, TrustFailure, Drain, Enqueue
    <2>5. CASE Reauthenticated
      BY <2>5, ZenonT(60) DEF Reauthenticated, ReauthFails, TrustFailure, Drain, Answered
    <2>6. CASE Resumed
      BY <2>6, ZenonT(60) DEF Resumed, ReauthFails, TrustFailure, Drain, StartRenewal, Sleep
    <2>7. CASE ReauthFailed
      BY <2>7 DEF ReauthFailed
    <2> QED BY <1>2, <2>1, <2>2, <2>3, <2>4, <2>5, <2>6, <2>7 DEF Watch
  <1>3. CASE Exchange
    BY <1>3, ZenonT(60) DEF Exchange, ExchangeBegins, Serve, ExchangeSucceeds, ExchangeFails, FailedToken,
       FailedAnswer, ExchangeCancelled
  <1>4. CASE Renewal
    <2>1. CASE RenewalWakes
      BY <2>1, ZenonT(60) DEF RenewalWakes, RenewalEnds, TrustFailure, Drain, Enqueue
    <2>2. CASE Renewed
      BY <2>2, ZenonT(60) DEF Renewed, RenewalLoops, RenewalEnds, Sleep, Answered, TrustFailure, Drain
    <2>3. CASE BackoffEnds
      BY <2>3 DEF BackoffEnds, RenewalLoops, RenewalEnds, Sleep
    <2>4. CASE RenewalFailed
      BY <2>4 DEF RenewalFailed, RenewalEnds
    <2> QED BY <1>4, <2>1, <2>2, <2>3, <2>4 DEF Renewal
  <1>5. CASE Closing
    <2>1. CASE CloseTrust
      BY <2>1, ZenonT(60) DEF CloseTrust, TrustClose
    <2>2. CASE DrainConnection
      BY <2>2, ZenonT(60) DEF DrainConnection
    <2>3. CASE ConnectionClosed
      BY <2>3, ZenonT(60) DEF ConnectionClosed
    <2>4. CASE Closed
      BY <2>4, ZenonT(60) DEF Closed
    <2>5. CASE CloseResumes
      BY <2>5, ZenonT(60) DEF CloseResumes
    <2> QED BY <1>5, <2>1, <2>2, <2>3, <2>4, <2>5 DEF Closing
  <1>6. CASE Close
    BY <1>6, ZenonT(60) DEF Close, TrustClose, CloseResources, Drain
  <1>7. CASE Start \/ LateConnection
    BY <1>7, ZenonT(60) DEF Start, LateConnection
  <1>8. CASE Disconnect
    BY <1>8, ZenonT(60) DEF Disconnect, Notify
  <1>9. CASE Reconnect
    BY <1>9 DEF Reconnect, Notify
  <1>10. CASE Tick
    BY <1>10 DEF Tick, HasSession
  <1>11. CASE \E d \in Drainer : DrainDone(d)
    BY <1>11 DEF DrainDone
  <1>12. CASE \E j \in Job : Deliver(j) \/ Message(j)
    BY <1>12 DEF Deliver, Message, ReplayAnswers, HandlerReturns
  <1>13. CASE UNCHANGED vars
    BY <1>13 DEF vars
  <1> QED BY <1>1, <1>2, <1>3, <1>4, <1>5, <1>6, <1>7, <1>8, <1>9, <1>10, <1>11, <1>12, <1>13
          DEF Next

LEMMA PlacesStep == Places /\ [Next]_vars => Places'
  <1> SUFFICES ASSUME Places, [Next]_vars PROVE Places'
    OBVIOUS
  <1> USE ConstantsAssumption
      DEF Places, Drainer, Caller, Due, Expired, agent, transport, status, intake, session, exchange, Fault, NoFault
  <1>1. CASE Startup
    <2>1. CASE ConnectSucceeds
      BY <2>1 DEF ConnectSucceeds
    <2>2. CASE ConnectFails
      BY <2>2 DEF ConnectFails, StartFails, CloseResources, Drain
    <2>3. CASE Connected
      BY <2>3 DEF Connected, StartFails, CloseResources, Drain, Enqueue
    <2>4. CASE Authenticated
      BY <2>4 DEF Authenticated, StartFails, CloseResources, Drain, Answered
    <2>5. CASE Started
      BY <2>5 DEF Started, StartFails, CloseResources, Drain, StartRenewal, Sleep
    <2> QED BY <1>1, <2>1, <2>2, <2>3, <2>4, <2>5 DEF Startup
  <1>2. CASE Watch
    BY <1>2 DEF Watch, WatchEnds, WatchDisconnect, WatchReconnect, TrustFailure, Drain,
       Reauthenticate, ReauthFails, Enqueue, Reauthenticated, Answered, Resumed, StartRenewal,
       Sleep, ReauthFailed
  <1>3. CASE Exchange
    BY <1>3 DEF Exchange, ExchangeBegins, Serve, ExchangeSucceeds, ExchangeFails, FailedToken,
       FailedAnswer, ExchangeCancelled
  <1>4. CASE Renewal
    BY <1>4 DEF Renewal, RenewalWakes, RenewalEnds, TrustFailure, Drain, Enqueue, Renewed,
       RenewalLoops, Sleep, Answered, BackoffEnds, RenewalFailed
  <1>5. CASE Closing
    BY <1>5 DEF Closing, CloseTrust, TrustClose, DrainConnection, ConnectionClosed, Closed,
       CloseResumes
  <1>6. CASE Close
    BY <1>6 DEF Close, TrustClose, CloseResources, Drain
  <1>7. CASE Start \/ LateConnection
    BY <1>7 DEF Start, LateConnection
  <1>8. CASE Disconnect
    BY <1>8 DEF Disconnect, Notify
  <1>9. CASE Reconnect
    BY <1>9 DEF Reconnect, Notify
  <1>10. CASE Tick
    BY <1>10 DEF Tick, HasSession
  <1>11. CASE \E d \in Drainer : DrainDone(d)
    BY <1>11 DEF DrainDone
  <1>12. CASE \E j \in Job : Deliver(j) \/ Message(j)
    BY <1>12 DEF Deliver, Message, ReplayAnswers, HandlerReturns
  <1>13. CASE UNCHANGED vars
    BY <1>13 DEF vars
  <1> QED BY <1>1, <1>2, <1>3, <1>4, <1>5, <1>6, <1>7, <1>8, <1>9, <1>10, <1>11, <1>12, <1>13
          DEF Next

LEMMA CountsStep == Flags /\ Counts /\ [Next]_vars => Counts'
  <1> SUFFICES ASSUME Flags, Counts, [Next]_vars PROVE Counts'
    OBVIOUS
  <1> USE ConstantsAssumption
      DEF Flags, Counts, Drainer, Caller, Due, Expired, agent, transport, status, intake, session, exchange, Fault, NoFault
  <1>1. CASE Startup
    <2>1. CASE ConnectSucceeds
      BY <2>1 DEF ConnectSucceeds
    <2>2. CASE ConnectFails
      BY <2>2 DEF ConnectFails, StartFails, CloseResources, Drain
    <2>3. CASE Connected
      BY <2>3 DEF Connected, StartFails, CloseResources, Drain, Enqueue
    <2>4. CASE Authenticated
      BY <2>4 DEF Authenticated, StartFails, CloseResources, Drain, Answered
    <2>5. CASE Started
      BY <2>5 DEF Started, StartFails, CloseResources, Drain, StartRenewal, Sleep
    <2> QED BY <1>1, <2>1, <2>2, <2>3, <2>4, <2>5 DEF Startup
  <1>2. CASE Watch
    BY <1>2 DEF Watch, WatchEnds, WatchDisconnect, WatchReconnect, TrustFailure, Drain,
       Reauthenticate, ReauthFails, Enqueue, Reauthenticated, Answered, Resumed, StartRenewal,
       Sleep, ReauthFailed
  <1>3. CASE Exchange
    BY <1>3 DEF Exchange, ExchangeBegins, Serve, ExchangeSucceeds, ExchangeFails, FailedToken,
       FailedAnswer, ExchangeCancelled
  <1>4. CASE Renewal
    BY <1>4 DEF Renewal, RenewalWakes, RenewalEnds, TrustFailure, Drain, Enqueue, Renewed,
       RenewalLoops, Sleep, Answered, BackoffEnds, RenewalFailed
  <1>5. CASE Closing
    BY <1>5 DEF Closing, CloseTrust, TrustClose, DrainConnection, ConnectionClosed, Closed,
       CloseResumes
  <1>6. CASE Close
    BY <1>6 DEF Close, TrustClose, CloseResources, Drain
  <1>7. CASE Start \/ LateConnection
    BY <1>7 DEF Start, LateConnection
  <1>8. CASE Disconnect
    BY <1>8 DEF Disconnect, Notify
  <1>9. CASE Reconnect
    BY <1>9 DEF Reconnect, Notify
  <1>10. CASE Tick
    BY <1>10 DEF Tick, HasSession
  <1>11. CASE \E d \in Drainer : DrainDone(d)
    BY <1>11 DEF DrainDone
  <1>12. CASE \E j \in Job : Deliver(j) \/ Message(j)
    BY <1>12 DEF Deliver, Message, ReplayAnswers, HandlerReturns
  <1>13. CASE UNCHANGED vars
    BY <1>13 DEF vars
  <1> QED BY <1>1, <1>2, <1>3, <1>4, <1>5, <1>6, <1>7, <1>8, <1>9, <1>10, <1>11, <1>12, <1>13
          DEF Next

LEMMA EnqueueType ==
    ASSUME queue \in Seq(Caller), NEW c \in Caller, Enqueue(c),
           answer \in [Caller -> {"none", "session", "tokenless", "error"}]
    PROVE  /\ queue' \in Seq(Caller)
           /\ answer' \in [Caller -> {"none", "session", "tokenless", "error"}]
  <1>1. queue' \in Seq(Caller)
    BY DEF Enqueue
  <1>2. answer' \in [Caller -> {"none", "session", "tokenless", "error"}]
    BY DEF Enqueue
  <1> QED BY <1>1, <1>2

LEMMA QueuesStep == Queues /\ [Next]_vars => Queues'
  <1> SUFFICES ASSUME Queues, [Next]_vars PROVE Queues'
    OBVIOUS
  <1> USE ConstantsAssumption
      DEF Queues, Drainer, Caller, Due, Expired, agent, transport, status, intake, session, exchange, Fault, NoFault
  <1>1. CASE Startup
    <2>1. CASE ConnectSucceeds
      BY <2>1 DEF ConnectSucceeds
    <2>2. CASE ConnectFails
      BY <2>2 DEF ConnectFails, StartFails, CloseResources, Drain
    <2>3. CASE Connected
      BY <2>3, EnqueueType DEF Connected, StartFails, CloseResources, Drain
    <2>4. CASE Authenticated
      BY <2>4 DEF Authenticated, StartFails, CloseResources, Drain, Answered
    <2>5. CASE Started
      BY <2>5 DEF Started, StartFails, CloseResources, Drain, StartRenewal, Sleep
    <2> QED BY <1>1, <2>1, <2>2, <2>3, <2>4, <2>5 DEF Startup
  <1>2. CASE Watch
    <2>1. CASE WatchEnds
      BY <2>1 DEF WatchEnds
    <2>2. CASE WatchDisconnect
      BY <2>2 DEF WatchDisconnect
    <2>3. CASE WatchReconnect
      BY <2>3 DEF WatchReconnect, TrustFailure, Drain
    <2>4. CASE Reauthenticate
      BY <2>4, EnqueueType DEF Reauthenticate, ReauthFails, TrustFailure, Drain
    <2>5. CASE Reauthenticated
      BY <2>5 DEF Reauthenticated, ReauthFails, TrustFailure, Drain, Answered
    <2>6. CASE Resumed
      BY <2>6 DEF Resumed, ReauthFails, TrustFailure, Drain, StartRenewal, Sleep
    <2>7. CASE ReauthFailed
      BY <2>7 DEF ReauthFailed
    <2> QED BY <1>2, <2>1, <2>2, <2>3, <2>4, <2>5, <2>6, <2>7 DEF Watch
  <1>3. CASE Exchange
    <2>h. queue # <<>> => Tail(queue) \in Seq(Caller) /\ Head(queue) \in Caller
      OBVIOUS
    <2>1. CASE ExchangeBegins
      BY <2>1, <2>h, ZenonT(60) DEF ExchangeBegins, Serve
    <2>2. CASE ExchangeSucceeds
      BY <2>2, <2>h DEF ExchangeSucceeds, Serve
    <2>3. CASE ExchangeFails
      BY <2>3, <2>h DEF ExchangeFails, Serve, FailedToken, FailedAnswer
    <2>4. CASE ExchangeCancelled
      BY <2>4, <2>h DEF ExchangeCancelled, Serve
    <2> QED BY <1>3, <2>1, <2>2, <2>3, <2>4 DEF Exchange
  <1>4. CASE Renewal
    <2>1. CASE RenewalWakes
      BY <2>1, EnqueueType DEF RenewalWakes, RenewalEnds, TrustFailure, Drain
    <2>2. CASE Renewed
      BY <2>2 DEF Renewed, RenewalLoops, RenewalEnds, Sleep, Answered, TrustFailure, Drain
    <2>3. CASE BackoffEnds
      BY <2>3 DEF BackoffEnds, RenewalLoops, RenewalEnds, Sleep
    <2>4. CASE RenewalFailed
      BY <2>4 DEF RenewalFailed, RenewalEnds
    <2> QED BY <1>4, <2>1, <2>2, <2>3, <2>4 DEF Renewal
  <1>5. CASE Closing
    BY <1>5 DEF Closing, CloseTrust, TrustClose, DrainConnection, ConnectionClosed, Closed,
       CloseResumes
  <1>6. CASE Close
    BY <1>6 DEF Close, TrustClose, CloseResources, Drain
  <1>7. CASE Start \/ LateConnection
    BY <1>7 DEF Start, LateConnection
  <1>8. CASE Disconnect
    BY <1>8 DEF Disconnect, Notify
  <1>9. CASE Reconnect
    BY <1>9 DEF Reconnect, Notify
  <1>10. CASE Tick
    BY <1>10 DEF Tick, HasSession
  <1>11. CASE \E d \in Drainer : DrainDone(d)
    BY <1>11 DEF DrainDone
  <1>12. CASE \E j \in Job : Deliver(j) \/ Message(j)
    BY <1>12 DEF Deliver, Message, ReplayAnswers, HandlerReturns
  <1>13. CASE UNCHANGED vars
    BY <1>13 DEF vars
  <1> QED BY <1>1, <1>2, <1>3, <1>4, <1>5, <1>6, <1>7, <1>8, <1>9, <1>10, <1>11, <1>12, <1>13
          DEF Next

LEMMA InitType == Init => TypeInv
  <1> SUFFICES ASSUME Init PROVE TypeInv
    OBVIOUS
  <1> USE ConstantsAssumption DEF Init, Drainer, Caller, Due, Expired
  <1>1. Flags
    BY ZenonT(60) DEF Flags
  <1>2. Places
    BY DEF Places
  <1>3. Counts
    BY DEF Counts
  <1>4. Queues
    BY DEF Queues
  <1> QED BY <1>1, <1>2, <1>3, <1>4 DEF TypeInv

LEMMA NextType == TypeInv /\ [Next]_vars => TypeInv'
  BY FlagsStep, PlacesStep, CountsStep, QueuesStep DEF TypeInv

(* Type correctness of the agent: in particular the transports of a           *)
(* connection stay within the lost connections, and a session never outlives  *)
(* its expiry.                                                                *)
THEOREM TypeCorrect == Spec => []TypeOK
  <1>1. TypeInv => TypeOK
    BY DEF TypeInv, Flags, Places, Counts, Queues, TypeOK
  <1> QED BY <1>1, InitType, NextType, PTL DEF Spec
-----------------------------------------------------------------------------
(* The shutdown.                                                             *)

LEMMA StartOKStep == StartOK /\ [Next]_vars => StartOK'
  <1> SUFFICES ASSUME StartOK, [Next]_vars PROVE StartOK'
    OBVIOUS
  <1> USE DEF StartOK, agent, transport, status, intake, session, exchange
  <1>1. CASE Startup
    BY <1>1, ZenonT(60) DEF Startup, ConnectSucceeds, ConnectFails, StartFails, CloseResources, Drain,
       Connected, Enqueue, Authenticated, Answered, Started, StartRenewal, Sleep
  <1>2. CASE Watch
    BY <1>2 DEF Watch, WatchEnds, WatchDisconnect, WatchReconnect, TrustFailure, Drain,
       Reauthenticate, ReauthFails, Enqueue, Reauthenticated, Answered, Resumed, StartRenewal,
       Sleep, ReauthFailed
  <1>3. CASE Exchange
    BY <1>3 DEF Exchange, ExchangeBegins, Serve, ExchangeSucceeds, ExchangeFails, FailedToken,
       FailedAnswer, ExchangeCancelled
  <1>4. CASE Renewal
    BY <1>4 DEF Renewal, RenewalWakes, RenewalEnds, Enqueue, TrustFailure, Drain, Renewed,
       RenewalLoops, Sleep, Answered, BackoffEnds, RenewalFailed
  <1>5. CASE Closing
    BY <1>5 DEF Closing, CloseTrust, TrustClose, DrainConnection, ConnectionClosed, Closed,
       CloseResumes
  <1>6. CASE Close
    BY <1>6 DEF Close, TrustClose, CloseResources, Drain
  <1>7. CASE Start \/ LateConnection
    BY <1>7 DEF Start, LateConnection
  <1>8. CASE Disconnect \/ Reconnect
    BY <1>8 DEF Disconnect, Notify, Reconnect
  <1>9. CASE Tick
    BY <1>9 DEF Tick, HasSession
  <1>10. CASE \E d \in Drainer : DrainDone(d)
    BY <1>10 DEF DrainDone
  <1>11. CASE \E j \in Job : Deliver(j) \/ Message(j)
    BY <1>11 DEF Deliver, Message, ReplayAnswers, HandlerReturns
  <1>12. CASE UNCHANGED vars
    BY <1>12 DEF vars
  <1> QED BY <1>1, <1>2, <1>3, <1>4, <1>5, <1>6, <1>7, <1>8, <1>9, <1>10, <1>11, <1>12 DEF Next

LEMMA LifecycleOKStep == Flags /\ Queues /\ LifecycleOK /\ [Next]_vars => LifecycleOK'
  <1> SUFFICES ASSUME Flags, Queues, LifecycleOK, [Next]_vars PROVE LifecycleOK'
    OBVIOUS
  <1> USE DEF LifecycleOK, Flags, Queues, Drainer, agent, transport, status, intake, session,
      exchange
  <1>1. CASE Startup
    <2>1. CASE ConnectSucceeds
      BY <2>1 DEF ConnectSucceeds
    <2>2. CASE ConnectFails
      BY <2>2 DEF ConnectFails, StartFails, CloseResources, Drain
    <2>3. CASE Connected
      BY <2>3 DEF Connected, StartFails, CloseResources, Drain, Enqueue
    <2>4. CASE Authenticated
      BY <2>4 DEF Authenticated, StartFails, CloseResources, Drain, Answered
    <2>5. CASE Started
      BY <2>5 DEF Started, StartFails, CloseResources, Drain, StartRenewal, Sleep, HasSession
    <2> QED BY <1>1, <2>1, <2>2, <2>3, <2>4, <2>5 DEF Startup
  <1>2. CASE Watch
    <2>1. CASE WatchEnds
      BY <2>1 DEF WatchEnds
    <2>2. CASE WatchDisconnect
      BY <2>2 DEF WatchDisconnect
    <2>3. CASE WatchReconnect
      BY <2>3 DEF WatchReconnect, TrustFailure, Drain
    <2>4. CASE Reauthenticate
      BY <2>4 DEF Reauthenticate, ReauthFails, TrustFailure, Drain, Enqueue
    <2>5. CASE Reauthenticated
      BY <2>5 DEF Reauthenticated, ReauthFails, TrustFailure, Drain, Answered
    <2>6. CASE Resumed
      BY <2>6 DEF Resumed, ReauthFails, TrustFailure, Drain, StartRenewal, Sleep, HasSession
    <2>7. CASE ReauthFailed
      BY <2>7 DEF ReauthFailed
    <2> QED BY <1>2, <2>1, <2>2, <2>3, <2>4, <2>5, <2>6, <2>7 DEF Watch
  <1>3. CASE Exchange
    <2>1. CASE ExchangeBegins
      BY <2>1 DEF ExchangeBegins, Serve
    <2>2. CASE ExchangeSucceeds
      BY <2>2 DEF ExchangeSucceeds, Serve, Quiet, ExchangeReady
    <2>3. CASE ExchangeFails
      BY <2>3 DEF ExchangeFails, Serve, FailedToken, FailedAnswer
    <2>4. CASE ExchangeCancelled
      BY <2>4 DEF ExchangeCancelled, Serve
    <2> QED BY <1>3, <2>1, <2>2, <2>3, <2>4 DEF Exchange
  <1>4. CASE Renewal
    <2>1. CASE RenewalWakes
      BY <2>1 DEF RenewalWakes, RenewalEnds, Enqueue, TrustFailure, Drain, HasSession
    <2>2. CASE Renewed
      BY <2>2 DEF Renewed, RenewalLoops, RenewalEnds, Sleep, Answered, TrustFailure, Drain,
         HasSession
    <2>3. CASE BackoffEnds
      BY <2>3 DEF BackoffEnds, RenewalLoops, RenewalEnds, Sleep, HasSession
    <2>4. CASE RenewalFailed
      BY <2>4 DEF RenewalFailed, RenewalEnds
    <2> QED BY <1>4, <2>1, <2>2, <2>3, <2>4 DEF Renewal
  <1>5. CASE Closing
    <2>1. CASE CloseTrust
      BY <2>1 DEF CloseTrust, TrustClose
    <2>2. CASE DrainConnection
      BY <2>2 DEF DrainConnection
    <2>3. CASE ConnectionClosed
      BY <2>3 DEF ConnectionClosed
    <2>4. CASE Closed
      BY <2>4 DEF Closed
    <2>5. CASE CloseResumes
      BY <2>5 DEF CloseResumes
    <2> QED BY <1>5, <2>1, <2>2, <2>3, <2>4, <2>5 DEF Closing
  <1>6. CASE Close
    BY <1>6 DEF Close, TrustClose, CloseResources, Drain
  <1>7. CASE Start \/ LateConnection
    BY <1>7 DEF Start, LateConnection
  <1>8. CASE Disconnect \/ Reconnect
    BY <1>8 DEF Disconnect, Notify, Reconnect
  <1>9. CASE Tick
    BY <1>9 DEF Tick, HasSession
  <1>10. CASE \E d \in Drainer : DrainDone(d)
    BY <1>10 DEF DrainDone
  <1>11. CASE \E j \in Job : Deliver(j) \/ Message(j)
    BY <1>11 DEF Deliver, Message, ReplayAnswers, HandlerReturns
  <1>12. CASE UNCHANGED vars
    BY <1>12 DEF vars
  <1> QED BY <1>1, <1>2, <1>3, <1>4, <1>5, <1>6, <1>7, <1>8, <1>9, <1>10, <1>11, <1>12 DEF Next

LEMMA ShutdownOKStep == Flags /\ Places /\ Queues /\ StartOK /\ LifecycleOK /\ ShutdownOK /\ [Next]_vars => ShutdownOK'
  <1> SUFFICES ASSUME Flags, Places, Queues, StartOK, LifecycleOK, ShutdownOK, [Next]_vars PROVE ShutdownOK'
    OBVIOUS
  <1> USE DEF ShutdownOK, agent, transport, status, intake, session, exchange
  <1>1. CASE Startup
    <2>1. CASE ConnectSucceeds
      BY <2>1 DEF StartOK, ConnectSucceeds, InFlight
    <2>2. CASE ConnectFails
      BY <2>2 DEF Flags, Drainer, StartOK, ConnectFails, StartFails, CloseResources, Drain, InFlight
    <2>3. CASE Connected
      BY <2>3 DEF Flags, Drainer, StartOK, Connected, StartFails, CloseResources, Drain, Enqueue, InFlight
    <2>4. CASE Authenticated
      BY <2>4 DEF Flags, Drainer, StartOK, Authenticated, StartFails, CloseResources, Drain, Answered, InFlight
    <2>5. CASE Started
      BY <2>5 DEF Flags, Drainer, StartOK, Started, StartFails, CloseResources, Drain, StartRenewal, Sleep, HasSession,
         InFlight
    <2> QED BY <1>1, <2>1, <2>2, <2>3, <2>4, <2>5 DEF Startup
  <1>2. CASE Watch
    <2>1. CASE WatchEnds
      BY <2>1 DEF WatchEnds, InFlight
    <2>2. CASE WatchDisconnect
      BY <2>2 DEF WatchDisconnect, InFlight
    <2>3. CASE WatchReconnect
      BY <2>3 DEF Flags, Drainer, WatchReconnect, TrustFailure, Drain, InFlight
    <2>4. CASE Reauthenticate
      BY <2>4 DEF Flags, Drainer, Reauthenticate, ReauthFails, TrustFailure, Drain, Enqueue, InFlight
    <2>5. CASE Reauthenticated
      BY <2>5 DEF Flags, Drainer, StartOK, Reauthenticated, ReauthFails, TrustFailure, Drain, Answered, InFlight
    <2>6. CASE Resumed
      BY <2>6 DEF Flags, Drainer, Resumed, ReauthFails, TrustFailure, Drain, StartRenewal, Sleep, HasSession,
         InFlight
    <2>7. CASE ReauthFailed
      BY <2>7 DEF ReauthFailed, InFlight
    <2> QED BY <1>2, <2>1, <2>2, <2>3, <2>4, <2>5, <2>6, <2>7 DEF Watch
  <1>3. CASE Exchange
    <2>1. CASE ExchangeBegins
      BY <2>1 DEF ExchangeBegins, Serve, InFlight
    <2>2. CASE ExchangeSucceeds
      BY <2>2 DEF ExchangeSucceeds, Serve, InFlight
    <2>3. CASE ExchangeFails
      BY <2>3 DEF ExchangeFails, Serve, FailedToken, FailedAnswer, InFlight
    <2>4. CASE ExchangeCancelled
      BY <2>4 DEF ExchangeCancelled, Serve, InFlight
    <2> QED BY <1>3, <2>1, <2>2, <2>3, <2>4 DEF Exchange
  <1>4. CASE Renewal
    <2>1. CASE RenewalWakes
      BY <2>1 DEF Flags, Drainer, RenewalWakes, RenewalEnds, Enqueue, TrustFailure, Drain, HasSession, InFlight
    <2>2. CASE Renewed
      BY <2>2 DEF Flags, Drainer, Renewed, RenewalLoops, RenewalEnds, Sleep, Answered, TrustFailure, Drain,
         HasSession, InFlight
    <2>3. CASE BackoffEnds
      BY <2>3 DEF BackoffEnds, RenewalLoops, RenewalEnds, Sleep, HasSession, InFlight
    <2>4. CASE RenewalFailed
      BY <2>4 DEF RenewalFailed, RenewalEnds, InFlight
    <2> QED BY <1>4, <2>1, <2>2, <2>3, <2>4 DEF Renewal
  <1>5. CASE Closing
    <2>1. CASE CloseTrust
      BY <2>1 DEF Flags, Drainer, CloseTrust, TrustClose, InFlight
    <2>2. CASE DrainConnection
      BY <2>2 DEF DrainConnection, InFlight
    <2>3. CASE ConnectionClosed
      BY <2>3 DEF ConnectionClosed, InFlight
    <2>4. CASE Closed
      BY <2>4 DEF Closed, InFlight
    <2>5. CASE CloseResumes
      BY <2>5 DEF CloseResumes, InFlight
    <2> QED BY <1>5, <2>1, <2>2, <2>3, <2>4, <2>5 DEF Closing
  <1>6. CASE Close
    BY <1>6 DEF StartOK, Close, TrustClose, CloseResources, Drain, InFlight
  <1>7. CASE Start \/ LateConnection
    BY <1>7 DEF Start, LateConnection, InFlight, InFlight
  <1>8. CASE Disconnect \/ Reconnect
    BY <1>8 DEF Disconnect, Notify, Reconnect, InFlight, InFlight
  <1>9. CASE Tick
    BY <1>9 DEF Tick, HasSession, InFlight
  <1>10. CASE \E d \in Drainer : DrainDone(d)
    BY <1>10 DEF DrainDone, InFlight, Flags, Drainer
  <1>11. ASSUME NEW j \in Job, Deliver(j) PROVE ShutdownOK'
    <2>1. CASE closer \in {"none", "drain"}
      BY <1>11, <2>1 DEF Deliver
    <2>2. CASE mode = "warn"
      BY <1>11, <2>2 DEF Deliver
    <2>3. CASE closer \in {"trust", "connection", "store", "done"} /\ mode # "warn"
      <3>1. mode \in {"off", "enforce"} /\ ~subs /\ ~draining["closer"] /\ token = 0
        BY <2>3, ConstantsAssumption DEF Places, StartOK, LifecycleOK
      <3>2. mode = "enforce"
        BY <1>11, <3>1 DEF Deliver, Draining, Drainer, LifecycleOK
      <3>3. job' = [job EXCEPT ![j] = "refused"]
        BY <1>11, <3>1, <3>2 DEF Deliver, Admissible, HasSession
      <3>4. InFlight' = {}
        BY <2>3, <3>3 DEF InFlight, Queues
      <3> QED BY <1>11, <2>3, <3>4 DEF Deliver
    <2> QED BY <2>1, <2>2, <2>3 DEF Places
  <1>12. ASSUME NEW j \in Job, Message(j) PROVE ShutdownOK'
    <2>1. InFlight' \subseteq InFlight
      BY <1>12 DEF InFlight, Message, ReplayAnswers, HandlerReturns, Queues
    <2> QED BY <1>12, <2>1 DEF Message, ReplayAnswers, HandlerReturns
  <1>13. CASE UNCHANGED vars
    BY <1>13 DEF vars, InFlight
  <1> QED BY <1>1, <1>2, <1>3, <1>4, <1>5, <1>6, <1>7, <1>8, <1>9, <1>10, <1>11, <1>12, <1>13
          DEF Next

ShutdownInv == TypeInv /\ StartOK /\ LifecycleOK /\ ShutdownOK

LEMMA InitShutdown == Init => ShutdownInv
  <1>1. Init => StartOK /\ LifecycleOK /\ ShutdownOK
    BY DEF Init, StartOK, LifecycleOK, ShutdownOK, Drainer
  <1> QED BY <1>1, InitType DEF ShutdownInv

LEMMA NextShutdown == ShutdownInv /\ [Next]_vars => ShutdownInv'
  BY NextType, StartOKStep, LifecycleOKStep, ShutdownOKStep DEF ShutdownInv, TypeInv

(* close() of runtime.ts: from the moment closeResources has closed the trust *)
(* lifecycle and waited for the renewal loop, nothing the agent had under way *)
(* holds a session, a subscription or, unless it only warns, a handler.       *)
THEOREM QuietWhenClosed == Spec => []ClosedIsQuiet
  <1>1. ShutdownInv => ClosedIsQuiet
    BY ZenonT(60) DEF ShutdownInv, StartOK, LifecycleOK, ShutdownOK, ClosedIsQuiet, TypeInv, Places
  <1> QED BY <1>1, InitShutdown, NextShutdown, PTL DEF Spec
-----------------------------------------------------------------------------
(* Reconnects.                                                               *)

LEMMA WatchOKStep == Places /\ StartOK /\ WatchOK /\ [Next]_vars => WatchOK'
  <1> SUFFICES ASSUME Places, StartOK, WatchOK, [Next]_vars PROVE WatchOK'
    OBVIOUS
  <1> USE DEF WatchOK, StartOK, agent, transport, status, intake, session, exchange
  <1>1. CASE Startup
    <2>1. CASE ConnectSucceeds
      BY <2>1 DEF ConnectSucceeds
    <2>2. CASE ConnectFails
      BY <2>2 DEF ConnectFails, StartFails, CloseResources, Drain
    <2>3. CASE Connected
      BY <2>3 DEF Connected, StartFails, CloseResources, Drain, Enqueue, Continuous
    <2>4. CASE Authenticated
      BY <2>4 DEF Authenticated, StartFails, CloseResources, Drain, Answered, Continuous
    <2>5. CASE Started
      BY <2>5 DEF Started, StartFails, CloseResources, Drain, StartRenewal, Sleep, Continuous
    <2> QED BY <1>1, <2>1, <2>2, <2>3, <2>4, <2>5 DEF Startup
  <1>2. CASE Watch
    <2>1. CASE WatchEnds
      BY <2>1 DEF WatchEnds
    <2>2. CASE WatchDisconnect
      BY <2>2 DEF WatchDisconnect
    <2>3. CASE WatchReconnect
      BY <2>3 DEF WatchReconnect, TrustFailure, Drain
    <2>4. CASE Reauthenticate
      BY <2>4 DEF Reauthenticate, ReauthFails, TrustFailure, Drain, Enqueue
    <2>5. CASE Reauthenticated
      BY <2>5 DEF Reauthenticated, ReauthFails, TrustFailure, Drain, Answered
    <2>6. CASE Resumed
      BY <2>6 DEF Resumed, ReauthFails, TrustFailure, Drain, StartRenewal, Sleep
    <2>7. CASE ReauthFailed
      BY <2>7 DEF ReauthFailed
    <2> QED BY <1>2, <2>1, <2>2, <2>3, <2>4, <2>5, <2>6, <2>7 DEF Watch
  <1>3. CASE Exchange
    <2>1. CASE ExchangeBegins
      BY <2>1 DEF ExchangeBegins, Serve
    <2>2. CASE ExchangeSucceeds
      BY <2>2 DEF ExchangeSucceeds, Serve
    <2>3. CASE ExchangeFails
      BY <2>3 DEF ExchangeFails, Serve, FailedToken, FailedAnswer
    <2>4. CASE ExchangeCancelled
      BY <2>4 DEF ExchangeCancelled, Serve
    <2> QED BY <1>3, <2>1, <2>2, <2>3, <2>4 DEF Exchange
  <1>4. CASE Renewal
    <2>1. CASE RenewalWakes
      BY <2>1 DEF RenewalWakes, RenewalEnds, Enqueue, TrustFailure, Drain
    <2>2. CASE Renewed
      BY <2>2 DEF Renewed, RenewalLoops, RenewalEnds, Sleep, Answered, TrustFailure, Drain
    <2>3. CASE BackoffEnds
      BY <2>3 DEF BackoffEnds, RenewalLoops, RenewalEnds, Sleep
    <2>4. CASE RenewalFailed
      BY <2>4 DEF RenewalFailed, RenewalEnds
    <2> QED BY <1>4, <2>1, <2>2, <2>3, <2>4 DEF Renewal
  <1>5. CASE Closing
    <2>1. CASE CloseTrust
      BY <2>1 DEF CloseTrust, TrustClose
    <2>2. CASE DrainConnection
      BY <2>2 DEF DrainConnection
    <2>3. CASE ConnectionClosed
      BY <2>3 DEF ConnectionClosed
    <2>4. CASE Closed
      BY <2>4 DEF Closed
    <2>5. CASE CloseResumes
      BY <2>5 DEF CloseResumes
    <2> QED BY <1>5, <2>1, <2>2, <2>3, <2>4, <2>5 DEF Closing
  <1>6. CASE Close
    BY <1>6 DEF Close, TrustClose, CloseResources, Drain
  <1>7. CASE Start \/ LateConnection
    BY <1>7 DEF Start, LateConnection
  <1>8. CASE Disconnect \/ Reconnect
    BY <1>8 DEF Disconnect, Notify, Reconnect, Quiet, StartReady
  <1>9. CASE Tick
    BY <1>9 DEF Tick, HasSession
  <1>10. CASE \E d \in Drainer : DrainDone(d)
    BY <1>10 DEF DrainDone
  <1>11. CASE \E j \in Job : Deliver(j) \/ Message(j)
    BY <1>11 DEF Deliver, Message, ReplayAnswers, HandlerReturns
  <1>12. CASE UNCHANGED vars
    BY <1>12 DEF vars
  <1> QED BY <1>1, <1>2, <1>3, <1>4, <1>5, <1>6, <1>7, <1>8, <1>9, <1>10, <1>11, <1>12 DEF Next

LEMMA LineEnqueue ==
    ASSUME Queues, LineOK, NEW c \in Caller, Enqueue(c), begun' = begun,
           IF c = "watcher" THEN watcher # "issue" /\ watcher' = "issue" ELSE watcher' = watcher
    PROVE  LineOK'
  <1> USE DEF Queues, Enqueue
  <1>1. /\ Len(queue') = Len(queue) + 1 /\ queue'[Len(queue) + 1] = c /\ queue' # <<>>
        /\ \A i \in 1..Len(queue) : queue'[i] = queue[i]
    OBVIOUS
  <1>2. answer'[c] = "none" /\ \A d \in Caller : d # c => answer'[d] = answer[d]
    OBVIOUS
  <1>3. \A i \in 1..Len(queue') : i \in 1..Len(queue) \/ i = Len(queue) + 1
    BY <1>1
  <1>4. CASE c = "watcher"
    BY <1>1, <1>2, <1>3, <1>4 DEF LineOK
  <1>5. CASE c # "watcher"
    BY <1>1, <1>2, <1>3, <1>5 DEF LineOK, Caller
  <1> QED BY <1>4, <1>5

LEMMA LineServe ==
    ASSUME Queues, LineOK, queue # <<>>, NEW o, Serve(Head(queue), o), watcher' = watcher
    PROVE  LineOK'
  BY DEF Queues, LineOK, Serve, Caller

LEMMA LineOKStep == Queues /\ StartOK /\ LifecycleOK /\ WatchOK /\ LineOK /\ [Next]_vars => LineOK'
  <1> SUFFICES ASSUME Queues, StartOK, LifecycleOK, WatchOK, LineOK, [Next]_vars PROVE LineOK'
    OBVIOUS
  <1> USE DEF LineOK, Queues, Caller, agent, transport, status, intake, session, exchange
  <1>1. CASE Startup
    <2>1. CASE ConnectSucceeds
      BY <2>1 DEF ConnectSucceeds
    <2>2. CASE ConnectFails
      BY <2>2 DEF ConnectFails, StartFails, CloseResources, Drain
    <2>3. CASE Connected
      <3>1. CASE Enqueue("start")
        <4>1. queue = <<>>
          BY <2>3 DEF Connected, StartOK, WatchOK, LifecycleOK
        <4>2. queue' = <<"start">>
          BY <3>1, <4>1 DEF Enqueue
        <4> QED BY <2>3, <4>1, <4>2 DEF Connected
      <3>2. CASE UNCHANGED <<queue, answer, watcher>>
        BY <2>3, <3>2 DEF Connected
      <3> QED BY <2>3, <3>1, <3>2 DEF Connected
    <2>4. CASE Authenticated
      BY <2>4 DEF Authenticated, StartFails, CloseResources, Drain, Answered
    <2>5. CASE Started
      BY <2>5 DEF Started, StartFails, CloseResources, Drain, StartRenewal, Sleep
    <2> QED BY <1>1, <2>1, <2>2, <2>3, <2>4, <2>5 DEF Startup
  <1>2. CASE Watch
    <2>1. CASE WatchEnds
      BY <2>1 DEF WatchEnds
    <2>2. CASE WatchDisconnect
      BY <2>2 DEF WatchDisconnect
    <2>3. CASE WatchReconnect
      BY <2>3 DEF WatchReconnect, TrustFailure, Drain
    <2>4. CASE Reauthenticate
      <3>1. CASE Enqueue("watcher") /\ watcher' = "issue"
        BY <2>4, <3>1, LineEnqueue DEF Reauthenticate
      <3>2. CASE UNCHANGED <<queue, answer>>
        BY <2>4, <3>2 DEF Reauthenticate
      <3> QED BY <2>4, <3>1, <3>2, ZenonT(60) DEF Reauthenticate
    <2>5. CASE Reauthenticated
      BY <2>5 DEF Reauthenticated, ReauthFails, TrustFailure, Drain, Answered
    <2>6. CASE Resumed
      BY <2>6 DEF Resumed, ReauthFails, TrustFailure, Drain, StartRenewal, Sleep
    <2>7. CASE ReauthFailed
      BY <2>7 DEF ReauthFailed
    <2> QED BY <1>2, <2>1, <2>2, <2>3, <2>4, <2>5, <2>6, <2>7 DEF Watch
  <1>3. CASE Exchange
    <2>1. CASE ExchangeBegins
      <3>1. CASE UNCHANGED <<queue, answer>>
        BY <2>1, <3>1 DEF ExchangeBegins
      <3>2. CASE Serve(Head(queue), "session") \/ Serve(Head(queue), "error")
        BY <2>1, <3>2, LineServe DEF ExchangeBegins
      <3> QED BY <2>1, <3>1, <3>2 DEF ExchangeBegins
    <2>2. CASE ExchangeSucceeds
      BY <2>2 DEF ExchangeSucceeds, Serve
    <2>3. CASE ExchangeFails
      BY <2>3 DEF ExchangeFails, Serve, FailedToken, FailedAnswer
    <2>4. CASE ExchangeCancelled
      BY <2>4 DEF ExchangeCancelled, Serve
    <2> QED BY <1>3, <2>1, <2>2, <2>3, <2>4 DEF Exchange
  <1>4. CASE Renewal
    <2>1. CASE RenewalWakes
      <3>1. CASE Enqueue("renewal")
        BY <2>1, <3>1, LineEnqueue DEF RenewalWakes
      <3>2. CASE UNCHANGED <<queue, answer>>
        BY <2>1, <3>2 DEF RenewalWakes
      <3> QED BY <2>1, <3>1, <3>2, ZenonT(60) DEF RenewalWakes
    <2>2. CASE Renewed
      BY <2>2 DEF Renewed, RenewalLoops, RenewalEnds, Sleep, Answered, TrustFailure, Drain
    <2>3. CASE BackoffEnds
      BY <2>3 DEF BackoffEnds, RenewalLoops, RenewalEnds, Sleep
    <2>4. CASE RenewalFailed
      BY <2>4 DEF RenewalFailed, RenewalEnds
    <2> QED BY <1>4, <2>1, <2>2, <2>3, <2>4 DEF Renewal
  <1>5. CASE Closing
    <2>1. CASE CloseTrust
      BY <2>1 DEF CloseTrust, TrustClose
    <2>2. CASE DrainConnection
      BY <2>2 DEF DrainConnection
    <2>3. CASE ConnectionClosed
      BY <2>3 DEF ConnectionClosed
    <2>4. CASE Closed
      BY <2>4 DEF Closed
    <2>5. CASE CloseResumes
      BY <2>5 DEF CloseResumes
    <2> QED BY <1>5, <2>1, <2>2, <2>3, <2>4, <2>5 DEF Closing
  <1>6. CASE Close
    BY <1>6 DEF Close, TrustClose, CloseResources, Drain
  <1>7. CASE Start \/ LateConnection
    BY <1>7 DEF Start, LateConnection
  <1>8. CASE Disconnect \/ Reconnect
    BY <1>8 DEF Disconnect, Notify, Reconnect
  <1>9. CASE Tick
    BY <1>9 DEF Tick, HasSession
  <1>10. CASE \E d \in Drainer : DrainDone(d)
    BY <1>10, ZenonT(60) DEF DrainDone
  <1>11. CASE \E j \in Job : Deliver(j) \/ Message(j)
    BY <1>11 DEF Deliver, Message, ReplayAnswers, HandlerReturns
  <1>12. CASE UNCHANGED vars
    BY <1>12 DEF vars
  <1> QED BY <1>1, <1>2, <1>3, <1>4, <1>5, <1>6, <1>7, <1>8, <1>9, <1>10, <1>11, <1>12 DEF Next

LEMMA Shifted ==
    ASSUME NEW E, NEW s \in Seq(E), NEW t \in Seq(E), s # <<>>, Len(t) = Len(s) - 1,
           \A i \in 1..(Len(s) - 1) : t[i] = s[i + 1],
           \A i \in 1..(Len(s) - 1) : s[i] # s[i + 1]
    PROVE  /\ \A i \in 1..(Len(t) - 1) : t[i] # t[i + 1]
           /\ t # <<>> => t[Len(t)] = s[Len(s)] /\ Head(t) # Head(s) /\ Head(t) \in E
           /\ t = <<>> => s[Len(s)] = Head(s)
  <1>1. Len(s) \in Nat \ {0} /\ Len(t) \in Nat
    OBVIOUS
  <1>2. ASSUME NEW i \in 1..(Len(t) - 1) PROVE t[i] # t[i + 1]
    <2>1. t[i] = s[i + 1] /\ t[i + 1] = s[i + 2] /\ i + 1 \in 1..(Len(s) - 1)
      BY <1>1
    <2> QED BY <2>1
  <1>3. CASE t # <<>>
    <2>1. Len(s) >= 2 /\ Head(t) = t[1] /\ Head(s) = s[1]
      BY <1>1, <1>3
    <2>2. t[1] = s[2] /\ s[1] # s[2] /\ s[2] \in E
      BY <2>1
    <2>3. t[Len(t)] = s[Len(s)]
      BY <1>1, <2>1
    <2> QED BY <1>2, <1>3, <2>1, <2>2, <2>3
  <1>4. CASE t = <<>>
    <2>1. Len(s) = 1 /\ Head(s) = s[1]
      BY <1>1, <1>4
    <2> QED BY <1>2, <1>4, <2>1
  <1> QED BY <1>3, <1>4

LEMMA Alternates ==
    ASSUME NEW s \in Seq({"disconnect", "reconnect"}), s # <<>>,
           \A i \in 1..(Len(s) - 1) : s[i] # s[i + 1]
    PROVE  /\ \A i \in 1..(Len(Tail(s)) - 1) : Tail(s)[i] # Tail(s)[i + 1]
           /\ Tail(s) # <<>> => /\ Tail(s)[Len(Tail(s))] = s[Len(s)]
                               /\ Head(Tail(s)) # Head(s)
                               /\ Head(Tail(s)) \in {"disconnect", "reconnect"}
           /\ Tail(s) = <<>> => s[Len(s)] = Head(s)
  <1>1. /\ Len(Tail(s)) = Len(s) - 1 /\ Tail(s) \in Seq({"disconnect", "reconnect"})
        /\ \A i \in 1..(Len(s) - 1) : Tail(s)[i] = s[i + 1]
    OBVIOUS
  <1> DEFINE t == Tail(s)
  <1>2. /\ t \in Seq({"disconnect", "reconnect"}) /\ Len(t) = Len(s) - 1
        /\ \A i \in 1..(Len(s) - 1) : t[i] = s[i + 1]
    BY <1>1
  <1> SUFFICES /\ \A i \in 1..(Len(t) - 1) : t[i] # t[i + 1]
               /\ t # <<>> => /\ t[Len(t)] = s[Len(s)] /\ Head(t) # Head(s)
                              /\ Head(t) \in {"disconnect", "reconnect"}
               /\ t = <<>> => s[Len(s)] = Head(s)
    OBVIOUS
  <1> HIDE DEF t
  <1> QED BY <1>2, Shifted

LEMMA AlternatesAppend ==
    ASSUME NEW s \in Seq({"disconnect", "reconnect"}), NEW e \in {"disconnect", "reconnect"},
           \A i \in 1..(Len(s) - 1) : s[i] # s[i + 1],
           s # <<>> => s[Len(s)] # e
    PROVE  /\ \A i \in 1..(Len(Append(s, e)) - 1) : Append(s, e)[i] # Append(s, e)[i + 1]
           /\ Append(s, e)[Len(Append(s, e))] = e /\ Append(s, e) # <<>>
           /\ Head(Append(s, e)) = IF s = <<>> THEN e ELSE Head(s)
  <1>1. /\ Len(Append(s, e)) = Len(s) + 1 /\ Append(s, e)[Len(s) + 1] = e
        /\ \A i \in 1..Len(s) : Append(s, e)[i] = s[i]
    OBVIOUS
  <1>2. ASSUME NEW i \in 1..Len(s) PROVE Append(s, e)[i] # Append(s, e)[i + 1]
    <2>1. CASE i = Len(s)
      BY <1>1, <2>1
    <2>2. CASE i # Len(s)
      BY <1>1, <2>2
    <2> QED BY <2>1, <2>2
  <1>3. Head(Append(s, e)) = IF s = <<>> THEN e ELSE Head(s)
    BY <1>1
  <1>4. \A i \in 1..(Len(Append(s, e)) - 1) : i \in 1..Len(s)
    BY <1>1
  <1>5. Append(s, e)[Len(Append(s, e))] = e
    BY <1>1
  <1>6. Append(s, e) # <<>>
    BY <1>1
  <1> QED BY <1>2, <1>3, <1>4, <1>5, <1>6, ZenonT(60)

LEMMA EventsOKStep == Flags /\ Queues /\ StartOK /\ WatchOK /\ EventsOK /\ [Next]_vars => EventsOK'
  <1> SUFFICES ASSUME Flags, Queues, StartOK, WatchOK, EventsOK, [Next]_vars PROVE EventsOK'
    OBVIOUS
  <1> USE DEF EventsOK, agent, transport, status, intake, session, exchange
  <1>1. CASE Startup
    <2>1. CASE ConnectSucceeds
      BY <2>1 DEF ConnectSucceeds, WatchOK, StartOK
    <2>2. CASE ConnectFails
      BY <2>2, ZenonT(60) DEF ConnectFails, StartFails, CloseResources, Drain
    <2>3. CASE Connected
      BY <2>3 DEF Connected, StartFails, CloseResources, Drain, Enqueue, WatchOK, StartOK
    <2>4. CASE Authenticated
      BY <2>4 DEF Authenticated, StartFails, CloseResources, Drain, Answered
    <2>5. CASE Started
      BY <2>5, ZenonT(60) DEF Started, StartFails, CloseResources, Drain, StartRenewal, Sleep
    <2> QED BY <1>1, <2>1, <2>2, <2>3, <2>4, <2>5 DEF Startup
  <1>2. CASE Watch
    <2>1. CASE WatchEnds
      BY <2>1 DEF WatchEnds, WatchOK
    <2>2. CASE WatchDisconnect
      BY <2>2 DEF WatchDisconnect
    <2>3. CASE WatchReconnect
      <3> SUFFICES ASSUME closer = "none" PROVE EventsOK'
        BY <2>3 DEF WatchReconnect
      <3>1. events # <<>> /\ Head(events) = "reconnect" /\ events' = Tail(events) /\ up' = up
        BY <2>3 DEF WatchReconnect
      <3>2. watcher' \in {"next", "drain"} /\ closer' = closer
        BY <2>3 DEF WatchReconnect
      <3> QED BY <3>1, <3>2, Alternates DEF Queues
    <2>4. CASE Reauthenticate
      BY <2>4 DEF Reauthenticate, ReauthFails, TrustFailure, Drain, Enqueue
    <2>5. CASE Reauthenticated
      BY <2>5 DEF Reauthenticated, ReauthFails, TrustFailure, Drain, Answered
    <2>6. CASE Resumed
      BY <2>6 DEF Resumed, ReauthFails, TrustFailure, Drain, StartRenewal, Sleep
    <2>7. CASE ReauthFailed
      BY <2>7 DEF ReauthFailed
    <2> QED BY <1>2, <2>1, <2>2, <2>3, <2>4, <2>5, <2>6, <2>7 DEF Watch
  <1>3. CASE Exchange
    <2>1. CASE ExchangeBegins
      BY <2>1 DEF ExchangeBegins, Serve
    <2>2. CASE ExchangeSucceeds
      BY <2>2 DEF ExchangeSucceeds, Serve
    <2>3. CASE ExchangeFails
      BY <2>3 DEF ExchangeFails, Serve, FailedToken, FailedAnswer
    <2>4. CASE ExchangeCancelled
      BY <2>4 DEF ExchangeCancelled, Serve
    <2> QED BY <1>3, <2>1, <2>2, <2>3, <2>4 DEF Exchange
  <1>4. CASE Renewal
    <2>1. CASE RenewalWakes
      BY <2>1, ZenonT(60) DEF RenewalWakes, RenewalEnds, Enqueue, TrustFailure, Drain
    <2>2. CASE Renewed
      BY <2>2 DEF Renewed, RenewalLoops, RenewalEnds, Sleep, Answered, TrustFailure, Drain
    <2>3. CASE BackoffEnds
      BY <2>3 DEF BackoffEnds, RenewalLoops, RenewalEnds, Sleep
    <2>4. CASE RenewalFailed
      BY <2>4 DEF RenewalFailed, RenewalEnds
    <2> QED BY <1>4, <2>1, <2>2, <2>3, <2>4 DEF Renewal
  <1>5. CASE Closing
    <2>1. CASE CloseTrust
      BY <2>1 DEF CloseTrust, TrustClose
    <2>2. CASE DrainConnection
      BY <2>2 DEF DrainConnection
    <2>3. CASE ConnectionClosed
      BY <2>3 DEF ConnectionClosed
    <2>4. CASE Closed
      BY <2>4 DEF Closed
    <2>5. CASE CloseResumes
      BY <2>5 DEF CloseResumes
    <2> QED BY <1>5, <2>1, <2>2, <2>3, <2>4, <2>5 DEF Closing
  <1>6. CASE Close
    BY <1>6 DEF Close, TrustClose, CloseResources, Drain
  <1>7. CASE Start \/ LateConnection
    BY <1>7 DEF Start, LateConnection
  <1>8. CASE Disconnect \/ Reconnect
    <2> SUFFICES ASSUME closer = "none" PROVE EventsOK'
      BY <1>8 DEF Disconnect, Reconnect
    <2>1. UNCHANGED <<watcher, closer>>
      BY <1>8 DEF Disconnect, Reconnect
    <2>2. CASE watcher = "none"
      BY <1>8, <2>1, <2>2 DEF Disconnect, Reconnect, Notify
    <2>3. CASE watcher # "none"
      <3>1. watcher # "done"
        BY <2>3 DEF WatchOK
      <3>2. CASE Disconnect
        <4>1. up /\ up' = FALSE /\ events' = Append(events, "disconnect")
          BY <2>3, <3>1, <3>2 DEF Disconnect, Notify
        <4>2. events # <<>> => events[Len(events)] # "disconnect"
          BY <4>1
        <4> QED BY <2>1, <2>3, <4>1, <4>2, AlternatesAppend DEF Queues
      <3>3. CASE Reconnect
        <4>1. ~up /\ up' = TRUE /\ events' = Append(events, "reconnect")
          BY <2>3, <3>1, <3>3 DEF Reconnect, Notify
        <4>2. events # <<>> => events[Len(events)] # "reconnect"
          BY <4>1
        <4> QED BY <2>1, <2>3, <4>1, <4>2, AlternatesAppend DEF Queues
      <3> QED BY <1>8, <3>2, <3>3
    <2> QED BY <2>2, <2>3
  <1>9. CASE Tick
    BY <1>9 DEF Tick, HasSession
  <1>10. CASE \E d \in Drainer : DrainDone(d)
    BY <1>10 DEF DrainDone
  <1>11. CASE \E j \in Job : Deliver(j) \/ Message(j)
    BY <1>11 DEF Deliver, Message, ReplayAnswers, HandlerReturns
  <1>12. CASE UNCHANGED vars
    BY <1>12, ZenonT(60) DEF vars
  <1> QED BY <1>1, <1>2, <1>3, <1>4, <1>5, <1>6, <1>7, <1>8, <1>9, <1>10, <1>11, <1>12 DEF Next

(* FreshOK is about the agent, the transport, the watcher and the exchange:   *)
(* a step that leaves these alone keeps it.                                   *)
LEMMA FreshSame ==
    ASSUME FreshOK,
           UNCHANGED <<agent, up, epoch, status, start, watcher, closer, admitting, session,
                       exchange, answer>>
    PROVE  FreshOK'
  BY ZenonT(60) DEF FreshOK, FreshOrTold, Fresh, agent, status, session, exchange

LEMMA FreshOKStep ==
    /\ Flags /\ Places /\ Queues /\ StartOK /\ LifecycleOK
    /\ WatchOK /\ EventsOK /\ LineOK /\ FreshOK /\ [Next]_vars
    => FreshOK'
  <1> SUFFICES ASSUME Flags, Places, Queues, StartOK, LifecycleOK, WatchOK, EventsOK, LineOK,
                      FreshOK, [Next]_vars
               PROVE  FreshOK'
    BY ZenonT(60)
  <1> USE DEF FreshOK, FreshOrTold, Fresh, Caller, agent, transport, status, intake, session,
      exchange
  <1>1. CASE Startup
    <2>1. CASE ConnectSucceeds
      BY <2>1, ZenonT(60) DEF ConnectSucceeds, WatchOK, StartOK
    <2>2. CASE ConnectFails
      BY <2>2 DEF ConnectFails, StartFails, CloseResources, Drain, WatchOK, StartOK
    <2>3. CASE Connected
      <3> SUFFICES ASSUME closer' = "none", mode' = "enforce" PROVE FreshOK'
        OBVIOUS
      <3>1. closer = "none" /\ start = "connected" /\ watcher = "none" /\ ~admitting
        BY <2>3 DEF Connected, StartOK, WatchOK
      <3>2. up /\ events = <<>> /\ token = 0 /\ begun = 0
        BY <3>1 DEF WatchOK, EventsOK, LifecycleOK, LineOK
      <3>3. /\ mode = "enforce" /\ start' = "auth" /\ watcher' = "next" /\ admitting' = admitting
            /\ UNCHANGED <<up, epoch, events, token, begun>> /\ Enqueue("start")
        BY <2>3 DEF Connected, StartFails, CloseResources
      <3>4. \A c \in Caller : answer'[c] # "tokenless"
        BY <3>1, <3>3 DEF Enqueue, Queues
      <3> QED BY <3>1, <3>2, <3>3, <3>4, ZenonT(60)
    <2>4. CASE Authenticated
      <3> SUFFICES ASSUME closer' = "none", mode' = "enforce" PROVE FreshOK'
        OBVIOUS
      <3>1. /\ mode = "enforce" /\ start = "auth" /\ start' = "handshake" /\ Continuous /\ closer = "none"
            /\ UNCHANGED <<up, epoch, events, token, begun, watcher, queue>> /\ Answered("start")
        BY <2>4 DEF Authenticated, StartFails, CloseResources
      <3>2. \A c \in Caller : answer'[c] # "tokenless"
        BY <3>1, ZenonT(60) DEF Answered, Queues
      <3> QED BY <3>1, <3>2, ZenonT(60) DEF Continuous
    <2>5. CASE Started
      BY <2>5, ZenonT(60) DEF Started, StartFails, CloseResources, Drain, StartRenewal, Sleep, WatchOK,
         StartOK
    <2> QED BY <1>1, <2>1, <2>2, <2>3, <2>4, <2>5, ZenonT(60) DEF Startup
  <1>2. CASE Watch
    <2>1. CASE WatchEnds
      BY <2>1 DEF WatchEnds, WatchOK, StartOK
    <2>2. CASE WatchDisconnect
      BY <2>2, ZenonT(60) DEF WatchDisconnect, WatchOK, StartOK
    <2>3. CASE WatchReconnect
      BY <2>3 DEF WatchReconnect, TrustFailure, Drain, WatchOK, StartOK
    <2>4. CASE Reauthenticate
      <3> SUFFICES ASSUME closer' = "none", mode' = "enforce" PROVE FreshOK'
        OBVIOUS
      <3>1. /\ mode = "enforce" /\ closer = "none" /\ watcher = "drain" /\ token' = 0
            /\ UNCHANGED <<start, state, interrupted, up, epoch, events, begun>>
        BY <2>4 DEF Reauthenticate
      <3>2. start \notin {"auth", "handshake"}
        BY <3>1
      <3>3. CASE Enqueue("watcher") /\ watcher' = "issue" /\ admitting' = FALSE
        <4>1. answer'["watcher"] = "none" /\ \A c \in Caller : answer'[c] # "tokenless"
          BY <3>1, <3>3 DEF Enqueue, Queues
        <4>2. begun # 0 => Head(queue') # "watcher"
          BY <3>1, <3>3 DEF Enqueue, Queues, LineOK
        <4> QED BY <3>1, <3>2, <3>3, <4>1, <4>2
      <3>4. CASE UNCHANGED answer /\ watcher' = "failing" /\ admitting' = FALSE
        BY <3>1, <3>2, <3>4, ZenonT(60)
      <3> QED BY <2>4, <3>1, <3>3, <3>4, ZenonT(60) DEF Reauthenticate, ReauthFails, TrustFailure
    <2>5. CASE Reauthenticated
      <3> SUFFICES ASSUME closer' = "none", mode' = "enforce" PROVE FreshOK'
        OBVIOUS
      <3>1. /\ mode = "enforce" /\ closer = "none" /\ watcher = "issue" /\ Answered("watcher")
            /\ UNCHANGED <<start, state, interrupted, up, epoch, events, token, begun, queue>>
        BY <2>5 DEF Reauthenticated
      <3>2. start \notin {"auth", "handshake"} /\ \A c \in Caller : answer'[c] # "tokenless"
        BY <3>1, ZenonT(60) DEF Answered, Queues
      <3>3. CASE answer["watcher"] = "error"
        BY <2>5, <3>1, <3>2, <3>3, ZenonT(60) DEF Reauthenticated, ReauthFails, TrustFailure
      <3>4. CASE answer["watcher"] = "session"
        <4>1. FreshOrTold
          BY <3>1, <3>4
        <4>2. admitting' => watcher' \in {"next", "handshake"}
          BY <2>5, <3>4, ZenonT(60) DEF Reauthenticated
        <4> QED BY <3>1, <3>2, <4>1, <4>2, <2>5 DEF Reauthenticated
      <3> QED BY <2>5, <3>1, <3>3, <3>4 DEF Reauthenticated, Queues
    <2>6. CASE Resumed
      BY <2>6, ZenonT(60) DEF Resumed, ReauthFails, TrustFailure, Drain, StartRenewal, Sleep, WatchOK,
         StartOK
    <2>7. CASE ReauthFailed
      BY <2>7, ZenonT(60) DEF ReauthFailed, WatchOK, StartOK
    <2> QED BY <1>2, <2>1, <2>2, <2>3, <2>4, <2>5, <2>6, <2>7, ZenonT(60) DEF Watch
  <1>3. CASE Exchange
    <2>1. CASE ExchangeBegins
      <3> SUFFICES ASSUME closer' = "none", mode' = "enforce" PROVE FreshOK'
        OBVIOUS
      <3>1. /\ mode = "enforce" /\ closer = "none" /\ begun' \in {0, epoch} /\ token' \in {0, token}
            /\ UNCHANGED <<start, state, interrupted, up, epoch, events, watcher, admitting>>
        BY <2>1, ZenonT(60) DEF ExchangeBegins, Serve
      <3>2. answer'["watcher"] = answer["watcher"] /\ \A c \in Caller : answer'[c] # "tokenless"
        BY <2>1, <3>1, ZenonT(60) DEF ExchangeBegins, Serve, Queues
      <3> QED BY <3>1, <3>2
    <2>2. CASE ExchangeSucceeds
      <3> SUFFICES ASSUME closer' = "none", mode' = "enforce" PROVE FreshOK'
        OBVIOUS
      <3>1. /\ mode = "enforce" /\ closer = "none" /\ Quiet /\ up /\ queue # <<>>
            /\ begun # 0 /\ token' = begun /\ begun' = 0
            /\ UNCHANGED <<start, state, interrupted, up, epoch, events, watcher, admitting>>
        BY <2>2, ZenonT(60) DEF ExchangeSucceeds, Serve
      <3>2. \A c \in Caller : answer'[c] # "tokenless"
        BY <2>2, <3>1 DEF ExchangeSucceeds, Serve, Queues
      <3>3. FreshOrTold => FreshOrTold'
        BY <3>1
      <3>4. watcher = "issue" /\ answer'["watcher"] = "session" => FreshOrTold'
        <4>1. watcher = "issue" => answer["watcher"] = "none"
          BY <3>1 DEF Quiet, WatcherReady
        <4>2. answer'["watcher"] # answer["watcher"] => Head(queue) = "watcher"
          BY <2>2, ZenonT(60) DEF ExchangeSucceeds, Serve, Queues
        <4> QED BY <3>1, <4>1, <4>2 DEF EventsOK
      <3> QED BY <3>1, <3>2, <3>3, <3>4
    <2>3. CASE ExchangeFails
      <3> SUFFICES ASSUME closer' = "none", mode' = "enforce" PROVE FreshOK'
        OBVIOUS
      <3>1. /\ UNCHANGED <<mode, state, up, epoch, status, start, watcher, closer, admitting>>
            /\ begun' = 0 /\ token' \in {0, token}
        BY <2>3, ZenonT(60) DEF ExchangeFails, Serve, FailedToken
      <3>2. \A c \in Caller : answer'[c] \in {answer[c], "error"}
        BY <2>3, <3>1 DEF ExchangeFails, Serve, FailedAnswer, Queues
      <3>3. "watcher" \in Caller
        OBVIOUS
      <3> QED BY <3>1, <3>2, <3>3
    <2>4. CASE ExchangeCancelled
      <3>1. /\ UNCHANGED <<mode, state, up, epoch, status, start, watcher, closer, admitting, token>>
            /\ begun' = 0
        BY <2>4, ZenonT(60) DEF ExchangeCancelled, Serve
      <3>2. \A c \in Caller : answer'[c] \in {answer[c], "error"}
        BY <2>4 DEF ExchangeCancelled, Serve, Queues
      <3>3. "watcher" \in Caller
        OBVIOUS
      <3> QED BY <3>1, <3>2, <3>3
    <2> QED BY <1>3, <2>1, <2>2, <2>3, <2>4, ZenonT(60) DEF Exchange
  <1>4. CASE Renewal
    <2>1. CASE RenewalWakes
      <3> SUFFICES ASSUME closer' = "none", mode' = "enforce" PROVE FreshOK'
        OBVIOUS
      <3>1. /\ mode = "enforce" /\ closer = "none" /\ token' \in {0, token} /\ admitting' \in {FALSE, admitting}
            /\ UNCHANGED <<start, state, interrupted, up, epoch, events, watcher, begun>>
        BY <2>1, ZenonT(60) DEF RenewalWakes, TrustFailure
      <3>2. CASE UNCHANGED <<queue, answer>>
        BY <3>1, <3>2, ZenonT(60)
      <3>3. CASE Enqueue("renewal")
        <4>1. answer'["watcher"] = answer["watcher"] /\ \A c \in Caller : answer'[c] # "tokenless"
          BY <3>1, <3>3 DEF Enqueue, Queues
        <4>2. begun # 0 => Head(queue') = Head(queue)
          BY <3>3 DEF Enqueue, Queues, LineOK
        <4> QED BY <3>1, <4>1, <4>2, ZenonT(60)
      <3> QED BY <2>1, <3>2, <3>3 DEF RenewalWakes
    <2>2. CASE Renewed
      BY <2>2 DEF Renewed, RenewalLoops, RenewalEnds, Sleep, Answered, TrustFailure, Drain
    <2>3. CASE BackoffEnds
      BY <2>3, ZenonT(60) DEF BackoffEnds, RenewalLoops, RenewalEnds, Sleep
    <2>4. CASE RenewalFailed
      BY <2>4, ZenonT(60) DEF RenewalFailed, RenewalEnds
    <2> QED BY <1>4, <2>1, <2>2, <2>3, <2>4 DEF Renewal
  <1>5. CASE Closing
    <2>1. CASE CloseTrust
      BY <2>1, ZenonT(60) DEF CloseTrust, TrustClose
    <2>2. CASE DrainConnection
      BY <2>2, ZenonT(60) DEF DrainConnection
    <2>3. CASE ConnectionClosed
      BY <2>3, ZenonT(60) DEF ConnectionClosed
    <2>4. CASE Closed
      BY <2>4, ZenonT(60) DEF Closed
    <2>5. CASE CloseResumes
      BY <2>5, ZenonT(60) DEF CloseResumes
    <2> QED BY <1>5, <2>1, <2>2, <2>3, <2>4, <2>5, ZenonT(60) DEF Closing
  <1>6. CASE Close
    BY <1>6, ZenonT(60) DEF Close, TrustClose, CloseResources, Drain, WatchOK, StartOK
  <1>7. CASE Start \/ LateConnection
    <2>1. CASE Start
      <3>1. closer' = "none" => watcher' = "none" /\ ~admitting' /\ start' = "connect"
        BY <2>1 DEF Start, WatchOK, StartOK
      <3>2. answer' = answer /\ mode' = mode /\ closer' = closer
        BY <2>1, ZenonT(60) DEF Start
      <3> QED BY <3>1, <3>2, ZenonT(60)
    <2>2. CASE LateConnection
      <3>1. UNCHANGED <<agent, up, epoch, status, start, watcher, closer, admitting, session,
                        exchange, answer>>
        BY <2>2, ZenonT(60) DEF LateConnection
      <3> QED BY <3>1, FreshSame
    <2> QED BY <1>7, <2>1, <2>2, ZenonT(60)
  <1>8. CASE Disconnect \/ Reconnect
    <2>1. CASE Disconnect
      <3>1. /\ UNCHANGED <<mode, state, epoch, interrupted, start, watcher, closer, admitting,
                           token, begun, queue, answer>>
            /\ up /\ Notify("disconnect")
        BY <2>1, ZenonT(60) DEF Disconnect
      <3>2. CASE watcher \in {"none", "done"}
        BY <3>1, <3>2 DEF Notify
      <3>3. CASE watcher \notin {"none", "done"}
        <4>1. events' # <<>> /\ Head(events') = IF events = <<>> THEN "disconnect" ELSE Head(events)
          BY <3>1, <3>3 DEF Notify, Queues
        <4> QED BY <3>1, <4>1, ZenonT(60)
      <3> QED BY <3>2, <3>3, ZenonT(60)
    <2>2. CASE Reconnect
      BY <2>2 DEF Reconnect, Notify, WatchOK, StartOK
    <2> QED BY <1>8, <2>1, <2>2, ZenonT(60)
  <1>9. CASE Tick
    BY <1>9, ZenonT(60) DEF Tick, HasSession
  <1>10. CASE \E d \in Drainer : DrainDone(d)
    <2>1. UNCHANGED <<agent, up, epoch, status, start, watcher, closer, admitting, session,
                      exchange, answer>>
      BY <1>10, ZenonT(60) DEF DrainDone
    <2> QED BY <2>1, FreshSame
  <1>11. CASE \E j \in Job : Deliver(j) \/ Message(j)
    <2>1. UNCHANGED <<agent, up, epoch, status, start, watcher, closer, admitting, session,
                      exchange, answer>>
      BY <1>11, ZenonT(60) DEF Deliver, Message, ReplayAnswers, HandlerReturns
    <2> QED BY <2>1, FreshSame
  <1>12. CASE UNCHANGED vars
    <2>1. UNCHANGED <<agent, up, epoch, status, start, watcher, closer, admitting, session,
                      exchange, answer>>
      BY <1>12, ZenonT(60) DEF vars
    <2> QED BY <2>1, FreshSame
  <1> QED BY <1>1, <1>2, <1>3, <1>4, <1>5, <1>6, <1>7, <1>8, <1>9, <1>10, <1>11, <1>12, ZenonT(60) DEF Next


FreshInv == ShutdownInv /\ WatchOK /\ EventsOK /\ LineOK /\ FreshOK

LEMMA InitFresh == Init => FreshInv
  <1>1. Init => WatchOK /\ EventsOK /\ LineOK
    BY DEF Init, WatchOK, EventsOK, LineOK
  <1>2. Init => FreshOK
    BY DEF Init, FreshOK, FreshOrTold, Caller
  <1> QED BY <1>1, <1>2, InitShutdown DEF FreshInv

LEMMA NextFresh == FreshInv /\ [Next]_vars => FreshInv'
  <1> SUFFICES ASSUME FreshInv, [Next]_vars PROVE FreshInv'
    OBVIOUS
  <1>1. /\ Flags /\ Places /\ Queues /\ StartOK /\ LifecycleOK
        /\ WatchOK /\ EventsOK /\ LineOK /\ FreshOK
    BY DEF FreshInv, ShutdownInv, TypeInv
  <1>2. ShutdownInv'
    BY NextShutdown DEF FreshInv
  <1> QED BY <1>1, <1>2, WatchOKStep, EventsOKStep, LineOKStep, FreshOKStep DEF FreshInv

(* The connection watcher and lifecycle.ts together: however disconnects,     *)
(* reconnects, renewals and reauthentications fall, an enforcing agent whose  *)
(* connection publishes synchronously admits a job only under a session it    *)
(* asked for on the transport the job came by.                                *)
THEOREM FreshAdmission == ~AsyncPublish => (Spec => []AdmitsOnThisTransport)
  <1> SUFFICES ASSUME ~AsyncPublish PROVE Spec => []AdmitsOnThisTransport
    OBVIOUS
  <1>1. FreshInv => AdmitsOnThisTransport
    <2> SUFFICES ASSUME FreshInv, mode = "enforce", closer = "none", Quiet, Admissible
                 PROVE token = epoch
      BY DEF AdmitsOnThisTransport
    <2>1. admitting /\ token # 0
      BY DEF Admissible, HasSession
    <2>2. watcher \in {"next", "handshake"} /\ FreshOrTold
      BY <2>1 DEF FreshInv, FreshOK
    <2>3. events = <<>>
      BY <2>2 DEF Quiet, WatcherReady
    <2> QED BY <2>1, <2>2, <2>3 DEF FreshOrTold, Fresh
  <1> QED BY <1>1, InitFresh, NextFresh, PTL DEF Spec
=============================================================================
