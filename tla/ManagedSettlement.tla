------------------------- MODULE ManagedSettlement -------------------------
(***************************************************************************)
(* How a Go ManagedWorker settles CAP-PRODUCTION jobs: JetStream delivers   *)
(* an input message, a goroutine admits it, claims it in the durable replay *)
(* store, runs the handler under a renewed lease, stores the outcome,       *)
(* publishes it, and acks, naks or terminates the input.                    *)
(*                                                                          *)
(* Time is a set of countdowns, one unit per Tick: a deadline D of the code *)
(* is the number of units left until D, and "D.After(now)" is "left > 0".   *)
(***************************************************************************)
EXTENDS Integers, FiniteSets

CONSTANTS
    Worker,          \* worker processes of one queue group
    Slot,            \* delivery goroutines that may exist at one time
    WorkerOf,        \* [Slot -> Worker]: the process a goroutine runs in
    Msg,             \* messages of the JetStream stream
    Key, KeyOf,      \* replay key (tenant, audience, sender, message id)
    Body, BodyOf,    \* signed-body digest
    AssignedTo,      \* [Msg -> Worker]: dispatch.assigned_worker_id
    Malformed,       \* messages whose packet does not verify or validate
    Outcome,         \* the results a handler may return
    None,            \* no message, no outcome, no lease holder
    Lease,           \* managedReplayLease, which is also the consumer's AckWait
    LifetimeOf,      \* [Msg -> Nat]: time to signature expiry plus clock skew
    MaxParallelJobs, \* size of the semaphore, and the consumer's MaxAckPending
    MaxFaults        \* bound on crashes, lost calls and lost sessions

ASSUME ConstantsAssumption ==
    /\ WorkerOf \in [Slot -> Worker]
    /\ KeyOf \in [Msg -> Key]
    /\ BodyOf \in [Msg -> Body]
    /\ AssignedTo \in [Msg -> Worker]
    /\ Malformed \subseteq Msg
    /\ None \notin Msg \cup Outcome \cup Slot \cup Body
    /\ Lease \in Nat \ {0}
    /\ LifetimeOf \in [Msg -> Nat]
    /\ MaxParallelJobs \in Nat \ {0}
    /\ MaxFaults \in Nat

(* The digest covers the expiry and the dispatch identity. *)
ASSUME SameBodyAssumption ==
    \A m, n \in Msg : BodyOf[m] = BodyOf[n] =>
        LifetimeOf[m] = LifetimeOf[n] /\ AssignedTo[m] = AssignedTo[n]

VARIABLES
    stream,     \* JetStream's view of each message
    ackLeft,    \* time left before JetStream redelivers an unsettled message
    ttl,        \* time left before the message's signature expires, skew included
    rec,        \* the replay store's record of each key
    pc, msg,    \* where each delivery goroutine is, and its message
    until,      \* the lease deadline it computed and the store has not applied
    out,        \* the outcome it prepared or was given to replay
    renewer,    \* its renewal goroutine: waiting for the ticker, calling Renew, done
    lerr,       \* its managedReplayLeaseState.err, with the handler context cancelled
    late,       \* history: running handlers whose lease ran out before its renewal was done
    ctxLive,    \* the context given to Run is not cancelled
    subscribed, \* the worker's subscriptions still receive
    sess,       \* the worker holds an unexpired session token
    published,  \* results that reached the result subject
    faults      \* faults that may still happen

broker == <<stream, ackLeft, ttl>>
goroutines == <<pc, msg, until, out, renewer, lerr, late>>
worker == <<ctxLive, subscribed, sess>>
vars == <<stream, ackLeft, ttl, rec, pc, msg, until, out, renewer, lerr, late,
          ctxLive, subscribed, sess, published, faults>>

PC == {"idle", "queued", "admit", "begin", "claim", "run", "stop", "abort", "complete",
       "publish", "replay", "ack", "nak", "term"}

(* A lease id is the goroutine it was given to. Begin hands out a fresh id,   *)
(* which replaces the one in the record, so while a goroutine holds a claim   *)
(* no record names an earlier claim of the same goroutine.                    *)
Record == [state : {"absent", "claimed", "completed"}, body : Body \cup {None},
           holder : Slot \cup {None}, left : 0..Lease, outcome : Outcome \cup {None}]

Absent == [state |-> "absent", body |-> None, holder |-> None, left |-> 0, outcome |-> None]

TypeOK ==
    /\ stream \in [Msg -> {"ready", "inflight", "acked", "termed"}]
    /\ ackLeft \in [Msg -> 0..Lease]
    /\ ttl \in [Msg -> Nat]
    /\ rec \in [Key -> Record]
    /\ pc \in [Slot -> PC]
    /\ msg \in [Slot -> Msg \cup {None}]
    /\ until \in [Slot -> 0..Lease]
    /\ out \in [Slot -> Outcome \cup {None}]
    /\ renewer \in [Slot -> {"wait", "call", "done"}]
    /\ lerr \in [Slot -> BOOLEAN]
    /\ late \subseteq Slot
    /\ ctxLive \in [Worker -> BOOLEAN]
    /\ subscribed \in [Worker -> BOOLEAN]
    /\ sess \in [Worker -> BOOLEAN]
    /\ published \subseteq [key : Key, body : Body, outcome : Outcome]
    /\ faults \in 0..MaxFaults

Init ==
    /\ stream = [m \in Msg |-> "ready"]
    /\ ackLeft = [m \in Msg |-> 0]
    /\ ttl = LifetimeOf
    /\ rec = [k \in Key |-> Absent]
    /\ pc = [s \in Slot |-> "idle"]
    /\ msg = [s \in Slot |-> None]
    /\ until = [s \in Slot |-> 0]
    /\ out = [s \in Slot |-> None]
    /\ renewer = [s \in Slot |-> "done"]
    /\ lerr = [s \in Slot |-> FALSE]
    /\ late = {}
    /\ ctxLive = [w \in Worker |-> TRUE]
    /\ subscribed = [w \in Worker |-> TRUE]
    /\ sess = [w \in Worker |-> TRUE]
    /\ published = {}
    /\ faults = MaxFaults
-----------------------------------------------------------------------------
Fault == faults > 0 /\ faults' = faults - 1
NoFault == UNCHANGED faults

KeyAt(s) == KeyOf[msg[s]]
BodyAt(s) == BodyOf[msg[s]]
CtxLive(s) == ctxLive[WorkerOf[s]]
HasSession(s) == sess[WorkerOf[s]]

Goto(s, label) == pc' = [pc EXCEPT ![s] = label]

(* The goroutines in S end; a new goroutine starts from the same state. *)
End(S) ==
    /\ pc' = [s \in Slot |-> IF s \in S THEN "idle" ELSE pc[s]]
    /\ msg' = [s \in Slot |-> IF s \in S THEN None ELSE msg[s]]
    /\ until' = [s \in Slot |-> IF s \in S THEN 0 ELSE until[s]]
    /\ out' = [s \in Slot |-> IF s \in S THEN None ELSE out[s]]
    /\ renewer' = [s \in Slot |-> IF s \in S THEN "done" ELSE renewer[s]]
    /\ lerr' = [s \in Slot |-> IF s \in S THEN FALSE ELSE lerr[s]]
    /\ late' = late \ S

(* Fault: the lease follows the signature's expiry alone. *)
LeaseUntilExpiry(m) == ttl[m]

(* min(now + lease, expiresAt), as time left *)
LeaseUntil(m) == IF ttl[m] < Lease THEN ttl[m] ELSE Lease

(* Fault: Renew, Complete and Abort do not look at the record's state. *)
HoldsAnyState(s) == rec[KeyAt(s)].holder # None

(* The record names the claim of goroutine s: what Renew, Complete and Abort *)
(* demand of the store before they touch it.                                 *)
Holds(s) == rec[KeyAt(s)].state = "claimed" /\ rec[KeyAt(s)].holder = s
-----------------------------------------------------------------------------
(* JetStream: one durable consumer per queue and subject, explicit acks.     *)

(* The consumer delivers to some subscribed member of the queue group, never *)
(* more than MaxAckPending unsettled messages; dispatch starts a goroutine.  *)
Deliver(s, m) ==
    /\ pc[s] = "idle"
    /\ subscribed[WorkerOf[s]] /\ CtxLive(s)
    /\ stream[m] = "ready"
    /\ Cardinality({n \in Msg : stream[n] = "inflight"}) < MaxParallelJobs
    /\ stream' = [stream EXCEPT ![m] = "inflight"]
    /\ ackLeft' = [ackLeft EXCEPT ![m] = Lease]
    /\ Goto(s, "queued")
    /\ msg' = [msg EXCEPT ![s] = m]
    /\ UNCHANGED <<ttl, rec, until, out, renewer, lerr, late, worker, published>> /\ NoFault

(* Run returns on a cancelled context without unsubscribing, so messages keep *)
(* arriving until Close drains the connection; dispatch drops them unsettled. *)
DeliverDropped(w, m) ==
    /\ subscribed[w] /\ ~ctxLive[w]
    /\ stream[m] = "ready"
    /\ Cardinality({n \in Msg : stream[n] = "inflight"}) < MaxParallelJobs
    /\ stream' = [stream EXCEPT ![m] = "inflight"]
    /\ ackLeft' = [ackLeft EXCEPT ![m] = Lease]
    /\ UNCHANGED <<ttl, rec, goroutines, worker, published>> /\ NoFault

AckTimeout(m) ==
    /\ stream[m] = "inflight" /\ ackLeft[m] = 0
    /\ stream' = [stream EXCEPT ![m] = "ready"]
    /\ UNCHANGED <<ackLeft, ttl, rec, goroutines, worker, published>> /\ NoFault

(* What JetStream makes of an acknowledgement, also of an earlier delivery: a *)
(* settled message stays settled, and in-progress extends only a delivery.    *)
InProgress(m) == [ackLeft EXCEPT ![m] = IF stream[m] = "inflight" THEN Lease ELSE @]

Settled(m, verdict) ==
    IF stream[m] \in {"acked", "termed"} THEN stream[m]
    ELSE CASE verdict = "ack"  -> "acked"
           [] verdict = "term" -> "termed"
           [] verdict = "nak"  -> "ready"

(* ackManagedMessage, retryManagedMessage, terminateManagedMessage: the last  *)
(* step of a goroutine. An error is only logged.                              *)
Settle(s) ==
    /\ pc[s] \in {"ack", "nak", "term"}
    /\ \/ stream' = [stream EXCEPT ![msg[s]] = Settled(msg[s], pc[s])] /\ NoFault
       \/ UNCHANGED stream /\ Fault
    /\ End({s})
    /\ UNCHANGED <<ackLeft, ttl, rec, worker, published>>
-----------------------------------------------------------------------------
(* Admission.                                                                *)

Running(w) == {s \in Slot : WorkerOf[s] = w /\ pc[s] \notin {"idle", "queued"}}

(* acquireManagedSlot: a semaphore slot, or nothing once the context is done; *)
(* the select may take either when both are ready.                            *)
AcquireSlot(s) ==
    /\ pc[s] = "queued"
    /\ \/ /\ Cardinality(Running(WorkerOf[s])) < MaxParallelJobs
          /\ Goto(s, "admit")
          /\ UNCHANGED <<msg, until, out, renewer, lerr, late>>
       \/ ~CtxLive(s) /\ End({s})
    /\ UNCHANGED <<broker, rec, worker, published>> /\ NoFault

(* Fault: an expired message is retried like a missing session. *)
AdmissionRetriesExpired(s) ==
    IF ~HasSession(s) \/ ttl[msg[s]] = 0 THEN "nak"
    ELSE IF msg[s] \in Malformed THEN "term"
    ELSE IF AssignedTo[msg[s]] # WorkerOf[s] THEN "nak"
    ELSE "begin"

(* admitManagedProductionPacket and settleManagedProductionRejection, in the *)
(* order of the checks: session, signature and expiry, assigned worker.      *)
Admission(s) ==
    IF ~HasSession(s) THEN "nak"
    ELSE IF msg[s] \in Malformed \/ ttl[msg[s]] = 0 THEN "term"
    ELSE IF AssignedTo[msg[s]] # WorkerOf[s] THEN "nak"
    ELSE "begin"

Admit(s) ==
    /\ pc[s] = "admit"
    /\ Goto(s, Admission(s))
    /\ UNCHANGED <<broker, rec, msg, until, out, renewer, lerr, late, worker, published>> /\ NoFault

(* beginManagedReplay up to the store call: the session is checked again and *)
(* the entry's LeaseUntil is computed from the clock.                        *)
BeginReplay(s) ==
    /\ pc[s] = "begin"
    /\ Goto(s, IF HasSession(s) THEN "claim" ELSE "nak")
    /\ until' = [until EXCEPT ![s] = LeaseUntil(msg[s])]
    /\ UNCHANGED <<broker, rec, msg, out, renewer, lerr, late, worker, published>> /\ NoFault

(* Fault: Begin does not compare the body digests. *)
ClaimIgnoresBody(s) ==
    LET r == rec[KeyAt(s)] IN
    IF ~CtxLive(s) \/ ttl[msg[s]] = 0 \/ until[s] = 0 THEN "unavailable"
    ELSE IF r.state = "completed" THEN "completed"
    ELSE IF r.state = "claimed" /\ r.left > 0 THEN "pending"
    ELSE "process"

(* Fault: Begin takes over a claim whose lease is still live. *)
ClaimIgnoresLease(s) ==
    LET r == rec[KeyAt(s)] IN
    IF ~CtxLive(s) \/ ttl[msg[s]] = 0 \/ until[s] = 0 THEN "unavailable"
    ELSE IF r.state # "absent" /\ r.body # BodyAt(s) THEN "conflict"
    ELSE IF r.state = "completed" THEN "completed"
    ELSE "process"

(* The replay store's Begin, in the order of its checks. *)
ClaimState(s) ==
    LET r == rec[KeyAt(s)] IN
    IF ~CtxLive(s) \/ ttl[msg[s]] = 0 \/ until[s] = 0 THEN "unavailable"
    ELSE IF r.state # "absent" /\ r.body # BodyAt(s) THEN "conflict"
    ELSE IF r.state = "completed" THEN "completed"
    ELSE IF r.state = "claimed" /\ r.left > 0 THEN "pending"
    ELSE "process"

Claimed(s) ==
    [rec EXCEPT ![KeyAt(s)] = [state |-> "claimed", body |-> BodyAt(s), holder |-> s,
                               left |-> until[s], outcome |-> None]]

(* Store.Begin and handleManagedProductionMessage's switch on its answer. In  *)
(* the last disjunct the call fails, before or after the store applied it.    *)
Claim(s) ==
    /\ pc[s] = "claim"
    /\ \/ /\ ClaimState(s) \in {"unavailable", "pending"}
          /\ Goto(s, "nak")
          /\ UNCHANGED <<rec, out, renewer>> /\ NoFault
       \/ /\ ClaimState(s) = "conflict"
          /\ Goto(s, "term")
          /\ UNCHANGED <<rec, out, renewer>> /\ NoFault
       \/ /\ ClaimState(s) = "completed"
          /\ Goto(s, "replay")
          /\ out' = [out EXCEPT ![s] = rec[KeyAt(s)].outcome]
          /\ UNCHANGED <<rec, renewer>> /\ NoFault
       \/ /\ ClaimState(s) = "process"
          /\ Goto(s, "run")
          /\ rec' = Claimed(s)
          /\ renewer' = [renewer EXCEPT ![s] = "wait"]
          /\ UNCHANGED out /\ NoFault
       \/ /\ Goto(s, "nak")
          /\ \/ UNCHANGED rec
             \/ ClaimState(s) = "process" /\ rec' = Claimed(s)
          /\ UNCHANGED <<out, renewer>> /\ Fault
    /\ UNCHANGED <<broker, msg, until, lerr, late, worker, published>>
-----------------------------------------------------------------------------
(* The handler and its lease.                                                *)

(* Fault: the renewal loop gives up without cancelling the handler. *)
LeaseFailsQuietly(s) ==
    /\ renewer' = [renewer EXCEPT ![s] = "done"]
    /\ UNCHANGED lerr

(* state.fail: remember the error and cancel the handler's context *)
LeaseFails(s) ==
    /\ renewer' = [renewer EXCEPT ![s] = "done"]
    /\ lerr' = [lerr EXCEPT ![s] = TRUE]

(* The renewal goroutine's context: cancelled by stop() or by the parent. *)
RenewCancelled(s) == ~CtxLive(s) \/ pc[s] = "stop"

(* The ticker fires: compute the new deadline and call the store, or fail *)
(* because the message itself expires.                                    *)
RenewTick(s) ==
    /\ renewer[s] = "wait"
    /\ \/ LeaseUntil(msg[s]) = 0 /\ LeaseFails(s) /\ UNCHANGED until
       \/ /\ LeaseUntil(msg[s]) > 0
          /\ renewer' = [renewer EXCEPT ![s] = "call"]
          /\ until' = [until EXCEPT ![s] = LeaseUntil(msg[s])]
          /\ UNCHANGED lerr
    /\ UNCHANGED <<broker, rec, pc, msg, out, late, worker, published>> /\ NoFault

Renewed(s) == [rec EXCEPT ![KeyAt(s)].left = until[s]]

(* The reply to Store.Renew, then message.InProgress. The lease fails on a    *)
(* conflict, on an error of either call, and when stop() or the parent        *)
(* cancels the call in flight, whether or not the store had applied it.       *)
RenewReply(s) ==
    LET renewable == Holds(s) /\ until[s] > 0 IN
    /\ renewer[s] = "call"
    /\ \/ /\ renewable
          /\ rec' = Renewed(s)
          /\ \/ ackLeft' = InProgress(msg[s]) /\ NoFault
             \/ UNCHANGED ackLeft /\ Fault
          /\ renewer' = [renewer EXCEPT ![s] = "wait"]
          /\ UNCHANGED lerr
       \/ /\ LeaseFails(s)
          /\ \/ UNCHANGED rec
             \/ renewable /\ rec' = Renewed(s)
          /\ IF renewable /\ ~RenewCancelled(s) THEN Fault ELSE NoFault
          /\ UNCHANGED ackLeft
    /\ UNCHANGED <<stream, ttl, pc, msg, until, out, late, worker, published>>

RenewExit(s) ==
    /\ renewer[s] = "wait"
    /\ RenewCancelled(s)
    /\ renewer' = [renewer EXCEPT ![s] = "done"]
    /\ UNCHANGED <<broker, rec, pc, msg, until, out, lerr, late, worker, published>> /\ NoFault

(* The handler returns and prepareManagedReplayOutcome looks at its result:   *)
(* None stands for an error, which a cancelled handler context always is.     *)
HandlerReturns(s) ==
    /\ pc[s] = "run"
    /\ \E o \in Outcome \cup {None} :
         /\ o # None => CtxLive(s) /\ ~lerr[s]
         /\ out' = [out EXCEPT ![s] = o]
    /\ Goto(s, "stop")
    /\ late' = late \ {s}
    /\ UNCHANGED <<broker, rec, msg, until, renewer, lerr, worker, published>> /\ NoFault

(* lease.stop() has waited for the renewal goroutine *)
LeaseStopped(s) ==
    /\ pc[s] = "stop"
    /\ renewer[s] = "done"
    /\ Goto(s, IF out[s] = None \/ lerr[s] \/ ~CtxLive(s) THEN "abort" ELSE "complete")
    /\ UNCHANGED <<broker, rec, msg, until, out, renewer, lerr, late, worker, published>> /\ NoFault
-----------------------------------------------------------------------------
(* The outcome.                                                              *)

(* Fault: Abort deletes the record without comparing the lease id. *)
AbortUnfenced(s) ==
    /\ pc[s] = "abort"
    /\ Goto(s, "nak")
    /\ rec' = [rec EXCEPT ![KeyAt(s)] = Absent] /\ NoFault
    /\ UNCHANGED <<broker, msg, until, out, renewer, lerr, late, worker, published>>

(* abortManagedReplay: a conflict is ignored, any other error only logged *)
Abort(s) ==
    /\ pc[s] = "abort"
    /\ Goto(s, "nak")
    /\ \/ /\ rec' = IF Holds(s) THEN [rec EXCEPT ![KeyAt(s)] = Absent] ELSE rec
          /\ NoFault
       \/ UNCHANGED rec /\ Fault
    /\ UNCHANGED <<broker, msg, until, out, renewer, lerr, late, worker, published>>

(* completeManagedReplay: the outcome is stored with the completed state. The *)
(* lease deadline is not read again once the record is completed.             *)
Complete(s) ==
    LET completed ==
          [rec EXCEPT ![KeyAt(s)] = [state |-> "completed", body |-> @.body,
                                     holder |-> @.holder, left |-> 0, outcome |-> out[s]]]
    IN
    /\ pc[s] = "complete"
    /\ \/ Holds(s) /\ rec' = completed /\ Goto(s, "publish") /\ NoFault
       \/ ~Holds(s) /\ UNCHANGED rec /\ Goto(s, "nak") /\ NoFault
       \/ /\ \/ UNCHANGED rec
             \/ Holds(s) /\ rec' = completed
          /\ Goto(s, "nak") /\ Fault
    /\ UNCHANGED <<broker, msg, until, out, renewer, lerr, late, worker, published>>

(* Fault: the input is acked although the publish failed. *)
PublishFailureAcked(s) ==
    LET may == HasSession(s) /\ (pc[s] = "publish" => CtxLive(s))
        event == [key |-> KeyAt(s), body |-> BodyAt(s), outcome |-> out[s]]
    IN
    /\ pc[s] \in {"publish", "replay"}
    /\ Goto(s, "ack")
    /\ \/ may /\ published' = published \cup {event} /\ NoFault
       \/ ~may /\ UNCHANGED published /\ NoFault
       \/ may /\ UNCHANGED published /\ Fault
    /\ UNCHANGED <<broker, rec, msg, until, out, renewer, lerr, late, worker>>

(* publishManagedReplayOutcome: the result event needs a live session and, on *)
(* the processing path only, a live handler context. A failing Publish or     *)
(* FlushTimeout leaves open whether the result got out.                       *)
Publish(s) ==
    LET may == HasSession(s) /\ (pc[s] = "publish" => CtxLive(s))
        event == [key |-> KeyAt(s), body |-> BodyAt(s), outcome |-> out[s]]
    IN
    /\ pc[s] \in {"publish", "replay"}
    /\ \/ may /\ published' = published \cup {event} /\ Goto(s, "ack") /\ NoFault
       \/ ~may /\ UNCHANGED published /\ Goto(s, "nak") /\ NoFault
       \/ /\ may
          /\ \/ UNCHANGED published
             \/ published' = published \cup {event}
          /\ Goto(s, "nak") /\ Fault
    /\ UNCHANGED <<broker, rec, msg, until, out, renewer, lerr, late, worker>>
-----------------------------------------------------------------------------
(* The worker process, as far as settlement depends on it.                   *)

Working(w) == \E s \in Slot : WorkerOf[s] = w /\ pc[s] # "idle"

(* The context of Run is cancelled: an operator's choice, bounded like a     *)
(* fault unless the worker has lost its session.                             *)
Cancel(w) ==
    /\ ctxLive[w]
    /\ IF sess[w] THEN Fault ELSE NoFault
    /\ ctxLive' = [ctxLive EXCEPT ![w] = FALSE]
    /\ UNCHANGED <<broker, rec, goroutines, subscribed, sess, published>>

(* The token runs out and renewTrustLoop returns: Run keeps going. *)
SessionLapses(w) ==
    /\ sess[w] /\ ctxLive[w]
    /\ sess' = [sess EXCEPT ![w] = FALSE]
    /\ Fault
    /\ UNCHANGED <<broker, rec, goroutines, ctxLive, subscribed, published>>

(* A failed renewal clears the session; Run unsubscribes and returns, without *)
(* cancelling the context its handlers use.                                   *)
RenewalFatal(w) ==
    /\ sess[w] /\ ctxLive[w] /\ subscribed[w]
    /\ sess' = [sess EXCEPT ![w] = FALSE]
    /\ subscribed' = [subscribed EXCEPT ![w] = FALSE]
    /\ Fault
    /\ UNCHANGED <<broker, rec, goroutines, ctxLive, published>>

(* Close, after Run returned: waits for the goroutines, drains the connection *)
Close(w) ==
    /\ ctxLive[w] => ~subscribed[w]
    /\ ctxLive[w] \/ subscribed[w]
    /\ ~Working(w)
    /\ ctxLive' = [ctxLive EXCEPT ![w] = FALSE]
    /\ subscribed' = [subscribed EXCEPT ![w] = FALSE]
    /\ sess' = [sess EXCEPT ![w] = FALSE]
    /\ UNCHANGED <<broker, rec, goroutines, published>> /\ NoFault

Crash(w) ==
    /\ End({s \in Slot : WorkerOf[s] = w})
    /\ ctxLive' = [ctxLive EXCEPT ![w] = FALSE]
    /\ subscribed' = [subscribed EXCEPT ![w] = FALSE]
    /\ sess' = [sess EXCEPT ![w] = FALSE]
    /\ Fault
    /\ UNCHANGED <<broker, rec, published>>

(* A new process: performInitialTrust succeeds, then Run subscribes. *)
Restart(w) ==
    /\ ~ctxLive[w] /\ ~subscribed[w]
    /\ ~Working(w)
    /\ ctxLive' = [ctxLive EXCEPT ![w] = TRUE]
    /\ subscribed' = [subscribed EXCEPT ![w] = TRUE]
    /\ sess' = [sess EXCEPT ![w] = TRUE]
    /\ UNCHANGED <<broker, rec, goroutines, published>> /\ NoFault
-----------------------------------------------------------------------------
Down(n) == IF n = 0 THEN 0 ELSE n - 1

(* The renewal that would extend the lease is not done, the ticker or the call *)
(* to the store being late, and the lease has one unit left.                   *)
RenewalDue(s) ==
    /\ renewer[s] # "done" /\ CtxLive(s)
    /\ Holds(s) /\ rec[KeyAt(s)].left = 1 /\ ttl[msg[s]] > 1

Tick ==
    /\ late' = late \cup {s \in Slot : pc[s] = "run" /\ RenewalDue(s)}
    /\ ttl' = [m \in Msg |-> Down(ttl[m])]
    /\ ackLeft' = [m \in Msg |-> Down(ackLeft[m])]
    /\ rec' = [k \in Key |-> [rec[k] EXCEPT !.left = Down(@)]]
    /\ until' = [s \in Slot |-> Down(until[s])]
    /\ UNCHANGED <<stream, pc, msg, out, renewer, lerr, worker, published>> /\ NoFault

(* The steps of goroutine s, one at a time. *)
Step(s) == \/ AcquireSlot(s) \/ Admit(s) \/ BeginReplay(s) \/ Claim(s)
           \/ HandlerReturns(s) \/ LeaseStopped(s) \/ Abort(s) \/ Complete(s)
           \/ Publish(s) \/ Settle(s)

RenewStep(s) == RenewTick(s) \/ RenewReply(s) \/ RenewExit(s)

Next ==
    \/ \E s \in Slot : Step(s) \/ RenewStep(s)
    \/ \E s \in Slot, m \in Msg : Deliver(s, m)
    \/ \E w \in Worker, m \in Msg : DeliverDropped(w, m)
    \/ \E m \in Msg : AckTimeout(m)
    \/ \E w \in Worker : \/ Cancel(w) \/ SessionLapses(w) \/ RenewalFatal(w)
                         \/ Close(w) \/ Crash(w) \/ Restart(w)
    \/ Tick

Spec == Init /\ [][Next]_vars

(* Goroutines are scheduled, calls return and handlers return, JetStream     *)
(* redelivers, time passes, and a worker whose Run has returned is closed    *)
(* and started again. Faults, and the operator's Cancel, are never fair.     *)
Fairness ==
    /\ \A s \in Slot : WF_vars(Step(s)) /\ WF_vars(RenewStep(s))
    /\ \A m \in Msg : /\ WF_vars(\E s \in Slot : Deliver(s, m))
                      /\ WF_vars(AckTimeout(m))
    /\ \A w \in Worker : WF_vars(Close(w)) /\ WF_vars(Restart(w))
    /\ WF_vars(Tick)

FairSpec == Spec /\ Fairness
-----------------------------------------------------------------------------
(* What makes the properties below inductive.                                *)

(* A goroutine that is not idle has its message, and only a running handler  *)
(* or one being stopped has a renewal goroutine.                             *)
GoroutineOK ==
    \A s \in Slot :
        /\ pc[s] # "idle" => msg[s] \in Msg
        /\ renewer[s] # "done" => pc[s] \in {"run", "stop"}
        /\ pc[s] \in {"complete", "publish", "replay"} => out[s] \in Outcome

RecordOK ==
    \A k \in Key :
        /\ rec[k].state = "claimed" => rec[k].holder \in Slot /\ rec[k].body \in Body
        /\ rec[k].state = "completed" =>
              rec[k].body \in Body /\ rec[k].outcome \in Outcome /\ rec[k].left = 0

(* A record that names goroutine s while s works on a claim is that claim. *)
ClaimOK ==
    \A s \in Slot :
        pc[s] \in {"run", "stop", "abort", "complete"} /\ Holds(s)
            => rec[KeyAt(s)].body = BodyAt(s)

(* A goroutine publishes the completed outcome and nothing else. *)
PublisherOK ==
    \A s \in Slot :
        pc[s] \in {"publish", "replay"} =>
            /\ rec[KeyAt(s)].state = "completed"
            /\ rec[KeyAt(s)].body = BodyAt(s)
            /\ rec[KeyAt(s)].outcome = out[s]

(* A goroutine about to ack has published. *)
AckerOK ==
    \A s \in Slot :
        pc[s] = "ack" =>
            \E p \in published : p.key = KeyAt(s) /\ p.body = BodyAt(s)
-----------------------------------------------------------------------------
(* Every result a worker published for a key is the one durable outcome the   *)
(* store holds for it: whatever crashes, lease losses, redeliveries and       *)
(* publish retries did, no consumer of the result subject sees two different  *)
(* results, or results of two different bodies, for one message id.           *)
PublishedIsDurable ==
    \A p \in published :
        /\ rec[p.key].state = "completed"
        /\ rec[p.key].body = p.body
        /\ rec[p.key].outcome = p.outcome

(* JetStream forgets an acked input, so by then its result must have been     *)
(* published: processManagedProduction and replayManagedCompleted ack only    *)
(* after the flush.                                                           *)
AckedIsPublished ==
    \A m \in Msg : stream[m] = "acked" =>
        \E p \in published : p.key = KeyOf[m] /\ p.body = BodyOf[m]

(* A completed record is never replaced, reopened or deleted: not by the      *)
(* Abort, Complete or Renew of a goroutine that lost its lease and ran on.    *)
OutcomeIsFinal ==
    [][\A k \in Key : rec[k].state = "completed" => rec'[k] = rec[k]]_vars

(* A live lease is respected: until it runs out, only its own holder can take *)
(* the record out of the claimed state, by completing or aborting its run.    *)
LeaseIsRespected ==
    [][\A k \in Key :
         rec[k].state = "claimed" /\ rec[k].left > 0 =>
            \/ rec'[k].state = "claimed" /\ rec'[k].holder = rec[k].holder
            \/ pc[rec[k].holder] \in {"abort", "complete"}]_vars

(* Two handlers for one key both run with a live context only where the       *)
(* renewal of one of them was late: otherwise a redelivery finds the lease    *)
(* pending, and a handler whose lease was lost has had its context cancelled  *)
(* before another one starts.                                                 *)
HandlersExclusive ==
    \A s, t \in Slot :
        /\ s # t /\ pc[s] = "run" /\ pc[t] = "run" /\ KeyAt(s) = KeyAt(t)
        /\ CtxLive(s) /\ CtxLive(t)
        => lerr[s] \/ lerr[t] \/ s \in late \/ t \in late

(* sdk/go/README.md:298 says that a completed result is replayed "until the   *)
(* configured JetStream input can be acknowledged". Then no input could be    *)
(* terminated, with nobody working on it, while its completed outcome has     *)
(* never been published.                                                      *)
CompletedIsReplayedUntilAcked ==
    \A m \in Msg :
        /\ stream[m] = "termed"
        /\ rec[KeyOf[m]].state = "completed" /\ rec[KeyOf[m]].body = BodyOf[m]
        /\ \A s \in Slot : msg[s] # m
        => \E p \in published : p.key = KeyOf[m]

(* Run goes on after the token has lapsed (renewTrustLoop just returns), and   *)
(* admission looks at the session before the expiry: such a worker naks every  *)
(* message it is given, also an expired one.                                   *)
NaksForEver(w) == subscribed[w] /\ ctxLive[w] /\ ~sess[w]

(* Every input is settled in the end, unless some worker stays subscribed      *)
(* without a session for good: retries, redeliveries, lost acks, dropped       *)
(* deliveries and restarts never keep a message going round for ever, and a    *)
(* worker that keeps taking messages and naking them is the one thing that may.*)
EveryInputSettles ==
    \A m \in Msg : \/ <>(stream[m] \in {"acked", "termed"})
                  \/ <>[](\E w \in Worker : NaksForEver(w))
=============================================================================
