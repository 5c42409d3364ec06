---------------------- MODULE ManagedSettlementProofs ----------------------
(* Proofs about ManagedSettlement, for every number of workers, goroutines,  *)
(* messages and faults, and every lease and lifetime.                        *)
EXTENDS ManagedSettlementRefinement, TLAPS

TypeInv == TypeOK /\ GoroutineOK /\ RecordOK

LEMMA InitType == Init => TypeInv
  BY ConstantsAssumption
  DEF Init, TypeInv, TypeOK, GoroutineOK, RecordOK, Absent, Record, PC

(* A goroutine that ends leaves the others as they are. *)
LEMMA EndType ==
    ASSUME TypeInv, NEW S, End(S)
    PROVE  /\ pc' \in [Slot -> PC] /\ msg' \in [Slot -> Msg \cup {None}]
           /\ until' \in [Slot -> 0..Lease] /\ out' \in [Slot -> Outcome \cup {None}]
           /\ renewer' \in [Slot -> {"wait", "call", "done"}] /\ lerr' \in [Slot -> BOOLEAN]
           /\ late' \subseteq Slot /\ GoroutineOK'
  <1> USE ConstantsAssumption DEF TypeInv, TypeOK, End
  <1>1. pc' \in [Slot -> PC] /\ msg' \in [Slot -> Msg \cup {None}]
    BY DEF PC
  <1>2. until' \in [Slot -> 0..Lease] /\ out' \in [Slot -> Outcome \cup {None}]
    OBVIOUS
  <1>3. renewer' \in [Slot -> {"wait", "call", "done"}] /\ lerr' \in [Slot -> BOOLEAN]
    BY ZenonT(60)
  <1>4. GoroutineOK'
    BY DEF GoroutineOK
  <1>5. late' \subseteq Slot
    OBVIOUS
  <1> QED BY <1>1, <1>2, <1>3, <1>4, <1>5, ZenonT(60)

LEMMA BrokerType ==
    ASSUME TypeInv, NEW m \in Msg,
           (\E s \in Slot : Deliver(s, m)) \/ (\E w \in Worker : DeliverDropped(w, m)) \/ AckTimeout(m)
    PROVE  TypeInv'
  <1> USE ConstantsAssumption DEF TypeInv, TypeOK
  <1>1. CASE \E s \in Slot : Deliver(s, m)
    BY <1>1 DEF Deliver, Goto, NoFault, worker, GoroutineOK, RecordOK, PC
  <1>2. CASE \E w \in Worker : DeliverDropped(w, m)
    BY <1>2 DEF DeliverDropped, NoFault, worker, goroutines, GoroutineOK, RecordOK
  <1>3. CASE AckTimeout(m)
    BY <1>3 DEF AckTimeout, NoFault, worker, goroutines, GoroutineOK, RecordOK
  <1> QED BY <1>1, <1>2, <1>3

LEMMA StepType ==
    ASSUME TypeInv, NEW s \in Slot, Step(s)
    PROVE  TypeInv'
  <1> USE ConstantsAssumption DEF TypeInv, TypeOK
  <1>1. CASE AcquireSlot(s)
    <2>1. UNCHANGED <<stream, ackLeft, ttl, rec, ctxLive, subscribed, sess, published, faults>>
      BY <1>1 DEF AcquireSlot, NoFault, broker, worker
    <2>2. CASE End({s})
      BY <2>1, <2>2, EndType DEF RecordOK
    <2>3. CASE Goto(s, "admit") /\ UNCHANGED <<msg, until, out, renewer, lerr, late>>
      BY <1>1, <2>1, <2>3 DEF AcquireSlot, Goto, GoroutineOK, RecordOK, PC
    <2> QED BY <1>1, <2>2, <2>3 DEF AcquireSlot
  <1>2. CASE Admit(s)
    BY <1>2 DEF Admit, Admission, Goto, NoFault, broker, worker, GoroutineOK, RecordOK, PC
  <1>3. CASE BeginReplay(s)
    BY <1>3 DEF BeginReplay, LeaseUntil, Goto, NoFault, broker, worker, GoroutineOK, RecordOK, PC
  <1>4. CASE Claim(s)
    <2>1. UNCHANGED <<stream, ackLeft, ttl, msg, until, lerr, late, ctxLive, subscribed, sess, published>>
      BY <1>4 DEF Claim, broker, worker
    <2>2. msg[s] \in Msg /\ KeyAt(s) \in Key /\ BodyAt(s) \in Body /\ renewer[s] = "done"
      BY <1>4 DEF Claim, GoroutineOK, KeyAt, BodyAt
    <2>3. rec' = rec \/ (rec' = Claimed(s))
      BY <1>4 DEF Claim
    <2>4. rec' \in [Key -> Record] /\ RecordOK'
      <3>1. CASE rec' = rec
        BY <3>1 DEF RecordOK
      <3>2. CASE rec' = Claimed(s)
        BY <2>2, <3>2 DEF Claimed, RecordOK, Record
      <3> QED BY <2>3, <3>1, <3>2
    <2>5. faults' \in 0..MaxFaults
      BY <1>4 DEF Claim, Fault, NoFault
    <2>6. pc' \in [Slot -> PC] /\ renewer' \in [Slot -> {"wait", "call", "done"}]
      BY <1>4 DEF Claim, Goto, PC
    <2>7. CASE ClaimState(s) = "completed" /\ Goto(s, "replay")
               /\ out' = [out EXCEPT ![s] = rec[KeyAt(s)].outcome] /\ UNCHANGED renewer
      <3>1. rec[KeyAt(s)].outcome \in Outcome
        BY <2>2, <2>7 DEF RecordOK, ClaimState
      <3> QED BY <2>1, <2>2, <2>4, <2>5, <2>6, <2>7, <3>1 DEF GoroutineOK, Goto
    <2>8. CASE Goto(s, "run") /\ renewer' = [renewer EXCEPT ![s] = "wait"] /\ UNCHANGED out
      BY <2>1, <2>2, <2>4, <2>5, <2>6, <2>8 DEF GoroutineOK, Goto
    <2>9. CASE (Goto(s, "nak") \/ Goto(s, "term")) /\ UNCHANGED <<renewer, out>>
      BY <2>1, <2>2, <2>4, <2>5, <2>6, <2>9 DEF GoroutineOK, Goto
    <2> QED BY <1>4, <2>7, <2>8, <2>9 DEF Claim
  <1>5. CASE HandlerReturns(s)
    BY <1>5 DEF HandlerReturns, Goto, NoFault, broker, worker, GoroutineOK, RecordOK, PC
  <1>6. CASE LeaseStopped(s)
    BY <1>6 DEF LeaseStopped, Goto, NoFault, broker, worker, GoroutineOK, RecordOK, PC
  <1>7. CASE Abort(s)
    <2>1. KeyAt(s) \in Key
      BY <1>7 DEF Abort, GoroutineOK, KeyAt
    <2>2. rec' = rec \/ rec' = [rec EXCEPT ![KeyAt(s)] = Absent]
      BY <1>7 DEF Abort
    <2>3. rec' \in [Key -> Record] /\ RecordOK'
      <3>1. CASE rec' = rec
        BY <3>1 DEF RecordOK
      <3>2. CASE rec' = [rec EXCEPT ![KeyAt(s)] = Absent]
        <4>1. Absent \in Record /\ Absent.state = "absent"
          BY DEF Absent, Record
        <4> QED BY <2>1, <3>2, <4>1 DEF RecordOK
      <3> QED BY <2>2, <3>1, <3>2
    <2> QED BY <1>7, <2>3 DEF Abort, Goto, Fault, NoFault, broker, worker, GoroutineOK, PC
  <1>8. CASE Complete(s)
    <2>1. KeyAt(s) \in Key /\ out[s] \in Outcome
      BY <1>8 DEF Complete, GoroutineOK, KeyAt
    <2>2. rec' \in [Key -> Record] /\ RecordOK'
      <3>1. CASE rec' = rec
        BY <3>1 DEF RecordOK
      <3>2. CASE /\ Holds(s)
                 /\ rec' = [rec EXCEPT ![KeyAt(s)] =
                              [state |-> "completed", body |-> @.body, holder |-> @.holder,
                               left |-> 0, outcome |-> out[s]]]
        <4>1. rec[KeyAt(s)] \in Record /\ rec[KeyAt(s)].body \in Body
          BY <2>1, <3>2 DEF RecordOK, Holds
        <4> QED BY <2>1, <3>2, <4>1 DEF RecordOK, Record
      <3> QED BY <1>8, <3>1, <3>2 DEF Complete
    <2>3. (Goto(s, "publish") \/ Goto(s, "nak")) /\ faults' \in 0..MaxFaults
      BY <1>8 DEF Complete, Fault, NoFault
    <2> QED BY <1>8, <2>1, <2>2, <2>3 DEF Complete, Goto, broker, worker, GoroutineOK, PC
  <1>9. CASE Publish(s)
    <2>1. [key |-> KeyAt(s), body |-> BodyAt(s), outcome |-> out[s]]
            \in [key : Key, body : Body, outcome : Outcome]
      BY <1>9 DEF Publish, GoroutineOK, KeyAt, BodyAt
    <2>2. published' \subseteq [key : Key, body : Body, outcome : Outcome]
      BY <1>9, <2>1 DEF Publish
    <2>3. (Goto(s, "ack") \/ Goto(s, "nak")) /\ faults' \in 0..MaxFaults
      BY <1>9 DEF Publish, Fault, NoFault
    <2> QED BY <1>9, <2>2, <2>3 DEF Publish, Goto, broker, worker, GoroutineOK, RecordOK, PC
  <1>10. CASE Settle(s)
    <2>1. msg[s] \in Msg
      BY <1>10 DEF Settle, GoroutineOK
    <2>2. Settled(msg[s], pc[s]) \in {"ready", "inflight", "acked", "termed"}
      BY <1>10, <2>1 DEF Settle, Settled
    <2>3. stream' \in [Msg -> {"ready", "inflight", "acked", "termed"}] /\ faults' \in 0..MaxFaults
      BY <1>10, <2>1, <2>2 DEF Settle, Fault, NoFault
    <2> QED BY <1>10, <2>3, EndType DEF Settle, worker, RecordOK
  <1> QED BY <1>1, <1>2, <1>3, <1>4, <1>5, <1>6, <1>7, <1>8, <1>9, <1>10 DEF Step

LEMMA RenewType ==
    ASSUME TypeInv, NEW s \in Slot, RenewStep(s)
    PROVE  TypeInv'
  <1> USE ConstantsAssumption DEF TypeInv, TypeOK
  <1>1. msg[s] \in Msg /\ KeyAt(s) \in Key /\ pc[s] \in {"run", "stop"}
    BY DEF RenewStep, RenewTick, RenewReply, RenewExit, GoroutineOK, KeyAt
  <1>2. CASE RenewTick(s)
    <2>1. LeaseUntil(msg[s]) \in 0..Lease
      BY <1>1 DEF LeaseUntil
    <2>2. UNCHANGED <<stream, ackLeft, ttl, rec, pc, msg, out, late, ctxLive, subscribed, sess,
                    published, faults>>
      BY <1>2 DEF RenewTick, broker, worker, NoFault
    <2>3. /\ renewer' \in [Slot -> {"wait", "call", "done"}] /\ lerr' \in [Slot -> BOOLEAN]
          /\ until' \in [Slot -> 0..Lease]
      <3>1. CASE LeaseFails(s) /\ UNCHANGED until
        BY <3>1 DEF LeaseFails
      <3>2. CASE /\ renewer' = [renewer EXCEPT ![s] = "call"] /\ UNCHANGED lerr
                 /\ until' = [until EXCEPT ![s] = LeaseUntil(msg[s])]
        BY <2>1, <3>2
      <3> QED BY <1>2, <3>1, <3>2 DEF RenewTick
    <2>4. GoroutineOK' /\ RecordOK'
      BY <1>1, <1>2, <2>2 DEF RenewTick, LeaseFails, GoroutineOK, RecordOK
    <2> QED BY <2>2, <2>3, <2>4
  <1>3. CASE RenewReply(s)
    <2>1. rec' \in [Key -> Record] /\ RecordOK'
      <3>1. CASE rec' = rec
        BY <3>1 DEF RecordOK
      <3>2. CASE Holds(s) /\ rec' = Renewed(s)
        <4>1. rec[KeyAt(s)] \in Record /\ until[s] \in 0..Lease
          BY <1>1
        <4>2. [rec[KeyAt(s)] EXCEPT !.left = until[s]] \in Record
          BY <4>1, ZenonT(60) DEF Record
        <4>3. rec' = [rec EXCEPT ![KeyAt(s)] = [rec[KeyAt(s)] EXCEPT !.left = until[s]]]
          BY <3>2 DEF Renewed
        <4>4. rec' \in [Key -> Record]
          BY <1>1, <4>2, <4>3
        <4>5. \A k \in Key : k # KeyAt(s) => rec'[k] = rec[k]
          BY <4>3
        <4>6. /\ rec'[KeyAt(s)].state = "claimed" /\ rec'[KeyAt(s)].holder = s
              /\ rec'[KeyAt(s)].body = rec[KeyAt(s)].body
          BY <1>1, <3>2, <4>1, <4>3 DEF Record, Holds
        <4> QED BY <1>1, <3>2, <4>4, <4>5, <4>6 DEF RecordOK, Holds
      <3> QED BY <1>3, <3>1, <3>2 DEF RenewReply
    <2>2. ackLeft' \in [Msg -> 0..Lease] /\ faults' \in 0..MaxFaults
      BY <1>3 DEF RenewReply, InProgress, Fault, NoFault
    <2> QED BY <1>1, <1>3, <2>1, <2>2, ZenonT(60) DEF RenewReply, LeaseFails, worker, GoroutineOK
  <1>4. CASE RenewExit(s)
    BY <1>4 DEF RenewExit, NoFault, broker, worker, GoroutineOK, RecordOK
  <1> QED BY <1>2, <1>3, <1>4 DEF RenewStep

LEMMA WorkerType ==
    ASSUME TypeInv, NEW w \in Worker,
           \/ Cancel(w) \/ SessionLapses(w) \/ RenewalFatal(w) \/ Close(w) \/ Crash(w) \/ Restart(w)
    PROVE  TypeInv'
  <1> USE ConstantsAssumption DEF TypeInv, TypeOK, Fault, NoFault, broker
  <1>1. CASE Cancel(w)
    BY <1>1 DEF Cancel, goroutines, GoroutineOK, RecordOK
  <1>2. CASE SessionLapses(w)
    BY <1>2 DEF SessionLapses, goroutines, GoroutineOK, RecordOK
  <1>3. CASE RenewalFatal(w)
    BY <1>3 DEF RenewalFatal, goroutines, GoroutineOK, RecordOK
  <1>4. CASE Close(w)
    BY <1>4, ZenonT(60) DEF Close, goroutines, GoroutineOK, RecordOK
  <1>5. CASE Restart(w)
    BY <1>5, ZenonT(60) DEF Restart, goroutines, GoroutineOK, RecordOK
  <1>6. CASE Crash(w)
    <2>1. /\ ctxLive' \in [Worker -> BOOLEAN] /\ subscribed' \in [Worker -> BOOLEAN]
          /\ sess' \in [Worker -> BOOLEAN] /\ faults' \in 0..MaxFaults
      BY <1>6 DEF Crash
    <2>2. UNCHANGED <<stream, ackLeft, ttl, rec, published>> /\ RecordOK'
      BY <1>6 DEF Crash, RecordOK
    <2> HIDE ConstantsAssumption DEF TypeInv, TypeOK
    <2>3. End({s \in Slot : WorkerOf[s] = w})
      BY <1>6 DEF Crash
    <2>4. /\ pc' \in [Slot -> PC] /\ msg' \in [Slot -> Msg \cup {None}]
          /\ until' \in [Slot -> 0..Lease] /\ out' \in [Slot -> Outcome \cup {None}]
          /\ renewer' \in [Slot -> {"wait", "call", "done"}] /\ lerr' \in [Slot -> BOOLEAN]
          /\ late' \subseteq Slot /\ GoroutineOK'
      BY <2>3, EndType
    <2> QED BY <2>1, <2>2, <2>4 DEF TypeInv, TypeOK
  <1> QED BY <1>1, <1>2, <1>3, <1>4, <1>5, <1>6

(* A countdown stops at zero. *)
LEMMA DownNat == \A n \in Nat : Down(n) \in Nat /\ Down(n) <= n
  BY DEF Down

LEMMA DownLease == \A n \in 0..Lease : Down(n) \in 0..Lease
  BY ConstantsAssumption DEF Down

LEMMA RecordTick ==
    ASSUME NEW r \in Record
    PROVE  LET q == [r EXCEPT !.left = Down(@)]
           IN  /\ q \in Record /\ q.state = r.state /\ q.body = r.body
               /\ q.holder = r.holder /\ q.outcome = r.outcome /\ q.left = Down(r.left)
  BY DownLease DEF Record

LEMMA TickType == TypeInv /\ Tick => TypeInv'
  <1> SUFFICES ASSUME TypeInv, Tick PROVE TypeInv'
    OBVIOUS
  <1>1. rec' = [k \in Key |-> [rec[k] EXCEPT !.left = Down(@)]] /\ rec \in [Key -> Record]
    BY DEF Tick, TypeInv, TypeOK
  <1>2. rec' \in [Key -> Record]
    BY <1>1, RecordTick
  <1>3. RecordOK'
    BY <1>1, RecordTick, ZenonT(60) DEF TypeInv, RecordOK, Down
  <1>4. ttl' \in [Msg -> Nat]
    BY DownNat DEF Tick, TypeInv, TypeOK
  <1>5. ackLeft' \in [Msg -> 0..Lease] /\ until' \in [Slot -> 0..Lease]
    BY DownLease DEF Tick, TypeInv, TypeOK
  <1>6. UNCHANGED <<stream, pc, msg, out, renewer, lerr, ctxLive, subscribed, sess, published, faults>>
    BY DEF Tick, worker, NoFault
  <1>0. late' \subseteq Slot
    BY DEF Tick, TypeInv, TypeOK
  <1>7. TypeOK' /\ GoroutineOK'
    BY <1>0, <1>2, <1>4, <1>5, <1>6 DEF TypeInv, TypeOK, GoroutineOK
  <1> QED BY <1>3, <1>7 DEF TypeInv

LEMMA NextType == TypeInv /\ [Next]_vars => TypeInv'
  <1> SUFFICES ASSUME TypeInv, [Next]_vars PROVE TypeInv'
    OBVIOUS
  <1>1. CASE UNCHANGED vars
    BY <1>1 DEF vars, TypeInv, TypeOK, GoroutineOK, RecordOK
  <1>2. CASE Next
    BY <1>2, BrokerType, StepType, RenewType, WorkerType, TickType DEF Next
  <1> QED BY <1>1, <1>2

(* Type correctness: whatever the interleaving, the worker's, the store's and *)
(* the broker's state stay within their domains.                              *)
THEOREM TypeCorrect == Spec => []TypeOK
  <1>1. TypeInv => TypeOK
    BY DEF TypeInv
  <1> QED BY InitType, NextType, <1>1, PTL DEF Spec
-----------------------------------------------------------------------------
(* What a step does to the store: it keeps a record up to its deadline, or    *)
(* one goroutine claims, aborts or completes it.                              *)
Kept(k) ==
    /\ rec'[k].state = rec[k].state /\ rec'[k].body = rec[k].body
    /\ rec'[k].holder = rec[k].holder /\ rec'[k].outcome = rec[k].outcome
    /\ rec[k].state = "completed" => rec'[k] = rec[k]

ClaimedBy(k, s) ==
    /\ pc[s] = "claim" /\ KeyAt(s) = k /\ ClaimState(s) = "process"
    /\ rec'[k] = [state |-> "claimed", body |-> BodyAt(s), holder |-> s,
                  left |-> until[s], outcome |-> None]

AbortedBy(k, s) ==
    /\ pc[s] = "abort" /\ KeyAt(s) = k /\ Holds(s)
    /\ rec'[k] = Absent

CompletedBy(k, s) ==
    /\ pc[s] = "complete" /\ KeyAt(s) = k /\ Holds(s)
    /\ rec'[k] = [state |-> "completed", body |-> rec[k].body, holder |-> rec[k].holder,
                  left |-> 0, outcome |-> out[s]]

StoreStep(k) ==
    Kept(k) \/ \E s \in Slot : ClaimedBy(k, s) \/ AbortedBy(k, s) \/ CompletedBy(k, s)

LEMMA StoreUnchanged == ASSUME rec' = rec, NEW k \in Key PROVE StoreStep(k)
  BY DEF StoreStep, Kept

LEMMA StoreSteps ==
    ASSUME TypeInv, [Next]_vars, NEW k \in Key
    PROVE  StoreStep(k)
  <1> USE ConstantsAssumption
  <1>1. ASSUME NEW s \in Slot, Claim(s) PROVE StoreStep(k)
    <2>1. CASE rec' = rec
      BY <2>1, StoreUnchanged
    <2>2. CASE ClaimState(s) = "process" /\ rec' = Claimed(s)
      <3>1. CASE KeyAt(s) = k
        BY <1>1, <2>2, <3>1 DEF Claim, Claimed, StoreStep, ClaimedBy, TypeInv, TypeOK
      <3>2. CASE KeyAt(s) # k
        BY <2>2, <3>2 DEF Claimed, StoreStep, Kept, TypeInv, TypeOK
      <3> QED BY <3>1, <3>2
    <2> QED BY <1>1, <2>1, <2>2 DEF Claim
  <1>2. ASSUME NEW s \in Slot, Abort(s) PROVE StoreStep(k)
    <2>1. CASE rec' = rec
      BY <2>1, StoreUnchanged
    <2>2. CASE Holds(s) /\ rec' = [rec EXCEPT ![KeyAt(s)] = Absent]
      <3>1. CASE KeyAt(s) = k
        BY <1>2, <2>2, <3>1 DEF Abort, StoreStep, AbortedBy, TypeInv, TypeOK
      <3>2. CASE KeyAt(s) # k
        BY <2>2, <3>2 DEF StoreStep, Kept, TypeInv, TypeOK
      <3> QED BY <3>1, <3>2
    <2> QED BY <1>2, <2>1, <2>2 DEF Abort
  <1>3. ASSUME NEW s \in Slot, Complete(s) PROVE StoreStep(k)
    <2>1. CASE rec' = rec
      BY <2>1, StoreUnchanged
    <2>2. CASE /\ Holds(s)
               /\ rec' = [rec EXCEPT ![KeyAt(s)] =
                            [state |-> "completed", body |-> @.body, holder |-> @.holder,
                             left |-> 0, outcome |-> out[s]]]
      <3>1. CASE KeyAt(s) = k
        BY <1>3, <2>2, <3>1 DEF Complete, StoreStep, CompletedBy, TypeInv, TypeOK
      <3>2. CASE KeyAt(s) # k
        BY <2>2, <3>2 DEF StoreStep, Kept, TypeInv, TypeOK
      <3> QED BY <3>1, <3>2
    <2> QED BY <1>3, <2>1, <2>2 DEF Complete
  <1>4. ASSUME NEW s \in Slot, RenewReply(s) PROVE StoreStep(k)
    <2>1. CASE rec' = rec
      BY <2>1, StoreUnchanged
    <2>2. CASE Holds(s) /\ rec' = Renewed(s)
      BY <2>2 DEF Renewed, Holds, StoreStep, Kept, TypeInv, TypeOK, Record
    <2> QED BY <1>4, <2>1, <2>2 DEF RenewReply
  <1>5. ASSUME Tick PROVE StoreStep(k)
    <2>1. rec'[k] = [rec[k] EXCEPT !.left = Down(@)] /\ rec[k] \in Record
      BY <1>5 DEF Tick, TypeInv, TypeOK
    <2>2. rec[k].state = "completed" => rec[k].left = 0
      BY DEF TypeInv, RecordOK
    <2>3. rec[k].left = 0 => rec'[k] = rec[k]
      BY <2>1 DEF Down, Record
    <2> QED BY <2>1, <2>2, <2>3, RecordTick DEF StoreStep, Kept
  <1>6. CASE rec' = rec
    BY <1>6, StoreUnchanged
  <1>7. CASE UNCHANGED vars
    BY <1>6, <1>7, ZenonT(60) DEF vars
  <1>8. ASSUME NEW s \in Slot, Step(s) PROVE StoreStep(k)
    BY <1>1, <1>2, <1>3, <1>6, <1>8, ZenonT(60)
    DEF Step, AcquireSlot, Admit, BeginReplay, HandlerReturns, LeaseStopped, Publish, Settle
  <1>9. ASSUME NEW s \in Slot, RenewStep(s) PROVE StoreStep(k)
    BY <1>4, <1>6, <1>9 DEF RenewStep, RenewTick, RenewExit
  <1>10. ASSUME NEW m \in Msg, (\E s \in Slot : Deliver(s, m)) \/ (\E w \in Worker : DeliverDropped(w, m))
                               \/ AckTimeout(m)
         PROVE  StoreStep(k)
    BY <1>6, <1>10, ZenonT(60) DEF Deliver, DeliverDropped, AckTimeout
  <1>11. ASSUME NEW w \in Worker, Cancel(w) \/ SessionLapses(w) \/ RenewalFatal(w)
                                  \/ Close(w) \/ Crash(w) \/ Restart(w)
         PROVE  StoreStep(k)
    BY <1>6, <1>11 DEF Cancel, SessionLapses, RenewalFatal, Close, Crash, Restart
  <1> QED BY <1>5, <1>7, <1>8, <1>9, <1>10, <1>11 DEF Next

LEMMA FinalStep ==
    ASSUME TypeInv, [Next]_vars, NEW k \in Key, rec[k].state = "completed"
    PROVE  rec'[k] = rec[k]
  BY StoreSteps, ZenonT(60) DEF StoreStep, Kept, ClaimedBy, AbortedBy, CompletedBy, Holds, ClaimState

(* The durable outcome is final: see OutcomeIsFinal. No Abort, Complete,      *)
(* Renew or Begin of any goroutine touches a completed record.                *)
THEOREM OutcomeFinal == Spec => OutcomeIsFinal
  <1>1. TypeInv /\ [Next]_vars => [\A k \in Key : rec[k].state = "completed" => rec'[k] = rec[k]]_vars
    BY FinalStep
  <1> QED BY InitType, NextType, <1>1, PTL DEF Spec, OutcomeIsFinal

(* A live lease is respected: see LeaseIsRespected. *)
THEOREM LeaseRespected == Spec => LeaseIsRespected
  <1>1. ASSUME TypeInv, [Next]_vars, NEW k \in Key, rec[k].state = "claimed", rec[k].left > 0
        PROVE  \/ rec'[k].state = "claimed" /\ rec'[k].holder = rec[k].holder
               \/ pc[rec[k].holder] \in {"abort", "complete"}
    <2>1. CASE Kept(k)
      BY <1>1, <2>1 DEF Kept
    <2>2. ASSUME NEW s \in Slot, ClaimedBy(k, s) PROVE FALSE
      BY <1>1, <2>2 DEF ClaimedBy, ClaimState
    <2>3. ASSUME NEW s \in Slot, AbortedBy(k, s) \/ CompletedBy(k, s)
          PROVE  pc[rec[k].holder] \in {"abort", "complete"}
      BY <2>3 DEF AbortedBy, CompletedBy, Holds
    <2> QED BY <1>1, <2>1, <2>2, <2>3, StoreSteps DEF StoreStep
  <1>2. TypeInv /\ [Next]_vars =>
          [\A k \in Key :
             rec[k].state = "claimed" /\ rec[k].left > 0 =>
                \/ rec'[k].state = "claimed" /\ rec'[k].holder = rec[k].holder
                \/ pc[rec[k].holder] \in {"abort", "complete"}]_vars
    BY <1>1
  <1> QED BY InitType, NextType, <1>2, PTL DEF Spec, LeaseIsRespected
-----------------------------------------------------------------------------
(* What a step does to a goroutine s. *)
Same(s) == pc'[s] = pc[s] /\ msg'[s] = msg[s] /\ out'[s] = out[s]

Moves(s) ==
    \/ pc'[s] \in {"idle", "queued", "admit", "begin", "claim", "nak", "term"}
    \/ /\ pc[s] = "claim" /\ pc'[s] = "run" /\ msg'[s] = msg[s]
       /\ rec' = Claimed(s)
    \/ /\ pc[s] = "claim" /\ pc'[s] = "replay" /\ msg'[s] = msg[s]
       /\ ClaimState(s) = "completed" /\ rec' = rec
       /\ out'[s] = rec[KeyAt(s)].outcome
    \/ /\ pc[s] \in {"run", "stop"} /\ pc'[s] \in {"stop", "abort", "complete"}
       /\ msg'[s] = msg[s] /\ rec' = rec
    \/ /\ pc'[s] = "publish" /\ msg'[s] = msg[s] /\ out'[s] = out[s]
       /\ CompletedBy(KeyAt(s), s)
    \/ /\ pc[s] \in {"publish", "replay"} /\ pc'[s] = "ack" /\ msg'[s] = msg[s]
       /\ [key |-> KeyAt(s), body |-> BodyAt(s), outcome |-> out[s]] \in published'

LEMMA GoroutineUnchanged ==
    ASSUME UNCHANGED <<pc, msg, out>>, NEW s \in Slot PROVE Same(s)
  BY ZenonT(60) DEF Same

LEMMA EndMoves == ASSUME NEW S, End(S), NEW t \in Slot PROVE Same(t) \/ Moves(t)
  BY DEF End, Same, Moves

LEMMA GoroutineSteps ==
    ASSUME TypeInv, [Next]_vars, NEW t \in Slot
    PROVE  Same(t) \/ Moves(t)
  <1> USE ConstantsAssumption
  <1>1. ASSUME NEW s \in Slot, Step(s) PROVE Same(t) \/ Moves(t)
    <2> USE DEF TypeInv, TypeOK
    <2>1. CASE AcquireSlot(s)
      BY <2>1, EndMoves, ZenonT(60) DEF AcquireSlot, Goto, Same, Moves
    <2>2. CASE Admit(s)
      <3>1. Admission(s) \in {"nak", "term", "begin"}
        BY ZenonT(60) DEF Admission
      <3> QED BY <2>2, <3>1, ZenonT(60) DEF Admit, Goto, Same, Moves
    <2>3. CASE BeginReplay(s)
      BY <2>3, ZenonT(60) DEF BeginReplay, Goto, Same, Moves
    <2>4. CASE Claim(s)
      <3>1. pc[s] = "claim" /\ msg' = msg
        BY <2>4 DEF Claim
      <3>2. CASE t = s
        <4>1. CASE Goto(s, "nak") \/ Goto(s, "term")
          BY <3>2, <4>1, ZenonT(60) DEF Goto, Moves
        <4>2. CASE /\ ClaimState(s) = "completed" /\ Goto(s, "replay") /\ rec' = rec
                   /\ out' = [out EXCEPT ![s] = rec[KeyAt(s)].outcome]
          BY <3>1, <3>2, <4>2, ZenonT(60) DEF Goto, Moves
        <4>3. CASE Goto(s, "run") /\ rec' = Claimed(s)
          BY <3>1, <3>2, <4>3, ZenonT(60) DEF Goto, Moves
        <4> QED BY <2>4, <4>1, <4>2, <4>3 DEF Claim
      <3>3. CASE t # s
        <4>1. pc'[t] = pc[t] /\ out'[t] = out[t]
          BY <2>4, <3>3, ZenonT(60) DEF Claim, Goto
        <4> QED BY <3>1, <4>1 DEF Same
      <3> QED BY <3>2, <3>3
    <2>5. CASE HandlerReturns(s)
      BY <2>5, ZenonT(60) DEF HandlerReturns, Goto, Same, Moves
    <2>6. CASE LeaseStopped(s)
      BY <2>6, ZenonT(60) DEF LeaseStopped, Goto, Same, Moves
    <2>7. CASE Abort(s)
      BY <2>7 DEF Abort, Goto, Same, Moves
    <2>8. CASE Complete(s)
      <3>1. KeyAt(s) \in Key
        BY <2>8 DEF Complete, KeyAt, GoroutineOK
      <3>2. t # s => Same(t)
        BY <2>8, ZenonT(60) DEF Complete, Goto, Same
      <3>3. Goto(s, "nak") => Moves(s)
        BY DEF Goto, Moves
      <3>4. Goto(s, "publish") => Moves(s)
        BY <2>8, <3>1, ZenonT(60) DEF Complete, Goto, Moves, CompletedBy
      <3> QED BY <2>8, <3>2, <3>3, <3>4 DEF Complete
    <2>9. CASE Publish(s)
      BY <2>9 DEF Publish, Goto, Same, Moves
    <2>10. CASE Settle(s)
      BY <2>10, EndMoves, ZenonT(60) DEF Settle
    <2> QED BY <1>1, <2>1, <2>2, <2>3, <2>4, <2>5, <2>6, <2>7, <2>8, <2>9, <2>10, ZenonT(60) DEF Step
  <1>2. ASSUME NEW s \in Slot, NEW m \in Msg, Deliver(s, m) PROVE Same(t) \/ Moves(t)
    BY <1>2 DEF Deliver, Goto, Same, Moves, TypeInv, TypeOK
  <1>3. ASSUME NEW w \in Worker, Crash(w) PROVE Same(t) \/ Moves(t)
    BY <1>3, EndMoves DEF Crash
  <1>4. CASE UNCHANGED <<pc, msg, out>>
    BY <1>4, GoroutineUnchanged
  <1>5. ASSUME NEW s \in Slot, RenewStep(s) PROVE Same(t) \/ Moves(t)
    BY <1>4, <1>5 DEF RenewStep, RenewTick, RenewReply, RenewExit
  <1>6. CASE UNCHANGED vars
    BY <1>4, <1>6 DEF vars
  <1>7. ASSUME NEW m \in Msg, (\E w \in Worker : DeliverDropped(w, m)) \/ AckTimeout(m)
        PROVE  Same(t) \/ Moves(t)
    BY <1>4, <1>7, ZenonT(60) DEF DeliverDropped, AckTimeout, goroutines
  <1>8. ASSUME NEW w \in Worker,
               Cancel(w) \/ SessionLapses(w) \/ RenewalFatal(w) \/ Close(w) \/ Restart(w)
        PROVE  Same(t) \/ Moves(t)
    BY <1>4, <1>8 DEF Cancel, SessionLapses, RenewalFatal, Close, Restart, goroutines
  <1>9. CASE Tick
    BY <1>4, <1>9 DEF Tick
  <1> QED BY <1>1, <1>2, <1>3, <1>5, <1>6, <1>7, <1>8, <1>9 DEF Next
-----------------------------------------------------------------------------
(* What a step does to the result subject and to the acked inputs. *)
PublishStep ==
    \/ published' = published
    \/ \E s \in Slot :
         /\ pc[s] \in {"publish", "replay"}
         /\ published' = published \cup {[key |-> KeyAt(s), body |-> BodyAt(s), outcome |-> out[s]]}

LEMMA PublishSteps == ASSUME [Next]_vars PROVE PublishStep
  <1>1. ASSUME NEW s \in Slot, Publish(s) PROVE PublishStep
    BY <1>1, ZenonT(60) DEF Publish, PublishStep
  <1>2. CASE published' = published
    BY <1>2 DEF PublishStep
  <1>3. ASSUME NEW s \in Slot, Step(s) PROVE PublishStep
    BY <1>1, <1>2, <1>3, ZenonT(60)
    DEF Step, AcquireSlot, Admit, BeginReplay, Claim, HandlerReturns, LeaseStopped, Abort,
        Complete, Settle
  <1>4. ASSUME NEW s \in Slot, RenewStep(s) PROVE PublishStep
    BY <1>2, <1>4, ZenonT(60) DEF RenewStep, RenewTick, RenewReply, RenewExit
  <1>5. ASSUME NEW m \in Msg, (\E s \in Slot : Deliver(s, m)) \/ (\E w \in Worker : DeliverDropped(w, m))
                              \/ AckTimeout(m)
        PROVE  PublishStep
    BY <1>2, <1>5, ZenonT(60) DEF Deliver, DeliverDropped, AckTimeout
  <1>6. ASSUME NEW w \in Worker, Cancel(w) \/ SessionLapses(w) \/ RenewalFatal(w)
                                 \/ Close(w) \/ Crash(w) \/ Restart(w)
        PROVE  PublishStep
    BY <1>2, <1>6 DEF Cancel, SessionLapses, RenewalFatal, Close, Crash, Restart
  <1>7. CASE Tick \/ UNCHANGED vars
    BY <1>2, <1>7 DEF Tick, vars
  <1> QED BY <1>3, <1>4, <1>5, <1>6, <1>7 DEF Next

(* An input becomes acked only by the last step of a goroutine that is past  *)
(* publication, and stays acked.                                             *)
AckStep(m) ==
    \/ (stream'[m] = "acked") = (stream[m] = "acked")
    \/ stream'[m] = "acked" /\ \E s \in Slot : pc[s] = "ack" /\ msg[s] = m

LEMMA AckSteps ==
    ASSUME TypeInv, [Next]_vars, NEW m \in Msg
    PROVE  AckStep(m)
  <1>1. ASSUME NEW s \in Slot, Settle(s) PROVE AckStep(m)
    <2>1. CASE stream' = stream
      BY <2>1 DEF AckStep
    <2>2. CASE stream' = [stream EXCEPT ![msg[s]] = Settled(msg[s], pc[s])]
      <3>1. CASE m = msg[s]
        <4>1. stream'[m] = Settled(m, pc[s])
          BY <2>2, <3>1 DEF TypeInv, TypeOK
        <4> QED BY <1>1, <3>1, <4>1 DEF Settle, Settled, AckStep
      <3>2. CASE m # msg[s]
        BY <2>2, <3>2 DEF AckStep, TypeInv, TypeOK
      <3> QED BY <3>1, <3>2
    <2> QED BY <1>1, <2>1, <2>2 DEF Settle
  <1>2. CASE stream' = stream
    BY <1>2 DEF AckStep
  <1>3. ASSUME NEW n \in Msg, (\E s \in Slot : Deliver(s, n)) \/ (\E w \in Worker : DeliverDropped(w, n))
                              \/ AckTimeout(n)
        PROVE  AckStep(m)
    BY <1>3, ZenonT(60) DEF Deliver, DeliverDropped, AckTimeout, AckStep, TypeInv, TypeOK
  <1>4. ASSUME NEW s \in Slot, Step(s) PROVE AckStep(m)
    BY <1>1, <1>2, <1>4
    DEF Step, AcquireSlot, Admit, BeginReplay, Claim, HandlerReturns, LeaseStopped, Abort,
        Complete, Publish, broker
  <1>5. ASSUME NEW s \in Slot, RenewStep(s) PROVE AckStep(m)
    BY <1>2, <1>5, ZenonT(60) DEF RenewStep, RenewTick, RenewReply, RenewExit, broker
  <1>6. ASSUME NEW w \in Worker, Cancel(w) \/ SessionLapses(w) \/ RenewalFatal(w)
                                 \/ Close(w) \/ Crash(w) \/ Restart(w)
        PROVE  AckStep(m)
    BY <1>2, <1>6 DEF Cancel, SessionLapses, RenewalFatal, Close, Crash, Restart, broker
  <1>7. CASE Tick \/ UNCHANGED vars
    BY <1>2, <1>7 DEF Tick, vars
  <1> QED BY <1>3, <1>4, <1>5, <1>6, <1>7 DEF Next
-----------------------------------------------------------------------------
(* The inductive invariant. PublishedIsDurable alone is not inductive: a      *)
(* goroutine about to publish must hold the durable outcome, and before that  *)
(* the record it completes must carry the body of its own message.            *)
Inv == TypeInv /\ ClaimOK /\ PublisherOK /\ AckerOK /\ PublishedIsDurable /\ AckedIsPublished

LEMMA InitInv == Init => Inv
  <1> SUFFICES ASSUME Init PROVE Inv
    OBVIOUS
  <1>1. TypeInv
    BY InitType
  <1> QED BY <1>1 DEF Inv, Init, ClaimOK, PublisherOK, AckerOK, PublishedIsDurable, AckedIsPublished

LEMMA NextInv == Inv /\ [Next]_vars => Inv'
  <1> SUFFICES ASSUME Inv, [Next]_vars PROVE Inv'
    OBVIOUS
  <1> USE ConstantsAssumption
  <1>0. TypeInv /\ TypeInv'
    BY NextType DEF Inv
  <1>k. \A s \in Slot : pc[s] # "idle" => msg[s] \in Msg /\ KeyAt(s) \in Key /\ BodyAt(s) \in Body
    BY <1>0, ZenonT(60) DEF TypeInv, GoroutineOK, KeyAt, BodyAt
  <1>1. ClaimOK'
    <2> SUFFICES ASSUME NEW s \in Slot, pc'[s] \in {"run", "stop", "abort", "complete"}, Holds(s)'
                 PROVE  rec'[KeyAt(s)'].body = BodyAt(s)'
      BY DEF ClaimOK
    <2>1. CASE Same(s)
      <3>1. KeyAt(s)' = KeyAt(s) /\ BodyAt(s)' = BodyAt(s) /\ KeyAt(s) \in Key
        BY <1>k, <2>1 DEF Same, KeyAt, BodyAt
      <3>2. rec'[KeyAt(s)].state = "claimed" /\ rec'[KeyAt(s)].holder = s
        BY <3>1, ZenonT(60) DEF Holds
      <3>3. ASSUME NEW u \in Slot, ClaimedBy(KeyAt(s), u) PROVE FALSE
        BY <2>1, <3>2, <3>3 DEF ClaimedBy, Same
      <3>4. ASSUME NEW u \in Slot, AbortedBy(KeyAt(s), u) \/ CompletedBy(KeyAt(s), u) PROVE FALSE
        BY <3>2, <3>4 DEF AbortedBy, CompletedBy, Absent
      <3>5. StoreStep(KeyAt(s))
        BY <1>0, <3>1, StoreSteps
      <3>6. Kept(KeyAt(s))
        BY <3>3, <3>4, <3>5 DEF StoreStep
      <3> QED BY <2>1, <3>1, <3>2, <3>6 DEF Inv, ClaimOK, Kept, Holds, Same
    <2>2. CASE /\ pc[s] = "claim" /\ pc'[s] = "run" /\ msg'[s] = msg[s]
               /\ rec' = Claimed(s)
      BY <1>0, <1>k, <2>2 DEF Claimed, KeyAt, BodyAt, TypeInv, TypeOK
    <2>3. CASE /\ pc[s] \in {"run", "stop"} /\ msg'[s] = msg[s] /\ rec' = rec
      BY <2>3, ZenonT(60) DEF Inv, ClaimOK, Holds, KeyAt, BodyAt
    <2> QED BY <1>0, <2>1, <2>2, <2>3, GoroutineSteps, ZenonT(60) DEF Moves
  <1>2. PublisherOK'
    <2> SUFFICES ASSUME NEW s \in Slot, pc'[s] \in {"publish", "replay"}
                 PROVE  /\ rec'[KeyAt(s)'].state = "completed"
                        /\ rec'[KeyAt(s)'].body = BodyAt(s)'
                        /\ rec'[KeyAt(s)'].outcome = out'[s]
      BY ZenonT(60) DEF PublisherOK
    <2>1. CASE Same(s)
      BY <1>0, <1>k, <2>1, FinalStep DEF Same, Inv, PublisherOK, KeyAt, BodyAt
    <2>2. CASE /\ pc[s] = "claim" /\ pc'[s] = "replay" /\ msg'[s] = msg[s]
               /\ ClaimState(s) = "completed" /\ rec' = rec
               /\ out'[s] = rec[KeyAt(s)].outcome
      BY <2>2, ZenonT(60) DEF ClaimState, KeyAt, BodyAt
    <2>3. CASE /\ pc'[s] = "publish" /\ msg'[s] = msg[s] /\ out'[s] = out[s]
               /\ CompletedBy(KeyAt(s), s)
      BY <2>3 DEF CompletedBy, Inv, ClaimOK, KeyAt, BodyAt
    <2> QED BY <1>0, <2>1, <2>2, <2>3, GoroutineSteps, ZenonT(60) DEF Moves
  <1>3. published \subseteq published'
    BY PublishSteps, ZenonT(60) DEF PublishStep
  <1>4. AckerOK'
    <2> SUFFICES ASSUME NEW s \in Slot, pc'[s] = "ack"
                 PROVE  \E p \in published' : p.key = KeyAt(s)' /\ p.body = BodyAt(s)'
      BY ZenonT(60) DEF AckerOK
    <2>1. CASE Same(s)
      BY <1>3, <2>1 DEF Same, Inv, AckerOK, KeyAt, BodyAt
    <2>2. CASE /\ msg'[s] = msg[s]
               /\ [key |-> KeyAt(s), body |-> BodyAt(s), outcome |-> out[s]] \in published'
      BY <2>2 DEF KeyAt, BodyAt
    <2> QED BY <1>0, <2>1, <2>2, GoroutineSteps DEF Moves
  <1>5. PublishedIsDurable'
    <2> SUFFICES ASSUME NEW p \in published'
                 PROVE  /\ rec'[p.key].state = "completed" /\ rec'[p.key].body = p.body
                        /\ rec'[p.key].outcome = p.outcome
      BY DEF PublishedIsDurable
    <2>1. p.key \in Key
      BY <1>0, ZenonT(60) DEF TypeInv, TypeOK
    <2>2. /\ rec[p.key].state = "completed" /\ rec[p.key].body = p.body
          /\ rec[p.key].outcome = p.outcome
      BY PublishSteps DEF PublishStep, Inv, PublishedIsDurable, PublisherOK
    <2> QED BY <1>0, <2>1, <2>2, FinalStep
  <1>6. AckedIsPublished'
    <2> SUFFICES ASSUME NEW m \in Msg, stream'[m] = "acked"
                 PROVE  \E p \in published' : p.key = KeyOf[m] /\ p.body = BodyOf[m]
      BY DEF AckedIsPublished
    <2>1. CASE stream[m] = "acked"
      BY <1>3, <2>1 DEF Inv, AckedIsPublished
    <2>2. CASE \E s \in Slot : pc[s] = "ack" /\ msg[s] = m
      BY <1>3, <2>2 DEF Inv, AckerOK, KeyAt, BodyAt
    <2> QED BY <1>0, <2>1, <2>2, AckSteps DEF AckStep
  <1> QED BY <1>0, <1>1, <1>2, <1>4, <1>5, <1>6 DEF Inv

(* One outcome per message id: see PublishedIsDurable. Whatever crashes,      *)
(* expired leases, redeliveries and failed publishes happen, and however many *)
(* goroutines run the same job, the result subject carries one result per id. *)
THEOREM OneOutcome == Spec => []PublishedIsDurable
  <1>1. Inv => PublishedIsDurable
    BY DEF Inv
  <1> QED BY InitInv, NextInv, <1>1, PTL DEF Spec

(* No acked input is without its result: see AckedIsPublished. *)
THEOREM NoLostResult == Spec => []AckedIsPublished
  <1>1. Inv => AckedIsPublished
    BY DEF Inv
  <1> QED BY InitInv, NextInv, <1>1, PTL DEF Spec
-----------------------------------------------------------------------------
(* The refinement: every step is a step of the outbox, or leaves it alone. *)
LEMMA DecidedKept ==
    ASSUME TypeInv, [Next]_vars,
           \A k \in Key : rec'[k].state = "completed" => rec[k].state = "completed"
    PROVE  Decided' = Decided
  <1> SUFFICES ASSUME NEW k \in Key
               PROVE  (rec'[k].state = "completed") = (rec[k].state = "completed")
                      /\ (rec[k].state = "completed" => rec'[k] = rec[k])
    BY DEF Decided
  <1> QED BY FinalStep

LEMMA AckedKept ==
    ASSUME \A m \in Msg : (stream'[m] = "acked") = (stream[m] = "acked")
    PROVE  Acked' = Acked
  BY ZenonT(60) DEF Acked

LEMMA PublishRefines ==
    ASSUME Inv, NEW s \in Slot, Publish(s)
    PROVE  Outbox!Next \/ UNCHANGED Outbox!outbox
  <1> USE ConstantsAssumption
  <1>1. rec' = rec /\ stream' = stream
    BY DEF Publish, broker
  <1>2. Decided' = Decided /\ Acked' = Acked
    BY <1>1, ZenonT(60) DEF Decided, Acked
  <1>3. KeyAt(s) \in Key /\ BodyAt(s) \in Body
    BY ZenonT(60) DEF Publish, Inv, TypeInv, GoroutineOK, KeyAt, BodyAt
  <1>4. Decided[KeyAt(s)] = [body |-> BodyAt(s), outcome |-> out[s]]
    BY <1>3 DEF Publish, Decided, Inv, PublisherOK
  <1>5. CASE published' = published
    BY <1>2, <1>5 DEF Outbox!outbox
  <1>6. CASE published' = published \cup {[key |-> KeyAt(s), body |-> BodyAt(s), outcome |-> out[s]]}
    <2>1. Decided[KeyAt(s)] # Outbox!Undecided
      <3>1. BodyAt(s) # None
        BY <1>3
      <3>2. Decided[KeyAt(s)].body = BodyAt(s)
        BY <1>4
      <3>3. Outbox!Undecided.body = None
        BY ZenonT(60) DEF Outbox!Undecided
      <3> QED BY <3>1, <3>2, <3>3, ZenonT(60)
    <2>2. Outbox!Publish(KeyAt(s))
      BY <1>2, <1>4, <1>6, <2>1 DEF Outbox!Publish
    <2> QED BY <1>3, <2>2 DEF Outbox!Next
  <1> QED BY <1>5, <1>6, ZenonT(60) DEF Publish

LEMMA SettleRefines ==
    ASSUME Inv, NEW s \in Slot, Settle(s)
    PROVE  Outbox!Next \/ UNCHANGED Outbox!outbox
  <1>1. rec' = rec /\ published' = published /\ msg[s] \in Msg /\ stream \in [Msg -> {"ready", "inflight", "acked", "termed"}]
    BY DEF Settle, Inv, TypeInv, TypeOK, GoroutineOK
  <1>2. Decided' = Decided
    BY <1>1 DEF Decided
  <1>3. CASE \A m \in Msg : (stream'[m] = "acked") = (stream[m] = "acked")
    BY <1>1, <1>2, <1>3, AckedKept DEF Outbox!outbox
  <1>4. CASE pc[s] = "ack" /\ stream' = [stream EXCEPT ![msg[s]] = "acked"]
    <2>1. Acked' = Acked \cup {msg[s]}
      BY <1>1, <1>4 DEF Acked
    <2>2. \E p \in published : p.key = KeyOf[msg[s]] /\ p.body = BodyOf[msg[s]]
      BY <1>4 DEF Inv, AckerOK, KeyAt, BodyAt
    <2>3. Outbox!Acknowledge(msg[s])
      BY <1>1, <1>2, <2>1, <2>2 DEF Outbox!Acknowledge
    <2> QED BY <1>1, <2>3 DEF Outbox!Next
  <1>5. CASE stream' = stream
    BY <1>3, <1>5
  <1>6. CASE stream' = [stream EXCEPT ![msg[s]] = Settled(msg[s], pc[s])]
    <2>1. CASE stream[msg[s]] \in {"acked", "termed"}
      BY <1>1, <1>3, <1>6, <2>1 DEF Settled
    <2>2. CASE stream[msg[s]] \notin {"acked", "termed"} /\ pc[s] = "ack"
      BY <1>4, <1>6, <2>2 DEF Settled
    <2>3. CASE stream[msg[s]] \notin {"acked", "termed"} /\ pc[s] \in {"nak", "term"}
      <3>1. Settled(msg[s], pc[s]) # "acked"
        BY <2>3 DEF Settled
      <3> QED BY <1>1, <1>3, <1>6, <2>3, <3>1
    <2> QED BY <2>1, <2>2, <2>3 DEF Settle
  <1> QED BY <1>5, <1>6 DEF Settle

LEMMA CompleteRefines ==
    ASSUME Inv, [Next]_vars, NEW s \in Slot, Complete(s)
    PROVE  Outbox!Next \/ UNCHANGED Outbox!outbox
  <1> USE ConstantsAssumption
  <1>1. stream' = stream /\ published' = published
    BY DEF Complete, broker
  <1>2. Acked' = Acked
    BY <1>1, AckedKept
  <1>3. KeyAt(s) \in Key /\ out[s] \in Outcome /\ rec \in [Key -> Record]
    BY DEF Complete, Inv, TypeInv, TypeOK, GoroutineOK, KeyAt
  <1>4. CASE rec' = rec
    BY <1>1, <1>2, <1>4, ZenonT(60) DEF Decided, Outbox!outbox
  <1>5. CASE Holds(s) /\ rec' = [rec EXCEPT ![KeyAt(s)] =
                                  [state |-> "completed", body |-> @.body, holder |-> @.holder,
                                   left |-> 0, outcome |-> out[s]]]
    <2>1. rec[KeyAt(s)].body \in Body
      BY <1>3, <1>5 DEF Holds, Inv, TypeInv, RecordOK
    <2>2. Decided[KeyAt(s)] = Outbox!Undecided
      BY <1>3, <1>5 DEF Holds, Decided, Outbox!Undecided
    <2>3. Decided' = [Decided EXCEPT ![KeyAt(s)] = [body |-> rec[KeyAt(s)].body, outcome |-> out[s]]]
      BY <1>3, <1>5, ZenonT(60) DEF Decided
    <2>4. Outbox!Decide(KeyAt(s))
      BY <1>1, <1>2, <1>3, <2>1, <2>2, <2>3, ZenonT(60) DEF Outbox!Decide
    <2> QED BY <1>3, <2>4 DEF Outbox!Next
  <1> QED BY <1>4, <1>5 DEF Complete

LEMMA NextRefines ==
    ASSUME Inv, [Next]_vars
    PROVE  Outbox!Next \/ UNCHANGED Outbox!outbox
  <1> USE ConstantsAssumption
  <1>0. TypeInv
    BY DEF Inv
  <1>1. CASE /\ published' = published
             /\ \A k \in Key : rec'[k].state = "completed" => rec[k].state = "completed"
             /\ \A m \in Msg : (stream'[m] = "acked") = (stream[m] = "acked")
    BY <1>0, <1>1, DecidedKept, AckedKept DEF Outbox!outbox
  <1>2. CASE published' = published /\ rec' = rec /\ stream' = stream
    BY <1>1, <1>2, ZenonT(60)
  <1>3. ASSUME NEW s \in Slot, Claim(s) \/ Abort(s)
        PROVE  Outbox!Next \/ UNCHANGED Outbox!outbox
    <2>1. published' = published /\ stream' = stream
      BY <1>3, ZenonT(60) DEF Claim, Abort, broker
    <2>2. \/ rec' = rec \/ rec' = Claimed(s) \/ rec' = [rec EXCEPT ![KeyAt(s)] = Absent]
      BY <1>3, ZenonT(60) DEF Claim, Abort
    <2>3. ASSUME NEW k \in Key, rec'[k].state = "completed" PROVE rec[k].state = "completed"
      <3>0. rec = [q \in Key |-> rec[q]]
        BY <1>0, ZenonT(60) DEF TypeInv, TypeOK
      <3>1. CASE rec' = rec
        BY <2>3, <3>1, ZenonT(60)
      <3>2. CASE rec' = Claimed(s)
        BY <2>3, <3>0, <3>2 DEF Claimed
      <3>3. CASE rec' = [rec EXCEPT ![KeyAt(s)] = Absent]
        BY <2>3, <3>0, <3>3 DEF Absent
      <3> QED BY <2>2, <3>1, <3>2, <3>3, ZenonT(60)
    <2> QED BY <1>1, <2>1, <2>3, ZenonT(60)
  <1>4. ASSUME NEW s \in Slot, RenewStep(s)
        PROVE  Outbox!Next \/ UNCHANGED Outbox!outbox
    <2>1. published' = published /\ stream' = stream
      BY <1>4, ZenonT(60) DEF RenewStep, RenewTick, RenewReply, RenewExit, broker
    <2>2. rec' = rec \/ rec' = Renewed(s)
      BY <1>4 DEF RenewStep, RenewTick, RenewReply, RenewExit, broker
    <2>3. ASSUME NEW k \in Key, rec'[k].state = "completed" PROVE rec[k].state = "completed"
      <3>1. rec \in [Key -> Record]
        BY <1>0 DEF TypeInv, TypeOK
      <3>2. CASE rec' = rec
        BY <2>3, <3>2
      <3>3. CASE rec' = Renewed(s)
        BY <2>3, <3>1, <3>3 DEF Renewed, Record
      <3> QED BY <2>2, <3>2, <3>3
    <2> QED BY <1>1, <2>1, <2>3
  <1>5. ASSUME Tick PROVE Outbox!Next \/ UNCHANGED Outbox!outbox
    <2>1. published' = published /\ stream' = stream
      BY <1>5 DEF Tick
    <2>2. ASSUME NEW k \in Key, rec'[k].state = "completed" PROVE rec[k].state = "completed"
      <3>1. rec'[k] = [rec[k] EXCEPT !.left = Down(@)] /\ rec[k] \in Record
        BY <1>0, <1>5 DEF Tick, TypeInv, TypeOK
      <3> QED BY <2>2, <3>1, RecordTick
    <2> QED BY <1>1, <2>1, <2>2
  <1>6. ASSUME NEW s \in Slot, Step(s)
        PROVE  Outbox!Next \/ UNCHANGED Outbox!outbox
    <2>1. CASE AcquireSlot(s) \/ Admit(s) \/ BeginReplay(s) \/ HandlerReturns(s) \/ LeaseStopped(s)
      BY <1>2, <2>1, ZenonT(60) DEF AcquireSlot, Admit, BeginReplay, HandlerReturns, LeaseStopped, broker
    <2> QED BY <1>3, <1>6, <2>1, PublishRefines, SettleRefines, CompleteRefines, ZenonT(60) DEF Step
  <1>7. ASSUME NEW m \in Msg, (\E s \in Slot : Deliver(s, m)) \/ (\E w \in Worker : DeliverDropped(w, m))
                              \/ AckTimeout(m)
        PROVE  Outbox!Next \/ UNCHANGED Outbox!outbox
    <2>1. published' = published /\ rec' = rec
      BY <1>7, ZenonT(60) DEF Deliver, DeliverDropped, AckTimeout
    <2>2. \A n \in Msg : (stream'[n] = "acked") = (stream[n] = "acked")
      BY <1>0, <1>7, ZenonT(60) DEF Deliver, DeliverDropped, AckTimeout, TypeInv, TypeOK
    <2> QED BY <1>1, <2>1, <2>2, ZenonT(60)
  <1>8. ASSUME NEW w \in Worker, Cancel(w) \/ SessionLapses(w) \/ RenewalFatal(w)
                                 \/ Close(w) \/ Crash(w) \/ Restart(w)
        PROVE  Outbox!Next \/ UNCHANGED Outbox!outbox
    BY <1>2, <1>8 DEF Cancel, SessionLapses, RenewalFatal, Close, Crash, Restart, broker
  <1>9. CASE UNCHANGED vars
    BY <1>2, <1>9 DEF vars
  <1> QED BY <1>4, <1>5, <1>6, <1>7, <1>8, <1>9 DEF Next

LEMMA InitRefines == Init => Outbox!Init
  BY DEF Init, Outbox!Init, Outbox!Undecided, Decided, Acked, Absent

(* The worker's settlement implements the one-outcome outbox: ImplementsOutbox *)
THEOREM Refinement == Spec => ImplementsOutbox
  <1>1. Inv /\ [Next]_vars => [Outbox!Next]_Outbox!outbox
    BY NextRefines
  <1> QED BY InitInv, NextInv, InitRefines, <1>1, PTL DEF Spec, ImplementsOutbox, Outbox!Spec
=============================================================================
