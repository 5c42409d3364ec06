----------------------- MODULE ManagedExclusionProofs -----------------------
(* Of the handlers of one key whose renewals are not late, at most one runs   *)
(* with a live context: why the lease of managed_replay_lease.go is enough    *)
(* to keep two deliveries of one job from working side by side.               *)
EXTENDS ManagedSettlementProofs

(* A handler at work whose renewal has never been late. *)
LiveRun(s) == pc[s] = "run" /\ CtxLive(s) /\ ~lerr[s] /\ s \notin late

(* Messages with one signed body expire together. *)
SameExpiry == \A m, n \in Msg : BodyOf[m] = BodyOf[n] => ttl[m] = ttl[n]

(* A live handler still renews, and the store's record is its own lease,      *)
(* which has time left unless the message itself has expired.                 *)
LiveLease ==
    \A s \in Slot : LiveRun(s) =>
        /\ renewer[s] # "done"
        /\ Holds(s)
        /\ rec[KeyAt(s)].left > 0 \/ ttl[msg[s]] = 0

ExclusionInv == Inv /\ SameExpiry /\ LiveLease

LEMMA SameExpiryStep == TypeInv /\ SameExpiry /\ [Next]_vars => SameExpiry'
  <1> SUFFICES ASSUME TypeInv, SameExpiry, [Next]_vars PROVE SameExpiry'
    OBVIOUS
  <1>1. CASE ttl' = ttl
    BY <1>1 DEF SameExpiry
  <1>2. CASE Tick
    BY <1>2 DEF Tick, SameExpiry
  <1>3. ASSUME NEW s \in Slot, Step(s) \/ RenewStep(s) PROVE ttl' = ttl
    BY <1>3
    DEF Step, AcquireSlot, Admit, BeginReplay, Claim, HandlerReturns, LeaseStopped, Abort,
        Complete, Publish, Settle, RenewStep, RenewTick, RenewReply, RenewExit, broker
  <1>4. ASSUME NEW m \in Msg, (\E s \in Slot : Deliver(s, m)) \/ (\E w \in Worker : DeliverDropped(w, m))
                              \/ AckTimeout(m)
        PROVE  ttl' = ttl
    BY <1>4, ZenonT(60) DEF Deliver, DeliverDropped, AckTimeout
  <1>5. ASSUME NEW w \in Worker, Cancel(w) \/ SessionLapses(w) \/ RenewalFatal(w)
                                 \/ Close(w) \/ Crash(w) \/ Restart(w)
        PROVE  ttl' = ttl
    BY <1>5 DEF Cancel, SessionLapses, RenewalFatal, Close, Crash, Restart, broker
  <1>6. CASE UNCHANGED vars
    BY <1>1, <1>6 DEF vars
  <1> QED BY <1>1, <1>2, <1>3, <1>4, <1>5, <1>6 DEF Next
-----------------------------------------------------------------------------
(* How a handler comes to run with a live context: it did before and still    *)
(* renews, or this step claimed the key for it.                               *)
StaysLive(s) ==
    /\ LiveRun(s) /\ msg'[s] = msg[s]
    /\ renewer[s] # "done" => renewer'[s] # "done"

BecomesLive(s) ==
    /\ pc[s] = "claim" /\ ClaimState(s) = "process" /\ msg'[s] = msg[s]
    /\ rec' = Claimed(s) /\ ttl' = ttl /\ renewer'[s] = "wait"

LEMMA LiveSteps ==
    ASSUME TypeInv, [Next]_vars, NEW t \in Slot, LiveRun(t)'
    PROVE  StaysLive(t) \/ BecomesLive(t)
  <1> USE ConstantsAssumption
  <1>l. pc'[t] = "run" /\ ctxLive'[WorkerOf[t]] /\ ~lerr'[t] /\ t \notin late'
    BY DEF LiveRun, CtxLive
  <1>1. CASE UNCHANGED <<pc, msg, renewer, lerr, late, ctxLive>>
    BY <1>l, <1>1 DEF StaysLive, LiveRun, CtxLive
  <1>2. ASSUME NEW s \in Slot, Step(s) PROVE StaysLive(t) \/ BecomesLive(t)
    <2>1. ctxLive' = ctxLive
      BY <1>2
      DEF Step, AcquireSlot, Admit, BeginReplay, Claim, HandlerReturns, LeaseStopped, Abort,
          Complete, Publish, Settle, worker
    <2>2. CASE Claim(s)
      <3>1. CASE s = t
        BY <1>l, <2>2, <3>1 DEF Claim, Goto, BecomesLive, TypeInv, TypeOK, broker
      <3>2. CASE s # t
        BY <1>l, <2>1, <2>2, <3>2 DEF Claim, Goto, StaysLive, LiveRun, CtxLive, TypeInv, TypeOK
      <3> QED BY <3>1, <3>2
    <2>3. CASE AcquireSlot(s)
      <3>1. CASE Goto(s, "admit") /\ UNCHANGED <<msg, renewer, lerr, late>>
        BY <1>l, <2>1, <3>1 DEF Goto, StaysLive, LiveRun, CtxLive, TypeInv, TypeOK
      <3>2. CASE End({s})
        BY <1>l, <2>1, <3>2 DEF End, StaysLive, LiveRun, CtxLive, TypeInv, TypeOK
      <3> QED BY <2>3, <3>1, <3>2 DEF AcquireSlot
    <2>4. CASE Admit(s)
      <3>1. Admission(s) # "run"
        BY DEF Admission
      <3> QED BY <1>l, <2>1, <2>4, <3>1 DEF Admit, Goto, StaysLive, LiveRun, CtxLive, TypeInv, TypeOK
    <2>5. CASE BeginReplay(s)
      BY <1>l, <2>1, <2>5 DEF BeginReplay, Goto, StaysLive, LiveRun, CtxLive, TypeInv, TypeOK
    <2>6. CASE HandlerReturns(s) \/ LeaseStopped(s)
      BY <1>l, <2>1, <2>6 DEF HandlerReturns, LeaseStopped, Goto, StaysLive, LiveRun, CtxLive, TypeInv, TypeOK
    <2>7. CASE Abort(s) \/ Complete(s) \/ Publish(s)
      BY <1>l, <2>1, <2>7 DEF Abort, Complete, Publish, Goto, StaysLive, LiveRun, CtxLive, TypeInv, TypeOK
    <2>8. CASE Settle(s)
      BY <1>l, <2>1, <2>8 DEF Settle, End, StaysLive, LiveRun, CtxLive, TypeInv, TypeOK
    <2> QED BY <1>2, <2>2, <2>3, <2>4, <2>5, <2>6, <2>7, <2>8 DEF Step
  <1>3. ASSUME NEW s \in Slot, RenewStep(s) PROVE StaysLive(t) \/ BecomesLive(t)
    <2>1. pc' = pc /\ msg' = msg /\ ctxLive' = ctxLive /\ late' = late
      BY <1>3 DEF RenewStep, RenewTick, RenewReply, RenewExit, worker
    <2>2. CASE LeaseFails(s)
      BY <1>l, <2>1, <2>2 DEF LeaseFails, StaysLive, LiveRun, CtxLive, TypeInv, TypeOK
    <2>3. CASE lerr' = lerr /\ renewer' = [renewer EXCEPT ![s] = "call"]
      BY <1>l, <2>1, <2>3 DEF StaysLive, LiveRun, CtxLive, TypeInv, TypeOK
    <2>4. CASE lerr' = lerr /\ renewer' = [renewer EXCEPT ![s] = "wait"]
      BY <1>l, <2>1, <2>4 DEF StaysLive, LiveRun, CtxLive, TypeInv, TypeOK
    <2>5. CASE RenewExit(s)
      BY <1>l, <2>1, <2>5 DEF RenewExit, RenewCancelled, StaysLive, LiveRun, CtxLive, TypeInv, TypeOK
    <2> QED BY <1>3, <2>2, <2>3, <2>4, <2>5 DEF RenewStep, RenewTick, RenewReply
  <1>4. ASSUME NEW s \in Slot, NEW m \in Msg, Deliver(s, m) PROVE StaysLive(t) \/ BecomesLive(t)
    BY <1>l, <1>4 DEF Deliver, Goto, worker, StaysLive, LiveRun, CtxLive, TypeInv, TypeOK
  <1>5. ASSUME NEW m \in Msg, (\E w \in Worker : DeliverDropped(w, m)) \/ AckTimeout(m)
        PROVE  StaysLive(t) \/ BecomesLive(t)
    BY <1>1, <1>5, ZenonT(60) DEF DeliverDropped, AckTimeout, goroutines, worker
  <1>6. ASSUME NEW w \in Worker, Cancel(w) \/ SessionLapses(w) \/ RenewalFatal(w) \/ Close(w) \/ Crash(w)
        PROVE  StaysLive(t) \/ BecomesLive(t)
    <2>1. CASE Crash(w)
      BY <1>l, <2>1 DEF Crash, End, StaysLive, LiveRun, CtxLive, TypeInv, TypeOK
    <2>2. CASE ~Crash(w)
      <3>1. UNCHANGED <<pc, msg, renewer, lerr, late>>
        BY <1>6, <2>2 DEF Cancel, SessionLapses, RenewalFatal, Close, goroutines
      <3>2. ctxLive' = ctxLive \/ ctxLive' = [ctxLive EXCEPT ![w] = FALSE]
        BY <1>6, <2>2 DEF Cancel, SessionLapses, RenewalFatal, Close, goroutines
      <3> QED BY <1>l, <3>1, <3>2 DEF StaysLive, LiveRun, CtxLive, TypeInv, TypeOK
    <2> QED BY <2>1, <2>2
  <1>7. ASSUME NEW w \in Worker, Restart(w) PROVE StaysLive(t) \/ BecomesLive(t)
    BY <1>l, <1>7 DEF Restart, Working, goroutines, StaysLive, LiveRun, CtxLive, TypeInv, TypeOK
  <1>8. CASE Tick
    <2>1. UNCHANGED <<pc, msg, renewer, lerr, ctxLive>> /\ t \notin late
      BY <1>l, <1>8 DEF Tick, worker
    <2> QED BY <1>l, <2>1 DEF StaysLive, LiveRun, CtxLive
  <1>9. CASE UNCHANGED vars
    BY <1>1, <1>9 DEF vars
  <1> QED BY <1>2, <1>3, <1>4, <1>5, <1>6, <1>7, <1>8, <1>9 DEF Next
-----------------------------------------------------------------------------
LEMMA InitExclusion == Init => ExclusionInv
  <1> SUFFICES ASSUME Init PROVE ExclusionInv
    OBVIOUS
  <1>1. Inv
    BY InitInv
  <1>2. SameExpiry
    BY SameBodyAssumption DEF Init, SameExpiry
  <1>3. LiveLease
    BY DEF Init, LiveLease, LiveRun
  <1> QED BY <1>1, <1>2, <1>3 DEF ExclusionInv

(* The lease of a handler that stays live survives every step. *)
LeaseKept(t) ==
    /\ rec'[KeyAt(t)].state = "claimed" /\ rec'[KeyAt(t)].holder = t
    /\ rec'[KeyAt(t)].left > 0 \/ ttl'[msg[t]] = 0

LEMMA LeaseSteps ==
    ASSUME ExclusionInv, [Next]_vars, NEW t \in Slot, LiveRun(t), t \notin late'
    PROVE  LeaseKept(t)
  <1> USE ConstantsAssumption
  <1>0. /\ TypeInv /\ pc[t] = "run" /\ CtxLive(t)
        /\ msg[t] \in Msg /\ KeyAt(t) \in Key /\ BodyAt(t) \in Body
    BY DEF ExclusionInv, Inv, LiveRun, TypeInv, GoroutineOK, KeyAt, BodyAt
  <1>l. /\ renewer[t] # "done" /\ Holds(t)
        /\ rec[KeyAt(t)].left > 0 \/ ttl[msg[t]] = 0
    BY DEF ExclusionInv, LiveLease
  <1>b. rec[KeyAt(t)].body = BodyAt(t)
    BY <1>0, <1>l DEF ExclusionInv, Inv, ClaimOK
  <1>1. CASE rec'[KeyAt(t)] = rec[KeyAt(t)] /\ ttl' = ttl
    BY <1>l, <1>1 DEF LeaseKept, Holds
  <1>2. CASE rec' = rec /\ ttl' = ttl
    BY <1>1, <1>2
  <1>3. ASSUME NEW s \in Slot, Claim(s) PROVE LeaseKept(t)
    <2>1. ttl' = ttl
      BY <1>3 DEF Claim, broker
    <2>2. CASE ClaimState(s) = "process" /\ rec' = Claimed(s)
      <3>1. KeyAt(s) # KeyAt(t)
        <4> SUFFICES ASSUME KeyAt(s) = KeyAt(t) PROVE FALSE
          OBVIOUS
        <4>1. /\ ttl[msg[s]] # 0 /\ rec[KeyAt(t)].body = BodyAt(s) /\ ~(rec[KeyAt(t)].left > 0)
          BY <1>l, <2>2 DEF ClaimState, Holds
        <4>2. msg[s] \in Msg
          BY <1>0, <1>3 DEF Claim, TypeInv, GoroutineOK
        <4>3. ttl[msg[s]] = ttl[msg[t]]
          BY <1>0, <1>b, <4>1, <4>2, ZenonT(60) DEF ExclusionInv, SameExpiry, BodyAt
        <4> QED BY <1>l, <4>1, <4>3
      <3> QED BY <1>0, <1>1, <2>1, <2>2, <3>1 DEF Claimed, TypeInv, TypeOK
    <2> QED BY <1>2, <1>3, <2>1, <2>2 DEF Claim
  <1>4. ASSUME NEW s \in Slot, Abort(s) \/ Complete(s) PROVE LeaseKept(t)
    <2>1. ttl' = ttl /\ s # t
      BY <1>0, <1>4 DEF Abort, Complete, broker
    <2>2. CASE Holds(s)
      <3>1. KeyAt(s) # KeyAt(t)
        BY <1>l, <2>1, <2>2 DEF Holds
      <3>2. rec'[KeyAt(t)] = rec[KeyAt(t)]
        BY <1>0, <1>4, <3>1 DEF Abort, Complete, TypeInv, TypeOK
      <3> QED BY <1>1, <2>1, <3>2
    <2>3. CASE ~Holds(s)
      BY <1>2, <1>4, <2>1, <2>3 DEF Abort, Complete
    <2> QED BY <2>2, <2>3
  <1>5. ASSUME NEW s \in Slot, RenewReply(s) PROVE LeaseKept(t)
    <2>1. ttl' = ttl
      BY <1>5 DEF RenewReply
    <2>2. CASE Holds(s) /\ until[s] > 0 /\ rec' = Renewed(s)
      <3>1. CASE s = t
        <4>1. /\ rec'[KeyAt(t)].left = until[t] /\ rec'[KeyAt(t)].state = rec[KeyAt(t)].state
              /\ rec'[KeyAt(t)].holder = rec[KeyAt(t)].holder
          BY <1>0, <2>2, <3>1 DEF Renewed, TypeInv, TypeOK, Record
        <4> QED BY <1>l, <2>2, <3>1, <4>1 DEF LeaseKept, Holds
      <3>2. CASE s # t
        <4>1. KeyAt(s) # KeyAt(t)
          BY <1>l, <2>2, <3>2 DEF Holds
        <4> QED BY <1>0, <1>1, <2>1, <2>2, <4>1 DEF Renewed, TypeInv, TypeOK
      <3> QED BY <3>1, <3>2
    <2> QED BY <1>2, <1>5, <2>1, <2>2 DEF RenewReply
  <1>6. ASSUME Tick PROVE LeaseKept(t)
    <2>1. ~RenewalDue(t)
      BY <1>0, <1>6 DEF Tick
    <2>2. rec'[KeyAt(t)] = [rec[KeyAt(t)] EXCEPT !.left = Down(@)] /\ rec[KeyAt(t)] \in Record
      BY <1>0, <1>6 DEF Tick, TypeInv, TypeOK
    <2>3. ttl'[msg[t]] = Down(ttl[msg[t]]) /\ ttl[msg[t]] \in Nat
      BY <1>0, <1>6 DEF Tick, TypeInv, TypeOK
    <2>4. rec[KeyAt(t)].left \in Nat
      BY <2>2 DEF Record
    <2>5. /\ rec'[KeyAt(t)].left = Down(rec[KeyAt(t)].left)
          /\ rec'[KeyAt(t)].state = rec[KeyAt(t)].state /\ rec'[KeyAt(t)].holder = rec[KeyAt(t)].holder
      BY <2>2, RecordTick
    <2>6. rec[KeyAt(t)].left = 1 => ttl[msg[t]] \in {0, 1}
      BY <1>0, <1>l, <2>1, <2>3 DEF RenewalDue
    <2>7. Down(rec[KeyAt(t)].left) > 0 \/ Down(ttl[msg[t]]) = 0
      BY <1>l, <2>3, <2>4, <2>6 DEF Down
    <2> QED BY <1>l, <2>3, <2>5, <2>7 DEF LeaseKept, Holds
  <1>7. ASSUME NEW s \in Slot, Step(s) PROVE LeaseKept(t)
    <2>1. CASE Claim(s) \/ Abort(s) \/ Complete(s)
      BY <1>2, <1>3, <1>4, <2>1
    <2>2. CASE \/ AcquireSlot(s) \/ Admit(s) \/ BeginReplay(s) \/ HandlerReturns(s)
               \/ LeaseStopped(s) \/ Publish(s) \/ Settle(s)
      BY <1>2, <1>3, <1>4, <2>2, ZenonT(60)
      DEF AcquireSlot, Admit, BeginReplay, HandlerReturns, LeaseStopped, Publish, Settle, broker
    <2> QED BY <1>7, <2>1, <2>2, ZenonT(60) DEF Step
  <1>8. ASSUME NEW s \in Slot, RenewStep(s) PROVE LeaseKept(t)
    BY <1>2, <1>5, <1>8 DEF RenewStep, RenewTick, RenewExit, broker
  <1>9. ASSUME NEW m \in Msg, (\E s \in Slot : Deliver(s, m)) \/ (\E w \in Worker : DeliverDropped(w, m))
                              \/ AckTimeout(m)
        PROVE  LeaseKept(t)
    BY <1>2, <1>9, ZenonT(60) DEF Deliver, DeliverDropped, AckTimeout
  <1>10. ASSUME NEW w \in Worker, Cancel(w) \/ SessionLapses(w) \/ RenewalFatal(w)
                                  \/ Close(w) \/ Crash(w) \/ Restart(w)
         PROVE  LeaseKept(t)
    BY <1>2, <1>10 DEF Cancel, SessionLapses, RenewalFatal, Close, Crash, Restart, broker
  <1>11. CASE UNCHANGED vars
    BY <1>2, <1>11 DEF vars
  <1> QED BY <1>6, <1>7, <1>8, <1>9, <1>10, <1>11 DEF Next

LEMMA NextExclusion == ExclusionInv /\ [Next]_vars => ExclusionInv'
  <1> SUFFICES ASSUME ExclusionInv, [Next]_vars PROVE ExclusionInv'
    OBVIOUS
  <1> USE ConstantsAssumption
  <1>1. Inv /\ Inv' /\ TypeInv
    BY NextInv DEF ExclusionInv, Inv
  <1>2. SameExpiry'
    BY <1>1, SameExpiryStep DEF ExclusionInv
  <1>3. LiveLease'
    <2> SUFFICES ASSUME NEW t \in Slot, LiveRun(t)'
                 PROVE  /\ renewer'[t] # "done" /\ Holds(t)'
                        /\ rec'[KeyAt(t)'].left > 0 \/ ttl'[msg'[t]] = 0
      BY DEF LiveLease
    <2>1. CASE StaysLive(t)
      <3>1. LeaseKept(t) /\ KeyAt(t)' = KeyAt(t)
        <4>1. t \notin late'
          BY DEF LiveRun
        <4> QED BY <2>1, <4>1, LeaseSteps DEF StaysLive, KeyAt
      <3>2. renewer'[t] # "done"
        BY <2>1 DEF StaysLive, ExclusionInv, LiveLease
      <3> QED BY <2>1, <3>1, <3>2 DEF LeaseKept, Holds, StaysLive
    <2>2. CASE BecomesLive(t)
      <3>1. KeyAt(t)' = KeyAt(t) /\ KeyAt(t) \in Key /\ until[t] \in Nat /\ until[t] # 0
        BY <1>1, <2>2 DEF BecomesLive, KeyAt, ClaimState, TypeInv, TypeOK, GoroutineOK
      <3>2. rec'[KeyAt(t)] = [state |-> "claimed", body |-> BodyAt(t), holder |-> t,
                              left |-> until[t], outcome |-> None]
        BY <1>1, <2>2, <3>1 DEF BecomesLive, Claimed, TypeInv, TypeOK
      <3> QED BY <2>2, <3>1, <3>2 DEF BecomesLive, Holds
    <2> QED BY <1>1, <2>1, <2>2, LiveSteps
  <1> QED BY <1>1, <1>2, <1>3 DEF ExclusionInv

(* One live handler per key whose renewal is not late: see HandlersExclusive. *)
THEOREM OneLiveHandler == Spec => []HandlersExclusive
  <1>1. ExclusionInv => HandlersExclusive
    BY DEF ExclusionInv, LiveLease, LiveRun, Holds, HandlersExclusive
  <1>2. ExclusionInv /\ [Next]_vars => ExclusionInv'
    BY NextExclusion
  <1> QED BY InitExclusion, <1>1, <1>2, PTL DEF Spec
=============================================================================
