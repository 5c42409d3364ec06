--------------------- MODULE ProductionAdmissionProofs ---------------------
(***************************************************************************)
(* Proofs about ProductionAdmission for every set of packets and subjects, *)
(* every skew and lifetime, and every SDK.                                 *)
(***************************************************************************)
EXTENDS ProductionAdmission, TLAPS

----------------------------------------------------------------------------
(* What the three verifiers and the three stores have in common. *)

(***************************************************************************)
(* Whatever the SDK, an admissible packet was addressed to the subject it  *)
(* arrived on and its expiry is within the permitted lifetime.             *)
(***************************************************************************)
LEMMA AdmissibleFacts ==
    ASSUME sdk \in Sdk, NEW p \in Packet, NEW s \in Subject, NEW now \in Nat,
           Admissible(p, s, now)
    PROVE  /\ p.audience = s
           /\ p.expires <= now + MaxLifetime + Skew
<1>1. CASE sdk = "go"
  BY <1>1 DEF Admissible, GoAdmissible, GoVerify, GoMetadata
<1>2. CASE sdk = "node"
  BY <1>2 DEF Admissible, NodeAdmissible, NodeVerify, NodeLifetime
<1>3. CASE sdk = "python"
  BY <1>3 DEF Admissible, PyAdmissible, PyVerify, PyMetadata
<1>4. QED
  BY <1>1, <1>2, <1>3, SdkAssumption

(***************************************************************************)
(* Whatever the SDK, the store answers "first" when it holds no live entry *)
(* for the key, "duplicate" when it holds the packet and "conflict" when   *)
(* it holds another one.                                                   *)
(***************************************************************************)
LEMMA OutcomeFacts ==
    ASSUME sdk \in Sdk, NEW p \in Packet, NEW now \in Nat
    PROVE  \/ Outcome(p, now) = "first" /\ Same(p, now) = {}
           \/ Outcome(p, now) = "duplicate" /\ (\E e \in Same(p, now) : e.packet = p)
           \/ /\ Outcome(p, now) = "conflict"
              /\ \E e \in Same(p, now) : e.packet # p
<1>1. {e \in Same(p, now) : e.expires > now} = Same(p, now)
  BY DEF Same, Live
<1>2. CASE sdk = "go"
  BY <1>2 DEF Outcome, GoOutcome
<1>3. CASE sdk = "node"
  BY <1>1, <1>3 DEF Outcome, NodeOutcome
<1>4. CASE sdk = "python"
  BY <1>1, <1>4 DEF Outcome, PyOutcome
<1>5. QED
  BY <1>2, <1>3, <1>4, SdkAssumption

----------------------------------------------------------------------------
(* The inductive invariant. *)

\* TypeOK without the uniqueness of keys.
Types ==
    /\ sdk \in Sdk
    /\ clock \in 0..MaxTime
    /\ deliveries \in 0..MaxDeliveries
    /\ entries \subseteq [packet : Packet, expires : Nat]
    /\ call \in [Subject -> [step : Step, packet : Packet \cup {NoPacket},
                             now : 0..MaxTime, verdict : Verdict]]
    /\ dispatched \in [Packet -> Nat]

\* A call in progress is about a packet for its own subject, whose expiry
\* was within bounds and lies, with the skew, after the time it has read.
CallsOK ==
    \A s \in Subject :
        /\ call[s].verdict # "none" => call[s].packet \in Packet
        /\ call[s].step # "idle" =>
              /\ call[s].packet \in Packet
              /\ call[s].packet.audience = s
              /\ call[s].packet.expires <= clock + MaxLifetime + Skew
              /\ call[s].now <= clock
              /\ call[s].step = "timed" =>
                    call[s].packet.expires + Skew > call[s].now

\* Every entry is the record of a dispatched packet, under a key of its own.
StoreOK ==
    /\ \A e \in entries : e = Entry(e.packet) /\ dispatched[e.packet] > 0
    /\ \A e, f \in entries : SameKey(e.packet, f.packet) => e = f

\* A dispatched packet is on record while its window is open, and has been
\* dispatched once.
WindowOK ==
    \A p \in Packet : Open(p) => Entry(p) \in entries /\ dispatched[p] = 1

Inv == Types /\ CallsOK /\ StoreOK /\ WindowOK /\ AnswersTrue /\ RetentionBounded

(***************************************************************************)
(* Init establishes the invariant.                                         *)
(***************************************************************************)
LEMMA InitInv == Init => Inv
<1> SUFFICES ASSUME Init PROVE Inv
  OBVIOUS
<1>1. Types
  BY BoundAssumption DEF Init, Types, Done, Step, Verdict
<1>2. CallsOK /\ StoreOK /\ AnswersTrue /\ RetentionBounded
  BY DEF Init, CallsOK, StoreOK, AnswersTrue, RetentionBounded, Done
<1>3. WindowOK
  BY DEF Init, WindowOK, Open
<1>4. QED
  BY <1>1, <1>2, <1>3 DEF Inv

(***************************************************************************)
(* A delivery that is refused, for whatever reason, preserves it.          *)
(***************************************************************************)
LEMMA RefusalInv ==
    ASSUME Inv, NEW s \in Subject, NEW p \in Packet,
           NEW v \in {"refused"}, Deliver(s),
           call' = [call EXCEPT ![s] = Done(p, v)],
           UNCHANGED <<sdk, clock, entries, dispatched>>
    PROVE  Inv'
<1>1. Types'
  BY BoundAssumption DEF Inv, Types, Done, Deliver, Step, Verdict
<1>2. CallsOK'
  BY DEF Inv, Types, CallsOK, Done
<1>3. StoreOK' /\ WindowOK' /\ RetentionBounded'
  BY DEF Inv, StoreOK, WindowOK, RetentionBounded, Open
<1>4. AnswersTrue'
  BY DEF Inv, Types, AnswersTrue, Done
<1>5. QED
  BY <1>1, <1>2, <1>3, <1>4 DEF Inv

(***************************************************************************)
(* Passing the checks preserves it.                                        *)
(***************************************************************************)
LEMMA VerifyInv ==
    ASSUME Inv, NEW s \in Subject, NEW p \in Packet, Verify(s, p)
    PROVE  Inv'
<1>1. Types'
  BY BoundAssumption DEF Inv, Types, Verify, Deliver, Step, Verdict
<1>2. /\ p.audience = s
      /\ p.expires <= clock + MaxLifetime + Skew
  BY AdmissibleFacts, BoundAssumption DEF Inv, Types, Verify
<1>3. CallsOK'
  BY <1>2, BoundAssumption DEF Inv, Types, CallsOK, Verify
<1>4. StoreOK' /\ WindowOK' /\ RetentionBounded'
  BY DEF Inv, StoreOK, WindowOK, RetentionBounded, Open, Verify
<1>5. AnswersTrue'
  BY DEF Inv, Types, AnswersTrue, Verify
<1>6. QED
  BY <1>1, <1>3, <1>4, <1>5 DEF Inv

(***************************************************************************)
(* Reading the clock preserves it.                                         *)
(***************************************************************************)
LEMMA ReadClockInv ==
    ASSUME Inv, NEW s \in Subject, ReadClock(s)
    PROVE  Inv'
<1> DEFINE c == IF Entry(call[s].packet).expires > clock
                THEN [call[s] EXCEPT !.step = "timed", !.now = clock]
                ELSE Done(call[s].packet, "unavailable")
           C == [step : Step, packet : Packet \cup {NoPacket},
                 now : 0..MaxTime, verdict : Verdict]
<1>a. call[s] \in C /\ clock \in 0..MaxTime
  BY DEF Inv, Types
<1>b. [call[s] EXCEPT !.step = "timed", !.now = clock] \in C
  BY <1>a, ZenonT(60) DEF Step
<1>c. Done(call[s].packet, "unavailable") \in C
  BY <1>a, BoundAssumption DEF Done, Step, Verdict
<1>d. c \in C
  BY <1>b, <1>c
<1>1. Types'
  <2>1. call' = [call EXCEPT ![s] = c]
    BY DEF ReadClock
  <2>2. call' \in [Subject -> C]
    BY <1>d, <2>1 DEF Inv, Types
  <2>3. QED
    BY <2>2 DEF Inv, Types, ReadClock
<1>2. CallsOK'
  BY BoundAssumption, PacketAssumption DEF Inv, Types, CallsOK, ReadClock, Done, Entry
<1>3. StoreOK' /\ WindowOK' /\ RetentionBounded'
  BY DEF Inv, StoreOK, WindowOK, RetentionBounded, Open, ReadClock
<1>4. AnswersTrue'
  BY DEF Inv, Types, AnswersTrue, ReadClock, Done
<1>5. QED
  BY <1>1, <1>2, <1>3, <1>4 DEF Inv

(***************************************************************************)
(* The passing of time preserves it.                                       *)
(***************************************************************************)
LEMMA TickInv ==
    ASSUME Inv, Tick
    PROVE  Inv'
<1>1. Types'
  BY BoundAssumption DEF Inv, Types, Tick
<1>2. CallsOK' /\ StoreOK' /\ AnswersTrue'
  BY BoundAssumption, PacketAssumption DEF Inv, Types, CallsOK, StoreOK, AnswersTrue, Tick
<1>3. WindowOK'
  BY BoundAssumption, PacketAssumption DEF Inv, Types, WindowOK, Open, Tick
<1>4. RetentionBounded'
  BY BoundAssumption DEF Inv, Types, RetentionBounded, Tick
<1>5. QED
  BY <1>1, <1>2, <1>3, <1>4 DEF Inv

(***************************************************************************)
(* Asking the store preserves it.  Its time may be stale, but it is never  *)
(* ahead of the clock: what it prunes has expired, so a packet whose       *)
(* window is open is found.                                                *)
(***************************************************************************)
LEMMA AdmitInv ==
    ASSUME Inv, NEW s \in Subject, Admit(s)
    PROVE  Inv'
<1> DEFINE p == call[s].packet
           now == call[s].now
           outcome == Outcome(p, now)
<1>1. /\ p \in Packet
      /\ p.audience = s
      /\ p.expires \in Nat
      /\ p.expires <= clock + MaxLifetime + Skew
      /\ now \in Nat
      /\ now <= clock
      /\ p.expires + Skew > now
  BY PacketAssumption DEF Inv, Types, CallsOK, Admit
<1>2. /\ call' = [call EXCEPT ![s] = Done(p, outcome)]
      /\ sdk' = sdk /\ clock' = clock /\ deliveries' = deliveries
      /\ outcome = "first" =>
            /\ entries' = Live(now) \cup {Entry(p)}
            /\ dispatched' = [dispatched EXCEPT ![p] = @ + 1]
      /\ outcome # "first" => entries' = Live(now) /\ dispatched' = dispatched
  BY DEF Admit
<1>3. \/ outcome = "first" /\ Same(p, now) = {}
      \/ outcome = "duplicate" /\ (\E e \in Same(p, now) : e.packet = p)
      \/ outcome = "conflict" /\ (\E e \in Same(p, now) : e.packet # p)
  <2> HIDE DEF p, now
  <2> QED
    BY <1>1, OutcomeFacts DEF Inv, Types
<1> HIDE DEF p, now, outcome
<1>4. Live(now) \subseteq entries
  BY DEF Live
<1>5. Entry(p) \in [packet : Packet, expires : Nat]
  BY <1>1, BoundAssumption DEF Entry
<1>6. /\ dispatched' \in [Packet -> Nat]
      /\ \A q \in Packet : dispatched'[q] >= dispatched[q]
  BY <1>1, <1>2 DEF Inv, Types
<1>7. Types'
  <2>1. Done(p, outcome) \in [step : Step, packet : Packet \cup {NoPacket},
                              now : 0..MaxTime, verdict : Verdict]
    BY <1>1, <1>3, BoundAssumption DEF Done, Step, Verdict
  <2>2. call' \in [Subject -> [step : Step, packet : Packet \cup {NoPacket},
                               now : 0..MaxTime, verdict : Verdict]]
    BY <1>2, <2>1 DEF Inv, Types
  <2>3. entries' \subseteq [packet : Packet, expires : Nat]
    BY <1>2, <1>4, <1>5 DEF Inv, Types
  <2>4. QED
    BY <1>2, <1>6, <2>2, <2>3 DEF Inv, Types
<1>8. CallsOK'
  BY <1>1, <1>2 DEF Inv, Types, CallsOK, Done
<1>9. StoreOK'
  <2>1. CASE outcome = "first"
    <3>1. Same(p, now) = {}
      BY <1>3, <2>1
    <3>2. dispatched'[p] > 0
      BY <1>1, <1>2, <2>1 DEF Inv, Types
    <3>3. \A e \in Live(now) : ~SameKey(e.packet, p) /\ ~SameKey(p, e.packet)
      BY <3>1 DEF Same, SameKey
    <3>4. \A e \in Live(now) : e = Entry(e.packet) /\ dispatched'[e.packet] > 0
      BY <1>4, <1>6 DEF Inv, Types, StoreOK
    <3>5. Entry(p).packet = p
      BY DEF Entry
    <3>6. \A e \in entries' : e = Entry(e.packet) /\ dispatched'[e.packet] > 0
      BY <1>2, <2>1, <3>2, <3>4, <3>5
    <3>7. \A e, f \in entries' : SameKey(e.packet, f.packet) => e = f
      BY <1>2, <1>4, <2>1, <3>3, <3>5 DEF Inv, StoreOK
    <3>8. QED
      BY <3>6, <3>7 DEF StoreOK, Entry, SameKey
  <2>2. CASE outcome # "first"
    BY <1>2, <1>4, <2>2 DEF Inv, StoreOK, Entry, SameKey
  <2>3. QED
    BY <2>1, <2>2
<1>10. WindowOK'
  <2> SUFFICES ASSUME NEW q \in Packet, Open(q)'
               PROVE  Entry(q) \in entries' /\ dispatched'[q] = 1
    BY DEF WindowOK, Entry
  <2>1. q.expires + Skew > clock /\ q.expires \in Nat
    BY <1>2, PacketAssumption DEF Open
  <2>2. Open(q) => Entry(q) \in Live(now)
    <3>1. SUFFICES ASSUME Open(q) PROVE Entry(q) \in Live(now)
      OBVIOUS
    <3>2. Entry(q) \in entries
      BY <3>1 DEF Inv, WindowOK
    <3>3. Entry(q).expires > now
      BY <1>1, <2>1, BoundAssumption DEF Entry, Inv, Types
    <3>4. QED
      BY <3>2, <3>3 DEF Live
  <2>3. CASE outcome = "first" /\ q = p
    <3>1. ~Open(p)
      <4>1. Entry(p) \notin Live(now)
        BY <1>3, <2>3 DEF Same, SameKey, Entry
      <4>2. QED
        BY <2>2, <2>3, <4>1
    <3>2. dispatched[p] = 0
      BY <1>1, <2>1, <2>3, <3>1 DEF Open, Inv, Types
    <3>3. QED
      BY <1>1, <1>2, <2>3, <3>2 DEF Inv, Types
  <2>4. CASE ~(outcome = "first" /\ q = p)
    <3>1. dispatched'[q] = dispatched[q] /\ Live(now) \subseteq entries'
      BY <1>1, <1>2, <2>4 DEF Inv, Types
    <3>2. Open(q)
      BY <2>1, <3>1 DEF Open
    <3>3. QED
      BY <2>2, <3>1, <3>2 DEF Inv, WindowOK
  <2>5. QED
    BY <2>3, <2>4
<1>11. AnswersTrue'
  <2> SUFFICES ASSUME NEW r \in Subject
               PROVE  /\ call'[r].verdict = "duplicate" =>
                            dispatched'[call'[r].packet] > 0
                      /\ call'[r].verdict = "conflict" =>
                            \E q \in Packet \ {call'[r].packet} :
                                /\ SameKey(call'[r].packet, q)
                                /\ q.audience = r
                                /\ dispatched'[q] > 0
    BY DEF AnswersTrue, SameKey
  <2>1. CASE r # s
    <3>1. call'[r] = call[r]
      BY <1>2, <2>1 DEF Inv, Types
    <3>2. CASE call[r].verdict = "duplicate"
      <4>1. call[r].packet \in Packet /\ dispatched[call[r].packet] > 0
        BY <3>2 DEF Inv, CallsOK, AnswersTrue
      <4>2. QED
        BY <1>6, <3>1, <3>2, <4>1 DEF Inv, Types
    <3>3. CASE call[r].verdict = "conflict"
      <4>1. PICK q \in Packet \ {call[r].packet} :
                /\ SameKey(call[r].packet, q)
                /\ q.audience = r
                /\ dispatched[q] > 0
        BY <3>3 DEF Inv, AnswersTrue
      <4>2. dispatched'[q] > 0
        BY <1>6, <4>1 DEF Inv, Types
      <4>3. QED
        BY <3>1, <3>3, <4>1, <4>2
    <3>4. QED
      BY <3>1, <3>2, <3>3
  <2>2. CASE r = s
    <3>1. call'[r].packet = p /\ call'[r].verdict = outcome
      BY <1>2, <2>2 DEF Inv, Types, Done
    <3>2. \A e \in Same(p, now) :
             /\ e.packet \in Packet
             /\ SameKey(p, e.packet)
             /\ e.packet.audience = s
             /\ dispatched'[e.packet] > 0
      BY <1>1, <1>4, <1>6 DEF Same, SameKey, Inv, Types, StoreOK
    <3>3. QED
      BY <1>3, <2>2, <3>1, <3>2
  <2>3. QED
    BY <2>1, <2>2
<1>12. RetentionBounded'
  <2>1. Entry(p).expires <= clock + MaxLifetime + 2 * Skew
    BY <1>1, BoundAssumption DEF Entry, Inv, Types
  <2>2. \A e \in entries' : e \in entries \/ e = Entry(p)
    BY <1>2, <1>4
  <2>3. QED
    BY <1>2, <2>1, <2>2 DEF Inv, RetentionBounded
<1>13. QED
  BY <1>7, <1>8, <1>9, <1>10, <1>11, <1>12 DEF Inv

(***************************************************************************)
(* Every step preserves the invariant.                                     *)
(***************************************************************************)
LEMMA NextInv == Inv /\ [Next]_vars => Inv'
<1> SUFFICES ASSUME Inv, [Next]_vars PROVE Inv'
  OBVIOUS
<1>1. CASE \E s \in Subject, p \in Packet : Verify(s, p)
  BY <1>1, VerifyInv
<1>2. CASE \E s \in Subject, p \in Packet : Refuse(s, p) \/ NoSession(s, p)
  BY <1>2, RefusalInv DEF Refuse, NoSession
<1>3. CASE \E s \in Subject : ReadClock(s)
  BY <1>3, ReadClockInv
<1>4. CASE \E s \in Subject : Admit(s)
  BY <1>4, AdmitInv
<1>5. CASE Tick
  BY <1>5, TickInv
<1>6. CASE UNCHANGED vars
  BY <1>6 DEF vars, Inv, Types, CallsOK, StoreOK, WindowOK, AnswersTrue,
              RetentionBounded, Open
<1>7. QED
  BY <1>1, <1>2, <1>3, <1>4, <1>5, <1>6 DEF Next

----------------------------------------------------------------------------
(* Theorems. *)

(***************************************************************************)
(* The variables keep their types, and the store never holds two entries   *)
(* for one replay key.                                                     *)
(***************************************************************************)
THEOREM AdmissionTypes == Spec => []TypeOK
<1>1. Inv => TypeOK
  BY DEF Inv, Types, StoreOK, TypeOK
<1>2. QED
  BY InitInv, NextInv, <1>1, PTL DEF Spec

(***************************************************************************)
(* In every SDK a message id reaches a handler once until its expiry plus  *)
(* the skew, for any packets, any number of deliveries and any             *)
(* interleaving of goroutines.                                             *)
(***************************************************************************)
THEOREM OncePerWindow == Spec => []OnceInWindow
<1>1. Inv => OnceInWindow
  <2> SUFFICES ASSUME Inv, NEW p \in Packet, Open(p)
               PROVE  /\ dispatched[p] = 1
                      /\ \A q \in Packet \ {p} : SameKey(p, q) => ~Open(q)
    BY DEF OnceInWindow
  <2>1. dispatched[p] = 1 /\ Entry(p) \in entries
    BY DEF Inv, WindowOK
  <2>2. ASSUME NEW q \in Packet \ {p}, SameKey(p, q), Open(q) PROVE FALSE
    <3>1. Entry(q) \in entries
      BY <2>2 DEF Inv, WindowOK
    <3>2. Entry(p).packet = p /\ Entry(q).packet = q
      BY DEF Entry
    <3>3. Entry(p) = Entry(q)
      BY <2>1, <2>2, <3>1, <3>2 DEF Inv, StoreOK
    <3>4. QED
      BY <3>2, <3>3
  <2>3. QED
    BY <2>1, <2>2
<1>2. QED
  BY InitInv, NextInv, <1>1, PTL DEF Spec

(***************************************************************************)
(* The stores' answers are true, however the calls interleave.             *)
(***************************************************************************)
THEOREM StoreIsHonest == Spec => []AnswersTrue
<1>1. Inv => AnswersTrue
  BY DEF Inv
<1>2. QED
  BY InitInv, NextInv, <1>1, PTL DEF Spec

(***************************************************************************)
(* No record is kept beyond the longest lifetime and twice the skew, so    *)
(* the unbounded maps of the three stores hold one window of traffic.      *)
(***************************************************************************)
THEOREM BoundedRetention == Spec => []RetentionBounded
<1>1. Inv => RetentionBounded
  BY DEF Inv
<1>2. QED
  BY InitInv, NextInv, <1>1, PTL DEF Spec

\* One call at a time, and the record of a packet admitted before is there
\* until the call that has found it unexpired asks for it.
OneThread ==
    sdk # "go" =>
        /\ \A r, s \in Subject : r # s =>
              call[r].step = "idle" \/ call[s].step = "idle"
        /\ \A s \in Subject :
              call[s].step = "timed" /\ dispatched[call[s].packet] > 0
                 => Entry(call[s].packet) \in entries

(***************************************************************************)
(* In Node and Python a packet that has reached a handler never does again *)
(* (Go: MayRun lets another call prune between ReadClock and Admit).       *)
(***************************************************************************)
THEOREM IdleRedelivery == Spec => []RedeliveryIsIdle
<1> DEFINE J == OneThread /\ RedeliveryIsIdle
<1>1. Init => J
  BY DEF Init, OneThread, RedeliveryIsIdle, Done
<1>2. Inv /\ J /\ [Next]_vars => J'
  <2> SUFFICES ASSUME Inv, J, [Next]_vars
               PROVE  J'
    BY ZenonT(60)
  <2>0. sdk' = sdk
    BY DEF Next, Verify, Refuse, NoSession, ReadClock, Admit, Tick, vars
  <2> SUFFICES ASSUME sdk # "go"
               PROVE  J'
    BY <2>0 DEF OneThread, RedeliveryIsIdle
  <2>1. ASSUME NEW s \in Subject, NEW p \in Packet,
               Verify(s, p) \/ Refuse(s, p) \/ NoSession(s, p)
        PROVE  J'
    <3>1. /\ entries' = entries /\ dispatched' = dispatched /\ sdk' = sdk
          /\ \A r \in Subject \ {s} : call[r].step = "idle" /\ call'[r] = call[r]
          /\ call'[s].step # "timed"
      BY <2>1 DEF Inv, Types, Verify, Refuse, NoSession, Deliver, MayRun, Done
    <3>2. \A r \in Subject \ {s} : call'[r].step = "idle"
      BY <3>1
    <3>3. OneThread'
      BY <3>1, <3>2 DEF OneThread
    <3>4. QED
      BY <3>1, <3>3 DEF RedeliveryIsIdle
  <2>2. ASSUME NEW s \in Subject, ReadClock(s)
        PROVE  J'
    <3>1. call[s].packet \in Packet
      BY <2>2 DEF ReadClock, Inv, CallsOK
    <3>2. /\ \A r \in Subject \ {s} : call'[r] = call[r] /\ call[r].step = "idle"
          /\ call'[s].packet = call[s].packet
          /\ entries' = entries /\ dispatched' = dispatched
      BY <2>2 DEF Inv, Types, OneThread, ReadClock, Done
    <3>3. call'[s].step = "timed" => Entry(call[s].packet).expires > clock
      BY <2>2 DEF Inv, Types, ReadClock, Done
    <3>4. call'[s].step = "timed" /\ dispatched[call[s].packet] > 0
             => Entry(call[s].packet) \in entries
      BY <3>1, <3>3 DEF Inv, WindowOK, Open, Entry
    <3>5. QED
      BY <3>2, <3>4 DEF OneThread, RedeliveryIsIdle, Entry
  <2>3. ASSUME NEW s \in Subject, Admit(s)
        PROVE  J'
    <3> DEFINE p == call[s].packet
               now == call[s].now
    <3>1. p \in Packet /\ now \in Nat /\ p.expires + Skew > now
      BY <2>3 DEF Admit, Inv, Types, CallsOK
    <3>2. \A r \in Subject : call'[r].step = "idle"
      BY <2>3 DEF Inv, Types, OneThread, Admit, Done
    <3>3. Outcome(p, now) = "first" => dispatched[p] = 0
      <4>1. SUFFICES ASSUME dispatched[p] # 0
                     PROVE  Outcome(p, now) # "first"
        OBVIOUS
      <4>2. dispatched[p] > 0
        BY <3>1, <4>1 DEF Inv, Types
      <4>3. Entry(p) \in entries
        BY <2>3, <4>2 DEF OneThread, Admit
      <4>4. Entry(p) \in Same(p, now)
        BY <3>1, <4>3 DEF Same, SameKey, Live, Entry
      <4>5. QED
        <5> HIDE DEF p, now
        <5> QED
          BY <3>1, <4>4, OutcomeFacts DEF Inv, Types
    <3>4. \A q \in Packet : dispatched'[q] <= 1
      BY <2>3, <3>1, <3>3 DEF Admit, RedeliveryIsIdle, Inv, Types
    <3>5. QED
      BY <3>2, <3>4 DEF OneThread, RedeliveryIsIdle
  <2>4. CASE Tick
    BY <2>4 DEF Tick, OneThread, RedeliveryIsIdle
  <2>5. CASE UNCHANGED vars
    BY <2>5 DEF vars, OneThread, RedeliveryIsIdle
  <2>6. QED
    BY <2>1, <2>2, <2>3, <2>4, <2>5 DEF Next
<1>3. J => RedeliveryIsIdle
  OBVIOUS
<1>4. QED
  BY InitInv, NextInv, <1>1, <1>2, <1>3, PTL DEF Spec
============================================================================
