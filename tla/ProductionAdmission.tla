------------------------ MODULE ProductionAdmission ------------------------
(***************************************************************************)
(* Admission of CAP-PRODUCTION packets by the Go, Node and Python agents:  *)
(* a raw packet is verified for the subject it arrived on, its identity    *)
(* mirrors are compared, and the in-memory replay store decides whether it *)
(* is the first of its message id.  Only a first packet reaches a handler. *)
(*                                                                         *)
(* The Go client runs one goroutine per subscription, so calls for         *)
(* different subjects interleave anywhere.  The Node and Python agents do  *)
(* not await between the first check and the store's answer, so only the   *)
(* clock moves during a call.                                              *)
(***************************************************************************)
EXTENDS Integers, FiniteSets

CONSTANTS
    Sdk,            \* the SDKs an agent may be written with
    Subject,        \* the subjects the agent subscribes to
    Packet,         \* the packets that may arrive
    NoPacket,       \* not a packet
    Skew,           \* tolerated clock skew
    MaxLifetime,    \* longest lifetime a packet may claim
    MaxTime,        \* bound: the clock stops here
    MaxDeliveries   \* bound: messages delivered in all

(***************************************************************************)
(* What may be wrong with a packet besides its audience and its expiry,    *)
(* one name per check that some SDK makes.  "version": protocol_version is *)
(* absent.  "repeated": a nested singular field occurs twice or a nested   *)
(* varint is not minimal.  "bounds": a label set or a token budget of the  *)
(* request exceeds its limit.  "mirror": an identity mirror every SDK      *)
(* compares.  "label": a mirror only Go compares (labels, delegation and   *)
(* compensation).  "envelope": any other envelope rule.                    *)
(***************************************************************************)
Fault == {"none", "outer", "version", "unknown", "repeated", "metadata",
          "authority", "key", "signature", "envelope", "bounds", "mirror", "label"}

ASSUME SdkAssumption == Sdk \subseteq {"go", "node", "python"}

ASSUME PacketAssumption ==
    /\ NoPacket \notin Packet
    /\ \A p \in Packet : /\ p.audience \in Subject
                         /\ p.expires \in Nat
                         /\ p.fault \in Fault

ASSUME BoundAssumption ==
    /\ Skew \in Nat
    /\ MaxLifetime \in Nat
    /\ Skew <= MaxLifetime
    /\ MaxTime \in Nat
    /\ MaxDeliveries \in Nat

VARIABLES
    sdk,          \* the SDK of this agent
    clock,        \* the wall clock
    entries,      \* the replay store
    call,         \* per subject: the admission call in progress
    dispatched,   \* history: how often each packet reached a handler
    deliveries    \* messages delivered so far

vars == <<sdk, clock, entries, call, dispatched, deliveries>>

Step == {"idle", "verified", "timed"}
Verdict == {"none", "refused", "unavailable", "first", "duplicate", "conflict"}

\* Mutant: the audience is left out of the replay key.
SameIdOnly(p, q) == p.id = q.id

(***************************************************************************)
(* Two packets have one replay key when tenant, audience, sender and       *)
(* message id agree; tenant and sender are those of the session.  The      *)
(* digest covers every byte but the signature, so it is the packet.        *)
(***************************************************************************)
SameKey(p, q) == p.audience = q.audience /\ p.id = q.id

----------------------------------------------------------------------------
\* Verification in Go.

GoExtract(p) == p.fault # "outer"

GoNoUnknowns(p) == p.fault # "unknown"

GoMetadata(p, s, now) ==
    /\ p.fault # "metadata"
    /\ p.expires > now - Skew
    /\ p.expires <= now + MaxLifetime + Skew
    /\ p.audience = s

GoKey(p) == p.fault \notin {"authority", "key"}

GoVerify(p, s, now) ==
    /\ GoExtract(p)
    /\ GoNoUnknowns(p)
    /\ GoMetadata(p, s, now)
    /\ GoKey(p)
    /\ p.fault # "signature"

GoEnvelope(p) == p.fault \notin {"version", "envelope", "bounds"}

GoIdentity(p) == p.fault \notin {"mirror", "label"}

GoAdmissible(p, s, now) ==
    /\ GoVerify(p, s, now)
    /\ GoEnvelope(p)
    /\ GoIdentity(p)

----------------------------------------------------------------------------
\* Verification in Node.

NodeExtract(p) == p.fault \notin {"outer", "version"}

NodeNestedWire(p) == p.fault \notin {"unknown", "repeated"}

\* Mutant: a lifetime has no upper bound.
NodeExpiryOnly(p, now) == p.expires > now - Skew

NodeLifetime(p, now) ==
    /\ p.expires > now - Skew
    /\ p.expires <= now + MaxLifetime + Skew

NodeVerify(p, s, now) ==
    /\ NodeExtract(p)
    /\ NodeNestedWire(p)
    /\ p.fault # "metadata"
    /\ p.audience = s
    /\ NodeLifetime(p, now)
    /\ p.fault \notin {"authority", "key", "signature"}

NodeEnvelope(p) == p.fault # "envelope"

NodeIdentity(p) == p.fault # "mirror"

NodeAdmissible(p, s, now) ==
    /\ NodeVerify(p, s, now)
    /\ NodeEnvelope(p)
    /\ NodeIdentity(p)

----------------------------------------------------------------------------
\* Verification in Python.

PyExtract(p) == p.fault \notin {"outer", "version"}

PyMetadata(p, s, now) ==
    /\ p.fault # "metadata"
    /\ p.audience = s
    /\ p.expires > now - Skew
    /\ p.expires <= now + MaxLifetime + Skew

PyVerify(p, s, now) ==
    /\ PyExtract(p)
    /\ p.fault # "unknown"
    /\ PyMetadata(p, s, now)
    /\ p.fault \notin {"authority", "key", "signature"}

PyEnvelope(p) == p.fault \notin {"envelope", "bounds"}

PyIdentity(p) == p.fault # "mirror"

PyAdmissible(p, s, now) ==
    /\ PyVerify(p, s, now)
    /\ PyEnvelope(p)
    /\ PyIdentity(p)

----------------------------------------------------------------------------
\* The replay stores.  Each takes the time its admit read on entry.

\* Mutant: the store is pruned with the time at which it is locked.
LiveWhenLocked(now) == {e \in entries : e.expires > clock}

Live(now) == {e \in entries : e.expires > now}

Same(p, now) == {e \in Live(now) : SameKey(e.packet, p)}

\* Mutant: the record is kept until the expiry, without the skew.
EntryWithoutSkew(p) == [packet |-> p, expires |-> p.expires]

Entry(p) == [packet |-> p, expires |-> p.expires + Skew]

\* Mutant: only an identical packet is looked for, not its message id.
GoOutcomeByDigest(p, now) ==
    IF \E e \in Live(now) : e.packet = p THEN "duplicate" ELSE "first"

GoOutcome(p, now) ==
    IF Same(p, now) = {} THEN "first"
    ELSE IF \E e \in Same(p, now) : e.packet = p THEN "duplicate"
    ELSE "conflict"

\* Node and Python look at the expiry of the entry found once more.
NodeOutcome(p, now) ==
    LET found == {e \in Same(p, now) : e.expires > now}
    IN  IF found = {} THEN "first"
        ELSE IF \E e \in found : e.packet = p THEN "duplicate"
        ELSE "conflict"

PyOutcome(p, now) ==
    LET found == {e \in Same(p, now) : e.expires > now}
    IN  IF found = {} THEN "first"
        ELSE IF \E e \in found : e.packet = p THEN "duplicate"
        ELSE "conflict"

----------------------------------------------------------------------------
Admissible(p, s, now) ==
    CASE sdk = "go"     -> GoAdmissible(p, s, now)
      [] sdk = "node"   -> NodeAdmissible(p, s, now)
      [] sdk = "python" -> PyAdmissible(p, s, now)

Outcome(p, now) ==
    CASE sdk = "go"     -> GoOutcome(p, now)
      [] sdk = "node"   -> NodeOutcome(p, now)
      [] sdk = "python" -> PyOutcome(p, now)

\* A call that is over, and what it said of its packet.
Done(p, verdict) == [step |-> "idle", packet |-> p, now |-> 0, verdict |-> verdict]

Init ==
    /\ sdk \in Sdk
    /\ clock = 0
    /\ entries = {}
    /\ call = [s \in Subject |-> Done(NoPacket, "none")]
    /\ dispatched = [p \in Packet |-> 0]
    /\ deliveries = 0

\* Go runs a goroutine per subscription; the others have one thread.
MayRun(s) == \/ sdk = "go"
             \/ \A r \in Subject \ {s} : call[r].step = "idle"

Deliver(s) ==
    /\ call[s].step = "idle"
    /\ MayRun(s)
    /\ deliveries < MaxDeliveries
    /\ deliveries' = deliveries + 1

\* The packet passes every check made before the replay store is asked.
Verify(s, p) ==
    /\ Deliver(s)
    /\ Admissible(p, s, clock)
    /\ call' = [call EXCEPT ![s] =
                  [step |-> "verified", packet |-> p, now |-> 0, verdict |-> "none"]]
    /\ UNCHANGED <<sdk, clock, entries, dispatched>>

\* It fails one of them.
Refuse(s, p) ==
    /\ Deliver(s)
    /\ ~Admissible(p, s, clock)
    /\ call' = [call EXCEPT ![s] = Done(p, "refused")]
    /\ UNCHANGED <<sdk, clock, entries, dispatched>>

\* No authenticated session is active: the packet is dropped unread.
NoSession(s, p) ==
    /\ Deliver(s)
    /\ call' = [call EXCEPT ![s] = Done(p, "refused")]
    /\ UNCHANGED <<sdk, clock, entries, dispatched>>

\* admit reads the clock, before it takes the lock.
ReadClock(s) ==
    /\ call[s].step = "verified"
    /\ call' = [call EXCEPT ![s] =
                  IF Entry(call[s].packet).expires > clock
                  THEN [@ EXCEPT !.step = "timed", !.now = clock]
                  ELSE Done(call[s].packet, "unavailable")]
    /\ UNCHANGED <<sdk, clock, entries, dispatched, deliveries>>

\* admit under the lock: prune what has expired, look the key up, record
\* it when it is new.  Only a first packet goes on to its handler.
Admit(s) ==
    LET p == call[s].packet
        now == call[s].now
        outcome == Outcome(p, now)
    IN  /\ call[s].step = "timed"
        /\ call' = [call EXCEPT ![s] = Done(p, outcome)]
        /\ entries' = IF outcome = "first" THEN Live(now) \cup {Entry(p)}
                      ELSE Live(now)
        /\ dispatched' = IF outcome = "first"
                         THEN [dispatched EXCEPT ![p] = @ + 1]
                         ELSE dispatched
        /\ UNCHANGED <<sdk, clock, deliveries>>

Tick ==
    /\ clock < MaxTime
    /\ clock' = clock + 1
    /\ UNCHANGED <<sdk, entries, call, dispatched, deliveries>>

Next ==
    \/ \E s \in Subject :
          \/ \E p \in Packet : Verify(s, p) \/ Refuse(s, p) \/ NoSession(s, p)
          \/ ReadClock(s)
          \/ Admit(s)
    \/ Tick

Spec == Init /\ [][Next]_vars

----------------------------------------------------------------------------
(***************************************************************************)
(* Types.  The store is a map: no two entries have the same replay key     *)
(* (production_replay.go, entries map[string]replayEntry).                 *)
(***************************************************************************)
TypeOK ==
    /\ sdk \in Sdk
    /\ clock \in 0..MaxTime
    /\ deliveries \in 0..MaxDeliveries
    /\ entries \subseteq [packet : Packet, expires : Nat]
    /\ \A e, f \in entries : SameKey(e.packet, f.packet) => e = f
    /\ call \in [Subject -> [step : Step, packet : Packet \cup {NoPacket},
                             now : 0..MaxTime, verdict : Verdict]]
    /\ dispatched \in [Packet -> Nat]

\* p has been handed to a handler and its replay window is still open.
Open(p) == dispatched[p] > 0 /\ p.expires + Skew > clock

(***************************************************************************)
(* Until expiry plus skew a message id reaches a handler once, whatever    *)
(* body it comes with and however the calls interleave.  A pruned record,  *)
(* one kept without the skew, or two calls that both find no record would  *)
(* break it.                                                               *)
(***************************************************************************)
OnceInWindow ==
    \A p \in Packet : Open(p) =>
        /\ dispatched[p] = 1
        /\ \A q \in Packet \ {p} : SameKey(p, q) => ~Open(q)

(***************************************************************************)
(* In Node and Python the same packet never reaches a handler again, even  *)
(* when its record expires while a redelivery is being admitted: the time  *)
(* that prunes the store is the time that was compared with the expiry.    *)
(***************************************************************************)
RedeliveryIsIdle ==
    sdk # "go" => \A p \in Packet : dispatched[p] <= 1

(***************************************************************************)
(* The store's answers are true: a packet called a duplicate has reached   *)
(* a handler, and one called a conflict competes with another packet of    *)
(* the same tenant, audience, sender and message id that has.              *)
(***************************************************************************)
AnswersTrue ==
    \A s \in Subject :
        LET p == call[s].packet
        IN  /\ call[s].verdict = "duplicate" => dispatched[p] > 0
            /\ call[s].verdict = "conflict" =>
                  \E q \in Packet \ {p} : /\ SameKey(p, q)
                                          /\ q.audience = s
                                          /\ dispatched[q] > 0

(***************************************************************************)
(* No entry outlives the longest lifetime and twice the skew from now, so  *)
(* what the store holds is bounded by the traffic of that window: no       *)
(* packet may claim an expiry that keeps its record for longer.            *)
(***************************************************************************)
RetentionBounded ==
    \A e \in entries : e.expires <= clock + MaxLifetime + 2 * Skew

(***************************************************************************)
(* What production_admission.go says of an identical redelivery: "never    *)
(* run side effects twice".  The Go store compares the expiry with a time  *)
(* read before its lock; while the call waits for the lock, a later call   *)
(* may prune the record.                                                   *)
(***************************************************************************)
NeverTwice == \A p \in Packet : dispatched[p] <= 1
============================================================================
