----------------------------- MODULE PacketPath -----------------------------
(* One packet on its way: written by an application that uses one of the two   *)
(* generated libraries, or built and signed by the Node SDK, then decoded and  *)
(* encoded again by the hops it passes, and read at the other end by a Node    *)
(* worker that answers it. want is what the writer said; the wire is what the  *)
(* path made of it.                                                            *)
EXTENDS NodeBoundary

CONSTANTS MessageTypes,    \* the messages applications write on their own
          FieldValues(_),  \* what an application may put in the field of a row
          Requests,        \* the job requests clients submit
          MaxSets,         \* setter calls of an application
          MaxHops          \* re-encodings on the way

ASSUME PathBounds == MaxSets \in Nat /\ MaxHops \in Nat
ASSUME MessagesAssumption == MessageTypes \subseteq Types
ASSUME ValuesAssumption ==
    \A t \in MessageTypes : \A f \in DOMAIN Schema[t].name : LET r == Schema[t].name[f] IN
        \A v \in FieldValues(r) : Fits(r, Holds(r, Codec.objects, Scalars), v)
ASSUME PacketsNest == Depth >= 3
ASSUME RequestsAssumption == Requests \subseteq Codec.objects["JobRequest"]

VARIABLES
    scene,   \* who writes what, whether it is signed and whether keys are checked
    object,  \* the writer's object
    want,    \* the content the writer asked for
    sets,    \* setter calls so far
    wire,    \* the bytes under way, Null before they are written
    hops,    \* the libraries that re-encoded them
    newer,   \* a peer with a newer schema added a field
    worker   \* the Node worker at the other end

vars == <<scene, object, want, sets, wire, hops, newer, worker>>

Unknown == 99   \* a field number no schema of this version has
ASSUME UnknownAssumption == \A t \in Types : Unknown \notin DOMAIN Schema[t].number
ASSUME TextAssumption ==
    { "a", "1", "2", "4", "5", "true", "x", "y", "9", "10", "trace", "client", "worker", "random", "now", "soon",
      "later", "n32", "huge",
      "sdk", "token", "unprintable", "job", "other", "wide", "negative", "thrown", "handler returned null",
      "JOB_STATUS_FAILED", "JOB_STATUS_SUCCEEDED", "unheard of",
      "cap-production-v1", "ECDSA-P256-SHA256", "id16", "aud", "ten", "kid", "kc", "kw",
      "CAP-PRODUCTION-SIGNATURE-V1" } \subseteq STRING
Idle == [phase |-> "idle", packet |-> {}, job |-> Zero, gave |-> Null, token |-> "zero", counted |-> "none"]
Unwritten == [none |-> TRUE]
Written(w) == [w |-> w]
-----------------------------------------------------------------------------
(* What a message says, and what it says to a reader that rounds. *)
Readings(solid, t, o) ==
    [exact |-> JsContent([numbers |-> "exact", solid |-> solid], t, o),
     rounded |-> JsContent([numbers |-> "rounded", solid |-> solid], t, o)]
Empty == [exact |-> {}, rounded |-> {}]
(* What setting a field means: it says v. A setter of google-protobuf also     *)
(* silences the other members of the oneof; a property of protobufjs does not. *)
Meant(by, t, before, f, v) ==
    LET silenced == IF by = "gp" /\ v # Null /\ f \in Js!Oneof(t) THEN Js!Oneof(t) ELSE {f}
        says == IF v = Null THEN Empty ELSE Readings(FALSE, t, {P(f, v)})
        kept(content) == {c \in content : c.f \notin silenced}
    IN [exact |-> kept(before.exact) \cup says.exact, rounded |-> kept(before.rounded) \cup says.rounded]
-----------------------------------------------------------------------------
(* Where a packet starts. The SDK's own packets are signed or not, and the     *)
(* worker checks the senders' keys or not.                                     *)
Scenes ==
    [by : {"js", "gp"}, type : MessageTypes, signs : {FALSE}, checks : {FALSE}]
      \cup [by : {"sdk"}, type : {"BusPacket"}, signs : BOOLEAN, checks : BOOLEAN]
      \cup [by : {"producer", "trust", "go"}, type : {"BusPacket"}, signs : {TRUE}, checks : {TRUE}]

Init ==
    /\ scene \in Scenes
    /\ object = {}
    /\ want = Empty
    /\ sets = 0
    /\ wire = Unwritten
    /\ hops = << >>
    /\ newer = FALSE
    /\ worker = Idle

(* An application calls a setter of its library, or clears the field. *)
SetField ==
    /\ scene.by \in {"js", "gp"} /\ wire = Unwritten /\ sets < MaxSets
    /\ LET row == Codec.schema[scene.type].name IN
       \E f \in DOMAIN row : \E v \in FieldValues(row[f]) \cup {Null} :
          /\ object' = IF scene.by = "js" THEN Put(object, f, v)
                       ELSE GpSet(scene.type, object, f,
                                  IF v = Null THEN Null ELSE Each(row[f], Codec.build, "exact", v))
          /\ want' = Meant(scene.by, scene.type, want, f, v)
    /\ sets' = sets + 1
    /\ UNCHANGED <<scene, wire, hops, newer, worker>>

(* It encodes the message. protobufjs asks its users to verify an object they  *)
(* assembled, so one that does not verify is not sent.                         *)
Write ==
    /\ scene.by \in {"js", "gp"} /\ wire = Unwritten
    /\ ~(scene.by = "js" /\ ~JsVerify(scene.type, object))
    /\ wire' = Written(IF scene.by = "js" THEN JsEncode(scene.type, object)
                                          ELSE GpSerialize(scene.type, object))
    /\ UNCHANGED <<scene, object, want, sets, hops, newer, worker>>
-----------------------------------------------------------------------------
(* The packets an application has the SDK build. codec.ts leaves out what was  *)
(* set and says nothing: the solid reading is the content without it.          *)
InsertedAs(keys, v) == [items |-> {P(keys[i], v) : i \in DOMAIN keys}, order |-> Before(keys)]
Texts == {"zero", "a"}
SdkPackets ==
    {submitJob(q, "trace", "client") : q \in Requests}
      \cup {progressPayload("worker", j, t, t, t) : j, t \in Texts}
      \cup {cancelPayload("client", j, t, t) : j, t \in Texts}
      \cup {handshakePayload("worker", s, c, t, n) :
               s \in {"worker", "client"}, n \in Texts,
               c \in {InsertedAs(<< >>, S("a")), InsertedAs(<<"10", "9">>, S("a"))}, t \in {<< >>, <<S("a")>>}}
      \cup {heartbeatPayloadWithProgress("worker", t, t, t, n, n) : t, n \in Texts}
SessionTokens == {"zero", "token", "unprintable"}
SigningKey == [client |-> "kc", worker |-> "kw"]
Outbound ==
    {packet \in {attachSessionToken(o, token) : o \in SdkPackets, token \in SessionTokens} :
        validateOutboundPacket(packet)}
KeyMap == IF scene.checks THEN [of |-> SigningKey] ELSE Null
Said(o) == Readings(TRUE, "BusPacket", o)

(* The SDK builds, checks, signs and publishes; a refused packet throws to the *)
(* caller and nothing is published.                                            *)
Publish ==
    /\ scene.by = "sdk" /\ wire = Unwritten
    /\ \E packet \in Outbound :
          /\ object' = packet
          /\ wire' = Written(encodeOutboundPacket(packet,
                        IF scene.signs THEN SigningKey[Text(packet, "senderId").s] ELSE NoKey))
          /\ want' = Said(packet)
    /\ UNCHANGED <<scene, sets, hops, newer, worker>>

(* A Go client submits a job to the same worker. *)
GoSubmit ==
    /\ scene.by = "go" /\ wire = Unwritten
    /\ \E q \in Requests, token \in {"zero", "token"} :
          LET o == attachSessionToken(submitJob(q, "trace", "client"), token) IN
          /\ object' = o
          /\ wire' = Written(MarshalDeterministic(SignPacket(GpBuild("BusPacket", o), SigningKey["client"])))
          /\ want' = Readings(FALSE, "BusPacket", o)
    /\ UNCHANGED <<scene, sets, hops, newer, worker>>

(* A producer signs the exact wire of a production packet. *)
Trust == [audience |-> "aud", tenant |-> "ten", sender |-> "client", keyId |-> "kid", key |-> "kc"]
SignatureMetadata ==
    { P("profileVersion", S("cap-production-v1")), P("algorithm", S("ECDSA-P256-SHA256")),
      P("messageId", S("id16")), P("audience", S("aud")),
      P("expiresAt", At("soon")), P("keyId", S("kid")) }
ProductionPackets ==
    LET bound(o) == o \cup { P("signatureMetadata", [m |-> SignatureMetadata]),
                             P("identity", [m |-> {P("tenantId", S("ten"))}]) } IN
    {bound(submitJob(q, "trace", "client")) : q \in Requests}
      \cup {Put(bound(cancelPayload("client", "job", "a", "a")), f, [m |-> {}]) :
               f \in {"jobProgress", "workerHandshakeResult", "signatureMetadata"}}
      \cup {Put(bound(cancelPayload("client", "job", "a", "a")), "authToken", S(x)) : x \in Texts}
Produce ==
    /\ scene.by = "producer" /\ wire = Unwritten
    /\ \E o \in {o \in ProductionPackets : validateProduced(o)} :
          /\ object' = o
          /\ wire' = Written(signProductionPacket(o, Trust.key))
          /\ want' = Readings(FALSE, "BusPacket", o)
    /\ UNCHANGED <<scene, sets, hops, newer, worker>>

(* The four phases of the worker trust handshake, on the wire: packets with    *)
(* every lifetime of a challenge, with and without a token, of which           *)
(* marshalWorkerTrustPacket refuses some.                                      *)
ASSUME ChallengeAssumption ==
    LET challenge == Schema["WorkerHandshakeChallenge"].name
        request == Schema["WorkerHandshakeChallengeRequest"].name
    IN /\ \A f \in DOMAIN challenge :
             challenge[f].kind = "one" \/ (challenge[f].kind = "sub" /\ challenge[f].type = "Timestamp")
       /\ \A f \in DOMAIN challenge \cap DOMAIN request : challenge[f].kind = "one" /\ request[f].kind = "one"
Challenge(purpose, expires) ==
    LET row == Schema["WorkerHandshakeChallenge"].name
        value(f) == CASE f = "expiresAt" -> At(expires)
                      [] f = "issuedAt" -> Now
                      [] f = "purpose" -> S(purpose)
                      [] f \in {"protocolVersion", "proofAlgorithm"} -> S("1")
                      [] f \in {"clientNonce", "serverNonce"} -> S("n32")
                      [] OTHER -> S("a")
    IN {P(f, value(f)) : f \in DOMAIN row}
Challenges == {Challenge(purpose, expires) : purpose \in {"1", "2"}, expires \in DOMAIN timestampNanos}
Capabilities ==
    LET capability(entries, topics) ==
            Put(Inner(handshakePayload("a", "a", entries, topics, "zero"), "handshake"), "sdkVersion", S("a"))
    IN {capability(InsertedAs(keys, S("true")), topics) :
            keys \in {<< >>, <<"y", "x">>, <<"10", "9">>},
            topics \in {<< >>, <<S("a")>>, <<S("a"), S("a")>>, <<S("huge")>>}}
Results ==
    {{ P("challenge", [m |-> challenge]), P("accepted", accepted), P("rejectionReason", reason),
       P("issuedAt", Now) } \cup Unless(Null, "tokenExpiresAt", expires) :
        challenge \in Challenges, accepted \in {Zero, S("true")}, reason \in {Zero, S("9")},
        expires \in {Null, Now, At("later")}}
TrustPayloads ==
    {P("workerHandshakeChallengeRequest", [m |-> {p \in c : p.f \in REQUEST_FIELDS}]) : c \in Challenges}
      \cup {P("workerHandshakeChallenge", [m |-> c]) : c \in Challenges}
      \cup {P("workerHandshakeAuthenticate", [m |-> {P("challenge", [m |-> c]), P("capabilityHandshake", [m |-> h])}]) :
               c \in Challenges, h \in Capabilities}
      \cup {P("workerHandshakeResult", [m |-> r]) : r \in Results}
TrustPackets ==
    {attachSessionToken(Put(Envelope("a", "a", p.f, p.v.m), "signature", S("a")), token) :
        p \in TrustPayloads, token \in {"zero", "token"}}
Marshal ==
    /\ scene.by = "trust" /\ wire = Unwritten
    /\ \E o \in TrustPackets :
          /\ marshalWorkerTrustPacket(o) # Null
          /\ object' = o
          /\ wire' = Written(marshalWorkerTrustPacket(o))
          /\ want' = Said(o)
    /\ UNCHANGED <<scene, sets, hops, newer, worker>>
-----------------------------------------------------------------------------
(* On the way: a component decodes the message and encodes it again, and a     *)
(* peer with a newer schema adds a field this version does not know.           *)
Reencode(lib, t, w) ==
    IF lib = "js" THEN JsEncode(t, JsDecode(t, w)) ELSE GpSerialize(t, GpDeserialize(t, w))
Relay ==
    /\ wire # Unwritten /\ Len(hops) < MaxHops
    /\ \E lib \in {"js", "gp"} :
          /\ wire' = Written(Reencode(lib, scene.type, wire.w))
          /\ hops' = Append(hops, lib)
    /\ newer' = FALSE
    /\ UNCHANGED <<scene, object, want, sets, worker>>
NewerPeer ==
    /\ wire # Unwritten /\ ~newer
    /\ wire' = Written(Followed(wire.w, Unknown, S("a")))
    /\ newer' = TRUE
    /\ UNCHANGED <<scene, object, want, sets, hops, worker>>
-----------------------------------------------------------------------------
(* The Node worker: processWorkerMessage up to the handler's first await, and  *)
(* from the handler's end to the published result. The metric is counted       *)
(* before the result is checked; a result that does not pass is only logged.   *)
(* The middlewares wrap the handler outside its try: when one of them throws   *)
(* there, the job is received, never handled, and the error only logged.       *)
\* Mutant: a packet that fails the checks ends the processing with an error.
ReceiveThrows ==
    /\ scene.by \in {"sdk", "go"} /\ wire # Unwritten /\ worker.phase = "idle"
    /\ \E packet \in {JsDecode("BusPacket", wire.w)} :
          worker' = [worker EXCEPT
              !.phase = IF verifyInboundPacket(packet, KeyMap) THEN "handling" ELSE "crashed"]
    /\ UNCHANGED <<scene, object, want, sets, wire, hops, newer>>
Receive ==
    /\ scene.by \in {"sdk", "go"} /\ wire # Unwritten /\ worker.phase = "idle"
    /\ \E packet \in {JsDecode("BusPacket", wire.w)}, wrapped \in BOOLEAN :
          worker' = [worker EXCEPT
              !.packet = packet,
              !.job = Text(Inner(packet, "jobRequest"), "jobId"),
              !.phase = IF ~verifyInboundPacket(packet, KeyMap) THEN "rejected" ELSE
                        IF Field(packet, "jobRequest") = Null THEN "ignored" ELSE
                        IF wrapped THEN "handling" ELSE "unwrapped"]
    /\ UNCHANGED <<scene, object, want, sets, wire, hops, newer>>

HandlerGives ==
    LET done == {P("status", S("JOB_STATUS_SUCCEEDED"))} IN
    {Throws, Null, [m |-> {}], [m |-> done]}
      \cup {[m |-> Put(done, "status", S(s))] : s \in {"JOB_STATUS_FAILED", "5", "unheard of"}}
      \cup {[m |-> Put(done, f, S("other"))] : f \in {"jobId", "workerId"}}
      \cup {[m |-> Put(done, "executionMs", S(e))] : e \in {"wide", "negative"}}
HandlerEnds ==
    /\ worker.phase = "handling"
    /\ \E gave \in HandlerGives, token \in SessionTokens :
       LET result == executeHandler(Inner(worker.packet, "jobRequest"), gave, "worker")
           outgoing == attachSessionToken(
               Envelope(Text(worker.packet, "traceId").s, "worker", "jobResult", resultFromObject(result)),
               token)
           sent == validateOutboundPacket(outgoing)
       IN /\ worker' = [worker EXCEPT !.packet = {}, !.gave = gave, !.token = token,
                                      !.counted = IF reportsFailure(result) THEN "failed" ELSE "completed",
                                      !.phase = IF sent THEN "answered" ELSE "silent"]
          /\ wire' = IF sent THEN Written(encodeOutboundPacket(outgoing,
                                      IF scene.signs THEN SigningKey["worker"] ELSE NoKey))
                             ELSE wire
          /\ object' = IF sent THEN outgoing ELSE object
          /\ want' = IF sent THEN Said(outgoing) ELSE want
          /\ hops' = IF sent THEN << >> ELSE hops
          /\ newer' = IF sent THEN FALSE ELSE newer
    /\ UNCHANGED <<scene, sets>>

Next ==
    \/ SetField
    \/ Write
    \/ Publish
    \/ GoSubmit
    \/ Produce
    \/ Marshal
    \/ Relay
    \/ NewerPeer
    \/ Receive
    \/ HandlerEnds

Spec == Init /\ [][Next]_vars
-----------------------------------------------------------------------------
Exactly == [numbers |-> "exact", solid |-> FALSE]
UnderWay == wire # Unwritten
TypeOK ==
    /\ scene \in Scenes
    /\ sets \in 0..MaxSets
    /\ newer \in BOOLEAN
    /\ hops \in Seq({"js", "gp"}) /\ Len(hops) <= MaxHops
    /\ worker.phase \in {"idle", "rejected", "ignored", "handling", "unwrapped", "answered", "silent"}
    /\ worker.counted \in {"none", "failed", "completed"}
    /\ IF scene.by = "gp" THEN GpTyped(Codec, scene.type, Leaves, object)
                          ELSE JsTyped(Codec, scene.type, Leaves, object)
    /\ UnderWay => WireTyped(Codec, scene.type, Leaves, wire.w)
    /\ JsVerify("BusPacket", worker.packet)

Plain(content) == {p \in content : p.f # "signature"}
GpHop == \E i \in DOMAIN hops : hops[i] = "gp"
JsReads == Plain(JsContent(Exactly, scene.type, JsDecode(scene.type, wire.w)))
GpReads == Plain(GpContent(Exactly, scene.type, GpDeserialize(scene.type, wire.w)))

(* Whatever library wrote a message, whatever re-encoded it on the way and     *)
(* whatever field a newer peer added, both libraries read what the writer      *)
(* said: the encoders and decoders of node/cap_pb.js and node/*_pb.js agree on *)
(* every field of every message. The one loss is a 64-bit integer beyond 53    *)
(* bits, which google-protobuf reads as a rounded number.                      *)
ContentSurvives ==
    UnderWay =>
        /\ JsReads = Plain(IF GpHop THEN want.rounded ELSE want.exact)
        /\ GpReads = Plain(want.rounded)

(* What submitJob, the emit helpers and the worker sign, verifyInboundPacket   *)
(* accepts after any number of re-encodings by either library: the signed      *)
(* bytes are recomputed from the decoded packet, so they may not depend on how *)
(* a hop ordered fields and map entries or wrote defaults.                     *)
SignatureSurvives ==
    UnderWay /\ scene.by = "sdk" /\ scene.signs /\ (GpHop => want.exact = want.rounded) =>
        verifyInboundPacket(JsDecode("BusPacket", wire.w), [of |-> SigningKey])

(* A worker that checks keys never runs its handler on a request that says     *)
(* something else than the client signed, even when a hop changed a value.     *)
HandlerSeesWhatWasSigned ==
    worker.phase = "handling" /\ scene.checks =>
        /\ scene.signs
        /\ Plain(JsContent(Exactly, "BusPacket", worker.packet)) = Plain(want.exact)

(* spec/11-security-best-practices.md:32: "Map entries MUST be ordered by key  *)
(* so all SDKs produce identical bytes for signature verification." Then the   *)
(* bytes a Node worker computes of a packet that the Go client signed are the  *)
(* ones the client signed, and a valid packet that no hop has rounded is       *)
(* accepted.                                                                   *)
GoAndNodeAgree ==
    UnderWay /\ scene.by = "go" /\ worker.phase = "idle" /\ (GpHop => want.exact = want.rounded) =>
        LET o == JsDecode("BusPacket", wire.w) IN
        validateBusPacket(o) => verifyInboundPacket(o, KeyMap)

(* A handler that throws or returns nothing is always answered: executeHandler *)
(* turns it into a FAILED result for the request's job, which passes the       *)
(* worker's own outbound checks unless its session token is unusable.          *)
FailureIsAnswered ==
    worker.gave \in {Throws, Null} /\ worker.phase \in {"answered", "silent"} =>
        /\ worker.counted = "failed"
        /\ worker.phase = "silent" => worker.token = "unprintable"
        /\ worker.phase = "answered" =>
              LET result == Inner(JsDecode("BusPacket", wire.w), "jobResult") IN
              /\ Text(result, "status") = S("5")
              /\ Text(result, "jobId") = worker.job

(* A production packet keeps verifying through protobufjs hops, and one that   *)
(* verifies says exactly what was signed: a rewritten or extended wire is      *)
(* refused even where decoding would hide the difference.                      *)
ProductionIsExact ==
    UnderWay /\ scene.by = "producer" =>
        /\ ~newer /\ ~GpHop => verifyProductionPacket(wire.w, Trust)
        /\ verifyProductionPacket(wire.w, Trust) => ~newer /\ JsReads = Plain(want.exact)

(* What marshalWorkerTrustPacket writes, unmarshalWorkerTrustPacket accepts,   *)
(* also after protobufjs hops: deterministic encoding is a fixed point, and    *)
(* the checks pass the decoded packet like the one that was built. What is     *)
(* accepted says what was written; a wire with an added field is refused.      *)
TrustWireIsCanonical ==
    UnderWay /\ scene.by = "trust" =>
        /\ ~newer /\ ~GpHop => unmarshalWorkerTrustPacket(wire.w)
        /\ unmarshalWorkerTrustPacket(wire.w) => ~newer /\ JsReads = Plain(want.exact)

(* A second hop by the same library changes nothing: re-encoding settles after *)
(* one pass, for every message and both libraries.                             *)
SettlesAfterOneHop ==
    [][ Len(hops') > Len(hops) /\ hops # << >> /\ hops[Len(hops)] = hops'[Len(hops')] /\ ~newer
          => wire' = wire ]_vars
=============================================================================
