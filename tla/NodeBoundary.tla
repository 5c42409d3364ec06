---------------------------- MODULE NodeBoundary ----------------------------
(* What the Node SDK does to a packet between an application and the bus: the  *)
(* packets its helpers build, the checks and the signature on the way out      *)
(* (packet-boundary.ts), the checks on the way in (security.ts), the exact     *)
(* production wire (production-signing*.ts) and the canonical worker trust     *)
(* wire (worker-trust-packet.ts, worker-trust-wire.ts).                        *)
EXTENDS PacketCodec

S(token) == [s |-> token]
P(f, v) == [f |-> f, v |-> v]
Text(o, f) == IF Field(o, f) = Null THEN Zero ELSE Field(o, f)
Inner(o, f) == IF Field(o, f) = Null THEN {} ELSE Field(o, f).m

(* The fields the SDK works with, as the generated tables have them. *)
ScalarFields ==
    [ BusPacket |-> {"traceId", "senderId", "protocolVersion", "signature", "authToken"},
      Timestamp |-> {"seconds", "nanos"},
      SignatureMetadata |-> {"profileVersion", "algorithm", "messageId", "audience", "keyId"},
      IdentityBinding |-> {"tenantId"},
      JobRequest |-> {"jobId", "topic", "priority", "stepIndex"},
      JobResult |-> {"jobId", "status", "workerId", "errorMessage", "executionMs"},
      JobProgress |-> {"jobId", "stepId", "percent", "message"},
      JobCancel |-> {"jobId", "reason", "requestedBy"},
      Handshake |-> {"componentId", "role", "sdkVersion", "agentName"},
      Heartbeat |-> {"workerId", "pool", "activeJobs", "maxParallelJobs", "cpuLoad", "memoryLoad",
                     "progressPct", "lastMemo", "authToken", "agentName"},
      SystemAlert |-> {"severity", "errorCodeEnum", "sourceComponent", "traceId", "level", "component", "code"},
      WorkerHandshakeResult |-> {"accepted", "rejectionReason"} ]
NestedFields ==
    [ BusPacket |->
        [ createdAt |-> "Timestamp", signatureMetadata |-> "SignatureMetadata", identity |-> "IdentityBinding",
          jobRequest |-> "JobRequest", jobResult |-> "JobResult", heartbeat |-> "Heartbeat",
          alert |-> "SystemAlert", jobProgress |-> "JobProgress", jobCancel |-> "JobCancel",
          handshake |-> "Handshake",
          workerHandshakeChallengeRequest |-> "WorkerHandshakeChallengeRequest",
          workerHandshakeChallenge |-> "WorkerHandshakeChallenge",
          workerHandshakeAuthenticate |-> "WorkerHandshakeAuthenticate",
          workerHandshakeResult |-> "WorkerHandshakeResult" ],
      SignatureMetadata |-> [expiresAt |-> "Timestamp"],
      WorkerHandshakeAuthenticate |->
        [challenge |-> "WorkerHandshakeChallenge", capabilityHandshake |-> "Handshake"],
      WorkerHandshakeResult |->
        [challenge |-> "WorkerHandshakeChallenge", tokenExpiresAt |-> "Timestamp", issuedAt |-> "Timestamp"] ]
ASSUME FieldsAssumption ==
    /\ \A t \in DOMAIN ScalarFields : \A f \in ScalarFields[t] : LET s == Schema[t] IN
          /\ t \in PacketTypes /\ f \in DOMAIN s.name /\ s.name[f].kind = "one" /\ f \notin s.oneof
          /\ s.name[f].type \in {"int64", "uint64"} => f \in {"executionMs", "seconds"}
    /\ \A t \in DOMAIN NestedFields : \A f \in DOMAIN NestedFields[t] : LET s == Schema[t] IN
          t \in PacketTypes /\ f \in DOMAIN s.name /\ s.name[f].kind = "sub" /\ s.name[f].type = NestedFields[t][f]
    /\ \A f \in {"supportedVersions", "capabilities", "readyTopics"} : LET s == Schema["Handshake"] IN
          /\ f \in DOMAIN s.name /\ ~IsMessage(s.name[f])
          /\ IF f = "capabilities" THEN s.name[f].kind = "map" ELSE Listing(s.name[f])
    /\ \A t \in PacketTypes : Schema[t].oneof = IF t = "BusPacket" THEN Js!BusPacketPayload ELSE {}
-----------------------------------------------------------------------------
(* validate.ts. A token stands for a value in range except "negative" (a       *)
(* number below zero) and, for a priority, "high" (above the last constant).   *)
identityError(o, payload, f) ==
    Field(o, payload) # Null /\ Text(Inner(o, payload), f) # Text(o, "senderId")
payloadPresent(o) == \E f \in Js!BusPacketPayload : Field(o, f) # Null
alertIdentityError(o) ==
    LET alert == Inner(o, "alert")
        Set(f) == Text(alert, f) # Zero
        structured == \/ \E f \in {"severity", "errorCodeEnum", "sourceComponent", "traceId"} : Set(f)
                      \/ Field(alert, "details") # Null /\ Field(alert, "details").e.items # {}
        legacy == \E f \in {"level", "component", "code"} : Set(f)
    IN (structured \/ ~legacy) /\ identityError(o, "alert", "sourceComponent")
validateNestedIdentity(o) ==
    /\ ~identityError(o, "jobResult", "workerId")
    /\ ~identityError(o, "heartbeat", "workerId")
    /\ ~identityError(o, "handshake", "componentId")
    /\ ~alertIdentityError(o)
(* fromObject and decode give a 64-bit integer as a Long, whose typeof is not  *)
(* "number": what a budget of the schema holds is never refused.               *)
IsNumber(t, f) == Schema[t].name[f].type \notin {"int64", "uint64"}
validateBudget(budget) ==
    \A f \in {"maxInputTokens", "maxOutputTokens", "maxTotalTokens", "deadlineMs"} :
        ~(IsNumber("Budget", f) /\ Text(budget, f) = S("negative"))
validateJobRequest(m) ==
    /\ Text(m, "jobId") # Zero
    /\ Text(m, "topic") # Zero
    /\ Text(m, "priority") \notin {S("negative"), S("high")}
    /\ Text(m, "stepIndex") # S("negative")
    /\ validateBudget(Inner(m, "budget"))
validateJobResult(m) ==
    /\ Text(m, "jobId") # Zero
    /\ Text(m, "status") # Zero
    /\ Text(m, "workerId") # Zero
    /\ Text(m, "executionMs") # S("negative")
validateBusPacket(o) ==
    /\ Text(o, "traceId") # Zero
    /\ Text(o, "senderId") # Zero
    /\ Text(o, "protocolVersion") = S("1")
    /\ Field(o, "createdAt") # Null
    /\ payloadPresent(o)
    /\ Field(o, "jobRequest") # Null => validateJobRequest(Inner(o, "jobRequest"))
    /\ Field(o, "jobResult") # Null => validateJobResult(Inner(o, "jobResult"))
    /\ validateNestedIdentity(o)
-----------------------------------------------------------------------------
(* packet-boundary.ts: a token is attached, the packet is checked, signed over *)
(* its deterministic bytes and encoded. The token "unprintable" is refused.    *)
NoKey == "none"
attachSessionToken(o, token) == IF token = "zero" THEN o ELSE Put(o, "authToken", S(token))
validateOutboundPacket(o) == Text(o, "authToken") # S("unprintable") /\ validateBusPacket(o)
Sign(key, over) == [sig |-> [by |-> key, over |-> over]]
encodeOutboundPacket(o, key) ==
    EncodeDeterministic("BusPacket",
        IF key = NoKey THEN o
        ELSE Put(o, "signature", Sign(key, EncodeUnsignedForSignature("BusPacket", o))))

(* security.ts verifyInboundPacket: the key map is Null where the application  *)
(* configures none, or [of |-> the key of each known sender].                  *)
\* Mutant: a signature by the right key is enough, whatever it covers.
verifySigner(o, key) == Text(o, "signature") # Zero /\ Text(o, "signature").sig.by = key
verifySignature(o, key) ==
    Text(o, "signature") = Sign(key, EncodeUnsignedForSignature("BusPacket", o))
verifyInboundPacket(o, publicKeyMap) ==
    /\ validateBusPacket(o)
    /\ \/ publicKeyMap = Null
       \/ LET sender == Text(o, "senderId").s IN
          /\ sender \in DOMAIN publicKeyMap.of
          /\ verifySignature(o, publicKeyMap.of[sender])
-----------------------------------------------------------------------------
(* The packets the helpers build: client.ts, progress.ts, handshake.ts,        *)
(* heartbeat.ts and the result packet of worker.ts. An empty agent name or     *)
(* token is left out.                                                          *)
At(time) == [m |-> {P("seconds", S(time)), P("nanos", Zero)}]
Now == At("now")
Envelope(trace, sender, payload, m) ==
    { P("traceId", S(trace)), P("senderId", S(sender)), P("protocolVersion", S("1")),
      P("createdAt", Now), P(payload, [m |-> m]) }
Unless(empty, f, v) == IF v = empty THEN {} ELSE {P(f, v)}

submitJob(request, trace, sender) == Envelope(trace, sender, "jobRequest", request)
progressPayload(sender, jobId, stepId, percent, message) ==
    Envelope(jobId, sender, "jobProgress",
        { P("jobId", S(jobId)), P("stepId", S(stepId)), P("percent", S(percent)),
          P("message", S(message)) })
cancelPayload(sender, jobId, reason, requestedBy) ==
    Envelope(jobId, sender, "jobCancel",
        { P("jobId", S(jobId)), P("reason", S(reason)), P("requestedBy", S(requestedBy)) })
handshakePayload(component, sender, capabilities, readyTopics, agentName) ==
    Envelope("random", sender, "handshake",
        { P("componentId", S(component)), P("role", S("worker")),
          P("supportedVersions", [l |-> <<S("1")>>]), P("capabilities", [e |-> capabilities]),
          P("readyTopics", [l |-> readyTopics]), P("sdkVersion", S("sdk")) }
        \cup Unless(Zero, "agentName", S(agentName)))
heartbeatPayloadWithProgress(worker, active, memory, memo, authToken, agentName) ==
    Envelope(worker, worker, "heartbeat",
        { P("workerId", S(worker)), P("pool", S("a")), P("activeJobs", S(active)),
          P("maxParallelJobs", S("a")), P("cpuLoad", S("a")), P("memoryLoad", S(memory)),
          P("progressPct", Zero), P("lastMemo", S(memo)) }
        \cup Unless(Zero, "authToken", S(authToken)) \cup Unless(Zero, "agentName", S(agentName)))
-----------------------------------------------------------------------------
(* worker.ts: what the handler gave is made a result object, and the object a  *)
(* JobResult message (fromObject turns the name of a status into its number    *)
(* and drops a name it does not know). A handler throws, returns something     *)
(* that is not an object (Null), or returns [m |-> result].                    *)
Throws == [throws |-> TRUE]
StatusNumber == [s \in {"JOB_STATUS_FAILED", "JOB_STATUS_SUCCEEDED"} |->
                    IF s = "JOB_STATUS_FAILED" THEN "5" ELSE "4"]
\* Mutant: the failure has a status the schema does not name.
failureUnnamed(request, message) ==
    { P("jobId", Text(request, "jobId")), P("status", S("FAILED")), P("errorMessage", S(message)) }
failureResult(request, message) ==
    { P("jobId", Text(request, "jobId")), P("status", S("JOB_STATUS_FAILED")),
      P("errorMessage", S(message)) }
executeHandler(request, gave, sender) ==
    LET value == IF gave = Throws THEN failureResult(request, "thrown") ELSE
                 IF gave = Null THEN failureResult(request, "handler returned null") ELSE gave.m
        filled == IF Text(value, "jobId") = Zero THEN Put(value, "jobId", Text(request, "jobId")) ELSE value
    IN IF Text(filled, "workerId") = Zero THEN Put(filled, "workerId", S(sender)) ELSE filled
resultFromObject(result) ==
    LET status == Text(result, "status").s IN
    IF status \in DOMAIN StatusNumber THEN Put(result, "status", S(StatusNumber[status])) ELSE
    IF status \in {"4", "5"} THEN result ELSE Without(result, "status")
reportsFailure(result) == Text(result, "status") = S("JOB_STATUS_FAILED")
-----------------------------------------------------------------------------
(* production-signing.ts. The signature covers every field but its own, in the *)
(* order of the wire, behind the domain of the profile.                        *)
BUS_PACKET_PAYLOAD_FIELDS == {10, 11, 12, 13, 15, 16, 17, 19, 20, 21, 22}
BUS_PACKET_FIELDS == 1..6 \cup {14, 18} \cup BUS_PACKET_PAYLOAD_FIELDS
ASSUME NumbersAssumption == LET s == Schema["BusPacket"] IN
    /\ DOMAIN s.number = BUS_PACKET_FIELDS
    /\ \A k \in BUS_PACKET_FIELDS : s.number[k].f \in s.oneof <=> k \in BUS_PACKET_PAYLOAD_FIELDS
    /\ s.name["protocolVersion"].n = 4 /\ s.name["signature"].n = 14 /\ s.name["authToken"].n = 18
    /\ s.accessor["signature"].slot = 14 /\ s.accessor["authToken"].slot = 18
Only(w, numbers) == [items |-> {q \in w.items : q.f \in numbers}, order |-> In(w.order, numbers)]
Followed(w, k, v) ==
    [items |-> w.items \cup {P(k, v)}, order |-> w.order \cup (Keys(w.items) \X {k})]
Unsigned(w) == Only(w, Keys(w.items) \ {14})
Domain(w) == [domain |-> "CAP-PRODUCTION-SIGNATURE-V1", wire |-> w]
extractProductionSignature(w) ==
    /\ Keys(w.items) \subseteq BUS_PACKET_FIELDS
    /\ Unique(w.items)
    /\ OneMember(w.items, BUS_PACKET_PAYLOAD_FIELDS)
    /\ P(4, S("1")) \in w.items
    /\ \E q \in w.items : q.f = 14 /\ q.v # Zero
validateMetadata(metadata) ==
    /\ Text(metadata, "profileVersion") = S("cap-production-v1")
    /\ Text(metadata, "algorithm") = S("ECDSA-P256-SHA256")
    /\ Text(metadata, "messageId") = S("id16")
    /\ Text(metadata, "audience") # Zero
    /\ Text(metadata, "keyId") # Zero
    /\ Field(metadata, "expiresAt") # Null
(* The expiry "soon" lies inside the lifetime bound of the profile, no other. *)
validateExpiry(metadata) == Text(Inner(metadata, "expiresAt"), "seconds") = S("soon")

(* production-signing-producer.ts: what may be signed, and the wire.           *)
validateProduced(o) ==
    /\ JsVerify("BusPacket", o)
    /\ validateBusPacket(o)
    /\ validateMetadata(Inner(o, "signatureMetadata"))
    /\ validateExpiry(Inner(o, "signatureMetadata"))
    /\ walkMessage("BusPacket", JsEncode("BusPacket", o), FALSE)
\* Mutant: the deterministic encoding is signed instead of the bytes sent.
signDeterministic(o, key) ==
    Followed(JsEncode("BusPacket", o), 14, Sign(key, Domain(EncodeUnsignedForSignature("BusPacket", o))))
signProductionPacket(o, key) ==
    LET unsigned == JsEncode("BusPacket", Without(o, "signature"))
    IN Followed(unsigned, 14, Sign(key, Domain(unsigned)))
verifyDecoded(o, signature, unsigned, trust) ==
    LET metadata == Inner(o, "signatureMetadata") IN
    /\ validateMetadata(metadata)
    /\ Text(metadata, "audience") = S(trust.audience)
    /\ validateExpiry(metadata)
    /\ Text(Inner(o, "identity"), "tenantId") = S(trust.tenant)
    /\ Text(o, "senderId") = S(trust.sender)
    /\ Text(metadata, "keyId") = S(trust.keyId)
    /\ signature = Sign(trust.key, Domain(unsigned))
verifyProductionPacket(w, trust) ==
    /\ extractProductionSignature(w)
    /\ walkMessage("BusPacket", Unsigned(w), FALSE)
    /\ verifyDecoded(JsDecode("BusPacket", Unsigned(w)), Get(w.items, 14), Unsigned(w), trust)
-----------------------------------------------------------------------------
(* worker-trust-packet.ts: what a trust packet may say. "n32" is a nonce of 32 *)
(* bytes, "huge" a text longer than any bound; a field the packet types        *)
(* require is set, so an absent one is the default a decoded object shows.     *)
PHASE_FIELDS ==
    {"workerHandshakeChallengeRequest", "workerHandshakeChallenge", "workerHandshakeAuthenticate",
     "workerHandshakeResult"}
ENVELOPE_FIELDS ==
    {"traceId", "senderId", "createdAt", "protocolVersion", "signature", "authToken"} \cup PHASE_FIELDS
REQUEST_FIELDS ==
    {"requestId", "traceId", "workerId", "proofKeyId", "proofAlgorithm", "audience", "purpose",
     "clientNonce", "protocolVersion", "sdkVersion"}
CHALLENGE_FIELDS ==
    REQUEST_FIELDS \cup {"challengeId", "agentId", "tenantId", "serverKeyId", "serverNonce",
                         "issuedAt", "expiresAt"}
CAPABILITY_FIELDS ==
    {"componentId", "role", "supportedVersions", "capabilities", "sdkVersion", "readyTopics", "agentName"}
CAPABILITY_KEY == {"x", "y"}
ASSUME TrustFieldsAssumption ==
    /\ ENVELOPE_FIELDS \subseteq DOMAIN Schema["BusPacket"].name
    /\ REQUEST_FIELDS = DOMAIN Schema["WorkerHandshakeChallengeRequest"].name
    /\ CHALLENGE_FIELDS = DOMAIN Schema["WorkerHandshakeChallenge"].name
    /\ CAPABILITY_FIELDS = DOMAIN Schema["Handshake"].name

(* The moments a timestamp may name; a challenge lives LifetimeBound at most,  *)
(* WORKER_HANDSHAKE_MAX_LIFETIME_MS.                                           *)
timestampNanos == [zero |-> 0, now |-> 1, soon |-> 2, later |-> 3]
LifetimeBound == 1

assertKnown(m, fields) == Keys(m) \subseteq fields
packetText(m, fields) == \A f \in fields : Text(m, f) \notin {Zero, S("huge")}
validToken(o) == Text(o, "authToken") \notin {Zero, S("unprintable"), S("huge")}
nonce(m, f) == Text(m, f) = S("n32")
validateTimestampObject(m, f) ==
    /\ Field(m, f) # Null /\ assertKnown(Inner(m, f), {"seconds", "nanos"})
    /\ Text(Inner(m, f), "seconds").s \in DOMAIN timestampNanos
Nanos(m, f) == timestampNanos[Text(Inner(m, f), "seconds").s]
validateProof(m) ==
    /\ Text(m, "protocolVersion") = S("1") /\ Text(m, "proofAlgorithm") = S("1")
    /\ Text(m, "purpose") \in {S("1"), S("2")}

validateEnvelope(o) ==
    /\ packetText(o, {"traceId", "senderId"})
    /\ validateTimestampObject(o, "createdAt")
    /\ Text(o, "protocolVersion") = S("1")
    /\ Text(o, "signature") # Zero
validateRequest(o) ==
    LET request == Inner(o, "workerHandshakeChallengeRequest") IN
    /\ assertKnown(request, REQUEST_FIELDS)
    /\ packetText(request, {"requestId", "traceId", "workerId", "proofKeyId", "audience", "sdkVersion"})
    /\ Text(request, "traceId") = Text(o, "traceId") /\ Text(request, "workerId") = Text(o, "senderId")
    /\ validateProof(request)
    /\ nonce(request, "clientNonce")
    /\ Text(o, "authToken") = Zero
validateChallenge(o, challenge) ==
    /\ assertKnown(challenge, CHALLENGE_FIELDS)
    /\ packetText(challenge, {"requestId", "challengeId", "traceId", "workerId", "agentId", "tenantId",
                              "proofKeyId", "serverKeyId", "audience", "sdkVersion"})
    /\ Text(challenge, "traceId") = Text(o, "traceId")
    /\ validateProof(challenge)
    /\ nonce(challenge, "clientNonce") /\ nonce(challenge, "serverNonce")
    /\ validateTimestampObject(challenge, "issuedAt") /\ validateTimestampObject(challenge, "expiresAt")
    /\ Nanos(challenge, "expiresAt") > Nanos(challenge, "issuedAt")
    /\ Nanos(challenge, "expiresAt") - Nanos(challenge, "issuedAt") <= LifetimeBound
validateChallengePacket(o) ==
    validateChallenge(o, Inner(o, "workerHandshakeChallenge")) /\ Text(o, "authToken") = Zero
validateCapability(capability, challenge) ==
    LET versions == Field(capability, "supportedVersions")
        entries == Field(capability, "capabilities")
        topics == Field(capability, "readyTopics")
    IN /\ assertKnown(capability, CAPABILITY_FIELDS)
       /\ Text(capability, "componentId") = Text(challenge, "workerId")
       /\ Text(capability, "role") = S("worker")
       /\ Text(capability, "sdkVersion") = Text(challenge, "sdkVersion")
       /\ versions = [l |-> <<S("1")>>]
       /\ entries # Null => \A q \in entries.e.items : q.f \in CAPABILITY_KEY /\ q.v = S("true")
       /\ topics # Null => \A i, j \in DOMAIN topics.l :
             topics.l[i] # Zero /\ (topics.l[i] = topics.l[j] => i = j)
validateSessionForPurpose(o, purpose) ==
    /\ purpose = S("1") => Text(o, "authToken") = Zero
    /\ purpose = S("2") => validToken(o)
validateAuthenticate(o) ==
    LET authenticate == Inner(o, "workerHandshakeAuthenticate")
        challenge == Inner(authenticate, "challenge")
    IN /\ assertKnown(authenticate, {"challenge", "capabilityHandshake"})
       /\ validateChallenge(o, challenge)
       /\ Text(challenge, "workerId") = Text(o, "senderId")
       /\ validateCapability(Inner(authenticate, "capabilityHandshake"), challenge)
       /\ validateSessionForPurpose(o, Text(challenge, "purpose"))
validateResult(o) ==
    LET result == Inner(o, "workerHandshakeResult") IN
    /\ assertKnown(result, {"challenge", "accepted", "rejectionReason", "tokenExpiresAt", "issuedAt"})
    /\ validateChallenge(o, Inner(result, "challenge"))
    /\ validateTimestampObject(result, "issuedAt")
    /\ IF Text(result, "accepted") # Zero
       THEN /\ validateTimestampObject(result, "tokenExpiresAt")
            /\ validToken(o)
            /\ Nanos(result, "tokenExpiresAt") > Nanos(result, "issuedAt")
            /\ Text(result, "rejectionReason") = Zero
       ELSE /\ Text(o, "authToken") = Zero
            /\ Field(result, "tokenExpiresAt") = Null
            /\ Text(result, "rejectionReason") \in {S("1"), S("9")}
trustPhase(o) == {f \in PHASE_FIELDS : Field(o, f) # Null}
validateWorkerTrustPacket(o) ==
    /\ assertKnown(o, ENVELOPE_FIELDS)
    /\ validateEnvelope(o)
    /\ Cardinality(trustPhase(o)) = 1
    /\ "workerHandshakeChallengeRequest" \in trustPhase(o) => validateRequest(o)
    /\ "workerHandshakeChallenge" \in trustPhase(o) => validateChallengePacket(o)
    /\ "workerHandshakeAuthenticate" \in trustPhase(o) => validateAuthenticate(o)
    /\ "workerHandshakeResult" \in trustPhase(o) => validateResult(o)

(* A packet has more than WORKER_HANDSHAKE_MAX_PACKET_SIZE bytes where one of  *)
(* its ready topics has; every other text of it is bounded or short.           *)
Oversized(o) ==
    LET topics == Field(Inner(Inner(o, "workerHandshakeAuthenticate"), "capabilityHandshake"), "readyTopics")
    IN topics # Null /\ \E i \in DOMAIN topics.l : topics.l[i] = S("huge")

(* The bytes of a packet, Null where it is refused; and whether the bytes,     *)
(* scanned and decoded, are a packet and the ones the SDK itself would write.  *)
\* Mutant: the object is encoded as it was built.
marshalAsBuilt(o) ==
    IF validateWorkerTrustPacket(o) /\ ~Oversized(o) THEN JsEncode("BusPacket", o) ELSE Null
marshalWorkerTrustPacket(o) ==
    IF validateWorkerTrustPacket(o) /\ ~Oversized(o) THEN EncodeDeterministic("BusPacket", o) ELSE Null
unmarshalWorkerTrustPacket(w) ==
    LET o == JsDecode("BusPacket", w) IN
    /\ w.items # {} /\ ~Oversized(o)
    /\ scanMessage("BusPacket", w)
    /\ validateWorkerTrustPacket(o)
    /\ EncodeDeterministic("BusPacket", o) = w
-----------------------------------------------------------------------------
(* The Go SDK as a signer (go/signing.go). Go's marshaller writes the oneof    *)
(* after the other fields and sorts map keys as text; the SDK signs the        *)
(* session token after the payload. g is the message in slots.                 *)
MarshalDeterministic(g) ==
    LET w == GpSerialize("BusPacket", g)
        payload(k) == k \in BUS_PACKET_PAYLOAD_FIELDS
    IN [w EXCEPT !.order = {x \in Keys(w.items) \X Keys(w.items) :
           IF payload(x[1]) <=> payload(x[2]) THEN x \in w.order ELSE payload(x[2])}]
MarshalUnsignedForSignature(g) ==
    LET w == MarshalDeterministic({p \in g : p.f \notin {14, 18}})
    IN IF Has(g, 18) THEN Followed(w, 18, Get(g, 18)) ELSE w
SignPacket(g, key) == GpSet("BusPacket", g, "signature", Sign(key, MarshalUnsignedForSignature(g)))
=============================================================================
