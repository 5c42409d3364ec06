------------------------------ MODULE CapPb ------------------------------
(* node/cap_pb.js, the bundled protobufjs module: one table per message, its *)
(* rows in the order its encode writes them, which are also the cases of its  *)
(* decode.                                                                    *)
EXTENDS PacketRows, Integers

BusPacket ==
    << Str(1, "traceId"), Str(2, "senderId"), Msg(3, "createdAt", "Timestamp"),
       Int32(4, "protocolVersion"), Msg(5, "signatureMetadata", "SignatureMetadata"),
       Msg(6, "identity", "IdentityBinding"), Msg(10, "jobRequest", "JobRequest"),
       Msg(11, "jobResult", "JobResult"), Msg(12, "heartbeat", "Heartbeat"),
       Msg(13, "alert", "SystemAlert"), Bytes(14, "signature"),
       Msg(15, "jobProgress", "JobProgress"), Msg(16, "jobCancel", "JobCancel"),
       Msg(17, "handshake", "Handshake"), Str(18, "authToken"),
       Msg(19, "workerHandshakeChallengeRequest", "WorkerHandshakeChallengeRequest"),
       Msg(20, "workerHandshakeChallenge", "WorkerHandshakeChallenge"),
       Msg(21, "workerHandshakeAuthenticate", "WorkerHandshakeAuthenticate"),
       Msg(22, "workerHandshakeResult", "WorkerHandshakeResult") >>
SignatureMetadata ==
    << Str(1, "profileVersion"), Str(2, "algorithm"), Bytes(3, "messageId"),
       Str(4, "audience"), Msg(5, "expiresAt", "Timestamp"), Str(6, "keyId") >>
IdentityBinding ==
    << Str(1, "tenantId"), Str(2, "principalId"), Str(3, "actorId"), Str(4, "delegationId") >>
DispatchIdentity ==
    << Str(1, "dispatchId"), Uint64(2, "attempt"), Str(3, "assignedWorkerId") >>
ResourceRef ==
    << Str(1, "resolverId"), Str(2, "uri"), Bytes(3, "sha256"), Str(4, "mediaType"),
       Uint64(5, "sizeBytes"), Msg(6, "expiresAt", "Timestamp"), Str(7, "purpose") >>
ContextHints ==
    << Int32(1, "maxInputTokens"), Bool(2, "allowSummarization"),
       Bool(3, "allowRetrieval"), Strs(4, "tags") >>
Budget ==
    << Int64(1, "maxInputTokens"), Int64(2, "maxOutputTokens"), Int64(3, "maxTotalTokens"),
       Int64(4, "deadlineMs") >>
JobMetadata ==
    << Str(1, "tenantId"), Str(2, "actorId"), Int32(3, "actorType"),
       Str(4, "idempotencyKey"), Str(5, "capability"), Strs(6, "riskTags"),
       Strs(7, "requires"), Str(8, "packId"), Map(9, "labels", "string") >>
Compensation ==
    << Str(1, "topic"), Str(2, "contextPtr"), Int32(3, "priority"), Str(4, "adapterId"),
       Map(5, "env", "string"), Str(6, "memoryId"), Msg(7, "contextHints", "ContextHints"),
       Msg(8, "budget", "Budget"), Str(9, "tenantId"), Str(10, "principalId"),
       Map(11, "labels", "string"), Msg(12, "meta", "JobMetadata"),
       Msg(13, "identity", "IdentityBinding"), Msg(14, "dispatch", "DispatchIdentity"),
       Msg(15, "contextRef", "ResourceRef") >>
JobRequest ==
    << Str(1, "jobId"), Str(2, "topic"), Int32(3, "priority"), Str(4, "contextPtr"),
       Str(5, "adapterId"), Map(6, "env", "string"), Str(7, "parentJobId"),
       Str(8, "workflowId"), Int32(9, "stepIndex"), Str(10, "memoryId"),
       Msg(11, "contextHints", "ContextHints"), Msg(12, "budget", "Budget"),
       Str(13, "tenantId"), Str(14, "principalId"), Map(15, "labels", "string"),
       Msg(16, "meta", "JobMetadata"), Msg(17, "compensation", "Compensation"),
       Msg(18, "identity", "IdentityBinding"), Msg(19, "dispatch", "DispatchIdentity"),
       Msg(20, "contextRef", "ResourceRef") >>
JobResult ==
    << Str(1, "jobId"), Int32(2, "status"), Str(3, "resultPtr"), Str(4, "workerId"),
       Int64(5, "executionMs"), Str(6, "errorCode"), Str(7, "errorMessage"),
       Strs(8, "artifactPtrs"), Int32(9, "errorCodeEnum"),
       Msg(10, "dispatch", "DispatchIdentity"), Msg(11, "identity", "IdentityBinding"),
       Msg(12, "resultRef", "ResourceRef"), Msgs(13, "artifactRefs", "ResourceRef") >>
JobProgress ==
    << Str(1, "jobId"), Str(2, "stepId"), Int32(3, "percent"), Str(4, "message"),
       Str(5, "resultPtr"), Strs(6, "artifactPtrs"), Int32(7, "status"),
       Msg(8, "dispatch", "DispatchIdentity"), Msg(9, "identity", "IdentityBinding"),
       Msg(10, "resultRef", "ResourceRef"), Msgs(11, "artifactRefs", "ResourceRef") >>
JobCancel ==
    << Str(1, "jobId"), Str(2, "reason"), Str(3, "requestedBy"),
       Msg(4, "dispatch", "DispatchIdentity"), Msg(5, "identity", "IdentityBinding") >>
Heartbeat ==
    << Str(1, "workerId"), Str(2, "region"), Str(3, "type"), Float(4, "cpuLoad"),
       Float(5, "gpuUtilization"), Int32(6, "activeJobs"), Strs(7, "capabilities"),
       Str(11, "pool"), Int32(12, "maxParallelJobs"), Map(13, "labels", "string"),
       Float(14, "memoryLoad"), Int32(15, "progressPct"), Str(16, "lastMemo"),
       Str(18, "authToken"), Str(19, "agentName") >>
SystemAlert ==
    << Str(1, "level"), Str(2, "message"), Str(3, "component"), Str(4, "code"),
       Int32(5, "severity"), Int32(6, "errorCodeEnum"), Str(7, "sourceComponent"),
       Map(8, "details", "string"), Str(9, "traceId") >>
Handshake ==
    << Str(1, "componentId"), Int32(2, "role"), Int32s(3, "supportedVersions"),
       Map(4, "capabilities", "bool"), Str(5, "sdkVersion"), Strs(6, "readyTopics"),
       Str(7, "agentName") >>
WorkerHandshakeChallengeRequest ==
    << Str(1, "requestId"), Str(2, "traceId"), Str(3, "workerId"), Str(4, "proofKeyId"),
       Int32(5, "proofAlgorithm"), Str(6, "audience"), Int32(7, "purpose"),
       Bytes(8, "clientNonce"), Int32(9, "protocolVersion"), Str(10, "sdkVersion") >>
WorkerHandshakeChallenge ==
    << Str(1, "requestId"), Str(2, "challengeId"), Str(3, "traceId"), Str(4, "workerId"),
       Str(5, "agentId"), Str(6, "tenantId"), Str(7, "proofKeyId"),
       Int32(8, "proofAlgorithm"), Str(9, "serverKeyId"), Str(10, "audience"),
       Int32(11, "purpose"), Bytes(12, "clientNonce"), Bytes(13, "serverNonce"),
       Int32(14, "protocolVersion"), Str(15, "sdkVersion"),
       Msg(16, "issuedAt", "Timestamp"), Msg(17, "expiresAt", "Timestamp") >>
WorkerHandshakeAuthenticate ==
    << Msg(1, "challenge", "WorkerHandshakeChallenge"),
       Msg(2, "capabilityHandshake", "Handshake") >>
WorkerHandshakeResult ==
    << Msg(1, "challenge", "WorkerHandshakeChallenge"), Bool(2, "accepted"),
       Int32(3, "rejectionReason"), Msg(4, "tokenExpiresAt", "Timestamp"),
       Msg(5, "issuedAt", "Timestamp") >>
RuleScope ==
    << Int32(1, "kind"), Str(2, "value") >>
AuditMetadata ==
    << Msg(1, "createdAt", "Timestamp"), Str(2, "createdBy"),
       Msg(3, "updatedAt", "Timestamp"), Str(4, "updatedBy") >>
Rule ==
    << Str(1, "id"), Str(2, "name"), Int32(3, "type"), Msg(4, "scope", "RuleScope"),
       Int32(5, "status"), Str(6, "version"), Msg(7, "audit", "AuditMetadata"),
       Msg(8, "match", "Struct"), Msg(9, "decide", "Struct"), Str(10, "description") >>
TraceStep ==
    << Str(1, "ruleId"), Str(2, "bundleId"), Int32(3, "decisionType"), Str(4, "reason"),
       Msg(5, "timestamp", "Timestamp"), Msg(6, "constraints", "Struct") >>
Decision ==
    << Int32(1, "source"), Str(2, "ruleId"), Str(3, "bundleId"), Str(4, "bundleVersion"),
       Int32(5, "type"), Msgs(6, "trace", "TraceStep"), Str(7, "inputRef"),
       Str(8, "outputRef"), Str(9, "auditHash"), Msg(10, "timestamp", "Timestamp") >>
BundleMetadata ==
    << Int32(1, "edgeMode") >>
BundleVersion ==
    << Str(1, "version"), Msgs(2, "ruleSnapshot", "Rule"),
       Msg(3, "deployedAt", "Timestamp"), Str(4, "auditHash") >>
Bundle ==
    << Str(1, "id"), Str(2, "name"), Strs(3, "ruleIds"),
       Msg(4, "scopeBinding", "RuleScope"), Msgs(5, "versions", "BundleVersion"),
       Msg(6, "metadata", "BundleMetadata") >>
JobEvaluationContext ==
    << Str(1, "tenantId"), Str(2, "jobId"), Str(3, "workflowId"), Str(4, "topic"),
       Str(5, "principalId"), Map(6, "labels", "string"), Str(7, "memoryId"),
       Str(8, "capability"), Strs(9, "riskTags"), Bytes(20, "inputContent"),
       Str(21, "inputContentType"), Int64(22, "inputSizeBytes") >>
EdgeEvaluationContext ==
    << Str(1, "tenantId"), Str(2, "principalId"), Str(3, "sessionId"),
       Str(4, "executionId"), Str(5, "agentProduct"), Str(6, "toolName"),
       Msg(7, "toolInputRedacted", "Struct"), Str(8, "inputHash"), Str(9, "toolInputHash"),
       Map(10, "labels", "string"), Strs(11, "riskTags") >>
PolicyEvaluateRequest ==
    << Msg(1, "rule", "Rule"), Str(2, "bundleId"), Msg(3, "scope", "RuleScope"),
       Msg(10, "jobContext", "JobEvaluationContext"),
       Msg(11, "edgeContext", "EdgeEvaluationContext") >>
PolicyEvaluateResponse ==
    << Msg(1, "decision", "Decision") >>
PolicyCheckRequest ==
    << Str(1, "jobId"), Str(2, "topic"), Str(3, "tenant"), Int32(4, "priority"),
       Double(5, "estimatedCost"), Msg(6, "budget", "Budget"), Str(7, "principalId"),
       Map(8, "labels", "string"), Str(9, "memoryId"), Bytes(10, "effectiveConfig"),
       Msg(11, "meta", "JobMetadata"), Msg(12, "identity", "IdentityBinding"),
       Msg(13, "inputRef", "ResourceRef"), Bytes(20, "inputContent"),
       Str(21, "inputContentType"), Int64(22, "inputSizeBytes") >>
BudgetConstraints ==
    << Int64(1, "maxRuntimeMs"), Int32(2, "maxRetries"), Int64(3, "maxArtifactBytes"),
       Int32(4, "maxConcurrentJobs") >>
SandboxProfile ==
    << Bool(1, "isolated"), Strs(2, "networkAllowlist"), Strs(3, "fsReadOnly"),
       Strs(4, "fsReadWrite") >>
ToolchainConstraints ==
    << Strs(1, "allowedTools"), Strs(2, "allowedCommands") >>
DiffConstraints ==
    << Int32(1, "maxFiles"), Int32(2, "maxLines"), Strs(3, "denyPathGlobs") >>
PolicyConstraints ==
    << Msg(1, "budgets", "BudgetConstraints"), Msg(2, "sandbox", "SandboxProfile"),
       Msg(3, "toolchain", "ToolchainConstraints"), Msg(4, "diff", "DiffConstraints"),
       Str(5, "redactionLevel") >>
PolicyRemediation ==
    << Str(1, "id"), Str(2, "title"), Str(3, "summary"), Str(4, "replacementTopic"),
       Str(5, "replacementCapability"), Map(6, "addLabels", "string"),
       Strs(7, "removeLabels") >>
PolicyCheckResponse ==
    << Int32(1, "decision"), Str(2, "reason"), Str(3, "redactedContextPtr"),
       Str(4, "policySnapshot"), Str(5, "ruleId"),
       Msg(6, "constraints", "PolicyConstraints"), Bool(7, "approvalRequired"),
       Str(8, "approvalRef"), Msgs(9, "remediations", "PolicyRemediation"),
       Msg(10, "redactedContextRef", "ResourceRef"), Msg(11, "identity", "IdentityBinding") >>
ListSnapshotsRequest ==
    << >>
ListSnapshotsResponse ==
    << Strs(1, "snapshots") >>
Timestamp ==
    << Int64(1, "seconds"), Int32(2, "nanos") >>
Struct ==
    << Map(1, "fields", "Value") >>
Value ==
    << Int32(1, "nullValue"), Double(2, "numberValue"), Str(3, "stringValue"),
       Bool(4, "boolValue"), Msg(5, "structValue", "Struct"),
       Msg(6, "listValue", "ListValue") >>
ListValue ==
    << Msgs(1, "values", "Value") >>

Tables ==
    [ BusPacket |-> BusPacket, SignatureMetadata |-> SignatureMetadata,
      IdentityBinding |-> IdentityBinding, DispatchIdentity |-> DispatchIdentity,
      ResourceRef |-> ResourceRef, ContextHints |-> ContextHints, Budget |-> Budget,
      JobMetadata |-> JobMetadata, Compensation |-> Compensation,
      JobRequest |-> JobRequest, JobResult |-> JobResult, JobProgress |-> JobProgress,
      JobCancel |-> JobCancel, Heartbeat |-> Heartbeat, SystemAlert |-> SystemAlert,
      Handshake |-> Handshake,
      WorkerHandshakeChallengeRequest |-> WorkerHandshakeChallengeRequest,
      WorkerHandshakeChallenge |-> WorkerHandshakeChallenge,
      WorkerHandshakeAuthenticate |-> WorkerHandshakeAuthenticate,
      WorkerHandshakeResult |-> WorkerHandshakeResult, RuleScope |-> RuleScope,
      AuditMetadata |-> AuditMetadata, Rule |-> Rule, TraceStep |-> TraceStep,
      Decision |-> Decision, BundleMetadata |-> BundleMetadata,
      BundleVersion |-> BundleVersion, Bundle |-> Bundle,
      JobEvaluationContext |-> JobEvaluationContext,
      EdgeEvaluationContext |-> EdgeEvaluationContext,
      PolicyEvaluateRequest |-> PolicyEvaluateRequest,
      PolicyEvaluateResponse |-> PolicyEvaluateResponse,
      PolicyCheckRequest |-> PolicyCheckRequest, BudgetConstraints |-> BudgetConstraints,
      SandboxProfile |-> SandboxProfile, ToolchainConstraints |-> ToolchainConstraints,
      DiffConstraints |-> DiffConstraints, PolicyConstraints |-> PolicyConstraints,
      PolicyRemediation |-> PolicyRemediation, PolicyCheckResponse |-> PolicyCheckResponse,
      ListSnapshotsRequest |-> ListSnapshotsRequest,
      ListSnapshotsResponse |-> ListSnapshotsResponse, Timestamp |-> Timestamp,
      Struct |-> Struct, Value |-> Value, ListValue |-> ListValue ]

(* The members of the two oneofs, as the virtual getters list them. *)
BusPacketPayload ==
    { "jobRequest", "jobResult", "heartbeat", "alert", "jobProgress", "jobCancel",
      "handshake", "workerHandshakeChallengeRequest", "workerHandshakeChallenge",
      "workerHandshakeAuthenticate", "workerHandshakeResult" }
ValueKind ==
    { "nullValue", "numberValue", "stringValue", "boolValue", "structValue", "listValue" }
Oneof(t) == CASE t = "BusPacket" -> BusPacketPayload [] t = "Value" -> ValueKind [] OTHER -> {}
==========================================================================
