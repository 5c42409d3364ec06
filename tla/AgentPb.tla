----------------------------- MODULE AgentPb -----------------------------
(* node/cordum/agent/v1/*_pb.js, the google-protobuf modules. Per message, the *)
(* rows its deserializeBinaryFromReader and serializeBinaryToWriter share, in  *)
(* the order they are written, and the slot of the array each accessor uses.   *)
EXTENDS PacketRows, Integers

SystemAlert ==
    << Str(1, "level"), Str(2, "message"), Str(3, "component"), Str(4, "code"),
       Enum(5, "severity"), Enum(6, "errorCodeEnum"), Str(7, "sourceComponent"),
       Map(8, "details", "string"), Str(9, "traceId") >>
SystemAlertAccessors ==
    [ level |-> Scalar(1), message |-> Scalar(2), component |-> Scalar(3),
      code |-> Scalar(4), severity |-> Scalar(5), errorCodeEnum |-> Scalar(6),
      sourceComponent |-> Scalar(7), details |-> Entries(8), traceId |-> Scalar(9) ]
BusPacket ==
    << Str(1, "traceId"), Str(2, "senderId"), Msg(3, "createdAt", "Timestamp"),
       Int32(4, "protocolVersion"), Msg(5, "signatureMetadata", "SignatureMetadata"),
       Msg(6, "identity", "IdentityBinding"), Msg(10, "jobRequest", "JobRequest"),
       Msg(11, "jobResult", "JobResult"), Msg(12, "heartbeat", "Heartbeat"),
       Msg(13, "alert", "SystemAlert"), Msg(15, "jobProgress", "JobProgress"),
       Msg(16, "jobCancel", "JobCancel"), Msg(17, "handshake", "Handshake"),
       Msg(19, "workerHandshakeChallengeRequest", "WorkerHandshakeChallengeRequest"),
       Msg(20, "workerHandshakeChallenge", "WorkerHandshakeChallenge"),
       Msg(21, "workerHandshakeAuthenticate", "WorkerHandshakeAuthenticate"),
       Msg(22, "workerHandshakeResult", "WorkerHandshakeResult"), Bytes(14, "signature"),
       Str(18, "authToken") >>
BusPacketAccessors ==
    [ traceId |-> Scalar(1), senderId |-> Scalar(2), createdAt |-> Wrapper(3),
      protocolVersion |-> Scalar(4), signatureMetadata |-> Wrapper(5),
      identity |-> Wrapper(6), jobRequest |-> Member(10), jobResult |-> Member(11),
      heartbeat |-> Member(12), alert |-> Member(13), jobProgress |-> Member(15),
      jobCancel |-> Member(16), handshake |-> Member(17),
      workerHandshakeChallengeRequest |-> Member(19),
      workerHandshakeChallenge |-> Member(20), workerHandshakeAuthenticate |-> Member(21),
      workerHandshakeResult |-> Member(22), signature |-> Scalar(14),
      authToken |-> Scalar(18) ]
SignatureMetadata ==
    << Str(1, "profileVersion"), Str(2, "algorithm"), Bytes(3, "messageId"),
       Str(4, "audience"), Msg(5, "expiresAt", "Timestamp"), Str(6, "keyId") >>
SignatureMetadataAccessors ==
    [ profileVersion |-> Scalar(1), algorithm |-> Scalar(2), messageId |-> Scalar(3),
      audience |-> Scalar(4), expiresAt |-> Wrapper(5), keyId |-> Scalar(6) ]
Handshake ==
    << Str(1, "componentId"), Enum(2, "role"), Int32s(3, "supportedVersions"),
       Map(4, "capabilities", "bool"), Str(5, "sdkVersion"), Strs(6, "readyTopics"),
       Str(7, "agentName") >>
HandshakeAccessors ==
    [ componentId |-> Scalar(1), role |-> Scalar(2), supportedVersions |-> List(3),
      capabilities |-> Entries(4), sdkVersion |-> Scalar(5), readyTopics |-> List(6),
      agentName |-> Scalar(7) ]
WorkerHandshakeChallengeRequest ==
    << Str(1, "requestId"), Str(2, "traceId"), Str(3, "workerId"), Str(4, "proofKeyId"),
       Enum(5, "proofAlgorithm"), Str(6, "audience"), Enum(7, "purpose"),
       Bytes(8, "clientNonce"), Int32(9, "protocolVersion"), Str(10, "sdkVersion") >>
WorkerHandshakeChallengeRequestAccessors ==
    [ requestId |-> Scalar(1), traceId |-> Scalar(2), workerId |-> Scalar(3),
      proofKeyId |-> Scalar(4), proofAlgorithm |-> Scalar(5), audience |-> Scalar(6),
      purpose |-> Scalar(7), clientNonce |-> Scalar(8), protocolVersion |-> Scalar(9),
      sdkVersion |-> Scalar(10) ]
WorkerHandshakeChallenge ==
    << Str(1, "requestId"), Str(2, "challengeId"), Str(3, "traceId"), Str(4, "workerId"),
       Str(5, "agentId"), Str(6, "tenantId"), Str(7, "proofKeyId"),
       Enum(8, "proofAlgorithm"), Str(9, "serverKeyId"), Str(10, "audience"),
       Enum(11, "purpose"), Bytes(12, "clientNonce"), Bytes(13, "serverNonce"),
       Int32(14, "protocolVersion"), Str(15, "sdkVersion"),
       Msg(16, "issuedAt", "Timestamp"), Msg(17, "expiresAt", "Timestamp") >>
WorkerHandshakeChallengeAccessors ==
    [ requestId |-> Scalar(1), challengeId |-> Scalar(2), traceId |-> Scalar(3),
      workerId |-> Scalar(4), agentId |-> Scalar(5), tenantId |-> Scalar(6),
      proofKeyId |-> Scalar(7), proofAlgorithm |-> Scalar(8), serverKeyId |-> Scalar(9),
      audience |-> Scalar(10), purpose |-> Scalar(11), clientNonce |-> Scalar(12),
      serverNonce |-> Scalar(13), protocolVersion |-> Scalar(14),
      sdkVersion |-> Scalar(15), issuedAt |-> Wrapper(16), expiresAt |-> Wrapper(17) ]
WorkerHandshakeAuthenticate ==
    << Msg(1, "challenge", "WorkerHandshakeChallenge"),
       Msg(2, "capabilityHandshake", "Handshake") >>
WorkerHandshakeAuthenticateAccessors ==
    [ challenge |-> Wrapper(1), capabilityHandshake |-> Wrapper(2) ]
WorkerHandshakeResult ==
    << Msg(1, "challenge", "WorkerHandshakeChallenge"), Bool(2, "accepted"),
       Enum(3, "rejectionReason"), Msg(4, "tokenExpiresAt", "Timestamp"),
       Msg(5, "issuedAt", "Timestamp") >>
WorkerHandshakeResultAccessors ==
    [ challenge |-> Wrapper(1), accepted |-> Scalar(2), rejectionReason |-> Scalar(3),
      tokenExpiresAt |-> Wrapper(4), issuedAt |-> Wrapper(5) ]
Heartbeat ==
    << Str(1, "workerId"), Str(2, "region"), Str(3, "type"), Float(4, "cpuLoad"),
       Float(5, "gpuUtilization"), Int32(6, "activeJobs"), Strs(7, "capabilities"),
       Str(11, "pool"), Int32(12, "maxParallelJobs"), Map(13, "labels", "string"),
       Float(14, "memoryLoad"), Int32(15, "progressPct"), Str(16, "lastMemo"),
       Str(18, "authToken"), Str(19, "agentName") >>
HeartbeatAccessors ==
    [ workerId |-> Scalar(1), region |-> Scalar(2), type |-> Scalar(3),
      cpuLoad |-> Scalar(4), gpuUtilization |-> Scalar(5), activeJobs |-> Scalar(6),
      capabilities |-> List(7), pool |-> Scalar(11), maxParallelJobs |-> Scalar(12),
      labels |-> Entries(13), memoryLoad |-> Scalar(14), progressPct |-> Scalar(15),
      lastMemo |-> Scalar(16), authToken |-> Scalar(18), agentName |-> Scalar(19) ]
IdentityBinding ==
    << Str(1, "tenantId"), Str(2, "principalId"), Str(3, "actorId"), Str(4, "delegationId") >>
IdentityBindingAccessors ==
    [ tenantId |-> Scalar(1), principalId |-> Scalar(2), actorId |-> Scalar(3),
      delegationId |-> Scalar(4) ]
DispatchIdentity ==
    << Str(1, "dispatchId"), Uint64(2, "attempt"), Str(3, "assignedWorkerId") >>
DispatchIdentityAccessors ==
    [ dispatchId |-> Scalar(1), attempt |-> Scalar(2), assignedWorkerId |-> Scalar(3) ]
ResourceRef ==
    << Str(1, "resolverId"), Str(2, "uri"), Bytes(3, "sha256"), Str(4, "mediaType"),
       Uint64(5, "sizeBytes"), Msg(6, "expiresAt", "Timestamp"), Str(7, "purpose") >>
ResourceRefAccessors ==
    [ resolverId |-> Scalar(1), uri |-> Scalar(2), sha256 |-> Scalar(3),
      mediaType |-> Scalar(4), sizeBytes |-> Scalar(5), expiresAt |-> Wrapper(6),
      purpose |-> Scalar(7) ]
ContextHints ==
    << Int32(1, "maxInputTokens"), Bool(2, "allowSummarization"),
       Bool(3, "allowRetrieval"), Strs(4, "tags") >>
ContextHintsAccessors ==
    [ maxInputTokens |-> Scalar(1), allowSummarization |-> Scalar(2),
      allowRetrieval |-> Scalar(3), tags |-> List(4) ]
Budget ==
    << Int64(1, "maxInputTokens"), Int64(2, "maxOutputTokens"), Int64(3, "maxTotalTokens"),
       Int64(4, "deadlineMs") >>
BudgetAccessors ==
    [ maxInputTokens |-> Scalar(1), maxOutputTokens |-> Scalar(2),
      maxTotalTokens |-> Scalar(3), deadlineMs |-> Scalar(4) ]
JobMetadata ==
    << Str(1, "tenantId"), Str(2, "actorId"), Enum(3, "actorType"),
       Str(4, "idempotencyKey"), Str(5, "capability"), Strs(6, "riskTags"),
       Strs(7, "requires"), Str(8, "packId"), Map(9, "labels", "string") >>
JobMetadataAccessors ==
    [ tenantId |-> Scalar(1), actorId |-> Scalar(2), actorType |-> Scalar(3),
      idempotencyKey |-> Scalar(4), capability |-> Scalar(5), riskTags |-> List(6),
      requires |-> List(7), packId |-> Scalar(8), labels |-> Entries(9) ]
Compensation ==
    << Str(1, "topic"), Str(2, "contextPtr"), Enum(3, "priority"), Str(4, "adapterId"),
       Map(5, "env", "string"), Str(6, "memoryId"), Msg(7, "contextHints", "ContextHints"),
       Msg(8, "budget", "Budget"), Str(9, "tenantId"), Str(10, "principalId"),
       Map(11, "labels", "string"), Msg(12, "meta", "JobMetadata"),
       Msg(13, "identity", "IdentityBinding"), Msg(14, "dispatch", "DispatchIdentity"),
       Msg(15, "contextRef", "ResourceRef") >>
CompensationAccessors ==
    [ topic |-> Scalar(1), contextPtr |-> Scalar(2), priority |-> Scalar(3),
      adapterId |-> Scalar(4), env |-> Entries(5), memoryId |-> Scalar(6),
      contextHints |-> Wrapper(7), budget |-> Wrapper(8), tenantId |-> Scalar(9),
      principalId |-> Scalar(10), labels |-> Entries(11), meta |-> Wrapper(12),
      identity |-> Wrapper(13), dispatch |-> Wrapper(14), contextRef |-> Wrapper(15) ]
JobRequest ==
    << Str(1, "jobId"), Str(2, "topic"), Enum(3, "priority"), Str(4, "contextPtr"),
       Str(5, "adapterId"), Map(6, "env", "string"), Str(7, "parentJobId"),
       Str(8, "workflowId"), Int32(9, "stepIndex"), Str(10, "memoryId"),
       Msg(11, "contextHints", "ContextHints"), Msg(12, "budget", "Budget"),
       Str(13, "tenantId"), Str(14, "principalId"), Map(15, "labels", "string"),
       Msg(16, "meta", "JobMetadata"), Msg(17, "compensation", "Compensation"),
       Msg(18, "identity", "IdentityBinding"), Msg(19, "dispatch", "DispatchIdentity"),
       Msg(20, "contextRef", "ResourceRef") >>
JobRequestAccessors ==
    [ jobId |-> Scalar(1), topic |-> Scalar(2), priority |-> Scalar(3),
      contextPtr |-> Scalar(4), adapterId |-> Scalar(5), env |-> Entries(6),
      parentJobId |-> Scalar(7), workflowId |-> Scalar(8), stepIndex |-> Scalar(9),
      memoryId |-> Scalar(10), contextHints |-> Wrapper(11), budget |-> Wrapper(12),
      tenantId |-> Scalar(13), principalId |-> Scalar(14), labels |-> Entries(15),
      meta |-> Wrapper(16), compensation |-> Wrapper(17), identity |-> Wrapper(18),
      dispatch |-> Wrapper(19), contextRef |-> Wrapper(20) ]
JobResult ==
    << Str(1, "jobId"), Enum(2, "status"), Str(3, "resultPtr"), Str(4, "workerId"),
       Int64(5, "executionMs"), Str(6, "errorCode"), Str(7, "errorMessage"),
       Strs(8, "artifactPtrs"), Enum(9, "errorCodeEnum"),
       Msg(10, "dispatch", "DispatchIdentity"), Msg(11, "identity", "IdentityBinding"),
       Msg(12, "resultRef", "ResourceRef"), Msgs(13, "artifactRefs", "ResourceRef") >>
JobResultAccessors ==
    [ jobId |-> Scalar(1), status |-> Scalar(2), resultPtr |-> Scalar(3),
      workerId |-> Scalar(4), executionMs |-> Scalar(5), errorCode |-> Scalar(6),
      errorMessage |-> Scalar(7), artifactPtrs |-> List(8), errorCodeEnum |-> Scalar(9),
      dispatch |-> Wrapper(10), identity |-> Wrapper(11), resultRef |-> Wrapper(12),
      artifactRefs |-> List(13) ]
JobProgress ==
    << Str(1, "jobId"), Str(2, "stepId"), Int32(3, "percent"), Str(4, "message"),
       Str(5, "resultPtr"), Strs(6, "artifactPtrs"), Enum(7, "status"),
       Msg(8, "dispatch", "DispatchIdentity"), Msg(9, "identity", "IdentityBinding"),
       Msg(10, "resultRef", "ResourceRef"), Msgs(11, "artifactRefs", "ResourceRef") >>
JobProgressAccessors ==
    [ jobId |-> Scalar(1), stepId |-> Scalar(2), percent |-> Scalar(3),
      message |-> Scalar(4), resultPtr |-> Scalar(5), artifactPtrs |-> List(6),
      status |-> Scalar(7), dispatch |-> Wrapper(8), identity |-> Wrapper(9),
      resultRef |-> Wrapper(10), artifactRefs |-> List(11) ]
JobCancel ==
    << Str(1, "jobId"), Str(2, "reason"), Str(3, "requestedBy"),
       Msg(4, "dispatch", "DispatchIdentity"), Msg(5, "identity", "IdentityBinding") >>
JobCancelAccessors ==
    [ jobId |-> Scalar(1), reason |-> Scalar(2), requestedBy |-> Scalar(3),
      dispatch |-> Wrapper(4), identity |-> Wrapper(5) ]
RuleScope ==
    << Enum(1, "kind"), Str(2, "value") >>
RuleScopeAccessors ==
    [ kind |-> Scalar(1), value |-> Scalar(2) ]
AuditMetadata ==
    << Msg(1, "createdAt", "Timestamp"), Str(2, "createdBy"),
       Msg(3, "updatedAt", "Timestamp"), Str(4, "updatedBy") >>
AuditMetadataAccessors ==
    [ createdAt |-> Wrapper(1), createdBy |-> Scalar(2), updatedAt |-> Wrapper(3),
      updatedBy |-> Scalar(4) ]
Rule ==
    << Str(1, "id"), Str(2, "name"), Enum(3, "type"), Msg(4, "scope", "RuleScope"),
       Enum(5, "status"), Str(6, "version"), Msg(7, "audit", "AuditMetadata"),
       Msg(8, "match", "Struct"), Msg(9, "decide", "Struct"), Str(10, "description") >>
RuleAccessors ==
    [ id |-> Scalar(1), name |-> Scalar(2), type |-> Scalar(3), scope |-> Wrapper(4),
      status |-> Scalar(5), version |-> Scalar(6), audit |-> Wrapper(7),
      match |-> Wrapper(8), decide |-> Wrapper(9), description |-> Scalar(10) ]
TraceStep ==
    << Str(1, "ruleId"), Str(2, "bundleId"), Enum(3, "decisionType"), Str(4, "reason"),
       Msg(5, "timestamp", "Timestamp"), Msg(6, "constraints", "Struct") >>
TraceStepAccessors ==
    [ ruleId |-> Scalar(1), bundleId |-> Scalar(2), decisionType |-> Scalar(3),
      reason |-> Scalar(4), timestamp |-> Wrapper(5), constraints |-> Wrapper(6) ]
Decision ==
    << Enum(1, "source"), Str(2, "ruleId"), Str(3, "bundleId"), Str(4, "bundleVersion"),
       Enum(5, "type"), Msgs(6, "trace", "TraceStep"), Str(7, "inputRef"),
       Str(8, "outputRef"), Str(9, "auditHash"), Msg(10, "timestamp", "Timestamp") >>
DecisionAccessors ==
    [ source |-> Scalar(1), ruleId |-> Scalar(2), bundleId |-> Scalar(3),
      bundleVersion |-> Scalar(4), type |-> Scalar(5), trace |-> List(6),
      inputRef |-> Scalar(7), outputRef |-> Scalar(8), auditHash |-> Scalar(9),
      timestamp |-> Wrapper(10) ]
BundleMetadata ==
    << Enum(1, "edgeMode") >>
BundleMetadataAccessors ==
    [ edgeMode |-> Scalar(1) ]
BundleVersion ==
    << Str(1, "version"), Msgs(2, "ruleSnapshot", "Rule"),
       Msg(3, "deployedAt", "Timestamp"), Str(4, "auditHash") >>
BundleVersionAccessors ==
    [ version |-> Scalar(1), ruleSnapshot |-> List(2), deployedAt |-> Wrapper(3),
      auditHash |-> Scalar(4) ]
Bundle ==
    << Str(1, "id"), Str(2, "name"), Strs(3, "ruleIds"),
       Msg(4, "scopeBinding", "RuleScope"), Msgs(5, "versions", "BundleVersion"),
       Msg(6, "metadata", "BundleMetadata") >>
BundleAccessors ==
    [ id |-> Scalar(1), name |-> Scalar(2), ruleIds |-> List(3),
      scopeBinding |-> Wrapper(4), versions |-> List(5), metadata |-> Wrapper(6) ]
JobEvaluationContext ==
    << Str(1, "tenantId"), Str(2, "jobId"), Str(3, "workflowId"), Str(4, "topic"),
       Str(5, "principalId"), Map(6, "labels", "string"), Str(7, "memoryId"),
       Str(8, "capability"), Strs(9, "riskTags"), Bytes(20, "inputContent"),
       Str(21, "inputContentType"), Int64(22, "inputSizeBytes") >>
JobEvaluationContextAccessors ==
    [ tenantId |-> Scalar(1), jobId |-> Scalar(2), workflowId |-> Scalar(3),
      topic |-> Scalar(4), principalId |-> Scalar(5), labels |-> Entries(6),
      memoryId |-> Scalar(7), capability |-> Scalar(8), riskTags |-> List(9),
      inputContent |-> Scalar(20), inputContentType |-> Scalar(21),
      inputSizeBytes |-> Scalar(22) ]
EdgeEvaluationContext ==
    << Str(1, "tenantId"), Str(2, "principalId"), Str(3, "sessionId"),
       Str(4, "executionId"), Str(5, "agentProduct"), Str(6, "toolName"),
       Msg(7, "toolInputRedacted", "Struct"), Str(8, "inputHash"), Str(9, "toolInputHash"),
       Map(10, "labels", "string"), Strs(11, "riskTags") >>
EdgeEvaluationContextAccessors ==
    [ tenantId |-> Scalar(1), principalId |-> Scalar(2), sessionId |-> Scalar(3),
      executionId |-> Scalar(4), agentProduct |-> Scalar(5), toolName |-> Scalar(6),
      toolInputRedacted |-> Wrapper(7), inputHash |-> Scalar(8),
      toolInputHash |-> Scalar(9), labels |-> Entries(10), riskTags |-> List(11) ]
PolicyEvaluateRequest ==
    << Msg(1, "rule", "Rule"), Str(2, "bundleId"), Msg(3, "scope", "RuleScope"),
       Msg(10, "jobContext", "JobEvaluationContext"),
       Msg(11, "edgeContext", "EdgeEvaluationContext") >>
PolicyEvaluateRequestAccessors ==
    [ rule |-> Wrapper(1), bundleId |-> Scalar(2), scope |-> Wrapper(3),
      jobContext |-> Wrapper(10), edgeContext |-> Wrapper(11) ]
PolicyEvaluateResponse ==
    << Msg(1, "decision", "Decision") >>
PolicyEvaluateResponseAccessors ==
    [ decision |-> Wrapper(1) ]
PolicyCheckRequest ==
    << Str(1, "jobId"), Str(2, "topic"), Str(3, "tenant"), Enum(4, "priority"),
       Double(5, "estimatedCost"), Msg(6, "budget", "Budget"), Str(7, "principalId"),
       Map(8, "labels", "string"), Str(9, "memoryId"), Bytes(10, "effectiveConfig"),
       Msg(11, "meta", "JobMetadata"), Msg(12, "identity", "IdentityBinding"),
       Msg(13, "inputRef", "ResourceRef"), Bytes(20, "inputContent"),
       Str(21, "inputContentType"), Int64(22, "inputSizeBytes") >>
PolicyCheckRequestAccessors ==
    [ jobId |-> Scalar(1), topic |-> Scalar(2), tenant |-> Scalar(3),
      priority |-> Scalar(4), estimatedCost |-> Scalar(5), budget |-> Wrapper(6),
      principalId |-> Scalar(7), labels |-> Entries(8), memoryId |-> Scalar(9),
      effectiveConfig |-> Scalar(10), meta |-> Wrapper(11), identity |-> Wrapper(12),
      inputRef |-> Wrapper(13), inputContent |-> Scalar(20),
      inputContentType |-> Scalar(21), inputSizeBytes |-> Scalar(22) ]
BudgetConstraints ==
    << Int64(1, "maxRuntimeMs"), Int32(2, "maxRetries"), Int64(3, "maxArtifactBytes"),
       Int32(4, "maxConcurrentJobs") >>
BudgetConstraintsAccessors ==
    [ maxRuntimeMs |-> Scalar(1), maxRetries |-> Scalar(2), maxArtifactBytes |-> Scalar(3),
      maxConcurrentJobs |-> Scalar(4) ]
SandboxProfile ==
    << Bool(1, "isolated"), Strs(2, "networkAllowlist"), Strs(3, "fsReadOnly"),
       Strs(4, "fsReadWrite") >>
SandboxProfileAccessors ==
    [ isolated |-> Scalar(1), networkAllowlist |-> List(2), fsReadOnly |-> List(3),
      fsReadWrite |-> List(4) ]
ToolchainConstraints ==
    << Strs(1, "allowedTools"), Strs(2, "allowedCommands") >>
ToolchainConstraintsAccessors ==
    [ allowedTools |-> List(1), allowedCommands |-> List(2) ]
DiffConstraints ==
    << Int32(1, "maxFiles"), Int32(2, "maxLines"), Strs(3, "denyPathGlobs") >>
DiffConstraintsAccessors ==
    [ maxFiles |-> Scalar(1), maxLines |-> Scalar(2), denyPathGlobs |-> List(3) ]
PolicyConstraints ==
    << Msg(1, "budgets", "BudgetConstraints"), Msg(2, "sandbox", "SandboxProfile"),
       Msg(3, "toolchain", "ToolchainConstraints"), Msg(4, "diff", "DiffConstraints"),
       Str(5, "redactionLevel") >>
PolicyConstraintsAccessors ==
    [ budgets |-> Wrapper(1), sandbox |-> Wrapper(2), toolchain |-> Wrapper(3),
      diff |-> Wrapper(4), redactionLevel |-> Scalar(5) ]
PolicyRemediation ==
    << Str(1, "id"), Str(2, "title"), Str(3, "summary"), Str(4, "replacementTopic"),
       Str(5, "replacementCapability"), Map(6, "addLabels", "string"),
       Strs(7, "removeLabels") >>
PolicyRemediationAccessors ==
    [ id |-> Scalar(1), title |-> Scalar(2), summary |-> Scalar(3),
      replacementTopic |-> Scalar(4), replacementCapability |-> Scalar(5),
      addLabels |-> Entries(6), removeLabels |-> List(7) ]
PolicyCheckResponse ==
    << Enum(1, "decision"), Str(2, "reason"), Str(3, "redactedContextPtr"),
       Str(4, "policySnapshot"), Str(5, "ruleId"),
       Msg(6, "constraints", "PolicyConstraints"), Bool(7, "approvalRequired"),
       Str(8, "approvalRef"), Msgs(9, "remediations", "PolicyRemediation"),
       Msg(10, "redactedContextRef", "ResourceRef"), Msg(11, "identity", "IdentityBinding") >>
PolicyCheckResponseAccessors ==
    [ decision |-> Scalar(1), reason |-> Scalar(2), redactedContextPtr |-> Scalar(3),
      policySnapshot |-> Scalar(4), ruleId |-> Scalar(5), constraints |-> Wrapper(6),
      approvalRequired |-> Scalar(7), approvalRef |-> Scalar(8), remediations |-> List(9),
      redactedContextRef |-> Wrapper(10), identity |-> Wrapper(11) ]
ListSnapshotsRequest ==
    << >>
ListSnapshotsResponse ==
    << Strs(1, "snapshots") >>
ListSnapshotsResponseAccessors ==
    [ snapshots |-> List(1) ]

Timestamp ==
    << Int64(1, "seconds"), Int32(2, "nanos") >>
TimestampAccessors ==
    [ seconds |-> Scalar(1), nanos |-> Scalar(2) ]
Struct ==
    << Map(1, "fields", "Value") >>
StructAccessors ==
    [ fields |-> Entries(1) ]
Value ==
    << Int32(1, "nullValue"), Double(2, "numberValue"), Str(3, "stringValue"),
       Bool(4, "boolValue"), Msg(5, "structValue", "Struct"),
       Msg(6, "listValue", "ListValue") >>
ValueAccessors ==
    [ nullValue |-> Member(1), numberValue |-> Member(2), stringValue |-> Member(3),
      boolValue |-> Member(4), structValue |-> Member(5), listValue |-> Member(6) ]
ListValue ==
    << Msgs(1, "values", "Value") >>
ListValueAccessors ==
    [ values |-> List(1) ]

Tables ==
    [ SystemAlert |-> SystemAlert, BusPacket |-> BusPacket,
      SignatureMetadata |-> SignatureMetadata, Handshake |-> Handshake,
      WorkerHandshakeChallengeRequest |-> WorkerHandshakeChallengeRequest,
      WorkerHandshakeChallenge |-> WorkerHandshakeChallenge,
      WorkerHandshakeAuthenticate |-> WorkerHandshakeAuthenticate,
      WorkerHandshakeResult |-> WorkerHandshakeResult, Heartbeat |-> Heartbeat,
      IdentityBinding |-> IdentityBinding, DispatchIdentity |-> DispatchIdentity,
      ResourceRef |-> ResourceRef, ContextHints |-> ContextHints, Budget |-> Budget,
      JobMetadata |-> JobMetadata, Compensation |-> Compensation,
      JobRequest |-> JobRequest, JobResult |-> JobResult, JobProgress |-> JobProgress,
      JobCancel |-> JobCancel, RuleScope |-> RuleScope, AuditMetadata |-> AuditMetadata,
      Rule |-> Rule, TraceStep |-> TraceStep, Decision |-> Decision,
      BundleMetadata |-> BundleMetadata, BundleVersion |-> BundleVersion,
      Bundle |-> Bundle, JobEvaluationContext |-> JobEvaluationContext,
      EdgeEvaluationContext |-> EdgeEvaluationContext,
      PolicyEvaluateRequest |-> PolicyEvaluateRequest,
      PolicyEvaluateResponse |-> PolicyEvaluateResponse,
      PolicyCheckRequest |-> PolicyCheckRequest, BudgetConstraints |-> BudgetConstraints,
      SandboxProfile |-> SandboxProfile, ToolchainConstraints |-> ToolchainConstraints,
      DiffConstraints |-> DiffConstraints, PolicyConstraints |-> PolicyConstraints,
      PolicyRemediation |-> PolicyRemediation, PolicyCheckResponse |-> PolicyCheckResponse,
      ListSnapshotsRequest |-> ListSnapshotsRequest,
      ListSnapshotsResponse |-> ListSnapshotsResponse, Timestamp |-> Timestamp,
      Struct |-> Struct, Value |-> Value, ListValue |-> ListValue ]
Accessors ==
    [ SystemAlert |-> SystemAlertAccessors, BusPacket |-> BusPacketAccessors,
      SignatureMetadata |-> SignatureMetadataAccessors, Handshake |-> HandshakeAccessors,
      WorkerHandshakeChallengeRequest |-> WorkerHandshakeChallengeRequestAccessors,
      WorkerHandshakeChallenge |-> WorkerHandshakeChallengeAccessors,
      WorkerHandshakeAuthenticate |-> WorkerHandshakeAuthenticateAccessors,
      WorkerHandshakeResult |-> WorkerHandshakeResultAccessors,
      Heartbeat |-> HeartbeatAccessors, IdentityBinding |-> IdentityBindingAccessors,
      DispatchIdentity |-> DispatchIdentityAccessors, ResourceRef |-> ResourceRefAccessors,
      ContextHints |-> ContextHintsAccessors, Budget |-> BudgetAccessors,
      JobMetadata |-> JobMetadataAccessors, Compensation |-> CompensationAccessors,
      JobRequest |-> JobRequestAccessors, JobResult |-> JobResultAccessors,
      JobProgress |-> JobProgressAccessors, JobCancel |-> JobCancelAccessors,
      RuleScope |-> RuleScopeAccessors, AuditMetadata |-> AuditMetadataAccessors,
      Rule |-> RuleAccessors, TraceStep |-> TraceStepAccessors,
      Decision |-> DecisionAccessors, BundleMetadata |-> BundleMetadataAccessors,
      BundleVersion |-> BundleVersionAccessors, Bundle |-> BundleAccessors,
      JobEvaluationContext |-> JobEvaluationContextAccessors,
      EdgeEvaluationContext |-> EdgeEvaluationContextAccessors,
      PolicyEvaluateRequest |-> PolicyEvaluateRequestAccessors,
      PolicyEvaluateResponse |-> PolicyEvaluateResponseAccessors,
      PolicyCheckRequest |-> PolicyCheckRequestAccessors,
      BudgetConstraints |-> BudgetConstraintsAccessors,
      SandboxProfile |-> SandboxProfileAccessors,
      ToolchainConstraints |-> ToolchainConstraintsAccessors,
      DiffConstraints |-> DiffConstraintsAccessors,
      PolicyConstraints |-> PolicyConstraintsAccessors,
      PolicyRemediation |-> PolicyRemediationAccessors,
      PolicyCheckResponse |-> PolicyCheckResponseAccessors, ListSnapshotsRequest |-> << >>,
      ListSnapshotsResponse |-> ListSnapshotsResponseAccessors,
      Timestamp |-> TimestampAccessors, Struct |-> StructAccessors,
      Value |-> ValueAccessors, ListValue |-> ListValueAccessors ]

(* BusPacket.oneofGroups_: the slots of the oneof, of which a setter keeps its own. *)
BusPacketOneofGroup == {10, 11, 12, 13, 15, 16, 17, 19, 20, 21, 22}
OneofGroup(t) == CASE t = "BusPacket" -> BusPacketOneofGroup [] t = "Value" -> 1..6 [] OTHER -> {}
==========================================================================
