SPECIFICATION Spec
CONSTANTS
    Depth = 4
    MessageTypes <- AllMessages
    FieldValues <- SampleValues
    Requests <- SampleRequests
    MaxSets = 2
    MaxHops = 2
INVARIANTS TypeOK ContentSurvives SignatureSurvives HandlerSeesWhatWasSigned FailureIsAnswered ProductionIsExact TrustWireIsCanonical
PROPERTIES SettlesAfterOneHop
CHECK_DEADLOCK FALSE
