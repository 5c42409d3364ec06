SPECIFICATION Spec
CONSTANTS
    Depth = 4
    MessageTypes <- AllMessages
    FieldValues <- SampleValues
    Requests <- MappedRequests
    MaxSets = 2
    MaxHops = 2
INVARIANT GoAndNodeAgree
CHECK_DEADLOCK FALSE
