CONSTANTS
    s1 = s1
    s2 = s2
    NoPacket = NoPacket
    Sdk = {"go", "node", "python"}
    Subject = {s1, s2}
    Packet <- MCPacket
    Skew = 1
    MaxLifetime = 2
    MaxTime = 4
    MaxDeliveries = 3
SPECIFICATION Spec
INVARIANTS TypeOK OnceInWindow RedeliveryIsIdle AnswersTrue RetentionBounded
CHECK_DEADLOCK FALSE
