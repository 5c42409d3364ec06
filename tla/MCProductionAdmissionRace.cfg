CONSTANTS
    s1 = s1
    s2 = s2
    NoPacket = NoPacket
    Sdk = {"go"}
    Subject = {s1, s2}
    Packet <- MCRacePacket
    Skew = 1
    MaxLifetime = 2
    MaxTime = 4
    MaxDeliveries = 3
SPECIFICATION Spec
INVARIANT NeverTwice
CHECK_DEADLOCK FALSE
