SPECIFICATION Spec
CONSTANTS
    w1 = w1 w2 = w2 s1 = s1 s2 = s2 s3 = s3 m1 = m1 m2 = m2 k1 = k1 k2 = k2 b1 = b1 b2 = b2 o1 = o1 o2 = o2
    None = None
    Worker = {w1}
    Slot = {s1, s2}
    WorkerOf <- OneWorker
    Msg = {m1}
    Key = {k1}
    KeyOf <- OneKey
    Body = {b1}
    BodyOf <- SameBody
    AssignedTo <- AllToW1
    Malformed = {}
    Outcome = {o1, o2}
    Lease = 2
    LifetimeOf <- Lifetime4
    MaxParallelJobs = 2
    MaxFaults = 1
INVARIANT CompletedIsReplayedUntilAcked
