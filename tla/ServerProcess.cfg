CONSTANTS
    Streams = {s1, s2}
    UserOf <- TwoUsers
    QueueSize = 1
    PerUser = 1
    MaxVersion = 2
SPECIFICATION Spec
INVARIANTS TypeOK CaughtUp NoClaimAfterDrain NothingAfterClose
PROPERTIES ShutdownEnds
CHECK_DEADLOCK FALSE
