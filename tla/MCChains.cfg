\* Each part in a scene of its own.
SPECIFICATION ChainsSpec
CONSTANTS
    None = None
    j1 = j1
    j2 = j2
    j3 = j3
    jbad = jbad
    jweak = jweak
    th1 = th1
    Threads = {th1, th2}
    Jws = {j1, j2, j3, jbad, jweak}
    Nonce <- SharedNonce
    Fault <- MixedFaults
    Expected <- Pinned
    Digest <- Sent
    Installed = Installed
    NoRules = NoRules
    CacheMax = 2
    MaxRequests = 5
    MaxIOFaults = 1
    MaxCrashes = 1
CHECK_DEADLOCK FALSE
INVARIANTS IntakeHolds ChainVerifies StoreKeeps ReplayFair PapersHold StampsHold
PROPERTIES SegmentsStand
