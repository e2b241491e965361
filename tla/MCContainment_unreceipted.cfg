\* A process that dies in the middle of a hold.
SPECIFICATION SceneSpec
CONSTANTS
    v1 = v1
    k1 = k1
    Scenes = {"faults"}
    Procs = {p1, p2}
    Approvers = {a1, a2}
    Policies = {v1, v2}
    Keys = {k1, k2}
    NoProc = NoProc
    NoOne = NoOne
    DenyAll = DenyAll
    NoKey = NoKey
    Quorum <- MixedQuorum
    MaxReceipts = 9
    MaxCrashes = 1
    MaxFaults = 1
    MaxAnchorFaults = 1
    MaxActivations = 1
    MaxSwaps = 1
    MaxRestamps = 1
CHECK_DEADLOCK FALSE
INVARIANT NoUnreceiptedHalt
