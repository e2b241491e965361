\* Quorum and direct holds with crashes, failing emissions, key changes,
\* activations and rewritten snapshots.
SPECIFICATION FairSceneSpec
CONSTANTS
    v1 = v1
    k1 = k1
    Scenes = {"faults", "restore", "clean"}
    Procs = {p1, p2}
    Approvers = {a1, a2}
    Policies = {v1, v2}
    Keys = {k1, k2}
    NoProc = NoProc
    NoOne = NoOne
    DenyAll = DenyAll
    NoKey = NoKey
    Quorum <- MixedQuorum
    MaxReceipts = 9
    MaxCrashes = 1
    MaxFaults = 1
    MaxAnchorFaults = 1
    MaxActivations = 1
    MaxSwaps = 1
    MaxRestamps = 1
CHECK_DEADLOCK FALSE
INVARIANTS TypeOK SoleWriter HeldIsReceipted ResumeMatchesHold HaltSound
PROPERTIES TrailIsLegal InvocationsFinish
