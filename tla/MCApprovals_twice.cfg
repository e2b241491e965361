\* Two calls that overlap.
SPECIFICATION SceneSpec
CONSTANTS
    t1 = t1
    r1 = r1
    Scenes = {"pair"}
    Callers = {t1, t2}
    Operators = {o1}
    Calls = {c1, c2}
    Requests = {r1, r2}
    None = None
    MaxActive = 3
    MaxCalls = 3
    MaxDecisions = 2
    MaxFaults = 1
    MaxCrashes = 1
CHECK_DEADLOCK FALSE
INVARIANT SingleShot
