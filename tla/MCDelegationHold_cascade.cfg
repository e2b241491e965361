\* A revocation during a hold.
SPECIFICATION SceneSpec
CONSTANTS
    t1 = t1
    t2 = t2
    t3 = t3
    a1 = a1
    a2 = a2
    r2 = r2
    Scenes = {"cascade"}
    Tokens = {t1, t2, t3}
    Agents = {a1, a2}
    None = None
    Parent <- ChainParent
    Delegate <- ChainDelegate
    Registrars = {r1, r2}
    MaxHolds = 2
    MaxCascades = 1
    MaxFaults = 1
    MaxCrashes = 1
CHECK_DEADLOCK FALSE
INVARIANT CascadeStands
