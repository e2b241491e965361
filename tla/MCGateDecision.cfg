\* A call while operators change, reload and seal the policy.
SPECIFICATION SceneSpec
CONSTANTS
    narrow = narrow
    wide = wide
    other = other
    before = before
    after = after
    t1 = t1
    Callers = {t1, t2}
    Operators = {o1}
    Sources = {"", "ci"}
    Blank = ""
    Args = {1, 2}
    RuleIds = {narrow, wide, other}
    Matches <- MCMatches
    Permits <- MCPermits
    Reduced <- MCReduced
    Policies = {before, after}
    RulesOf <- MCRulesOf
    First = before
    None = None
    MaxActive = 3
    MaxCalls = 3
    MaxChanges = 2
    MaxFaults = 1
    MaxRestarts = 1
CHECK_DEADLOCK FALSE
INVARIANTS GateHolds SerialHolds ChangeShown
PROPERTIES EvidenceStands
