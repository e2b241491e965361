\* Provenance, registry, handshake and authority graph.
SPECIFICATION TrustSpec
CONSTANTS
    Agents = {"a1", "a2"}
    Tags = {"u"}
    Tools = {"t1", "t2"}
    Models = {"m"}
    Statements <- MCStatements
    Extensions <- MCExtensions
    MaxReceipts = 3
    MaxFaults = 1
    MaxTime = 1
    Writers = {"w1", "w2"}
    Signing = {"w1"}
    Orgs = {"a", "b"}
    Keys = {"ka", "kb"}
    PqKeys = {"qa"}
    Names = {"A", "B"}
    OrgKey <- MCOrgKey
    OrgName <- MCOrgName
    Calls <- MCCalls
    Handoffs <- MCHandoffs
    Dedup = TRUE
    MaxEntries = 4
    MaxAge = 1
    MaxClock = 1
    Corpora <- MCCorpora
CHECK_DEADLOCK FALSE
INVARIANTS ChainProves HandshakeAgrees GraphComplete
PROPERTIES PastStands RegistryForward
