SPECIFICATION FairSpec
CONSTANTS
    Connectors = {c1}
    Pairings = {p1, p2}
    Redeems = {r1}
    Sessions = {s1, s2}
    AdminOps = {o1}
    NoConnector = NoConnector
    NoPairing = NoPairing
    NoToken = NoToken
    NoSession = NoSession
    MultiTenant = TRUE
    RepairModes = {TRUE}
    SiteStatuses = {}
    MaxConnectors = 1
    MaxCrashes = 0
INVARIANTS RevokeMissesOnlyHandshakes
PROPERTIES DeadSessionDeregistered
CHECK_DEADLOCK FALSE
