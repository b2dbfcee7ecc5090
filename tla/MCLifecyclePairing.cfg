SPECIFICATION Spec
CONSTANTS
    Connectors = {c1, c2}
    Pairings = {p1, p2}
    Redeems = {r1, r2}
    Sessions = {s1}
    AdminOps = {o1, o2}
    NoConnector = NoConnector
    NoPairing = NoPairing
    NoToken = NoToken
    NoSession = NoSession
    MultiTenant = FALSE
    RepairModes = {FALSE}
    SiteStatuses = {"OFFLINE"}
    MaxConnectors = 2
    MaxCrashes = 1
SYMMETRY Symmetry
INVARIANTS CodeRedeemedOnce
PROPERTIES RevokedIsFinal 
CHECK_DEADLOCK FALSE
