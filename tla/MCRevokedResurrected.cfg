SPECIFICATION Spec
CONSTANTS
    Connectors = {c1}
    Pairings = {p1, p2}
    Redeems = {r1}
    Sessions = {s1}
    AdminOps = {o1, o2}
    NoConnector = NoConnector
    NoPairing = NoPairing
    NoToken = NoToken
    NoSession = NoSession
    MultiTenant = FALSE
    RepairModes = {TRUE}
    SiteStatuses = {}
    MaxConnectors = 1
    MaxCrashes = 0
SYMMETRY Symmetry
PROPERTY RevokedIsFinal
CHECK_DEADLOCK FALSE
