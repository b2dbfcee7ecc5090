CONSTANTS
    Emails = {"e1", "e2"}
    Invites = {"i1", "i2"}
    Deployments = {"self", "platform", "tenant"}
    EnrolScopes = {{"keys", "users"}, {"invites", "users"}, {"invites", "provider"}, {}}
    Tabs = {r1, r2}
    Browsers = {"b1", "b2"}
    Admins = {"a"}
    InviteRoles = {"VENDOR"}
    MaxUsers = 2
    MaxIds = 3
    Users = {"u"}
    Handlers = {r1, r2}
    Editors = {"e"}
    Handoffs = {"l"}
    Redeemers = {r1, r2}
    MaxConcurrent = 2
    MaxSessions = 4
    MaxOidcSessions = 1
    MaxPushes = 2
    SignScopes = {{"passkey", "ends"}, {"passkey", "policy"}, {"oidc", "centre", "edit"}, {"oidc", "policy"}, {}}
    FlowTabs = {r1, r2}
    Providers = {"okta", "entra"}
    Hosts = {"self", "tenant", "platform"}
    MaxStarts = 2
    MaxSaves = 2
    AppUsers = {r1, r2}
    Attempts = {"a1", "a2"}
    PushTokens = {"p"}
    MaxRows = 2
SPECIFICATION IdentitySpec
SYMMETRY RequestSymmetry
INVARIANTS OneAccountPerInvite  CeilingKept LandsWhereItStarted OneTokenPerCode
CHECK_DEADLOCK FALSE
