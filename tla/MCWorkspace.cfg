CONSTANTS
    Creators = {"c1", "c2"}
    Slugs = {"acme", "zeta"}
    MaxLinks = 1
    TenancyScopes = {{"signup", "entitled"}, {"entitled", "operator"}, {"life"}, {}}
    Zones = {"utc", "cet"}
    SettingsAdmins = {"a1", "a2"}
    MaxSaves = 2
    SiteIds = {"s1", "s2"}
    SiteAdmins = {"a1", "a2"}
    Workspaces = {"acme", "globex"}
    HomeOf <- MCHomeOf
    Labels = {"wiki"}
    MaxEdits = 3
    SiteScopes <- MCSiteScopes
    Probed = {"s1", "s2"}
    MaxFlaps = 1
    MaxTests = 1
    MaxGen = 2
    MaxPolls = 2
    MaxChanges = 2
    MaxFailures = 1
    PageScopes <- MCPageScopes
    LocalTexts = {"a"}
    RemoteTexts = {"r"}
    MaxWire = 2
    InScopes <- MCInScopes
    Entries = {1, 2, 3}
    FilterUsers = {"u1"}
    EntryOwner <- MCEntryOwner
    TextHits = {1, 2}
    CommandHits = {2}
    OffSite = {2, 3}
    PageSize = 1
    MaxLoads = 2
    TblScopes <- MCTblScopes
    FormAdmins = {"f1", "f2"}
    MaxSubmits = 2
    MaxTouched = 2
    FormScopes <- MCFormScopes
SPECIFICATION WorkspaceSpec
INVARIANTS OneWorkspacePerOrg  VerifiedResolved   NothingSticks
PROPERTIES NewestAnswerShown LockKeepsPreference
CHECK_DEADLOCK FALSE
