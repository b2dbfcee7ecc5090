-------------------------- MODULE WorkspaceProofs ---------------------------
(***************************************************************************)
(* What a workspace rests on, proved for any number of tenants, requests,  *)
(* administrators and sites: the tenant registry (Tenancy), the settings   *)
(* with their cache (Settings), the sites with their hostnames (Sites) and *)
(* the console's tables (ConsoleTables).  Each part has an inductive       *)
(* invariant of its own, kept by one lemma per group of actions, and the   *)
(* theorems follow from it.                                                *)
(***************************************************************************)
EXTENDS Tenancy, Settings, Sites, ConsoleTables, TLAPS

-----------------------------------------------------------------------------
(* The tenant registry *)

\* A tenant row and the request that creates it.
TenRows == [slug : Slugs \cup {"none"}, org : {"none", "org"}, status : {"ACTIVE", "SUSPENDED"}, deleted : BOOLEAN,
            aged : BOOLEAN, capped : BOOLEAN, invite : BOOLEAN, admin : BOOLEAN, touched : BOOLEAN]

CreatorRecs == [kind : {"none", "signup", "entitled", "operator"}, slug : Slugs \cup {"none"},
                caps : BOOLEAN, pc : CreatorSteps]

\* Every variable of the registry keeps its shape.
TenTypes ==
    /\ tenant \in [Creators -> TenRows \cup {NoTenant}]
    /\ creator \in [Creators -> CreatorRecs]
    /\ suspension \in [Creators -> {"idle", "logout", "ACTIVE", "SUSPENDED"}]
    /\ links \subseteq Slugs /\ sessions \subseteq Creators

\* What holds of each tenant by itself.
TenantInv(t) ==
    /\ creator[t].pc \in {"idle", "insert", "refused"} => ~Exists(t)
    /\ Exists(t) /\ creator[t].caps /\ creator[t].pc \in {"defaults", "centre", "shown", "lost"} => tenant[t].capped
    /\ Exists(t) /\ tenant[t].admin /\ creator[t].caps /\ ~tenant[t].touched => tenant[t].capped
    /\ t \in sessions /\ tenant[t].status = "SUSPENDED" /\ suspension[t] # "logout" => t \in loose

\* The inductive invariant of the tenant registry.
TenInv == TenTypes /\ OneWorkspacePerOrg /\ \A t \in Creators : TenantInv(t)

\* The steps of one tenant, and what they leave alone of every other.
Works(c) ==
    \/ CompleteSignup(c)
    \/ \E slug \in Slugs : ProvisionEntitledWorkspace(c, slug) \/ OperatorCreates(c, slug)
    \/ InsertTenant(c) \/ InviteFirstAdmin(c) \/ SetPlan(c) \/ SaveDefaults(c) \/ CreationThrows(c)
    \/ RollbackCreatedTenantRow(c) \/ RollbackFails(c) \/ CentreAnswers(c) \/ ManagerStops(c)
    \/ AcceptInvite(c) \/ InviteTenantAdmin(c)
    \/ \E to \in {"ACTIVE", "SUSPENDED"} : StatusRead(c, to)
    \/ StatusWrite(c) \/ ForceLogoutTenant(c) \/ DeleteTenant(c) \/ RestoreTenant(c) \/ PurgeByHand(c)
    \/ SignInResolves(c) \/ SignInCommits(c) \/ GraceEnds(c) \/ PurgeTenant(c)

\* Every creation starts from nothing but the seeded tenant.
LEMMA TenInitially == TenancyInit => TenInv
<1> SUFFICES ASSUME TenancyInit PROVE TenInv
  BY Zenon
<1>1. Made \in TenRows /\ Made.admin = TRUE
  BY TenancyAssumption, Zenon DEF Made, TenRows
<1>2. Idle \in CreatorRecs /\ [Idle EXCEPT !.pc = "shown"] \in CreatorRecs
  BY Zenon DEF Idle, CreatorRecs, CreatorSteps
<1>3. TenTypes
  BY <1>1, <1>2, Zenon DEF TenancyInit, TenTypes
<1>4. OneWorkspacePerOrg
  BY Zenon DEF TenancyInit, OneWorkspacePerOrg, Exists
<1>5. ASSUME NEW t \in Creators PROVE TenantInv(t)
  <2>1. creator[t].caps = FALSE /\ t \notin sessions /\ (Exists(t) => creator[t].pc = "shown")
    BY Zenon DEF TenancyInit, Idle, Exists
  <2> QED BY <2>1, Zenon DEF TenantInv
<1> QED BY <1>3, <1>4, <1>5, Zenon DEF TenInv

\* A step on one tenant leaves the others alone.
LEMMA OthersKept ==
    ASSUME TenTypes, NEW c \in Creators, Works(c), NEW t \in Creators, t # c
    PROVE  /\ tenant'[t] = tenant[t] /\ creator'[t] = creator[t] /\ suspension'[t] = suspension[t]
           /\ (t \in sessions' <=> t \in sessions) /\ (t \in loose' <=> t \in loose)
<1>1. tenant'[t] = tenant[t]
  BY Zenon DEF Works, TenTypes, Lifecycle, Step, CompleteSignup, ProvisionEntitledWorkspace, OperatorCreates, InsertTenant,
         CreateTenantRow, InviteFirstAdmin, SetPlan, SaveDefaults, CreationThrows, RollbackCreatedTenantRow,
         RollbackFails, CentreAnswers, ManagerStops, AcceptInvite, InviteTenantAdmin, StatusRead, StatusWrite,
         SetTenantStatus, Written, ForceLogoutTenant, DeleteTenant, RestoreTenant, PurgeByHand, SignInResolves,
         SignInCommits, GraceEnds, PurgeTenant
<1>2. creator'[t] = creator[t]
  BY Zenon DEF Works, TenTypes, Lifecycle, Step, CompleteSignup, ProvisionEntitledWorkspace, OperatorCreates, InsertTenant,
         CreateTenantRow, InviteFirstAdmin, SetPlan, SaveDefaults, CreationThrows, RollbackCreatedTenantRow,
         RollbackFails, CentreAnswers, ManagerStops, AcceptInvite, InviteTenantAdmin, StatusRead, StatusWrite,
         SetTenantStatus, Written, ForceLogoutTenant, DeleteTenant, RestoreTenant, PurgeByHand, SignInResolves,
         SignInCommits, GraceEnds, PurgeTenant
<1>3. suspension'[t] = suspension[t]
  BY Zenon DEF Works, TenTypes, Lifecycle, Step, CompleteSignup, ProvisionEntitledWorkspace, OperatorCreates, InsertTenant,
         CreateTenantRow, InviteFirstAdmin, SetPlan, SaveDefaults, CreationThrows, RollbackCreatedTenantRow,
         RollbackFails, CentreAnswers, ManagerStops, AcceptInvite, InviteTenantAdmin, StatusRead, StatusWrite,
         SetTenantStatus, Written, ForceLogoutTenant, DeleteTenant, RestoreTenant, PurgeByHand, SignInResolves,
         SignInCommits, GraceEnds, PurgeTenant
<1>4. (t \in sessions' <=> t \in sessions) /\ (t \in loose' <=> t \in loose)
  BY Zenon DEF Works, TenTypes, Lifecycle, Step, CompleteSignup, ProvisionEntitledWorkspace, OperatorCreates, InsertTenant,
         CreateTenantRow, InviteFirstAdmin, SetPlan, SaveDefaults, CreationThrows, RollbackCreatedTenantRow,
         RollbackFails, CentreAnswers, ManagerStops, AcceptInvite, InviteTenantAdmin, StatusRead, StatusWrite,
         SetTenantStatus, Written, ForceLogoutTenant, DeleteTenant, RestoreTenant, PurgeByHand, SignInResolves,
         SignInCommits, GraceEnds, PurgeTenant
<1> QED BY <1>1, <1>2, <1>3, <1>4, Zenon

\* How a step changes the request that creates a tenant.
LEMMA CreatorMoves ==
    ASSUME TenTypes, NEW c \in Creators, Works(c)
    PROVE  /\ creator'[c] \in CreatorRecs
           /\ \/ creator'[c] = creator[c]
              \/ creator[c].pc = "idle" /\ creator'[c].pc \in {"insert", "refused"} /\ UNCHANGED tenant
              \/ creator[c].pc # "idle" /\ creator'[c].caps = creator[c].caps
<1> DEFINE At(pc) == [creator[c] EXCEPT !.pc = pc]
<1>0. creator[c] \in CreatorRecs
  BY Zenon DEF TenTypes
<1>1. ASSUME NEW pc \in CreatorSteps, Step(c, pc), creator[c].pc # "idle"
      PROVE  /\ creator'[c] \in CreatorRecs /\ creator[c].pc # "idle" /\ creator'[c].caps = creator[c].caps
  <2>1. creator'[c] = At(pc)
    BY <1>1, Zenon DEF Step, TenTypes
  <2> QED BY <1>0, <1>1, <2>1, Zenon DEF CreatorRecs
<1>2. ASSUME creator[c] = Idle, UNCHANGED tenant,
             NEW r \in CreatorRecs, r.pc \in {"insert", "refused"}, creator' = [creator EXCEPT ![c] = r]
      PROVE  /\ creator'[c] \in CreatorRecs
             /\ creator[c].pc = "idle" /\ creator'[c].pc \in {"insert", "refused"} /\ UNCHANGED tenant
  BY <1>2 DEF Idle, TenTypes
<1>3. ASSUME CompleteSignup(c) PROVE creator'[c] \in CreatorRecs /\ creator[c].pc = "idle"
                                     /\ creator'[c].pc \in {"insert", "refused"} /\ UNCHANGED tenant
  <2>1. PICK slug \in links :
          creator' = [creator EXCEPT ![c] = [kind |-> "signup", slug |-> slug, caps |-> TRUE, pc |-> "insert"]]
    BY <1>3, Zenon DEF CompleteSignup
  <2>2. [kind |-> "signup", slug |-> slug, caps |-> TRUE, pc |-> "insert"] \in CreatorRecs
    BY Zenon DEF TenTypes, CreatorRecs, CreatorSteps
  <2> QED BY <1>2, <1>3, <2>1, <2>2, Zenon DEF CompleteSignup
<1>4. ASSUME NEW slug \in Slugs, ProvisionEntitledWorkspace(c, slug) \/ OperatorCreates(c, slug)
      PROVE  creator'[c] \in CreatorRecs /\ creator[c].pc = "idle"
             /\ creator'[c].pc \in {"insert", "refused"} /\ UNCHANGED tenant
  <2>1. PICK kind \in {"entitled", "operator"}, capped \in BOOLEAN, pc \in {"insert", "refused"} :
          creator' = [creator EXCEPT ![c] = [kind |-> kind, slug |-> slug, caps |-> capped, pc |-> pc]]
    BY <1>4, Zenon DEF ProvisionEntitledWorkspace, OperatorCreates
  <2>2. [kind |-> kind, slug |-> slug, caps |-> capped, pc |-> pc] \in CreatorRecs
    BY Zenon DEF CreatorRecs, CreatorSteps
  <2> QED BY <1>2, <1>4, <2>1, <2>2, Zenon DEF ProvisionEntitledWorkspace, OperatorCreates
<1>5. \/ CompleteSignup(c)
      \/ \E slug \in Slugs : ProvisionEntitledWorkspace(c, slug) \/ OperatorCreates(c, slug)
      \/ \E pc \in CreatorSteps : Step(c, pc) /\ creator[c].pc # "idle"
      \/ UNCHANGED creator
  BY Zenon DEF Works, CreatorSteps, InsertTenant, InviteFirstAdmin, SetPlan, SaveDefaults, CreationThrows,
         RollbackCreatedTenantRow, RollbackFails, CentreAnswers, ManagerStops, AcceptInvite, InviteTenantAdmin,
         StatusRead, StatusWrite, ForceLogoutTenant, DeleteTenant, RestoreTenant, PurgeByHand, SignInResolves,
         SignInCommits, GraceEnds, PurgeTenant
<1> QED BY <1>0, <1>1, <1>3, <1>4, <1>5, Zenon

\* An edit of a row keeps its address and its organisation.
Edits(r, q) == q \in TenRows /\ q.slug = r.slug /\ q.org = r.org

\* Setting fields other than those two is an edit.
LEMMA FieldEdits ==
    ASSUME NEW r \in TenRows, NEW b \in BOOLEAN, NEW s \in {"ACTIVE", "SUSPENDED"}
    PROVE  /\ Edits(r, [r EXCEPT !.invite = b]) /\ Edits(r, [r EXCEPT !.admin = b])
           /\ Edits(r, [r EXCEPT !.touched = b]) /\ Edits(r, [r EXCEPT !.capped = b])
           /\ Edits(r, [r EXCEPT !.deleted = b]) /\ Edits(r, [r EXCEPT !.aged = b])
           /\ Edits(r, [r EXCEPT !.status = s])
BY Zenon DEF Edits, TenRows

\* An edit of an edited row is an edit.
LEMMA TwoEdits ==
    ASSUME NEW r \in TenRows, NEW p, Edits(r, p), NEW b \in BOOLEAN, NEW s \in {"ACTIVE", "SUSPENDED"}
    PROVE  /\ Edits(r, [p EXCEPT !.invite = b]) /\ Edits(r, [p EXCEPT !.touched = b])
           /\ Edits(r, [p EXCEPT !.aged = b]) /\ Edits(r, [p EXCEPT !.status = s])
BY Zenon DEF Edits, TenRows

\* How a step edits a row it finds.
Edited(r, q) ==
    \/ q = [r EXCEPT !.invite = TRUE]
    \/ q = [r EXCEPT !.capped = TRUE]
    \/ q = [r EXCEPT !.aged = TRUE]
    \/ \E s \in {"ACTIVE", "SUSPENDED"} : q = [r EXCEPT !.status = s]
    \/ q = [[r EXCEPT !.invite = TRUE] EXCEPT !.touched = TRUE]
    \/ q = [[[r EXCEPT !.deleted = TRUE] EXCEPT !.aged = FALSE] EXCEPT !.status = "SUSPENDED"]
    \/ q = [[[r EXCEPT !.deleted = FALSE] EXCEPT !.aged = FALSE] EXCEPT !.status = "ACTIVE"]

\* The row once its first administrator accepted the invitation.
Accepted(r) == [[r EXCEPT !.admin = TRUE] EXCEPT !.invite = FALSE]

\* Every way a step changes a row is an edit.
LEMMA EditedEdits == ASSUME NEW r \in TenRows, NEW q, Edited(r, q) \/ q = Accepted(r) PROVE Edits(r, q)
<1>1. /\ Edits(r, [r EXCEPT !.invite = TRUE])
      /\ Edits(r, [r EXCEPT !.deleted = TRUE]) /\ Edits(r, [r EXCEPT !.deleted = FALSE])
  BY FieldEdits, Zenon
<1>2. /\ Edits(r, [[r EXCEPT !.deleted = TRUE] EXCEPT !.aged = FALSE])
      /\ Edits(r, [[r EXCEPT !.deleted = FALSE] EXCEPT !.aged = FALSE])
  BY <1>1, TwoEdits, Zenon
<1>4. CASE q = [[r EXCEPT !.invite = TRUE] EXCEPT !.touched = TRUE]
  BY <1>1, <1>2, <1>4, TwoEdits, Zenon
<1>5. CASE q = [[[r EXCEPT !.deleted = TRUE] EXCEPT !.aged = FALSE] EXCEPT !.status = "SUSPENDED"]
  BY <1>1, <1>2, <1>5, TwoEdits, Zenon
<1>6. CASE q = [[[r EXCEPT !.deleted = FALSE] EXCEPT !.aged = FALSE] EXCEPT !.status = "ACTIVE"]
  BY <1>1, <1>2, <1>6, TwoEdits, Zenon
<1>7. CASE \/ q = [r EXCEPT !.invite = TRUE] \/ q = [r EXCEPT !.capped = TRUE] \/ q = [r EXCEPT !.aged = TRUE]
           \/ \E s \in {"ACTIVE", "SUSPENDED"} : q = [r EXCEPT !.status = s]
  BY <1>7, FieldEdits, Zenon
<1>8. CASE q = Accepted(r)
  <2>1. Edits(r, [r EXCEPT !.admin = TRUE])
    BY FieldEdits, Zenon
  <2> QED BY <1>8, <2>1, TwoEdits, Zenon DEF Accepted
<1> QED BY <1>4, <1>5, <1>6, <1>7, <1>8, Zenon DEF Edited

\* How a step changes the tenant's row.
LEMMA TenantMoves ==
    ASSUME TenTypes, NEW c \in Creators, Works(c)
    PROVE  \/ tenant'[c] = tenant[c]
           \/ tenant'[c] = NoTenant /\ c \notin sessions' /\ Exists(c)
                /\ (tenant[c].deleted \/ creator[c].pc = "undo")
           \/ InsertTenant(c) /\ tenant'[c] \in TenRows
           \/ Exists(c) /\ Edited(tenant[c], tenant'[c])
           \/ AcceptInvite(c) /\ tenant'[c] = Accepted(tenant[c])
<1> DEFINE r == tenant[c]
           q == tenant'[c]
<1>1. ASSUME InsertTenant(c) PROVE q = r \/ q \in TenRows
  <2>1. creator[c] \in CreatorRecs
    BY Zenon DEF TenTypes
  <2>2. PICK org \in {"none", "org"} : UNCHANGED tenant \/ CreateTenantRow(c, creator[c].slug, org)
    BY <1>1, Zenon DEF InsertTenant
  <2>3. ASSUME CreateTenantRow(c, creator[c].slug, org) PROVE q \in TenRows
    <3>1. creator[c].slug \in Slugs \cup {"none"}
      BY <2>1, Zenon DEF CreatorRecs
    <3>2. q = [slug |-> creator[c].slug, org |-> org, status |-> "ACTIVE", deleted |-> FALSE, aged |-> FALSE,
               capped |-> FALSE, invite |-> FALSE, admin |-> FALSE, touched |-> FALSE]
      BY <2>3, Zenon DEF CreateTenantRow, TenTypes
    <3> QED BY <3>1, <3>2 DEF TenRows
  <2> QED BY <2>2, <2>3, Zenon
<1>2. ASSUME InviteFirstAdmin(c) \/ SetPlan(c) \/ GraceEnds(c) PROVE q = r \/ (Exists(c) /\ Edited(r, q))
  <2>1. /\ Exists(c) \/ UNCHANGED tenant
        /\ \/ tenant' = [tenant EXCEPT ![c] = [r EXCEPT !.invite = TRUE]]
           \/ tenant' = [tenant EXCEPT ![c] = [r EXCEPT !.capped = TRUE]]
           \/ tenant' = [tenant EXCEPT ![c] = [r EXCEPT !.aged = TRUE]]
           \/ UNCHANGED tenant
    BY <1>2, Zenon DEF InviteFirstAdmin, SetPlan, GraceEnds
  <2> QED BY <2>1, Zenon DEF TenTypes, Edited
<1>3. ASSUME StatusWrite(c) PROVE q = r \/ (Exists(c) /\ Edited(r, q))
  <2>1. PICK s \in {"ACTIVE", "SUSPENDED"} : tenant' = Written(c, s)
    BY <1>3, Zenon DEF StatusWrite, SetTenantStatus
  <2>2. /\ Exists(c) \/ UNCHANGED tenant
        /\ tenant' = [tenant EXCEPT ![c] = [r EXCEPT !.status = s]] \/ UNCHANGED tenant
    BY <2>1, Zenon DEF Written
  <2> QED BY <2>2, Zenon DEF TenTypes, Edited
<1>4. ASSUME InviteTenantAdmin(c) PROVE Exists(c) /\ Edited(r, q)
  <2>1. Exists(c) /\ tenant' = [tenant EXCEPT ![c] = [[r EXCEPT !.invite = TRUE] EXCEPT !.touched = TRUE]]
    BY <1>4, Zenon DEF InviteTenantAdmin, TenTypes
  <2> QED BY <2>1, Zenon DEF TenTypes, Edited
<1>8. ASSUME AcceptInvite(c) PROVE q = Accepted(r)
  <2>1. tenant' = [tenant EXCEPT ![c] = Accepted(r)]
    BY <1>8, Zenon DEF AcceptInvite, TenTypes, Accepted
  <2> QED BY <2>1, Zenon DEF TenTypes
<1>5. ASSUME DeleteTenant(c) \/ RestoreTenant(c) PROVE q = r \/ (Exists(c) /\ Edited(r, q))
  <2>1. /\ Exists(c)
        /\ \/ UNCHANGED tenant
           \/ tenant' = [tenant EXCEPT ![c] =
                [[[r EXCEPT !.deleted = TRUE] EXCEPT !.aged = FALSE] EXCEPT !.status = "SUSPENDED"]]
           \/ tenant' = [tenant EXCEPT ![c] =
                [[[r EXCEPT !.deleted = FALSE] EXCEPT !.aged = FALSE] EXCEPT !.status = "ACTIVE"]]
    BY <1>5, Zenon DEF DeleteTenant, RestoreTenant, TenTypes
  <2> QED BY <2>1, Zenon DEF TenTypes, Edited
<1>6. ASSUME PurgeByHand(c) \/ PurgeTenant(c) \/ RollbackCreatedTenantRow(c)
      PROVE  q = r \/ (q = NoTenant /\ c \notin sessions' /\ Exists(c) /\ (r.deleted \/ creator[c].pc = "undo"))
  BY <1>6, Zenon DEF PurgeByHand, PurgeTenant, RollbackCreatedTenantRow, Purged, TenTypes, Exists
<1>7. \/ InsertTenant(c)
      \/ InviteFirstAdmin(c) \/ SetPlan(c) \/ GraceEnds(c)
      \/ StatusWrite(c)
      \/ AcceptInvite(c) \/ InviteTenantAdmin(c)
      \/ DeleteTenant(c) \/ RestoreTenant(c)
      \/ PurgeByHand(c) \/ PurgeTenant(c) \/ RollbackCreatedTenantRow(c)
      \/ UNCHANGED tenant
  BY Zenon DEF Works, CompleteSignup, ProvisionEntitledWorkspace, OperatorCreates, SaveDefaults, CreationThrows,
         RollbackFails, CentreAnswers, ManagerStops, StatusRead, ForceLogoutTenant, SignInResolves, SignInCommits
<1> HIDE DEF r, q
<1> QED BY <1>1, <1>2, <1>3, <1>4, <1>5, <1>6, <1>7, <1>8, Zenon DEF r, q

\* An edit takes back neither caps nor an operator's touch, and makes no admin.
LEMMA EditKeeps ==
    ASSUME NEW r \in TenRows, NEW q, Edited(r, q)
    PROVE  /\ (r.capped => q.capped) /\ (r.touched => q.touched)
           /\ (q.admin => r.admin)
BY Zenon DEF Edited, TenRows

\* A refused creation leaves nothing.
LEMMA RefusedKept ==
    ASSUME TenTypes, NEW c \in Creators, Works(c), TenantInv(c),
           creator'[c].pc \in {"idle", "insert", "refused"}
    PROVE  ~Exists(c)'
<1>1. CASE creator[c].pc = "idle" /\ UNCHANGED tenant
  BY <1>1, Zenon DEF TenantInv, Exists
<1>2. CASE InsertTenant(c)
  <2>1. creator'[c].pc # "invite"
    BY Zenon
  <2>2. UNCHANGED tenant /\ creator[c].pc = "insert"
    BY <1>2, <2>1 DEF InsertTenant, Step, TenTypes, CreatorRecs
  <2> QED BY <2>2, Zenon DEF TenantInv, Exists
<1>3. CASE RollbackCreatedTenantRow(c)
  BY <1>3, Zenon DEF RollbackCreatedTenantRow, TenTypes, Exists
<1>4. CASE creator'[c] = creator[c] /\ ~InsertTenant(c)
  <2>1. ~Exists(c)
    BY <1>4, Zenon DEF TenantInv
  <2> QED BY <1>4, <2>1, TenantMoves, Zenon DEF Exists, AcceptInvite, Resolves
<1>5. ASSUME NEW pc \in {"plan", "defaults", "shown", "centre", "undo", "stuck", "lost", "stopped"}, Step(c, pc)
      PROVE  FALSE
  BY <1>5, Zenon DEF Step, TenTypes, CreatorRecs
<1>6. \/ InsertTenant(c) \/ RollbackCreatedTenantRow(c)
      \/ \E pc \in {"plan", "defaults", "shown", "centre", "undo", "stuck", "lost", "stopped"} : Step(c, pc)
      \/ CompleteSignup(c)
      \/ \E slug \in Slugs : ProvisionEntitledWorkspace(c, slug) \/ OperatorCreates(c, slug)
      \/ UNCHANGED creator
  BY Zenon DEF Works, InviteFirstAdmin, SetPlan, SaveDefaults, CreationThrows,
         RollbackFails, CentreAnswers, ManagerStops, AcceptInvite, InviteTenantAdmin,
         StatusRead, StatusWrite, ForceLogoutTenant, DeleteTenant, RestoreTenant, PurgeByHand, SignInResolves,
         SignInCommits, GraceEnds, PurgeTenant
<1>7. ASSUME \/ CompleteSignup(c)
             \/ \E slug \in Slugs : ProvisionEntitledWorkspace(c, slug) \/ OperatorCreates(c, slug)
      PROVE  creator[c].pc = "idle" /\ UNCHANGED tenant
  BY <1>7 DEF CompleteSignup, ProvisionEntitledWorkspace, OperatorCreates, Idle
<1> QED BY <1>1, <1>2, <1>3, <1>4, <1>5, <1>6, <1>7, Zenon

\* The caps are there once createTenant is through.
LEMMA CapsKept ==
    ASSUME TenTypes, NEW c \in Creators, Works(c), TenantInv(c), Exists(c)',
           creator'[c].caps, creator'[c].pc \in {"defaults", "centre", "shown", "lost"}
    PROVE  tenant'[c].capped
<1>0. Exists(c) => tenant[c] \in TenRows
  BY Zenon DEF TenTypes, Exists
<1>1. CASE SetPlan(c)
  <2>1. creator'[c].caps = creator[c].caps
    BY <1>1, CreatorMoves, Zenon DEF SetPlan
  <2>2. Exists(c) /\ tenant' = [tenant EXCEPT ![c] = [tenant[c] EXCEPT !.capped = TRUE]]
    BY <1>1, <2>1, Zenon DEF SetPlan, Exists
  <2> QED BY <1>0, <2>2, Zenon DEF TenTypes, TenRows
<1>2. CASE SaveDefaults(c) \/ CentreAnswers(c)
  <2>1. creator[c].pc \in {"defaults", "centre"} /\ UNCHANGED tenant
    BY <1>2, Zenon DEF SaveDefaults, CentreAnswers
  <2>2. creator'[c].caps = creator[c].caps
    BY <2>1, CreatorMoves, Zenon
  <2> QED BY <2>1, <2>2, Zenon DEF TenantInv, Exists
<1>3. CASE UNCHANGED creator /\ ~InsertTenant(c)
  <2>1. \/ tenant'[c] = tenant[c]
        \/ Exists(c) /\ (Edited(tenant[c], tenant'[c]) \/ tenant'[c] = Accepted(tenant[c]))
    BY <1>3, TenantMoves, Zenon DEF Exists, AcceptInvite, Resolves
  <2>2. Exists(c) /\ tenant[c].capped
    BY <1>3, <2>1, Zenon DEF TenantInv, Exists
  <2>3. tenant'[c] = Accepted(tenant[c]) => tenant'[c].capped = tenant[c].capped
    BY <1>0, <2>2, Zenon DEF Accepted, TenRows
  <2> QED BY <1>0, <2>1, <2>2, <2>3, EditKeeps, Zenon
<1>4. ASSUME NEW pc \in {"invite", "plan", "undo", "stuck", "stopped", "refused"}, Step(c, pc) PROVE FALSE
  BY <1>4, Zenon DEF Step, TenTypes, CreatorRecs
<1>5. \/ SetPlan(c) \/ SaveDefaults(c) \/ CentreAnswers(c)
      \/ \E pc \in {"invite", "plan", "undo", "stuck", "stopped", "refused"} : Step(c, pc)
      \/ CompleteSignup(c)
      \/ \E slug \in Slugs : ProvisionEntitledWorkspace(c, slug) \/ OperatorCreates(c, slug)
      \/ UNCHANGED creator
  BY Zenon DEF Works, InsertTenant, InviteFirstAdmin, CreationThrows, RollbackCreatedTenantRow,
         RollbackFails, ManagerStops, AcceptInvite, InviteTenantAdmin,
         StatusRead, StatusWrite, ForceLogoutTenant, DeleteTenant, RestoreTenant, PurgeByHand, SignInResolves,
         SignInCommits, GraceEnds, PurgeTenant
<1>6. ASSUME \/ CompleteSignup(c)
             \/ \E slug \in Slugs : ProvisionEntitledWorkspace(c, slug) \/ OperatorCreates(c, slug)
      PROVE  FALSE
  <2>1. creator[c].pc = "idle" /\ UNCHANGED tenant
    BY <1>6 DEF CompleteSignup, ProvisionEntitledWorkspace, OperatorCreates, Idle
  <2> QED BY <2>1, Zenon DEF TenantInv, Exists
<1>7. InsertTenant(c) => \E pc \in {"invite", "refused"} : Step(c, pc)
  BY Zenon DEF InsertTenant
<1> QED BY <1>1, <1>2, <1>3, <1>4, <1>5, <1>6, <1>7, Zenon

\* An admin finds the caps.
LEMMA AdminKept ==
    ASSUME TenTypes, NEW c \in Creators, Works(c), TenantInv(c), Exists(c)',
           tenant'[c].admin, creator'[c].caps, ~tenant'[c].touched
    PROVE  tenant'[c].capped
<1>0. Exists(c) => tenant[c] \in TenRows
  BY Zenon DEF TenTypes, Exists
<1>1. CASE creator[c].pc = "idle" /\ UNCHANGED tenant
  BY <1>1, Zenon DEF TenantInv, Exists
<1>2. CASE creator'[c].caps = creator[c].caps
  <2>1. CASE tenant'[c] = tenant[c]
    BY <1>2, <2>1, Zenon DEF TenantInv, Exists
  <2>2. CASE InsertTenant(c)
    <3>1. PICK org : UNCHANGED tenant \/ CreateTenantRow(c, creator[c].slug, org)
      BY <2>2, Zenon DEF InsertTenant
    <3>2. CreateTenantRow(c, creator[c].slug, org) => tenant'[c].admin = FALSE
      BY DEF CreateTenantRow, TenTypes
    <3> QED BY <2>1, <3>1, <3>2, Zenon
  <2>3. CASE AcceptInvite(c)
    <3>1. /\ Exists(c) /\ (creator[c].pc = "shown" \/ tenant[c].touched)
          /\ tenant' = [tenant EXCEPT ![c] = Accepted(tenant[c])]
      BY <2>3, Zenon DEF AcceptInvite, Resolves, TenTypes, Accepted
    <3>2. tenant'[c].touched = tenant[c].touched /\ tenant'[c].capped = tenant[c].capped
      BY <1>0, <3>1, Zenon DEF TenTypes, TenRows, Accepted
    <3> QED BY <1>2, <3>1, <3>2, Zenon DEF TenantInv
  <2>4. CASE Exists(c) /\ Edited(tenant[c], tenant'[c])
    <3>1. tenant[c].admin /\ ~tenant[c].touched
      BY <1>0, <2>4, EditKeeps, Zenon
    <3> QED BY <1>0, <1>2, <2>4, <3>1, EditKeeps, Zenon DEF TenantInv
  <2> QED BY <2>1, <2>2, <2>3, <2>4, TenantMoves, Zenon DEF Exists
<1> QED BY <1>1, <1>2, CreatorMoves, Zenon

\* Whoever is signed in to a suspended tenant is known to be.
LEMMA SessionsKept ==
    ASSUME TenTypes, NEW c \in Creators, Works(c), TenantInv(c),
           c \in sessions', tenant'[c].status = "SUSPENDED", suspension'[c] # "logout"
    PROVE  c \in loose'
<1>0. Exists(c) => tenant[c] \in TenRows
  BY Zenon DEF TenTypes, Exists
<1>1. CASE SignInCommits(c)
  BY <1>1, Zenon DEF SignInCommits, TenantInv, Resolves, Exists
<1>2. CASE ForceLogoutTenant(c)
  BY <1>2, Zenon DEF ForceLogoutTenant
<1>3. CASE DeleteTenant(c)
  BY <1>3, Zenon DEF DeleteTenant
<1>4. CASE StatusWrite(c)
  <2>1. CASE suspension[c] = "SUSPENDED"
    BY <1>4, <2>1, Zenon DEF StatusWrite, SetTenantStatus, TenTypes
  <2>2. CASE suspension[c] # "SUSPENDED"
    <3>1. /\ suspension[c] = "ACTIVE" /\ UNCHANGED <<sessions, loose>>
          /\ \/ UNCHANGED tenant
             \/ Exists(c) /\ tenant' = [tenant EXCEPT ![c] = [tenant[c] EXCEPT !.status = "ACTIVE"]]
      BY <1>4, <2>2, Zenon DEF StatusWrite, SetTenantStatus, Written
    <3>2. tenant'[c] = tenant[c]
      BY <1>0, <3>1, Zenon DEF TenTypes, TenRows
    <3> QED BY <3>1, <3>2, Zenon DEF TenantInv
  <2> QED BY <2>1, <2>2, Zenon
<1>5. CASE StatusRead(c, "ACTIVE") \/ StatusRead(c, "SUSPENDED")
  BY <1>5, Zenon DEF StatusRead, TenantInv
<1>6. CASE InsertTenant(c)
  <2>1. PICK org : UNCHANGED tenant \/ CreateTenantRow(c, creator[c].slug, org)
    BY <1>6, Zenon DEF InsertTenant
  <2>2. CreateTenantRow(c, creator[c].slug, org) => tenant'[c].status = "ACTIVE"
    BY DEF CreateTenantRow, TenTypes
  <2> QED BY <1>6, <2>1, <2>2, Zenon DEF InsertTenant, Lifecycle, TenantInv
<1>7. CASE UNCHANGED <<sessions, loose, suspension>> /\ ~InsertTenant(c) /\ ~StatusWrite(c) /\ ~DeleteTenant(c)
  <2>1. CASE tenant'[c] = tenant[c]
    BY <1>7, <2>1, Zenon DEF TenantInv
  <2>2. CASE Exists(c) /\ tenant'[c].status = tenant[c].status
    BY <1>7, <2>2, Zenon DEF TenantInv
  <2>3. CASE tenant'[c].status = "ACTIVE"
    BY <2>3, Zenon
  <2>4. ASSUME InviteFirstAdmin(c) \/ SetPlan(c) \/ GraceEnds(c)
        PROVE  tenant'[c] = tenant[c] \/ (Exists(c) /\ tenant'[c].status = tenant[c].status)
    <3>1. /\ Exists(c) \/ UNCHANGED tenant
          /\ \/ tenant' = [tenant EXCEPT ![c] = [tenant[c] EXCEPT !.invite = TRUE]]
             \/ tenant' = [tenant EXCEPT ![c] = [tenant[c] EXCEPT !.capped = TRUE]]
             \/ tenant' = [tenant EXCEPT ![c] = [tenant[c] EXCEPT !.aged = TRUE]]
             \/ UNCHANGED tenant
      BY <2>4, Zenon DEF InviteFirstAdmin, SetPlan, GraceEnds
    <3> QED BY <1>0, <3>1 DEF TenTypes, TenRows
  <2>5. ASSUME AcceptInvite(c) \/ InviteTenantAdmin(c) PROVE Exists(c) /\ tenant'[c].status = tenant[c].status
    <3>1. /\ Exists(c)
          /\ \/ tenant' = [tenant EXCEPT ![c] = [[tenant[c] EXCEPT !.invite = TRUE] EXCEPT !.touched = TRUE]]
             \/ tenant' = [tenant EXCEPT ![c] = Accepted(tenant[c])]
      BY <2>5, Zenon DEF InviteTenantAdmin, AcceptInvite, Resolves, TenTypes, Accepted
    <3> DEFINE I == [[tenant[c] EXCEPT !.invite = TRUE] EXCEPT !.touched = TRUE]
               A == Accepted(tenant[c])
    <3>2. I.status = tenant[c].status
      BY <1>0, <3>1, Zenon DEF TenRows
    <3>3. A.status = tenant[c].status
      BY <1>0, <3>1, Zenon DEF TenRows, Accepted
    <3>4. tenant'[c] = I \/ tenant'[c] = A
      BY <3>1, Zenon DEF TenTypes
    <3> HIDE DEF I, A
    <3> QED BY <3>1, <3>2, <3>3, <3>4, Zenon
  <2>6. ASSUME RestoreTenant(c) PROVE tenant'[c].status = "ACTIVE"
    <3>1. Exists(c) /\ tenant' = [tenant EXCEPT ![c] =
            [[[tenant[c] EXCEPT !.deleted = FALSE] EXCEPT !.aged = FALSE] EXCEPT !.status = "ACTIVE"]]
      BY <2>6, Zenon DEF RestoreTenant, TenTypes
    <3> QED BY <1>0, <3>1, Zenon DEF TenTypes, TenRows
  <2>7. ASSUME PurgeByHand(c) \/ PurgeTenant(c) \/ RollbackCreatedTenantRow(c) PROVE tenant'[c] = tenant[c]
    BY <2>7, Zenon DEF PurgeByHand, PurgeTenant, RollbackCreatedTenantRow, Purged, TenTypes
  <2>8. \/ InviteFirstAdmin(c) \/ SetPlan(c) \/ GraceEnds(c) \/ AcceptInvite(c) \/ InviteTenantAdmin(c)
        \/ RestoreTenant(c) \/ PurgeByHand(c) \/ PurgeTenant(c) \/ RollbackCreatedTenantRow(c)
        \/ UNCHANGED tenant
    BY <1>7, Zenon DEF Works, CompleteSignup, ProvisionEntitledWorkspace, OperatorCreates, SaveDefaults, CreationThrows,
         RollbackFails, CentreAnswers, ManagerStops, StatusRead, ForceLogoutTenant, SignInResolves, SignInCommits
  <2> QED BY <2>1, <2>2, <2>3, <2>4, <2>5, <2>6, <2>7, <2>8, Zenon
<1>8. CASE PurgeByHand(c) \/ PurgeTenant(c) \/ RollbackCreatedTenantRow(c)
  BY <1>8, Zenon DEF PurgeByHand, PurgeTenant, RollbackCreatedTenantRow, Purged, TenantInv, TenTypes
<1>9. \/ SignInCommits(c) \/ ForceLogoutTenant(c) \/ DeleteTenant(c) \/ StatusWrite(c) \/ StatusRead(c, "ACTIVE")
      \/ StatusRead(c, "SUSPENDED") \/ InsertTenant(c)
      \/ PurgeByHand(c) \/ PurgeTenant(c) \/ RollbackCreatedTenantRow(c)
      \/ UNCHANGED <<sessions, loose, suspension>>
  BY Zenon DEF Works, Lifecycle, CompleteSignup, ProvisionEntitledWorkspace, OperatorCreates,
         InviteFirstAdmin, SetPlan, SaveDefaults, CreationThrows,
         RollbackFails, CentreAnswers, ManagerStops, AcceptInvite, InviteTenantAdmin,
         RestoreTenant, SignInResolves, GraceEnds
<1> QED BY <1>1, <1>2, <1>3, <1>4, <1>5, <1>6, <1>7, <1>8, <1>9, Zenon

\* Addresses and organisations stay one tenant's: the unique columns decide.
LEMMA OneWorkspaceKept ==
    ASSUME TenTypes, OneWorkspacePerOrg, NEW c \in Creators, Works(c)
    PROVE  OneWorkspacePerOrg'
<1>1. ASSUME NEW t \in Creators, t # c, Exists(t)', Exists(c)'
      PROVE  /\ tenant'[c].slug # tenant'[t].slug
             /\ tenant'[c].org = "none" \/ tenant'[c].org # tenant'[t].org
             /\ tenant'[t].org = "none" \/ tenant'[c].org # tenant'[t].org
  <2>1. tenant'[t] = tenant[t] /\ Exists(t)
    BY <1>1, OthersKept, Zenon DEF Exists
  <2>2. CASE Exists(c) /\ tenant'[c].slug = tenant[c].slug /\ tenant'[c].org = tenant[c].org
    BY <1>1, <2>1, <2>2, Zenon DEF OneWorkspacePerOrg
  <2>3. CASE InsertTenant(c) /\ tenant'[c] # tenant[c]
    <3>1. PICK org : ~SlugTaken(creator[c].slug) /\ CreateTenantRow(c, creator[c].slug, org)
      BY <2>3, Zenon DEF InsertTenant
    <3>2. tenant'[c].slug = creator[c].slug /\ tenant'[c].org = org /\ ~OrgTaken(org)
      BY <3>1, Zenon DEF CreateTenantRow, TenTypes
    <3> QED BY <2>1, <3>1, <3>2, Zenon DEF SlugTaken, OrgTaken
  <2>4. CASE Exists(c) /\ (Edited(tenant[c], tenant'[c]) \/ tenant'[c] = Accepted(tenant[c]))
    <3>1. tenant[c] \in TenRows
      BY <2>4, Zenon DEF TenTypes, Exists
    <3> QED BY <2>2, <2>4, <3>1, EditedEdits, Zenon DEF Edits
  <2>5. CASE tenant'[c] = tenant[c]
    BY <1>1, <2>2, <2>5, Zenon DEF Exists
  <2> QED BY <1>1, <2>3, <2>4, <2>5, TenantMoves, Zenon DEF Exists, AcceptInvite, Resolves
<1>2. ASSUME NEW s \in Creators, NEW t \in Creators, s # c, t # c
      PROVE  tenant'[s] = tenant[s] /\ tenant'[t] = tenant[t]
  BY <1>2, OthersKept, Zenon
<1>3. SUFFICES ASSUME NEW s \in Creators, NEW t \in Creators, Exists(s)', Exists(t)', s # t
               PROVE  /\ tenant'[s].slug # tenant'[t].slug
                      /\ tenant'[s].org = "none" \/ tenant'[s].org # tenant'[t].org
  BY Zenon DEF OneWorkspacePerOrg
<1>4. CASE s = c
  BY <1>1, <1>3, <1>4, Zenon
<1>5. CASE t = c
  BY <1>1, <1>3, <1>5, Zenon
<1>6. CASE s # c /\ t # c
  BY <1>2, <1>3, <1>6 DEF OneWorkspacePerOrg, Exists
<1> QED BY <1>4, <1>5, <1>6, Zenon

\* The functions stay functions.
LEMMA TenTypesKept == ASSUME TenTypes, NEW c \in Creators, Works(c) PROVE TenTypes'
<1>1. tenant' \in [Creators -> TenRows \cup {NoTenant}]
  <2>1. tenant'[c] \in TenRows \cup {NoTenant}
    <3>1. Exists(c) => tenant[c] \in TenRows
      BY Zenon DEF TenTypes, Exists
    <3>2. Exists(c) /\ (Edited(tenant[c], tenant'[c]) \/ tenant'[c] = Accepted(tenant[c])) => tenant'[c] \in TenRows
      BY <3>1, EditedEdits, Zenon DEF Edits
    <3>3. tenant[c] \in TenRows \cup {NoTenant}
      BY Zenon DEF TenTypes
    <3> QED BY <3>2, <3>3, TenantMoves, Zenon DEF AcceptInvite, Resolves
  <2>2. \A t \in Creators : tenant'[t] \in TenRows \cup {NoTenant}
    BY <2>1, OthersKept, Zenon DEF TenTypes
  <2>3. tenant' = [t \in Creators |-> tenant'[t]]
    BY Zenon DEF Works, TenTypes, CompleteSignup, ProvisionEntitledWorkspace, OperatorCreates, InsertTenant,
         CreateTenantRow, InviteFirstAdmin, SetPlan, SaveDefaults, CreationThrows, RollbackCreatedTenantRow,
         RollbackFails, CentreAnswers, ManagerStops, AcceptInvite, InviteTenantAdmin, StatusRead, StatusWrite,
         SetTenantStatus, Written, ForceLogoutTenant, DeleteTenant, RestoreTenant, PurgeByHand, SignInResolves,
         SignInCommits, GraceEnds, PurgeTenant
  <2> QED BY <2>2, <2>3, Zenon
<1>2. creator' \in [Creators -> CreatorRecs]
  <2>1. \A t \in Creators : creator'[t] \in CreatorRecs
    BY CreatorMoves, OthersKept, Zenon DEF TenTypes
  <2>2. creator' = [t \in Creators |-> creator'[t]]
    BY Zenon DEF Works, TenTypes, Step, CompleteSignup, ProvisionEntitledWorkspace, OperatorCreates, InsertTenant,
         InviteFirstAdmin, SetPlan, SaveDefaults, CreationThrows, RollbackCreatedTenantRow,
         RollbackFails, CentreAnswers, ManagerStops, AcceptInvite, InviteTenantAdmin, StatusRead, StatusWrite,
         ForceLogoutTenant, DeleteTenant, RestoreTenant, PurgeByHand, SignInResolves,
         SignInCommits, GraceEnds, PurgeTenant
  <2> QED BY <2>1, <2>2, Zenon
<1>3. suspension' \in [Creators -> {"idle", "logout", "ACTIVE", "SUSPENDED"}]
  BY Zenon DEF Works, TenTypes, Lifecycle, CompleteSignup, ProvisionEntitledWorkspace, OperatorCreates, InsertTenant,
         InviteFirstAdmin, SetPlan, SaveDefaults, CreationThrows, RollbackCreatedTenantRow,
         RollbackFails, CentreAnswers, ManagerStops, AcceptInvite, InviteTenantAdmin, StatusRead, StatusWrite,
         SetTenantStatus, ForceLogoutTenant, DeleteTenant, RestoreTenant, PurgeByHand, SignInResolves,
         SignInCommits, GraceEnds, PurgeTenant
<1>4. links' = links
  BY Zenon DEF Works, CompleteSignup, ProvisionEntitledWorkspace, OperatorCreates, InsertTenant,
         InviteFirstAdmin, SetPlan, SaveDefaults, CreationThrows, RollbackCreatedTenantRow,
         RollbackFails, CentreAnswers, ManagerStops, AcceptInvite, InviteTenantAdmin, StatusRead, StatusWrite,
         ForceLogoutTenant, DeleteTenant, RestoreTenant, PurgeByHand, SignInResolves,
         SignInCommits, GraceEnds, PurgeTenant
<1>5. sessions' \subseteq sessions \cup {c}
  BY Zenon DEF Works, Lifecycle, CompleteSignup, ProvisionEntitledWorkspace, OperatorCreates, InsertTenant,
         InviteFirstAdmin, SetPlan, SaveDefaults, CreationThrows, RollbackCreatedTenantRow,
         RollbackFails, CentreAnswers, ManagerStops, AcceptInvite, InviteTenantAdmin, StatusRead, StatusWrite,
         SetTenantStatus, ForceLogoutTenant, DeleteTenant, RestoreTenant, PurgeByHand, SignInResolves,
         SignInCommits, GraceEnds, PurgeTenant
<1> QED BY <1>1, <1>2, <1>3, <1>4, <1>5, Zenon DEF TenTypes

\* The invariant of the tenants is inductive.
LEMMA TenInductive == TenInv /\ [TenancyNext]_tenVars => TenInv'
<1>1. ASSUME TenInv, NEW c \in Creators, Works(c) PROVE TenInv'
  <2>1. TenTypes' /\ OneWorkspacePerOrg'
    BY <1>1, TenTypesKept, OneWorkspaceKept, Zenon DEF TenInv
  <2>2. TenantInv(c)'
    BY <1>1, RefusedKept, CapsKept, AdminKept, SessionsKept, Zenon DEF TenInv, TenantInv
  <2>3. ASSUME NEW t \in Creators, t # c PROVE TenantInv(t)'
    BY <1>1, <2>3, OthersKept, Zenon DEF TenInv, TenantInv, Exists
  <2> QED BY <2>1, <2>2, <2>3, Zenon DEF TenInv
<1>2. ASSUME TenInv, UNCHANGED <<tenant, creator, suspension, sessions, loose>>, links' \subseteq Slugs PROVE TenInv'
  BY <1>2, Zenon DEF TenInv, TenTypes, OneWorkspacePerOrg, TenantInv, Exists
<1>3. TenInv /\ [TenancyNext]_tenVars =>
        \/ \E c \in Creators : Works(c)
        \/ UNCHANGED <<tenant, creator, suspension, sessions, loose>> /\ links' \subseteq Slugs
  BY Zenon DEF TenancyNext, Works, tenVars, Lifecycle, TenInv, TenTypes, SavePlatformConfig, RunPlatformOps, StartSignup,
         LinkExpires
<1> QED BY <1>1, <1>2, <1>3, Zenon

\* However many creations race, an organisation has one workspace and an address
\* one tenant (platform_create_tenant's unique columns).
THEOREM OneWorkspaceEach == TenancySpec => []OneWorkspacePerOrg
<1>1. TenInv => OneWorkspacePerOrg
  BY Zenon DEF TenInv
<1> QED BY <1>1, TenInitially, TenInductive, PTL DEF TenancySpec

\* The first admin of a self-service workspace finds its caps (createTenant).
THEOREM CapsComeFirst == TenancySpec => []CapsBeforeAdmin
<1>1. TenInv => CapsBeforeAdmin
  BY Zenon DEF TenInv, TenantInv, CapsBeforeAdmin
<1> QED BY <1>1, TenInitially, TenInductive, PTL DEF TenancySpec

\* A refused creation leaves no tenant (rollbackCreatedTenantRow).
THEOREM RefusedIsGone == TenancySpec => []RefusedLeavesNothing
<1>1. TenInv => RefusedLeavesNothing
  BY Zenon DEF TenInv, TenantInv, RefusedLeavesNothing
<1> QED BY <1>1, TenInitially, TenInductive, PTL DEF TenancySpec

\* A suspended tenant's sessions are gone, but for the two windows named
\* (setTenantStatus, forceLogoutTenant).
THEOREM SuspensionEndsSessions == TenancySpec => []SuspendedHasNoSessions
<1>1. TenInv => SuspendedHasNoSessions
  BY Zenon DEF TenInv, TenTypes, TenantInv, SuspendedHasNoSessions
<1> QED BY <1>1, TenInitially, TenInductive, PTL DEF TenancySpec

\* The purge takes only what is still deleted when it gets there
\* (platform_purge_tenant looks again).
THEOREM RestoredSurvives == TenancySpec => RestoreBeatsPurge
<1>1. TenInv /\ [TenancyNext]_tenVars =>
        [\A t \in Creators : Exists(t) /\ ~Exists(t)' => tenant[t].deleted \/ creator[t].pc = "undo"]_tenVars
  <2> SUFFICES ASSUME TenInv, TenancyNext, NEW t \in Creators, Exists(t), ~Exists(t)'
               PROVE  tenant[t].deleted \/ creator[t].pc = "undo"
    BY Zenon
  <2>1. (\E c \in Creators : Works(c)) \/ UNCHANGED tenant
    BY Zenon DEF TenancyNext, Works, SavePlatformConfig, RunPlatformOps, StartSignup, LinkExpires
  <2>2. tenant'[t] # tenant[t]
    BY Zenon DEF Exists
  <2>3. Works(t)
    BY <2>1, <2>2, OthersKept, Zenon DEF TenInv
  <2>4. tenant[t] \in TenRows /\ tenant'[t] = NoTenant
    BY Zenon DEF Exists, TenInv, TenTypes
  <2>5. NoTenant \notin TenRows
    BY Zenon DEF NoTenant, TenRows
  <2>6. ~(Edited(tenant[t], tenant'[t]) \/ tenant'[t] = Accepted(tenant[t]))
    BY <2>4, <2>5, EditedEdits, Zenon DEF Edits
  <2> QED BY <2>2, <2>3, <2>4, <2>5, <2>6, TenantMoves, Zenon DEF TenInv
<1> QED BY <1>1, TenInitially, TenInductive, PTL DEF TenancySpec, RestoreBeatsPurge

-----------------------------------------------------------------------------
(* The settings and their cache *)

\* An open save of the settings, and one of a configuration with a password.
SaveRecs == [step : {"idle", "save", "commit"}, zone : Zones \cup {NoZone}, days : 0..1, centre : BOOLEAN]
Forms == [step : {"idle", "save"}, of : Configs, posted : BOOLEAN, password : Nat]

\* Every variable of the settings keeps its shape.
SetTypes ==
    /\ settings \in SettingsRow
    /\ settingsCache \in SettingsRow \cup {NoCache} /\ reads \in SettingsRow \cup {NoRead}
    /\ saves \in [SettingsAdmins -> SaveRecs]
    /\ centreZone \in Zones \cup {NoZone}
    /\ overtaken \in BOOLEAN
    /\ secretRow \in [Configs -> Nat] /\ secretSaves \in [SettingsAdmins -> Forms] /\ saved \in Nat

\* With nothing overtaken, the cache and an open read are copies of the row.
CopyInv == ~overtaken => settingsCache \in {NoCache, settings} /\ reads \in {NoRead, settings}

\* With nothing overtaken, the row has the centre's zone and every open save
\* carries it, or the centre's own save is still open.
ZoneInv ==
    ~overtaken /\ centreZone # NoZone =>
        \/ /\ settings.zone = centreZone /\ settings.fromCentre
           /\ \A a \in SettingsAdmins : Busy(a) => saves[a].zone = centreZone
        \/ \E a \in SettingsAdmins : Busy(a) /\ saves[a].centre /\ saves[a].zone = centreZone

\* The inductive invariant of the settings.
SetInv == SetTypes /\ CopyInv /\ ZoneInv

\* Nothing is cached, read or saved at first.
LEMMA SetInitially == SettingsInit => SetInv
<1> SUFFICES ASSUME SettingsInit PROVE SetInv
  BY Zenon
<1>1. NoSave \in SaveRecs /\ NoForm \in Forms
  BY DEF NoSave, SaveRecs, NoForm, Forms, Configs
<1>2. SetTypes
  <2>1. [zone |-> NoZone, fromCentre |-> FALSE, days |-> 0] \in SettingsRow
    BY DEF SettingsRow
  <2> QED BY <1>1, <2>1, Zenon DEF SettingsInit, SetTypes, NoRead
<1>3. CopyInv /\ ZoneInv
  BY Zenon DEF SettingsInit, CopyInv, ZoneInv
<1> QED BY <1>2, <1>3, Zenon DEF SetInv

\* A save writes a row.
LEMMA SavedRowType ==
    ASSUME SetTypes, NEW a \in SettingsAdmins
    PROVE  /\ SavedRow(saves[a]) \in SettingsRow
           /\ SavedRow(saves[a]).zone = saves[a].zone
           /\ SavedRow(saves[a]).fromCentre = (settings.fromCentre \/ saves[a].centre)
<1>1. saves[a] \in SaveRecs /\ settings \in SettingsRow
  BY Zenon DEF SetTypes
<1>2. CASE saves[a].centre
  BY <1>1, <1>2, Zenon DEF SavedRow, SettingsRow, SaveRecs
<1>3. CASE ~saves[a].centre
  BY <1>1, <1>3, Zenon DEF SavedRow, SettingsRow, SaveRecs
<1> QED BY <1>2, <1>3, Zenon

\* NoCache is not a row.
LEMMA NoCacheNoRow == NoCache \notin SettingsRow
BY DEF NoCache, SettingsRow

\* What is read is a row.
LEMMA ReadsARow == ASSUME SetTypes PROVE GetPlatformSettings \in SettingsRow
BY Zenon DEF SetTypes, GetPlatformSettings

\* The records stay in their sets.
LEMMA SetTypesKept == ASSUME SetTypes, SettingsNext PROVE SetTypes'
<1>1. ASSUME ReadMisses \/ ReadFills \/ CacheAgesOut PROVE SetTypes'
  BY <1>1, Zenon DEF ReadMisses, ReadFills, CacheAgesOut, SetTypes, NoRead
<1>2. ASSUME NEW a \in SettingsAdmins, SaveWrites(a) \/ SaveCommits(a) PROVE SetTypes'
  <2>1. saves[a] \in SaveRecs /\ NoSave \in SaveRecs
    BY DEF SetTypes, NoSave, SaveRecs
  <2> DEFINE C == [saves[a] EXCEPT !.step = "commit"]
  <2>2. C \in SaveRecs
    BY <2>1, Zenon DEF SaveRecs
  <2>3. saves' = [saves EXCEPT ![a] = C] \/ saves' = [saves EXCEPT ![a] = NoSave]
    BY <1>2, Zenon DEF SaveWrites, SaveCommits
  <2> HIDE DEF C
  <2>4. saves' \in [SettingsAdmins -> SaveRecs]
    BY <2>1, <2>2, <2>3, Zenon DEF SetTypes
  <2>5. settings' \in SettingsRow
    BY <1>2, SavedRowType, Zenon DEF SaveWrites, SaveCommits, SetTypes
  <2>6. overtaken' \in BOOLEAN
    BY <1>2, Zenon DEF SaveWrites, SaveCommits, SetTypes
  <2> QED BY <1>2, <2>4, <2>5, <2>6, Zenon DEF SaveWrites, SaveCommits, SetTypes
<1>3. ASSUME NEW a \in SettingsAdmins, NEW z \in Zones, CentrePushes(a, z) PROVE SetTypes'
  <2>1. settings.days \in 0..1
    BY Zenon DEF SetTypes, SettingsRow
  <2>2. [step |-> "save", zone |-> z, days |-> settings.days, centre |-> TRUE] \in SaveRecs
    BY <2>1, Zenon DEF SaveRecs
  <2>3. saves' \in [SettingsAdmins -> SaveRecs]
    BY <1>3, <2>2, Zenon DEF CentrePushes, SetTypes
  <2>4. overtaken' \in BOOLEAN
    BY <1>3, Zenon DEF CentrePushes
  <2> QED BY <1>3, <2>3, <2>4 DEF CentrePushes, MoreSaves, SetTypes
<1>4. ASSUME NEW a \in SettingsAdmins, NEW z \in Zones, NEW d \in 0..1, SettingsPosted(a, z, d) PROVE SetTypes'
  <2>1. KeptZone(z) \in Zones \cup {NoZone}
    BY ReadsARow, Zenon DEF KeptZone, SettingsRow
  <2>2. [step |-> "save", zone |-> KeptZone(z), days |-> d, centre |-> FALSE] \in SaveRecs
    BY <2>1, Zenon DEF SaveRecs
  <2> QED BY <1>4, <2>2 DEF SettingsPosted, MoreSaves, SetTypes
<1>5. ASSUME NEW a \in SettingsAdmins, NEW c \in Configs, NEW posted \in BOOLEAN, SecretFormReads(a, c, posted)
      PROVE  SetTypes'
  <2>1. (IF posted THEN saved + 1 ELSE secretRow[c]) \in Nat
    BY DEF SetTypes
  <2>2. PICK n \in Nat : secretSaves' = [secretSaves EXCEPT ![a] =
          [step |-> "save", of |-> c, posted |-> posted, password |-> n]]
    BY <1>5, <2>1, Zenon DEF SecretFormReads
  <2>3. [step |-> "save", of |-> c, posted |-> posted, password |-> n] \in Forms
    BY Zenon DEF Forms
  <2>4. secretSaves' \in [SettingsAdmins -> Forms]
    BY <2>2, <2>3, Zenon DEF SetTypes
  <2> QED BY <1>5, <2>4 DEF SecretFormReads, MoreSaves, SetTypes
<1>6. ASSUME NEW a \in SettingsAdmins, SecretFormWrites(a) PROVE SetTypes'
  <2>1. secretSaves[a] \in Forms /\ NoForm \in Forms
    BY Zenon DEF SetTypes, NoForm, Forms, Configs
  <2>2. PICK c \in Configs, n \in Nat : secretRow' = [secretRow EXCEPT ![c] = n]
    BY <1>6, <2>1, Zenon DEF SecretFormWrites, StoredPassword, SetTypes, Forms
  <2> QED BY <1>6, <2>1, <2>2, Zenon DEF SecretFormWrites, SetTypes
<1> QED BY <1>1, <1>2, <1>3, <1>4, <1>5, <1>6, Zenon DEF SettingsNext

\* A copy is dropped, or it is of the row, or somebody was overtaken.
LEMMA CopyInvKept == ASSUME SetTypes, CopyInv, SettingsNext PROVE CopyInv'
<1>1. ASSUME ReadMisses \/ ReadFills \/ CacheAgesOut PROVE CopyInv'
  BY <1>1, Zenon DEF ReadMisses, ReadFills, CacheAgesOut, CopyInv, NoRead
<1>2. ASSUME NEW a \in SettingsAdmins, SaveWrites(a) PROVE CopyInv'
  BY <1>2, Zenon DEF SaveWrites, CopyInv, Overlaps, SetTypes
<1>3. ASSUME NEW a \in SettingsAdmins, SaveCommits(a) PROVE CopyInv'
  BY <1>3, Zenon DEF SaveCommits, CopyInv, Overlaps, SetTypes
<1>4. \/ ReadMisses \/ ReadFills \/ CacheAgesOut
      \/ \E a \in SettingsAdmins : SaveWrites(a) \/ SaveCommits(a)
      \/ UNCHANGED <<settings, settingsCache, reads>> /\ (overtaken => overtaken')
  BY Zenon DEF SettingsNext, SecretFormWrites, CentrePushes, SettingsPosted, SecretFormReads
<1> QED BY <1>1, <1>2, <1>3, <1>4, Zenon DEF CopyInv

\* The zone stays the centre's, or somebody was overtaken.
LEMMA ZoneInvKept == ASSUME SetTypes, CopyInv, ZoneInv, SettingsNext PROVE ZoneInv'
<1> DEFINE Shown == /\ settings.zone = centreZone /\ settings.fromCentre
                    /\ \A a \in SettingsAdmins : Busy(a) => saves[a].zone = centreZone
           Sending == \E a \in SettingsAdmins : Busy(a) /\ saves[a].centre /\ saves[a].zone = centreZone
<1> SUFFICES ASSUME ~overtaken', centreZone' # NoZone PROVE Shown' \/ Sending'
  BY Zenon DEF ZoneInv
<1>1. ASSUME NEW a \in SettingsAdmins, SaveWrites(a) \/ SaveCommits(a) PROVE Shown' \/ Sending'
  <2>1. /\ ~overtaken /\ UNCHANGED centreZone /\ Busy(a)
        /\ \A b \in SettingsAdmins \ {a} : ~Busy(b)
    BY <1>1, Zenon DEF SaveWrites, SaveCommits, Overlaps, Busy
  <2>2. saves[a] \in SaveRecs
    BY Zenon DEF SetTypes
  <2>3. CASE UNCHANGED settings /\ saves' = [saves EXCEPT ![a] = [saves[a] EXCEPT !.step = "commit"]]
    <3>1. saves'[a].zone = saves[a].zone /\ saves'[a].centre = saves[a].centre /\ Busy(a)'
      BY <2>2, <2>3, Zenon DEF SetTypes, SaveRecs, Busy
    <3>2. \A b \in SettingsAdmins \ {a} : saves'[b] = saves[b]
      BY <2>3, Zenon DEF SetTypes
    <3> QED BY <2>1, <2>3, <3>1, <3>2, Zenon DEF ZoneInv, Busy
  <2>4. CASE settings' = SavedRow(saves[a]) /\ saves' = [saves EXCEPT ![a] = NoSave]
    <3>1. \A b \in SettingsAdmins : ~Busy(b)'
      BY <2>1, <2>4, Zenon DEF SetTypes, Busy, NoSave
    <3>2. settings'.zone = saves[a].zone /\ settings'.fromCentre = (settings.fromCentre \/ saves[a].centre)
      BY <2>4, SavedRowType, Zenon
    <3>3. saves[a].zone = centreZone /\ (settings.fromCentre \/ saves[a].centre)
      BY <2>1, Zenon DEF ZoneInv
    <3> QED BY <2>1, <3>1, <3>2, <3>3, Zenon
  <2> QED BY <1>1, <2>3, <2>4, Zenon DEF SaveWrites, SaveCommits
<1>2. ASSUME NEW a \in SettingsAdmins, NEW z \in Zones, CentrePushes(a, z) PROVE Shown' \/ Sending'
  <2>1. /\ ~overtaken /\ centreZone' = z /\ UNCHANGED settings
        /\ \A b \in SettingsAdmins : ~Busy(b)
        /\ settingsCache \in {NoCache, settings}
    BY <1>2, Zenon DEF CentrePushes
  <2>2. GetPlatformSettings = settings
    BY <2>1, Zenon DEF GetPlatformSettings
  <2>3. CASE settings.zone = z /\ settings.fromCentre
    BY <1>2, <2>1, <2>2, <2>3, Zenon DEF CentrePushes, Busy
  <2>4. CASE ~(settings.zone = z /\ settings.fromCentre)
    <3>1. saves'[a] = [step |-> "save", zone |-> z, days |-> settings.days, centre |-> TRUE]
      BY <1>2, <2>2, <2>4, Zenon DEF CentrePushes, SetTypes
    <3>2. Busy(a)' /\ saves'[a].centre /\ saves'[a].zone = centreZone'
      BY <2>1, <3>1 DEF Busy
    <3> QED BY <3>2, Zenon
  <2> QED BY <2>3, <2>4, Zenon
<1>3. ASSUME NEW a \in SettingsAdmins, NEW z \in Zones, NEW d \in 0..1, SettingsPosted(a, z, d)
      PROVE  Shown' \/ Sending'
  <2>1. /\ ~overtaken /\ UNCHANGED <<centreZone, settings>> /\ ~Busy(a)
        /\ saves' = [saves EXCEPT ![a] = [step |-> "save", zone |-> KeptZone(z), days |-> d, centre |-> FALSE]]
    BY <1>3, Zenon DEF SettingsPosted
  <2>2. \A b \in SettingsAdmins \ {a} : saves'[b] = saves[b]
    BY <2>1, Zenon DEF SetTypes
  <2>3. saves'[a].zone = KeptZone(z)
    BY <2>1, Zenon DEF SetTypes
  <2>4. CASE Shown
    <3>1. KeptZone(z) = centreZone
      BY <2>1, <2>4, Zenon DEF KeptZone, TimeZoneManaged, GetPlatformSettings, CopyInv
    <3> QED BY <2>1, <2>2, <2>3, <2>4, <3>1 DEF Busy
  <2>5. CASE Sending
    BY <2>1, <2>2, <2>5, Zenon DEF Busy
  <2> QED BY <2>1, <2>4, <2>5, Zenon DEF ZoneInv
<1>4. \/ \E a \in SettingsAdmins : SaveWrites(a) \/ SaveCommits(a)
      \/ \E a \in SettingsAdmins, z \in Zones : CentrePushes(a, z) \/ \E d \in 0..1 : SettingsPosted(a, z, d)
      \/ UNCHANGED <<settings, saves, centreZone, overtaken>>
  BY Zenon DEF SettingsNext, SecretFormWrites, SecretFormReads, ReadMisses, ReadFills, CacheAgesOut
<1>5. ASSUME UNCHANGED <<settings, saves, centreZone, overtaken>> PROVE Shown' \/ Sending'
  BY <1>5, Zenon DEF ZoneInv, Busy
<1> HIDE DEF Shown, Sending
<1> QED BY <1>1, <1>2, <1>3, <1>4, <1>5, Zenon

\* The invariant of the settings is inductive.
LEMMA SetInductive == SetInv /\ [SettingsNext]_setVars => SetInv'
<1>1. ASSUME SetInv, SettingsNext PROVE SetInv'
  BY <1>1, SetTypesKept, CopyInvKept, ZoneInvKept, Zenon DEF SetInv
<1>2. ASSUME SetInv, UNCHANGED setVars PROVE SetInv'
  BY <1>2, Zenon DEF setVars, SetInv, SetTypes, CopyInv, ZoneInv, Busy
<1> QED BY <1>1, <1>2, Zenon

\* With no read and no save overtaking it, a saved policy is what the next
\* reader gets (savePlatformSettings drops the thirty-second cache).
THEOREM SavedAndServed == SettingsSpec => []SavedIsServed
<1>1. SetInv => SavedIsServed
  BY Zenon DEF SetInv, CopyInv, SavedIsServed
<1> QED BY <1>1, SetInitially, SetInductive, PTL DEF SettingsSpec

\* The form cannot change a zone the organisation has sent (the policy route
\* keeps the managed zone).
THEOREM CentreKeepsZone == SettingsSpec => []ZoneIsTheCentres
<1>1. SetInv => ZoneIsTheCentres
  BY Zenon DEF SetInv, ZoneInv, ZoneIsTheCentres
<1> QED BY <1>1, SetInitially, SetInductive, PTL DEF SettingsSpec

\* A directory form with a blank password keeps the stored one.
THEOREM BlankKept == SettingsSpec => BlankKeepsPassword
<1>1. SetInv /\ [SettingsNext]_setVars =>
        [\A a \in SettingsAdmins:
           secretSaves[a].step = "save" /\ secretSaves'[a].step = "idle"
           /\ secretSaves[a].of = "directory" /\ ~secretSaves[a].posted
           => secretRow' = secretRow]_setVars
  <2> SUFFICES ASSUME SetInv, SettingsNext, NEW a \in SettingsAdmins, secretSaves[a].step = "save",
                      secretSaves'[a].step = "idle", secretSaves[a].of = "directory", ~secretSaves[a].posted
               PROVE  secretRow' = secretRow
    BY Zenon
  <2>1. ASSUME NEW b \in SettingsAdmins, SecretFormWrites(b) PROVE a = b
    BY <2>1, Zenon DEF SecretFormWrites, SetInv, SetTypes
  <2>2. ASSUME SecretFormWrites(a) PROVE secretRow' = secretRow
    BY <2>2, Zenon DEF SecretFormWrites, StoredPassword, SetInv, SetTypes, Configs
  <2>3. (\E b \in SettingsAdmins : SecretFormWrites(b)) \/ UNCHANGED secretRow
    BY Zenon DEF SettingsNext, SaveWrites, SaveCommits, CentrePushes, SettingsPosted, SecretFormReads,
           ReadMisses, ReadFills, CacheAgesOut
  <2> QED BY <2>1, <2>2, <2>3, Zenon
<1> QED BY <1>1, SetInitially, SetInductive, PTL DEF SettingsSpec, BlankKeepsPassword

-----------------------------------------------------------------------------
(* The sites *)

\* Every variable of the sites the invariant speaks of keeps its shape.
SiteTypes ==
    /\ sites \in [SiteIds -> Row]
    /\ calls \in [SiteAdmins -> Call]
    /\ edits \in Nat

\* What holds of each row by itself: a hostname is a web application's; a
\* verified name was seen to resolve; a remote desktop has its secret.
RowFits(s) ==
    /\ ~sites[s].there => sites[s] = NoSite
    /\ sites[s].there => (sites[s].mode = "TRANSPARENT" <=> sites[s].host # NoHost)
    /\ s \notin crossed /\ sites[s].there /\ sites[s].verified => sites[s].host \in resolved \cup {NoHost}
    /\ s \notin crossed \cup cleared /\ sites[s].there =>
         sites[s].vault # "empty" /\ (sites[s].mode = "GATEWAY" => sites[s].vault = "set")

\* What an open request may rely on: a creation is alone on its site; until an
\* edit crosses it, the hostname a request read is the row's, and a remote
\* desktop it was let through for has a credential or brings one.
CallFits(a) ==
    LET c == calls[a] IN
    /\ c.step = "create" => /\ ~sites[c.site].there
                            /\ \A b \in SiteAdmins \ {a} : calls[b].step = "idle" \/ calls[b].site # c.site
    /\ c.step \in {"patch", "dns"} /\ sites[c.site].there /\ c.site \notin crossed => c.was = sites[c.site].host
    /\ c.step = "patch" /\ c.in.mode = "GATEWAY" /\ sites[c.site].there /\ c.site \notin crossed \cup cleared
         => c.in.secret \/ sites[c.site].vault # "none"

\* A customer's domain is one site's.
CustomUnique ==
    \A s, t \in SiteIds :
        s # t /\ sites[s].there /\ sites[t].there /\ sites[s].custom /\ sites[t].custom
        /\ sites[s].host = sites[t].host => sites[s].host = NoHost

\* The inductive invariant of the sites.
SiteInv ==
    /\ SiteTypes /\ CustomUnique
    /\ \A s \in SiteIds : RowFits(s)
    /\ \A a \in SiteAdmins : CallFits(a)

\* The empty name is nobody's.
LEMMA NoHostNoName == NoHost \notin Hostnames
BY SitesAssumption, Zenon DEF NoHost, Hostnames

\* What a form can post.
LEMMA InputsFit ==
    ASSUME NEW in \in Inputs
    PROVE  /\ in.mode \in Modes /\ in.host \in Hostnames \cup {NoHost} /\ in.custom \in BOOLEAN /\ in.secret \in BOOLEAN
           /\ in.mode = "TRANSPARENT" => in.host \in Hostnames /\ ~in.secret
           /\ in.mode = "ISOLATED" => ~in.secret
           /\ in.mode # "TRANSPARENT" => in.host = NoHost /\ ~in.custom
BY Zenon DEF Inputs, Modes

\* No row and no request at first.
LEMMA SiteInitially == SiteInit => SiteInv
<1> SUFFICES ASSUME SiteInit PROVE SiteInv
  BY Zenon
<1>1. NoSite \in Row
  BY Zenon DEF NoSite, Row, Modes, Secrets
<1>2. IdleCall \in Call
  <2>1. NoInput \in Inputs
    BY Zenon DEF NoInput, Inputs
  <2> QED BY <2>1, SitesAssumption, Zenon DEF IdleCall, Call
<1>3. SiteTypes
  BY <1>1, <1>2, Zenon DEF SiteInit, SiteTypes
<1>4. \A s \in SiteIds : sites[s] = NoSite /\ ~sites[s].there
  BY Zenon DEF SiteInit, NoSite
<1>5. \A a \in SiteAdmins : calls[a].step = "idle"
  BY Zenon DEF SiteInit, IdleCall
<1> QED BY <1>3, <1>4, <1>5, Zenon DEF SiteInv, CustomUnique, RowFits, CallFits

\* The rows a patch and a creation write.
LEMMA RowsWritten ==
    ASSUME NEW in \in Inputs, NEW r \in Row, NEW was
    PROVE  /\ Created(in) \in Row /\ Created(in).there
           /\ Patched(r, in, was) \in Row /\ Patched(r, in, was).there = r.there
           /\ Patched(r, in, was).mode = in.mode /\ Patched(r, in, was).host = in.host
           /\ in.mode = "TRANSPARENT" =>
                /\ Patched(r, in, was).custom = in.custom /\ Patched(r, in, was).vault = r.vault
                /\ Patched(r, in, was).verified = (r.verified /\ in.custom /\ in.host = was)
           /\ in.mode = "ISOLATED" => Patched(r, in, was).vault = "none"
           /\ in.mode = "GATEWAY" =>
                Patched(r, in, was).vault = IF in.secret THEN "set" ELSE IF r.vault = "none" THEN "empty" ELSE r.vault
<1>0. /\ in.mode \in Modes /\ in.host \in Hostnames \cup {NoHost} /\ in.custom \in BOOLEAN /\ in.secret \in BOOLEAN
      /\ in.mode # "TRANSPARENT" => in.host = NoHost
  BY InputsFit, Zenon
<1>1. Created(in) \in Row /\ Created(in).there
  BY <1>0, Zenon DEF Created, Row, Secrets
<1>2. CASE in.mode = "TRANSPARENT"
  BY <1>0, <1>1, <1>2, Zenon DEF Patched, PatchTransparent, Row, Modes
<1>3. CASE in.mode = "ISOLATED"
  BY <1>0, <1>1, <1>3, Zenon DEF Patched, PatchIsolated, Row, Modes, Secrets
<1>4. CASE in.mode = "GATEWAY"
  BY <1>0, <1>1, <1>4, Zenon DEF Patched, PatchGateway, Row, Modes, Secrets
<1> QED BY <1>0, <1>2, <1>3, <1>4, Zenon DEF Modes

\* Opening a request changes no row.
LEMMA OpeningKeeps ==
    ASSUME SiteInv, NEW a \in SiteAdmins, NEW c \in Call, calls' = [calls EXCEPT ![a] = c], edits' = edits + 1,
           UNCHANGED <<sites, crossed, cleared, resolved>>,
           \A b \in SiteAdmins \ {a} : calls[b].step = "create" => calls[b].site # c.site,
           CallFits(a)'
    PROVE  SiteInv'
<1>1. SiteTypes' /\ CustomUnique'
  BY DEF SiteInv, SiteTypes, CustomUnique
<1>2. \A s \in SiteIds : RowFits(s)'
  BY Zenon DEF SiteInv, RowFits
<1>3. ASSUME NEW b \in SiteAdmins, b # a PROVE CallFits(b)'
  <2>1. calls'[b] = calls[b] /\ calls'[a] = c
    BY <1>3, Zenon DEF SiteInv, SiteTypes
  <2>2. CallFits(b)
    BY Zenon DEF SiteInv
  <2>3. ASSUME calls[b].step = "create", NEW d \in SiteAdmins \ {b}
        PROVE  calls'[d].step = "idle" \/ calls'[d].site # calls[b].site
    <3>1. CASE d = a
      BY <1>3, <2>1, <2>3, <3>1, Zenon
    <3>2. CASE d # a
      <4>1. calls'[d] = calls[d]
        BY <3>2, Zenon DEF SiteInv, SiteTypes
      <4> QED BY <2>2, <2>3, <4>1, Zenon DEF CallFits
    <3> QED BY <3>1, <3>2, Zenon
  <2>4. PICK k \in Call : k = calls[b] /\ k = calls'[b]
    BY <2>1, Zenon DEF SiteInv, SiteTypes
  <2> QED BY <2>2, <2>3, <2>4 DEF CallFits
<1> QED BY <1>1, <1>2, <1>3, Zenon DEF SiteInv

\* The three handlers that read and go on.
LEMMA OpensKeep ==
    ASSUME SiteInv, NEW a \in SiteAdmins, NEW s \in SiteIds, NEW in \in Inputs,
           CreateChecks(a, s, in) \/ PatchChecks(a, s, in) \/ VerifyReads(a, s)
    PROVE  SiteInv'
<1>0. NoInput \in Inputs /\ sites[s] \in Row
  BY Zenon DEF NoInput, Inputs, SiteInv, SiteTypes
<1>1. CASE CreateChecks(a, s, in)
  <2> DEFINE c == [step |-> "create", site |-> s, in |-> in, was |-> NoHost]
  <2>1. /\ calls' = [calls EXCEPT ![a] = c] /\ edits' = edits + 1 /\ UNCHANGED <<sites, crossed, cleared, resolved>>
        /\ ~sites[s].there /\ \A b \in SiteAdmins \ {a} : calls[b].step = "idle" \/ calls[b].site # s
    BY <1>1, Zenon DEF CreateChecks, Begin, OpenElsewhere
  <2>2. c \in Call
    BY Zenon DEF Call
  <2>3. /\ calls'[a] = c /\ \A b \in SiteAdmins \ {a} : calls'[b] = calls[b]
        /\ c.step = "create" /\ c.site = s
    BY <2>1, Zenon DEF SiteInv, SiteTypes
  <2> HIDE DEF c
  <2>4. CallFits(a)'
    BY <2>1, <2>3, Zenon DEF CallFits
  <2>5. \A b \in SiteAdmins \ {a} : calls[b].step = "create" => calls[b].site # c.site
    BY <2>1, <2>3, Zenon
  <2> QED BY <2>1, <2>2, <2>4, <2>5, OpeningKeeps, Zenon
<1>2. CASE PatchChecks(a, s, in)
  <2> DEFINE c == [step |-> "patch", site |-> s, in |-> in, was |-> sites[s].host]
  <2>1. /\ calls' = [calls EXCEPT ![a] = c] /\ edits' = edits + 1 /\ UNCHANGED <<sites, crossed, cleared, resolved>>
        /\ sites[s].there /\ (in.mode = "GATEWAY" => sites[s].vault # "none" \/ in.secret)
    BY <1>2, Zenon DEF PatchChecks, Begin, HadVault
  <2>2. c \in Call
    BY <1>0, Zenon DEF Call, Row
  <2>3. calls'[a] = c /\ c.step = "patch" /\ c.site = s /\ c.in = in /\ c.was = sites[s].host
    BY <2>1, Zenon DEF SiteInv, SiteTypes
  <2> HIDE DEF c
  <2>4. CallFits(a)'
    BY <2>1, <2>3, Zenon DEF CallFits
  <2>5. \A b \in SiteAdmins \ {a} : calls[b].step = "create" => calls[b].site # c.site
    BY <2>1, <2>3, Zenon DEF SiteInv, CallFits
  <2> QED BY <2>1, <2>2, <2>4, <2>5, OpeningKeeps, Zenon
<1>3. CASE VerifyReads(a, s)
  <2> DEFINE c == [step |-> "dns", site |-> s, in |-> NoInput, was |-> sites[s].host]
  <2>1. /\ calls' = [calls EXCEPT ![a] = c] /\ edits' = edits + 1 /\ UNCHANGED <<sites, crossed, cleared, resolved>>
        /\ sites[s].there
    BY <1>3, Zenon DEF VerifyReads, Begin
  <2>2. c \in Call
    BY <1>0, Zenon DEF Call, Row
  <2>3. calls'[a] = c /\ c.step = "dns" /\ c.site = s /\ c.was = sites[s].host
    BY <2>1, Zenon DEF SiteInv, SiteTypes
  <2> HIDE DEF c
  <2>4. CallFits(a)'
    BY <2>1, <2>3, Zenon DEF CallFits
  <2>5. \A b \in SiteAdmins \ {a} : calls[b].step = "create" => calls[b].site # c.site
    BY <2>1, <2>3, Zenon DEF SiteInv, CallFits
  <2> QED BY <2>1, <2>2, <2>4, <2>5, OpeningKeeps, Zenon
<1> QED BY <1>1, <1>2, <1>3, Zenon

\* A write to one row, and the requests still open afterwards.
LEMMA WritingKeeps ==
    ASSUME SiteInv, NEW s \in SiteIds, NEW r \in Row, sites' = [sites EXCEPT ![s] = r],
           calls' \in [SiteAdmins -> Call], edits' \in Nat,
           \A b \in SiteAdmins : calls'[b] = calls[b] \/ calls'[b].step = "idle",
           crossed \ {s} = crossed' \ {s}, cleared \ {s} = cleared' \ {s}, resolved \subseteq resolved',
           RowFits(s)',
           \A b \in SiteAdmins : calls'[b].site = s => CallFits(b)',
           r.there /\ r.custom /\ r.host # NoHost =>
             \A t \in SiteIds \ {s} : sites[t].there /\ sites[t].custom => sites[t].host # r.host
    PROVE  SiteInv'
<1>1. sites'[s] = r /\ \A t \in SiteIds \ {s} : sites'[t] = sites[t]
  BY Zenon DEF SiteInv, SiteTypes
<1>2. SiteTypes'
  BY Zenon DEF SiteInv, SiteTypes
<1>3. CustomUnique'
  <2>1. SUFFICES ASSUME NEW p \in SiteIds, NEW q \in SiteIds, p # q, sites'[p].there, sites'[q].there,
                        sites'[p].custom, sites'[q].custom, sites'[p].host = sites'[q].host
                 PROVE  sites'[p].host = NoHost
    BY Zenon DEF CustomUnique
  <2>2. CASE p # s /\ q # s
    <3>1. sites'[p] = sites[p] /\ sites'[q] = sites[q]
      BY <1>1, <2>2, Zenon
    <3> QED BY <2>1, <3>1, Zenon DEF SiteInv, CustomUnique
  <2>3. CASE p = s
    BY <1>1, <2>1, <2>3, Zenon
  <2>4. CASE q = s
    BY <1>1, <2>1, <2>4, Zenon
  <2> QED BY <2>2, <2>3, <2>4, Zenon
<1>4. ASSUME NEW t \in SiteIds, t # s PROVE RowFits(t)'
  <2>1. sites'[t] = sites[t] /\ (t \in crossed' <=> t \in crossed) /\ (t \in cleared' <=> t \in cleared)
    BY <1>1, <1>4, Zenon
  <2> QED BY <2>1, ZenonT(60) DEF SiteInv, RowFits
<1>5. ASSUME NEW b \in SiteAdmins, calls'[b].site # s PROVE CallFits(b)'
  <2> DEFINE t == calls'[b].site
  <2>1. t \in SiteIds
    BY Zenon DEF Call
  <2>2. sites'[t] = sites[t] /\ (t \in crossed' <=> t \in crossed) /\ (t \in cleared' <=> t \in cleared)
    BY <1>1, <1>5, <2>1, Zenon
  <2>3. CASE calls'[b].step = "idle"
    BY <2>3, Zenon DEF CallFits
  <2>4. CASE calls'[b] = calls[b]
    <3>1. CallFits(b)
      BY Zenon DEF SiteInv
    <3>2. calls[b].step = "create" =>
            \A d \in SiteAdmins \ {b} : calls'[d].step = "idle" \/ calls'[d].site # t
      BY <2>4, <3>1, Zenon DEF CallFits
    <3> QED BY <2>2, <2>4, <3>1, <3>2, Zenon DEF CallFits
  <2> QED BY <2>3, <2>4, Zenon
<1> QED BY <1>2, <1>3, <1>4, <1>5, Zenon DEF SiteInv

\* A request that ends without writing.
LEMMA EndingKeeps ==
    ASSUME SiteInv, NEW a \in SiteAdmins, Finish(a), UNCHANGED <<sites, crossed, cleared, edits>>,
           resolved \subseteq resolved'
    PROVE  SiteInv'
<1>1. /\ IdleCall \in Call /\ calls' \in [SiteAdmins -> Call]
      /\ \A b \in SiteAdmins : calls'[b] = calls[b] \/ calls'[b].step = "idle"
  <2>1. NoInput \in Inputs
    BY Zenon DEF NoInput, Inputs
  <2>2. IdleCall \in Call /\ IdleCall.step = "idle"
    BY <2>1, SitesAssumption, Zenon DEF IdleCall, Call
  <2> QED BY <2>2, Zenon DEF Finish, SiteInv, SiteTypes
<1>2. SiteTypes' /\ CustomUnique'
  BY <1>1, Zenon DEF SiteInv, SiteTypes, CustomUnique
<1>3. \A s \in SiteIds : RowFits(s)'
  BY Zenon DEF SiteInv, RowFits
<1>4. ASSUME NEW b \in SiteAdmins PROVE CallFits(b)'
  <2>1. CASE calls'[b].step = "idle"
    BY <2>1, Zenon DEF CallFits
  <2>2. CASE calls'[b] = calls[b]
    <3>1. CallFits(b)
      BY Zenon DEF SiteInv
    <3>2. calls[b].step = "create" =>
            \A d \in SiteAdmins \ {b} : calls'[d].step = "idle" \/ calls'[d].site # calls[b].site
      BY <1>1, <3>1, Zenon DEF CallFits
    <3> QED BY <2>2, <3>1, <3>2, Zenon DEF CallFits
  <2> QED BY <1>1, <2>1, <2>2, Zenon
<1> QED BY <1>2, <1>3, <1>4, Zenon DEF SiteInv

\* The calls after one of them ended.
LEMMA AfterEnd ==
    ASSUME SiteInv, NEW a \in SiteAdmins, Finish(a)
    PROVE  /\ calls' \in [SiteAdmins -> Call] /\ calls'[a].step = "idle"
           /\ \A b \in SiteAdmins : calls'[b] = calls[b] \/ calls'[b].step = "idle"
           /\ \A b \in SiteAdmins \ {a} : calls'[b] = calls[b]
<1>1. NoInput \in Inputs
  BY Zenon DEF NoInput, Inputs
<1>2. IdleCall \in Call /\ IdleCall.step = "idle"
  BY <1>1, SitesAssumption, Zenon DEF IdleCall, Call
<1> QED BY <1>2, Zenon DEF Finish, SiteInv, SiteTypes

\* POST /api/admin/sites: the new row takes no custom domain from another.
LEMMA CreateKeeps == ASSUME SiteInv, NEW a \in SiteAdmins, CreateWrites(a) PROVE SiteInv'
<1> DEFINE c == calls[a]
<1>1. /\ c \in Call /\ c.step = "create" /\ Finish(a) /\ UNCHANGED <<crossed, cleared, edits, resolved>>
      /\ \/ UNCHANGED sites
         \/ /\ sites' = [sites EXCEPT ![c.site] = Created(c.in)]
            /\ c.in.mode # "TRANSPARENT" \/ UniqueHost(c.site, c.in.host, c.in.custom)
  BY Zenon DEF CreateWrites, SiteInv, SiteTypes
<1>2. CASE UNCHANGED sites
  BY <1>1, <1>2, EndingKeeps, Zenon
<1>3. CASE /\ sites' = [sites EXCEPT ![c.site] = Created(c.in)]
           /\ c.in.mode # "TRANSPARENT" \/ UniqueHost(c.site, c.in.host, c.in.custom)
  <2>i. c.site \in SiteIds /\ c.in \in Inputs
    BY <1>1, Zenon DEF Call
  <2>0. Created(c.in) \in Row
    <3>1. sites[c.site] \in Row
      BY <2>i, Zenon DEF SiteInv, SiteTypes
    <3> QED BY <2>i, <3>1, RowsWritten, Zenon
  <2>1. PICK s \in SiteIds : s = c.site
    BY <2>i, Zenon
  <2>r. PICK r \in Row : r = Created(c.in)
    BY <2>0, Zenon
  <2>2. /\ r.there /\ r.mode = c.in.mode /\ r.host = c.in.host /\ r.custom = c.in.custom /\ ~r.verified
        /\ r.vault = IF c.in.mode = "GATEWAY" THEN "set" ELSE "none"
    BY <2>r, Zenon DEF Created
  <2>4. sites' = [sites EXCEPT ![s] = r] /\ sites'[s] = r
    BY <1>3, <2>1, <2>r, Zenon DEF SiteInv, SiteTypes
  <2>5. /\ c.in.mode = "TRANSPARENT" => c.in.host \in Hostnames
        /\ c.in.mode # "TRANSPARENT" => c.in.host = NoHost /\ ~c.in.custom
    BY <2>i, InputsFit, Zenon
  <2>6. RowFits(s)'
    BY <2>2, <2>4, <2>5, NoHostNoName, Zenon DEF RowFits
  <2>7. \A b \in SiteAdmins : calls'[b].site = s => CallFits(b)'
    <3>1. \A b \in SiteAdmins : calls'[b].site = s => calls'[b].step = "idle"
      BY <1>1, <2>1, AfterEnd, ZenonT(60) DEF SiteInv, CallFits
    <3> QED BY <3>1, Zenon DEF CallFits
  <2>8. r.there /\ r.custom /\ r.host # NoHost =>
          \A t \in SiteIds \ {s} : sites[t].there /\ sites[t].custom => sites[t].host # r.host
    BY <1>3, <2>1, <2>2, <2>5, Zenon DEF UniqueHost, Holders
  <2>9. edits' \in Nat
    BY <1>1, Zenon DEF SiteInv, SiteTypes
  <2> QED BY <1>1, <2>4, <2>6, <2>7, <2>8, <2>9, AfterEnd, WritingKeeps, Zenon
<1> QED BY <1>1, <1>2, <1>3, Zenon

\* PATCH /api/admin/sites/[id].
LEMMA PatchKeeps == ASSUME SiteInv, NEW a \in SiteAdmins, PatchWrites(a) PROVE SiteInv'
<1> DEFINE c == calls[a]
<1>1. c \in Call /\ c.step = "patch" /\ Finish(a) /\ UNCHANGED <<edits, resolved>>
  BY Zenon DEF PatchWrites, SiteInv, SiteTypes
<1>s. PICK s \in SiteIds : s = c.site
  BY <1>1, Zenon DEF Call
<1>i. c.in \in Inputs /\ sites[s] \in Row
  BY <1>1, Zenon DEF Call, SiteInv, SiteTypes
<1>r. PICK r \in Row : r = Patched(sites[s], c.in, c.was)
  BY <1>i, RowsWritten, Zenon
<1>2. CASE UNCHANGED <<sites, crossed, cleared>>
  BY <1>1, <1>2, EndingKeeps, Zenon
<1>3. CASE /\ sites[s].there /\ (c.in.mode = "TRANSPARENT" => UniqueHost(s, c.in.host, c.in.custom))
           /\ sites' = [sites EXCEPT ![s] = r]
           /\ crossed' = IF OpenElsewhere(a, s) THEN crossed \cup {s} ELSE crossed
           /\ cleared' = IF c.in.secret THEN cleared \ {s} ELSE cleared
  <2>1. s \in SiteIds /\ c.in \in Inputs /\ sites[s] \in Row
    BY <1>1, Zenon DEF Call, SiteInv, SiteTypes
  <2>2. /\ r.there /\ r.mode = c.in.mode /\ r.host = c.in.host
        /\ c.in.mode = "TRANSPARENT" =>
             /\ r.custom = c.in.custom /\ r.vault = sites[s].vault
             /\ r.verified = (sites[s].verified /\ c.in.custom /\ c.in.host = c.was)
        /\ c.in.mode = "ISOLATED" => r.vault = "none"
        /\ c.in.mode = "GATEWAY" =>
             r.vault = IF c.in.secret THEN "set" ELSE IF sites[s].vault = "none" THEN "empty" ELSE sites[s].vault
    <3>1. PICK in \in Inputs, old \in Row, was \in {c.was} : in = c.in /\ old = sites[s] /\ was = c.was
      BY <1>i, Zenon
    <3>2. r = Patched(old, in, was) /\ old.there
      BY <1>3, <1>r, <3>1, Zenon
    <3> QED BY <3>1, <3>2, RowsWritten
  <2>3. sites'[s] = r
    BY <1>3, <2>1, Zenon DEF SiteInv, SiteTypes
  <2>4. /\ c.in.mode \in Modes /\ (c.in.mode = "TRANSPARENT" => c.in.host \in Hostnames /\ ~c.in.secret)
        /\ c.in.mode = "ISOLATED" => ~c.in.secret
        /\ c.in.mode # "TRANSPARENT" => c.in.host = NoHost /\ ~c.in.custom
    BY <2>1, InputsFit, Zenon
  <2>5. RowFits(s)'
    <3>1. r.there /\ (r.mode = "TRANSPARENT" <=> r.host # NoHost)
      BY <2>2, <2>4, NoHostNoName, Zenon
    <3>2. s \notin crossed' /\ r.verified => r.host \in resolved \cup {NoHost}
      <4> SUFFICES ASSUME s \notin crossed', r.verified, c.in.mode = "TRANSPARENT"
                   PROVE  r.host \in resolved
        BY <2>2, <2>4, Zenon
      <4>1. c.was = sites[s].host /\ s \notin crossed
        BY <1>1, <1>3, <1>s, Zenon DEF SiteInv, CallFits
      <4>2. sites[s].verified /\ r.host = sites[s].host /\ r.host \in Hostnames
        BY <2>2, <2>4, <4>1, Zenon
      <4> QED BY <1>3, <2>1, <4>1, <4>2, NoHostNoName, Zenon DEF SiteInv, RowFits
    <3>3. s \notin crossed' \cup cleared' => r.vault # "empty" /\ (r.mode = "GATEWAY" => r.vault = "set")
      <4> SUFFICES ASSUME s \notin crossed', s \notin cleared' PROVE r.vault # "empty" /\ (r.mode = "GATEWAY" => r.vault = "set")
        BY Zenon
      <4>1. CASE c.in.secret
        BY <2>2, <2>4, <4>1, Zenon DEF Modes
      <4>2. CASE ~c.in.secret
        <5>1. s \notin crossed /\ s \notin cleared
          BY <1>3, <4>2, Zenon
        <5>2. sites[s].vault # "empty"
          BY <1>3, <2>1, <5>1, Zenon DEF SiteInv, RowFits
        <5>3. c.in.mode = "GATEWAY" => sites[s].vault # "none"
          BY <1>1, <1>3, <1>s, <4>2, <5>1, Zenon DEF SiteInv, CallFits
        <5>4. sites[s].vault \in {"none", "empty", "set"}
          BY <2>1, Zenon DEF Row, Secrets
        <5> QED BY <2>2, <2>4, <4>2, <5>2, <5>3, <5>4, Zenon DEF Modes
      <4> QED BY <4>1, <4>2, Zenon
    <3> QED BY <1>1, <2>3, <3>1, <3>2, <3>3, Zenon DEF RowFits
  <2>6. ASSUME NEW b \in SiteAdmins, calls'[b].site = s PROVE CallFits(b)'
    <3>1. CASE calls'[b].step = "idle"
      BY <3>1, Zenon DEF CallFits
    <3>2. CASE calls'[b].step # "idle"
      <4>1. b # a /\ calls'[b] = calls[b]
        BY <1>1, <3>2, AfterEnd, Zenon
      <4>2. OpenElsewhere(a, s) /\ calls[b].step # "create"
        BY <1>3, <2>6, <3>2, <4>1, Zenon DEF OpenElsewhere, SiteInv, CallFits
      <4>3. s \in crossed'
        BY <1>3, <4>2, Zenon
      <4> QED BY <2>6, <4>1, <4>2, <4>3, Zenon DEF CallFits
    <3> QED BY <3>1, <3>2, Zenon
  <2>7. r.there /\ r.custom /\ r.host # NoHost =>
          \A t \in SiteIds \ {s} : sites[t].there /\ sites[t].custom => sites[t].host # r.host
    BY <1>3, <2>2, <2>4, Zenon DEF UniqueHost, Holders
  <2>8. crossed \ {s} = crossed' \ {s} /\ cleared \ {s} = cleared' \ {s}
    BY <1>3, Zenon
  <2>9. edits' \in Nat
    BY <1>1, Zenon DEF SiteInv, SiteTypes
  <2> QED BY <1>1, <1>3, <2>5, <2>6, <2>7, <2>8, <2>9, AfterEnd, WritingKeeps, Zenon
<1>4. [sites EXCEPT ![c.site] = Patched(@, c.in, c.was)] = [sites EXCEPT ![s] = r]
  BY <1>s, <1>r, Zenon DEF SiteInv, SiteTypes
<1> QED BY <1>2, <1>3, <1>4, <1>s, Zenon DEF PatchWrites

\* POST /api/admin/sites/[id]/verify-domain, the answer: the row of a site no
\* edit crossed still has the hostname that was looked up.
LEMMA VerifyKeeps == ASSUME SiteInv, NEW a \in SiteAdmins, VerifyAnswers(a) PROVE SiteInv'
<1> DEFINE c == calls[a]
<1>1. c \in Call /\ c.step = "dns" /\ Finish(a) /\ UNCHANGED <<edits, crossed, cleared>>
  BY Zenon DEF VerifyAnswers, SiteInv, SiteTypes
<1>s. PICK s \in SiteIds : s = c.site
  BY <1>1, Zenon DEF Call
<1>0. sites[s] \in Row
  BY Zenon DEF SiteInv, SiteTypes
<1>r. PICK r \in Row : r = [sites[s] EXCEPT !.verified = TRUE]
  BY <1>0, Zenon DEF Row
<1>2. CASE UNCHANGED sites /\ resolved \subseteq resolved'
  BY <1>1, <1>2, EndingKeeps, Zenon
<1>3. CASE sites[s].there /\ sites' = [sites EXCEPT ![s] = r] /\ resolved' = resolved \cup {c.was}
  <2>1. /\ r.there /\ r.mode = sites[s].mode /\ r.host = sites[s].host /\ r.custom = sites[s].custom
        /\ r.vault = sites[s].vault
    BY <1>0, <1>3, <1>r, Zenon DEF Row
  <2>2. sites'[s] = r
    BY <1>3, Zenon DEF SiteInv, SiteTypes
  <2>3. s \notin crossed => c.was = sites[s].host
    BY <1>1, <1>3, <1>s, Zenon DEF SiteInv, CallFits
  <2>4. RowFits(s)'
    <3>1. RowFits(s)
      BY Zenon DEF SiteInv
    <3>2. r.there => (r.mode = "TRANSPARENT" <=> r.host # NoHost)
      BY <1>3, <2>1, <3>1, Zenon DEF RowFits
    <3>3. s \notin crossed => r.host \in resolved'
      BY <1>3, <2>1, <2>3, Zenon
    <3>4. s \notin crossed \cup cleared => r.vault # "empty" /\ (r.mode = "GATEWAY" => r.vault = "set")
      BY <1>3, <2>1, <3>1, Zenon DEF RowFits
    <3> QED BY <1>1, <2>1, <2>2, <3>2, <3>3, <3>4, Zenon DEF RowFits
  <2>5. ASSUME NEW b \in SiteAdmins, calls'[b].site = s PROVE CallFits(b)'
    <3>1. CASE calls'[b].step = "idle"
      BY <3>1, Zenon DEF CallFits
    <3>2. CASE calls'[b] = calls[b]
      <4>1. CallFits(b)
        BY Zenon DEF SiteInv
      <4>2. calls[b].step # "create"
        BY <1>3, <2>5, <3>2, <4>1, Zenon DEF CallFits
      <4> QED BY <1>1, <1>3, <2>1, <2>2, <2>5, <3>2, <4>1, <4>2, ZenonT(60) DEF CallFits
    <3> QED BY <1>1, <3>1, <3>2, AfterEnd, Zenon
  <2>6. r.there /\ r.custom /\ r.host # NoHost =>
          \A t \in SiteIds \ {s} : sites[t].there /\ sites[t].custom => sites[t].host # r.host
    BY <1>3, <2>1, Zenon DEF SiteInv, CustomUnique
  <2>7. edits' \in Nat /\ resolved \subseteq resolved'
    BY <1>1, <1>3, Zenon DEF SiteInv, SiteTypes
  <2> QED BY <1>1, <1>3, <2>4, <2>5, <2>6, <2>7, AfterEnd, WritingKeeps, Zenon
<1>4. [sites EXCEPT ![c.site].verified = TRUE] = [sites EXCEPT ![s] = r]
  BY <1>s, <1>r, Zenon DEF SiteInv, SiteTypes
<1>5. \/ UNCHANGED <<sites, resolved>>
      \/ /\ resolved' = resolved \cup {c.was}
         /\ sites' = IF sites[s].there THEN [sites EXCEPT ![s] = r] ELSE sites
  BY <1>4, <1>s, Zenon DEF VerifyAnswers
<1> QED BY <1>2, <1>3, <1>5, Zenon

\* DELETE, and the vault's PUT and DELETE: one statement each.
LEMMA SingleWritesKeep ==
    ASSUME SiteInv, NEW s \in SiteIds, DeleteSite(s) \/ SetVaultCredential(s) \/ ClearVaultCredential(s)
    PROVE  SiteInv'
<1>0. sites[s] \in Row /\ RowFits(s) /\ UNCHANGED <<calls, resolved>> /\ edits' \in Nat
  BY DEF SiteInv, SiteTypes, DeleteSite, SetVaultCredential, ClearVaultCredential
<1>c. calls' \in [SiteAdmins -> Call] /\ \A b \in SiteAdmins : calls'[b] = calls[b]
  BY <1>0, Zenon DEF SiteInv, SiteTypes
<1>1. CASE DeleteSite(s)
  <2>1. NoSite \in Row /\ ~NoSite.there
    BY Zenon DEF NoSite, Row, Modes, Secrets
  <2>2. sites' = [sites EXCEPT ![s] = NoSite] /\ sites'[s] = NoSite
        /\ crossed' = crossed \ {s} /\ cleared' = cleared \ {s} /\ sites[s].there
    BY <1>1, Zenon DEF DeleteSite, SiteInv, SiteTypes
  <2>3. RowFits(s)'
    BY <2>1, <2>2, Zenon DEF RowFits
  <2>4. ASSUME NEW b \in SiteAdmins, calls'[b].site = s PROVE CallFits(b)'
    <3>1. CallFits(b) /\ calls'[b] = calls[b] /\ ~sites'[s].there
      BY <1>c, <2>1, <2>2, Zenon DEF SiteInv
    <3>2. calls[b].step # "create"
      BY <2>2, <2>4, <3>1, Zenon DEF CallFits
    <3> QED BY <2>4, <3>1, <3>2, Zenon DEF CallFits
  <2> QED BY <1>0, <1>c, <2>1, <2>2, <2>3, <2>4, WritingKeeps, Zenon
<1>2. CASE SetVaultCredential(s)
  <2>r. PICK r \in Row : r = [sites[s] EXCEPT !.vault = "set"]
    BY <1>0, Zenon DEF Row, Secrets
  <2>1. /\ r.there /\ r.mode = sites[s].mode /\ r.host = sites[s].host /\ r.custom = sites[s].custom
        /\ r.vault = "set" /\ r.verified = sites[s].verified /\ sites[s].there
    BY <1>0, <1>2, <2>r, Zenon DEF Row, SetVaultCredential
  <2>2. sites' = [sites EXCEPT ![s] = r] /\ sites'[s] = r /\ crossed' = crossed /\ cleared' = cleared \ {s}
    BY <1>2, <2>r, Zenon DEF SetVaultCredential, SiteInv, SiteTypes
  <2>3. RowFits(s)'
    BY <1>0, <2>1, <2>2, Zenon DEF RowFits
  <2>4. ASSUME NEW b \in SiteAdmins, calls'[b].site = s PROVE CallFits(b)'
    <3>1. CallFits(b) /\ calls'[b] = calls[b]
      BY <1>c, Zenon DEF SiteInv
    <3>2. calls[b].step # "create"
      BY <2>1, <2>4, <3>1, Zenon DEF CallFits
    <3> QED BY <2>1, <2>2, <2>4, <3>1, <3>2, Zenon DEF CallFits
  <2>6. r.there /\ r.custom /\ r.host # NoHost =>
          \A t \in SiteIds \ {s} : sites[t].there /\ sites[t].custom => sites[t].host # r.host
    BY <2>1, Zenon DEF SiteInv, CustomUnique
  <2> QED BY <1>0, <1>c, <2>2, <2>3, <2>4, <2>6, WritingKeeps, Zenon
<1>3. CASE ClearVaultCredential(s)
  <2>r. PICK r \in Row : r = [sites[s] EXCEPT !.vault = "none"]
    BY <1>0, Zenon DEF Row, Secrets
  <2>1. /\ r.there = sites[s].there /\ r.mode = sites[s].mode /\ r.host = sites[s].host
        /\ r.custom = sites[s].custom /\ r.vault = "none" /\ r.verified = sites[s].verified
    BY <1>0, <2>r, Zenon DEF Row
  <2>2. sites' = [sites EXCEPT ![s] = r] /\ sites'[s] = r /\ crossed' = crossed /\ cleared' = cleared \cup {s}
    BY <1>3, <2>r, Zenon DEF ClearVaultCredential, SiteInv, SiteTypes
  <2>3. RowFits(s)'
    <3>1. ~sites[s].there => r = NoSite
      BY <1>0, <2>r DEF RowFits, NoSite
    <3> QED BY <1>0, <2>1, <2>2, <3>1, Zenon DEF RowFits
  <2>4. ASSUME NEW b \in SiteAdmins, calls'[b].site = s PROVE CallFits(b)'
    <3>1. CallFits(b) /\ calls'[b] = calls[b] /\ calls' = calls
      BY <1>0, <1>c, Zenon DEF SiteInv
    <3>2. s \in cleared' /\ sites'[s].there = sites[s].there /\ sites'[s].host = sites[s].host
      BY <2>1, <2>2, Zenon
    <3> QED BY <2>2, <2>4, <3>1, <3>2, Zenon DEF CallFits
  <2>6. r.there /\ r.custom /\ r.host # NoHost =>
          \A t \in SiteIds \ {s} : sites[t].there /\ sites[t].custom => sites[t].host # r.host
    BY <2>1, Zenon DEF SiteInv, CustomUnique
  <2> QED BY <1>0, <1>c, <2>2, <2>3, <2>4, <2>6, WritingKeeps, Zenon
<1> QED BY <1>1, <1>2, <1>3, Zenon

\* Every step keeps the invariant.
LEMMA SiteInductive == ASSUME SiteInv, [SiteNext]_siteVars PROVE SiteInv'
<1>1. CASE UNCHANGED siteVars
  BY <1>1, Zenon DEF siteVars, SiteInv, SiteTypes, CustomUnique, RowFits, CallFits
<1>2. CASE SiteNext
  <2>1. NoInput \in Inputs
    BY Zenon DEF NoInput, Inputs
  <2> QED BY <1>2, <2>1, OpensKeep, CreateKeeps, PatchKeeps, VerifyKeeps, SingleWritesKeep, Zenon DEF SiteNext
<1> QED BY <1>1, <1>2, Zenon

\* A customer's own domain belongs to one site, whichever requests of whichever
\* workspaces race for it.
THEOREM CustomDomainsUnique == SiteSpec => []CustomHostHasOneSite
<1>1. SiteInv => CustomHostHasOneSite
  BY Zenon DEF SiteInv, CustomUnique, RowFits, CustomHostHasOneSite
<1> QED BY <1>1, SiteInitially, SiteInductive, PTL DEF SiteSpec

\* A hostname routes only to a web application, and only such a one is given a
\* certificate.
THEOREM OnlyWebAppsRouted == SiteSpec => []RoutedIsTransparent
<1>1. ASSUME SiteInv, NEW h \in Hostnames, NEW s \in SiteIds, s \in SitesByHost(h)
      PROVE  sites[s].mode = "TRANSPARENT" /\ TlsCheck(h)
  <2>1. s # "no_site"
    BY SitesAssumption, Zenon
  <2>2. s \in Holders(h)
    BY <1>1, <2>1, Zenon DEF SitesByHost
  <2>3. sites[s].mode = "TRANSPARENT"
    BY <1>1, <2>2, NoHostNoName, Zenon DEF Holders, SiteInv, RowFits
  <2> QED BY <1>1, <2>1, <2>3, Zenon DEF TlsCheck
<1>2. SiteInv => RoutedIsTransparent
  BY <1>1, Zenon DEF RoutedIsTransparent
<1> QED BY <1>2, SiteInitially, SiteInductive, PTL DEF SiteSpec

\* A remote desktop opens with its secret through any switch of modes, unless an
\* admin removed the credential or two edits of the site overlapped.
THEOREM RemoteDesktopsOpen == SiteSpec => []GatewayOpens
<1>1. SiteInv => GatewayOpens
  BY Zenon DEF SiteInv, RowFits, GatewayOpens, Descriptor
<1> QED BY <1>1, SiteInitially, SiteInductive, PTL DEF SiteSpec

\* A site shown as verified has a hostname that was seen to resolve here, unless
\* an edit overlapped the check.
THEOREM VerifiedNamesResolved == SiteSpec => []VerifiedResolved
<1>1. ASSUME SiteInv, NEW s \in SiteIds, s \notin crossed, sites[s].verified, sites[s].mode = "TRANSPARENT"
      PROVE  sites[s].host \in resolved
  <2>1. sites[s].there
    BY <1>1 DEF SiteInv, RowFits, NoSite
  <2> QED BY <1>1, <2>1, Zenon DEF SiteInv, RowFits
<1>2. SiteInv => VerifiedResolved
  BY <1>1, Zenon DEF VerifiedResolved
<1> QED BY <1>2, SiteInitially, SiteInductive, PTL DEF SiteSpec


-----------------------------------------------------------------------------
(* The console's tables *)

\* The loads of a table whose newest is n: each has a number of its own, none
\* above the newest's, and none that of the answer on the screen.
Numbered(loads, n, top) ==
    /\ \A r \in loads : r.id \in 1..n /\ r.id # top
    /\ \A r, s \in loads : r.id = s.id => r = s

\* The spinner turns exactly while the newest load is out.
Spins(busy, loads, n) == busy <=> \E r \in loads : r.id = n

TblInv ==
    /\ requestId \in Nat /\ loading \in BOOLEAN
    /\ table = "recordings" => /\ shown.id \in 0..requestId
                               /\ Numbered(inflight, requestId, shown.id)
                               /\ Spins(loading, inflight, requestId)

\* The record of a load as it is issued, and as it is answered.
Issued(n, f, offset) == [id |-> n, filters |-> f, offset |-> offset, answered |-> FALSE, answer |-> FailedAnswer]
AnsweredWith(r, a) == [r EXCEPT !.answered = TRUE, !.answer = a]

\* What the step of a load that is issued, or received, does to the numbers.
LEMMA NumberIssued ==
    ASSUME NEW n \in Nat, NEW loads, NEW top \in 0..n, Numbered(loads, n, top), NEW r, r.id = n + 1
    PROVE  Numbered(loads \cup {r}, n + 1, top) /\ Spins(TRUE, loads \cup {r}, n + 1)
  BY DEF Numbered, Spins

\* An answer arrives for a load that is out: the numbering stays.
LEMMA NumberReplaced ==
    ASSUME NEW n \in Nat, NEW loads, NEW top, Numbered(loads, n, top), NEW busy, Spins(busy, loads, n),
           NEW r \in loads, NEW s, s.id = r.id
    PROVE  Numbered((loads \ {r}) \cup {s}, n, top) /\ Spins(busy, (loads \ {r}) \cup {s}, n)
  BY Zenon DEF Numbered, Spins

\* A load is settled: the rest are still numbered, and the table still spins for
\* the newest if that one is out.
LEMMA NumberDropped ==
    ASSUME NEW n \in Nat, NEW loads, NEW top, Numbered(loads, n, top), NEW busy \in BOOLEAN, Spins(busy, loads, n),
           NEW r \in loads
    PROVE  /\ Numbered(loads \ {r}, n, top) /\ Numbered(loads \ {r}, n, r.id)
           /\ Spins(busy /\ r.id # n, loads \ {r}, n)
<1>1. Numbered(loads \ {r}, n, top) /\ Numbered(loads \ {r}, n, r.id)
  BY Zenon DEF Numbered
<1>2. CASE r.id = n
  BY <1>2, Zenon DEF Numbered, Spins
<1>3. CASE r.id # n
  BY <1>3, Zenon DEF Numbered, Spins
<1> QED
  BY <1>1, <1>2, <1>3, Zenon

\* A load is issued under the next number; the rows stay.
LEMMA TblLoad ==
    ASSUME TblInv, NEW f, NEW offset, Load(f, offset), UNCHANGED <<table, shown>>
    PROVE  TblInv'
<1>1. requestId' = requestId + 1 /\ loading' = TRUE /\ inflight' = inflight \cup {Issued(requestId + 1, f, offset)}
  BY Zenon DEF Load, Issued
<1>2. Issued(requestId + 1, f, offset).id = requestId + 1
  BY Zenon DEF Issued
<1>4. requestId' \in Nat /\ loading' \in BOOLEAN
  <2>1. requestId' \in Nat
    BY <1>1 DEF TblInv
  <2>2. loading' \in BOOLEAN
    BY <1>1, Zenon
  <2> QED
    BY <2>1, <2>2, Zenon
<1>3. CASE table = "recordings"
  <2>1. Numbered(inflight', requestId', shown.id) /\ Spins(TRUE, inflight', requestId')
    BY <1>1, <1>2, <1>3, NumberIssued, Zenon DEF TblInv
  <2>2. Spins(loading', inflight', requestId')
    BY <1>1, <2>1, Zenon
  <2>3. shown'.id \in 0..requestId'
    BY <1>1, <1>3 DEF TblInv
  <2> QED
    BY <1>4, <2>1, <2>2, <2>3, Zenon DEF TblInv
<1> QED
  BY <1>3, <1>4, Zenon DEF TblInv

\* The server answers, and the answer is received.
LEMMA TblAnswer ==
    ASSUME TblInv, NEW r \in inflight, ServerAnswers(r)
    PROVE  TblInv'
<1>1. UNCHANGED <<table, shown, loading, requestId>>
  BY Zenon DEF ServerAnswers
<1>2. PICK a : inflight' = (inflight \ {r}) \cup {AnsweredWith(r, a)}
  BY Zenon DEF ServerAnswers, AnsweredWith
<1>3. AnsweredWith(r, a).id = r.id
  BY DEF AnsweredWith
<1> QED
  BY <1>1, <1>2, <1>3, NumberReplaced, Zenon DEF TblInv

\* An answer is applied only if it is newer than what is shown.
LEMMA TblReceive ==
    ASSUME TblInv, NEW r \in inflight, Receive(r)
    PROVE  TblInv' /\ (table = "recordings" /\ shown' # shown => shown'.id > shown.id)
<1>1. UNCHANGED <<table, requestId>> /\ inflight' = inflight \ {r}
  BY Zenon DEF Receive
<1>2. CASE table = "recordings"
  <2>1. loading' = (loading /\ r.id # requestId)
    BY <1>2, Zenon DEF Receive, AuditReceives, RecordingsReceives
  <2>2. shown' = shown \/ (r.id = requestId /\ shown' = Put(r))
    BY <1>2, Zenon DEF Receive, AuditReceives, RecordingsReceives
  <2>3. Put(r).id = r.id
    BY Zenon DEF Put
  <2>4. /\ Numbered(inflight', requestId, shown.id) /\ Numbered(inflight', requestId, r.id)
        /\ Spins(loading', inflight', requestId)
    BY <1>1, <1>2, <2>1, NumberDropped DEF TblInv
  <2>5. r.id \in 1..requestId /\ r.id # shown.id
    BY <1>2, Zenon DEF TblInv, Numbered
  <2> QED
    BY <1>1, <1>2, <2>1, <2>2, <2>3, <2>4, <2>5 DEF TblInv
<1>3. CASE table # "recordings"
  <2>1. loading' = FALSE
    BY <1>3, Zenon DEF Receive, AuditReceives, RecordingsReceives
  <2> QED
    BY <1>1, <1>3, <2>1, Zenon DEF TblInv
<1> QED
  BY <1>2, <1>3, Zenon

\* What the invariant reads; the controls that issue no load leave it alone.
tblSeen == <<table, shown, loading, inflight, requestId>>

\* The controls that issue no load change nothing the invariant reads.
LEMMA TblAside ==
    ASSUME \/ \E f \in Filters : Type(f)
           \/ \E e \in Entries : Toggle(e) \/ DeleteRecording(e) \/ NewEntry(e)
           \/ ToggleAll \/ DeleteSelected
           \/ \E ok \in BOOLEAN : Confirm(ok) \/ \E e \in Entries : DeleteOne(e, ok)
           \/ UNCHANGED tblVars
    PROVE  UNCHANGED tblSeen
<1>1. ASSUME NEW f, Type(f) PROVE UNCHANGED tblSeen
  BY <1>1, Zenon DEF Type, NoLoad, tblSeen
<1>2. ASSUME NEW e, Toggle(e) PROVE UNCHANGED tblSeen
  BY <1>2, Zenon DEF Toggle, NoLoad, tblSeen
<1>3. ASSUME NEW e, DeleteRecording(e) \/ NewEntry(e) PROVE UNCHANGED tblSeen
  BY <1>3, Zenon DEF DeleteRecording, NewEntry, NoLoad, tblSeen
<1>4. ASSUME ToggleAll PROVE UNCHANGED tblSeen
  BY <1>4, Zenon DEF ToggleAll, NoLoad, tblSeen
<1>5. ASSUME DeleteSelected PROVE UNCHANGED tblSeen
  BY <1>5, Zenon DEF DeleteSelected, NoLoad, tblSeen
<1>6. ASSUME NEW ok, Confirm(ok) PROVE UNCHANGED tblSeen
  BY <1>6, Zenon DEF Confirm, NoLoad, tblSeen
<1>7. ASSUME NEW ok, NEW e, DeleteOne(e, ok) PROVE UNCHANGED tblSeen
  BY <1>7, Zenon DEF DeleteOne, NoLoad, tblSeen
<1>8. ASSUME UNCHANGED tblVars PROVE UNCHANGED tblSeen
  BY <1>8, Zenon DEF tblVars, tblSeen
<1> QED
  BY <1>1, <1>2, <1>3, <1>4, <1>5, <1>6, <1>7, <1>8, Zenon

\* The page renders with no load out, or with the one its address asks for.
LEMMA TblStart == TblInit => TblInv
<1> SUFFICES ASSUME TblInit PROVE TblInv
  BY Zenon
<1>1. shown.id = 0
  BY Zenon DEF TblInit, FirstRender
<1>2. PICK u : /\ table = "recordings" => u = ""
               /\ loading = (u # "")
               /\ requestId = IF u # "" THEN 1 ELSE 0
               /\ u = "" => inflight = {}
  BY Zenon DEF TblInit
<1>3. requestId \in Nat
  BY <1>2, Zenon
<1>4. loading \in BOOLEAN
  BY <1>2, Zenon
<1>5. CASE table = "recordings"
  <2>1. requestId = 0 /\ inflight = {} /\ loading = FALSE
    BY <1>2, <1>5, Zenon
  <2> QED
    BY <1>1, <1>3, <1>4, <2>1 DEF TblInv, Numbered, Spins
<1> QED
  BY <1>3, <1>4, <1>5, Zenon DEF TblInv

\* A step shows only rows newer than those it replaces.
Newer == table = "recordings" /\ shown' # shown => shown'.id > shown.id

\* Every step of a table keeps the invariant and shows only what is newer.
LEMMA TblStep == TblInv /\ [TblNext]_tblVars => TblInv' /\ Newer
<1> SUFFICES ASSUME TblInv, [TblNext]_tblVars PROVE TblInv' /\ Newer
  BY Zenon
<1>1. ASSUME NEW r \in inflight, ServerAnswers(r) PROVE TblInv' /\ Newer
  BY <1>1, TblAnswer, Zenon DEF ServerAnswers, Newer
<1>2. ASSUME NEW r \in inflight, Receive(r) PROVE TblInv' /\ Newer
  BY <1>2, TblReceive, Zenon DEF Newer
<1>3. ASSUME NEW u, UpdateFilter(u) PROVE TblInv' /\ Newer
  BY <1>3, TblLoad, Zenon DEF UpdateFilter, Newer
<1>4. ASSUME TimerFires PROVE TblInv' /\ Newer
  BY <1>4, TblLoad, Zenon DEF TimerFires, Newer
<1>5. ASSUME PreviousPage \/ NextPage PROVE TblInv' /\ Newer
  BY <1>5, TblLoad, Zenon DEF PreviousPage, NextPage, Newer
<1>6. ASSUME Deleted PROVE TblInv' /\ Newer
  BY <1>6, TblLoad, Zenon DEF Deleted, Newer
<1>7. ASSUME UNCHANGED tblSeen PROVE TblInv' /\ Newer
  BY <1>7, Zenon DEF tblSeen, TblInv, Newer
<1> QED
  BY <1>1, <1>2, <1>3, <1>4, <1>5, <1>6, <1>7, TblAside, Zenon DEF TblNext

\* "a slow stale response can't clobber newer rows": in the recordings table
\* the rows on the screen are replaced only by those of a later load, in
\* whatever order the answers arrive.
THEOREM StaleRowsStayOut == TblSpec => NewestAnswerShown
<1>1. TblInit => TblInv
  BY TblStart, Zenon
<1>2. TblInv /\ [TblNext]_tblVars => TblInv' /\ [Newer]_tblVars
  BY TblStep, Zenon
<1> QED
  BY <1>1, <1>2, PTL DEF TblSpec, NewestAnswerShown, Newer

\* The recordings table says it is loading exactly while its newest load is
\* out, so a page button never acts on rows about to be replaced.
THEOREM SpinnerIsHonest == TblSpec => []SpinnerHonest
<1>1. TblInit => TblInv
  BY TblStart, Zenon
<1>2. TblInv /\ [TblNext]_tblVars => TblInv'
  BY TblStep, Zenon
<1>3. TblInv => SpinnerHonest
  BY Zenon DEF TblInv, Spins, SpinnerHonest
<1> QED
  BY <1>1, <1>2, <1>3, PTL DEF TblSpec

=============================================================================
