------------------------------- MODULE Tenancy ------------------------------
(***************************************************************************)
(* The life of a cloud workspace (tenant): the three doors that create one *)
(* (self-service signup, an entitled Captivo ID organisation, a platform   *)
(* operator), suspension, soft delete, restore and purge.                  *)
(*                                                                         *)
(* Every platform function is called on the plain client, outside the      *)
(* request's transaction, so each commits by itself: a creation is several *)
(* commits, with an undo when a later one throws.  The request's own scope *)
(* is a transaction of five seconds around the whole handler.  A tenant is *)
(* named after the request that creates it (its id is a fresh UUID).       *)
(***************************************************************************)
EXTENDS Integers, FiniteSets

CONSTANTS Creators,     \* requests that create a workspace
          Slugs,        \* console addresses asked for
          MaxLinks,     \* bound: confirmation links in the mail at a time
          TenancyScopes \* the groups of operations that meet in one behaviour

ASSUME TenancyAssumption == Slugs # {}

VARIABLES tenScope, tenant, creator,
          links,      \* addresses whose confirmation link is in somebody's mail
          signupOn,   \* PlatformConfig.signupEnabled
          suspension, \* a status request under way on a tenant
          signing,    \* tenants for which a sign-in has resolved its host
          sessions,   \* tenants with console sessions
          loose,      \* history: tenants whose logout failed or was overtaken
          candidates  \* the nightly job: tenants it still has to purge

tenVars == <<tenScope, tenant, creator, links, signupOn, suspension, signing, sessions, loose, candidates>>

NoTenant == [slug |-> "none"]
Idle == [kind |-> "none", slug |-> "none", caps |-> FALSE, pc |-> "idle"]
Made == [slug |-> CHOOSE s \in Slugs : TRUE, org |-> "none", status |-> "ACTIVE", deleted |-> FALSE, aged |-> FALSE,
         capped |-> FALSE, invite |-> TRUE, admin |-> TRUE, touched |-> FALSE]
Oldest == CHOOSE c \in Creators : TRUE
Exists(t) == tenant[t] # NoTenant

TenancyInit ==
    /\ tenScope \in TenancyScopes
    /\ tenant = [c \in Creators |-> IF "life" \in tenScope /\ c = Oldest THEN Made ELSE NoTenant]
    /\ creator = [c \in Creators |-> IF tenant[c] = NoTenant THEN Idle ELSE [Idle EXCEPT !.pc = "shown"]]
    /\ links = {} /\ signupOn = TRUE
    /\ suspension = [c \in Creators |-> "idle"]
    /\ signing = {} /\ sessions = {} /\ loose = {} /\ candidates = {}

-----------------------------------------------------------------------------
(* The platform's database functions *)

\* resolve_tenant_by_slug: what a console host resolves to.
Resolves(t) == Exists(t) /\ tenant[t].status = "ACTIVE" /\ ~tenant[t].deleted

\* The two unique columns of "Tenant"; a soft-deleted row still holds both.
SlugTaken(slug) == \E t \in Creators : Exists(t) /\ tenant[t].slug = slug
OrgTaken(org) == org # "none" /\ \E t \in Creators : Exists(t) /\ tenant[t].org = org

\* platform_create_tenant: one INSERT, organisation included.
CreateTenantLater(t, slug, org) ==
    tenant' = [tenant EXCEPT ![t] = [slug |-> slug, org |-> org, status |-> "ACTIVE", deleted |-> FALSE, aged |-> FALSE,
                                     capped |-> FALSE, invite |-> FALSE, admin |-> FALSE, touched |-> FALSE]]

CreateTenantRow(t, slug, org) ==
    /\ ~OrgTaken(org)
    /\ tenant' = [tenant EXCEPT ![t] = [slug |-> slug, org |-> org, status |-> "ACTIVE", deleted |-> FALSE, aged |-> FALSE,
                                        capped |-> FALSE, invite |-> FALSE, admin |-> FALSE, touched |-> FALSE]]

\* platform_purge_tenant: only a soft-deleted row goes.
Purged(t) == IF Exists(t) /\ tenant[t].deleted THEN NoTenant ELSE tenant[t]

-----------------------------------------------------------------------------
(* The three doors *)

Step(c, pc) == creator' = [creator EXCEPT ![c].pc = pc]
Lifecycle == <<suspension, signing, sessions, loose, candidates>>

\* POST /api/signup/start (startSignup): a link for a free address, if the mail
\* went out; nothing is stored.
StartSignup(slug) ==
    /\ "signup" \in tenScope
    /\ signupOn /\ Cardinality(links) < MaxLinks /\ ~SlugTaken(slug)
    /\ links' = links \cup {slug}
    /\ UNCHANGED <<tenScope, tenant, creator, signupOn, Lifecycle>>

\* verifySignup: the link's thirty minutes pass.
LinkExpires(slug) ==
    /\ slug \in links /\ links' = links \ {slug}
    /\ UNCHANGED <<tenScope, tenant, creator, signupOn, Lifecycle>>

\* GET /api/signup/verify (completeSignup up to createTenant): a link may be
\* followed more than once; the free plan's caps are asked for.
CompleteSignup(c) ==
    /\ signupOn /\ creator[c] = Idle
    /\ \E slug \in links : creator' = [creator EXCEPT ![c] = [kind |-> "signup", slug |-> slug, caps |-> TRUE, pc |-> "insert"]]
    /\ UNCHANGED <<tenScope, tenant, links, signupOn, Lifecycle>>

\* POST /api/platform/config: the operator closes signup.
SavePlatformConfig ==
    /\ "signup" \in tenScope /\ signupOn
    /\ signupOn' = FALSE
    /\ UNCHANGED <<tenScope, tenant, creator, links, Lifecycle>>

\* fetchAccessEntitlement: three answers, and what an entitlement may carry.
Entitlements == [status : {"unavailable", "none"}]
                \cup [status : {"ok"}, expired : BOOLEAN, limits : {"absent", "valid", "junk"}]

\* provisionEntitledWorkspace up to the create call: the centre's word, its
\* expiry, the organisation's existing workspace, then the caps.
Provisionable(e) == e.status = "ok" /\ ~e.expired /\ ~OrgTaken("org") /\ e.limits # "junk"

\* POST /api/workspace/create with a signed claim for the organisation.
ProvisionEntitledWorkspace(c, slug) ==
    /\ "entitled" \in tenScope /\ creator[c] = Idle
    /\ \E e \in Entitlements :
         creator' = [creator EXCEPT ![c] =
            IF Provisionable(e)
            THEN [kind |-> "entitled", slug |-> slug, caps |-> e.limits = "valid", pc |-> "insert"]
            ELSE [kind |-> "entitled", slug |-> slug, caps |-> FALSE, pc |-> "refused"]]
    /\ UNCHANGED <<tenScope, tenant, links, signupOn, Lifecycle>>

\* POST /api/platform/tenants: an operator's request, default plan, no caps.
OperatorCreates(c, slug) ==
    /\ "operator" \in tenScope /\ creator[c] = Idle
    /\ creator' = [creator EXCEPT ![c] = [kind |-> "operator", slug |-> slug, caps |-> FALSE, pc |-> "insert"]]
    /\ UNCHANGED <<tenScope, tenant, links, signupOn, Lifecycle>>

\* createTenant, 1: the row; a unique violation is slug_taken or org_taken.
InsertTenant(c) ==
    LET org == IF creator[c].kind = "entitled" THEN "org" ELSE "none" IN
    /\ creator[c].pc = "insert"
    /\ \/ ~SlugTaken(creator[c].slug) /\ CreateTenantRow(c, creator[c].slug, org) /\ Step(c, "invite")
       \/ (SlugTaken(creator[c].slug) \/ OrgTaken(org)) /\ Step(c, "refused") /\ UNCHANGED tenant
    /\ UNCHANGED <<tenScope, links, signupOn, Lifecycle>>

\* createTenant, 2: the first admin's invite, in the new tenant's own scope.
\* The tenant may be gone: then the foreign key refuses it.
InviteFirstAdmin(c) ==
    /\ creator[c].pc = "invite" /\ Exists(c)
    /\ tenant' = [tenant EXCEPT ![c].invite = TRUE] /\ Step(c, "plan")
    /\ UNCHANGED <<tenScope, links, signupOn, Lifecycle>>

\* createTenant, 3: plan and caps, written when there are caps; an UPDATE of a
\* row that is gone touches nothing.
SetPlan(c) ==
    /\ creator[c].pc = "plan" /\ Step(c, "defaults")
    /\ tenant' = IF creator[c].caps /\ Exists(c) THEN [tenant EXCEPT ![c].capped = TRUE] ELSE tenant
    /\ UNCHANGED <<tenScope, links, signupOn, Lifecycle>>

\* createTenant, 4: the platform's defaults for new tenants; createTenant
\* returns the invite's link to its caller.
SaveDefaults(c) ==
    /\ creator[c].pc = "defaults" /\ Step(c, IF creator[c].kind = "operator" THEN "shown" ELSE "centre")
    /\ UNCHANGED <<tenScope, tenant, links, signupOn, Lifecycle>>

\* Any of 2 to 4 throws ...
CreationThrows(c) ==
    /\ creator[c].pc \in {"invite", "plan", "defaults"} /\ Step(c, "undo")
    /\ UNCHANGED <<tenScope, tenant, links, signupOn, Lifecycle>>

\* ... and rollbackCreatedTenantRow takes the row back, delete and purge in one
\* transaction, before the error reaches the caller ...
RollbackCreatedTenantRow(c) ==
    /\ creator[c].pc = "undo" /\ Step(c, "refused")
    /\ tenant' = [tenant EXCEPT ![c] = NoTenant]
    /\ sessions' = sessions \ {c}
    /\ UNCHANGED <<tenScope, links, signupOn, suspension, signing, loose, candidates>>

\* ... unless the undo fails too: logged, and the half-made tenant stays.
RollbackFails(c) ==
    /\ creator[c].pc = "undo" /\ Step(c, "stuck")
    /\ UNCHANGED <<tenScope, tenant, links, signupOn, Lifecycle>>

\* reportTenantLink / registerWithCaptivoId: an answer, good or bad, or the
\* five-second timeout, which outlasts the scope the handler runs in: the
\* transaction has expired when the handler returns, and the answer is an error.
CentreAnswers(c) ==
    /\ creator[c].pc = "centre"
    /\ \/ Step(c, "shown")
       \/ Step(c, "lost")
    /\ UNCHANGED <<tenScope, tenant, links, signupOn, Lifecycle>>

\* The manager stops in the middle of a creation.
ManagerStops(c) ==
    /\ creator[c].pc \in {"insert", "invite", "plan", "defaults", "undo", "centre"} /\ Step(c, "stopped")
    /\ UNCHANGED <<tenScope, tenant, links, signupOn, Lifecycle>>

\* The invite's link, shown at the end of a creation or by an operator, makes
\* the first admin (Enrollment has the ceremony).
AcceptInvite(c) ==
    /\ Resolves(c) /\ tenant[c].invite /\ ~tenant[c].admin
    /\ creator[c].pc = "shown" \/ tenant[c].touched
    /\ tenant' = [tenant EXCEPT ![c].admin = TRUE, ![c].invite = FALSE]
    /\ UNCHANGED <<tenScope, creator, links, signupOn, Lifecycle>>

-----------------------------------------------------------------------------
(* The platform console: every route starts from getTenant, read by itself *)

\* POST .../invite (inviteTenantAdmin): another admin's invite and its link.
InviteTenantAdmin(t) ==
    /\ "operator" \in tenScope /\ Exists(t) /\ ~tenant[t].deleted /\ ~tenant[t].admin
    /\ tenant' = [tenant EXCEPT ![t].invite = TRUE, ![t].touched = TRUE]
    /\ UNCHANGED <<tenScope, creator, links, signupOn, Lifecycle>>

\* POST .../status: the tenant is read ...
StatusRead(t, to) ==
    /\ "life" \in tenScope /\ suspension[t] = "idle" /\ Exists(t) /\ ~tenant[t].deleted
    /\ suspension' = [suspension EXCEPT ![t] = to]
    /\ UNCHANGED <<tenScope, tenant, creator, links, signupOn, signing, sessions, loose, candidates>>

Written(t, to) == IF Exists(t) THEN [tenant EXCEPT ![t].status = to] ELSE tenant

\* ... setTenantStatus writes the status ...
SetTenantStatus(t) ==
    \/ /\ suspension[t] = "SUSPENDED" /\ suspension' = [suspension EXCEPT ![t] = "logout"]
       /\ tenant' = Written(t, "SUSPENDED") /\ UNCHANGED <<sessions, loose>>
    \/ /\ suspension[t] = "ACTIVE" /\ suspension' = [suspension EXCEPT ![t] = "idle"]
       /\ tenant' = Written(t, "ACTIVE") /\ UNCHANGED <<sessions, loose>>

StatusWrite(t) ==
    /\ SetTenantStatus(t)
    /\ UNCHANGED <<tenScope, creator, links, signupOn, signing, candidates>>

\* ... and forceLogoutTenant ends every session, or fails and is passed over.
ForceLogoutTenant(t) ==
    /\ suspension[t] = "logout" /\ suspension' = [suspension EXCEPT ![t] = "idle"]
    /\ \/ sessions' = sessions \ {t} /\ loose' = loose \ {t}
       \/ loose' = loose \cup {t} /\ UNCHANGED sessions
    /\ UNCHANGED <<tenScope, tenant, creator, links, signupOn, signing, candidates>>

\* POST .../delete (platform_delete_tenant): hidden, and its sessions dropped,
\* in one function.
DeleteTenant(t) ==
    /\ "life" \in tenScope /\ Exists(t)
    /\ tenant' = IF tenant[t].deleted THEN tenant
                 ELSE [tenant EXCEPT ![t].deleted = TRUE, ![t].aged = FALSE, ![t].status = "SUSPENDED"]
    /\ sessions' = sessions \ {t} /\ loose' = loose \ {t}
    /\ UNCHANGED <<tenScope, creator, links, signupOn, suspension, signing, candidates>>

\* POST .../restore (platform_restore_tenant).
RestoreTenant(t) ==
    /\ Exists(t) /\ tenant[t].deleted
    /\ tenant' = [tenant EXCEPT ![t].deleted = FALSE, ![t].aged = FALSE, ![t].status = "ACTIVE"]
    /\ UNCHANGED <<tenScope, creator, links, signupOn, Lifecycle>>

\* POST .../purge, by hand, of a tenant read as deleted.
PurgeByHand(t) ==
    /\ Exists(t) /\ tenant[t].deleted
    /\ tenant' = [tenant EXCEPT ![t] = Purged(t)] /\ sessions' = sessions \ {t}
    /\ UNCHANGED <<tenScope, creator, links, signupOn, suspension, signing, loose, candidates>>

-----------------------------------------------------------------------------
(* Sign-in on the tenant's host, and the nightly job *)

\* withTenantRoute: the host resolves, and the request's scope opens ...
SignInResolves(t) ==
    /\ "life" \in tenScope /\ Resolves(t) /\ t \notin signing
    /\ signing' = signing \cup {t}
    /\ UNCHANGED <<tenScope, tenant, creator, links, signupOn, suspension, sessions, loose, candidates>>

\* ... and the session row commits, whatever became of the tenant since.
SignInCommits(t) ==
    /\ t \in signing /\ signing' = signing \ {t}
    /\ sessions' = IF Exists(t) THEN sessions \cup {t} ELSE sessions
    /\ loose' = IF Exists(t) /\ ~Resolves(t) THEN loose \cup {t} ELSE loose
    /\ UNCHANGED <<tenScope, tenant, creator, links, signupOn, suspension, candidates>>

\* Thirty days pass since the soft delete.
GraceEnds(t) ==
    /\ Exists(t) /\ tenant[t].deleted /\ ~tenant[t].aged
    /\ tenant' = [tenant EXCEPT ![t].aged = TRUE]
    /\ UNCHANGED <<tenScope, creator, links, signupOn, Lifecycle>>

\* platform_purge_candidates: deleted longer ago than the grace.
PurgeCandidates == {t \in Creators : Exists(t) /\ tenant[t].deleted /\ tenant[t].aged}

\* POST /api/cron/platform-ops (runPlatformOps): the candidates are read ...
RunPlatformOps ==
    /\ candidates = {} /\ PurgeCandidates # {}
    /\ candidates' = PurgeCandidates
    /\ UNCHANGED <<tenScope, tenant, creator, links, signupOn, suspension, signing, sessions, loose>>

\* ... then purged one by one, each by the function that looks again.
PurgeTenant(t) ==
    /\ t \in candidates /\ candidates' = candidates \ {t}
    /\ tenant' = [tenant EXCEPT ![t] = Purged(t)]
    /\ sessions' = IF Purged(t) = NoTenant THEN sessions \ {t} ELSE sessions
    /\ UNCHANGED <<tenScope, creator, links, signupOn, suspension, signing, loose>>

TenancyNext ==
    \/ SavePlatformConfig \/ RunPlatformOps
    \/ \E slug \in Slugs : StartSignup(slug) \/ LinkExpires(slug)
    \/ \E c \in Creators :
         \/ CompleteSignup(c)
         \/ \E slug \in Slugs : ProvisionEntitledWorkspace(c, slug) \/ OperatorCreates(c, slug)
         \/ InsertTenant(c) \/ InviteFirstAdmin(c) \/ SetPlan(c) \/ SaveDefaults(c) \/ CreationThrows(c)
         \/ RollbackCreatedTenantRow(c) \/ RollbackFails(c) \/ CentreAnswers(c) \/ ManagerStops(c)
         \/ AcceptInvite(c) \/ InviteTenantAdmin(c)
         \/ \E to \in {"ACTIVE", "SUSPENDED"} : StatusRead(c, to)
         \/ StatusWrite(c) \/ ForceLogoutTenant(c) \/ DeleteTenant(c) \/ RestoreTenant(c) \/ PurgeByHand(c)
         \/ SignInResolves(c) \/ SignInCommits(c) \/ GraceEnds(c) \/ PurgeTenant(c)

\* Time passes and the nightly job is scheduled: what fairness there is.
TenancyFairness ==
    /\ WF_tenVars(RunPlatformOps)
    /\ \A t \in Creators : WF_tenVars(GraceEnds(t)) /\ WF_tenVars(PurgeTenant(t))

TenancySpec == TenancyInit /\ [][TenancyNext]_tenVars /\ TenancyFairness

-----------------------------------------------------------------------------
(* Properties *)

TenantRows == [slug : Slugs, org : {"none", "org"}, status : {"ACTIVE", "SUSPENDED"}, deleted : BOOLEAN, aged : BOOLEAN,
               capped : BOOLEAN, invite : BOOLEAN, admin : BOOLEAN, touched : BOOLEAN]
CreatorSteps == {"idle", "insert", "invite", "plan", "defaults", "undo", "centre", "shown", "lost", "refused", "stuck", "stopped"}

\* Every row is a tenant row; only a deleted tenant ages towards its purge.
TenancyTypeOK ==
    /\ \A t \in Creators : tenant[t] \in TenantRows \cup {NoTenant} /\ (Exists(t) /\ tenant[t].aged => tenant[t].deleted)
    /\ creator \in [Creators -> [kind : {"none", "signup", "entitled", "operator"}, slug : Slugs \cup {"none"},
                                 caps : BOOLEAN, pc : CreatorSteps]]
    /\ links \subseteq Slugs /\ sessions \subseteq {t \in Creators : Exists(t)}

\* An organisation never holds two workspaces and an address never names two
\* tenants, however two creations race past the check that reads first
\* (provisionEntitledWorkspace's findWorkspaceForOrg, slugAvailable).
OneWorkspacePerOrg ==
    \A s, t \in Creators : Exists(s) /\ Exists(t) /\ s # t =>
        /\ tenant[s].slug # tenant[t].slug
        /\ tenant[s].org = "none" \/ tenant[s].org # tenant[t].org

\* Whoever signs in to a workspace made by one of the self-service doors finds
\* the caps its creation asked for: the invite is shown only when createTenant
\* is through, unless an operator stepped in.
CapsBeforeAdmin ==
    \A t \in Creators : Exists(t) /\ tenant[t].admin /\ creator[t].caps /\ ~tenant[t].touched => tenant[t].capped

\* A creation that answers with an error leaves no tenant behind, hidden or
\* not, so the address can be asked for again at once.
RefusedLeavesNothing == \A c \in Creators : creator[c].pc = "refused" => ~Exists(c)

\* When a suspension is through, the tenant has no console session left, unless
\* its logout failed or a sign-in that had resolved the host was still to commit.
SuspendedHasNoSessions ==
    \A t \in sessions : tenant[t].status = "SUSPENDED" /\ suspension[t] # "logout" => t \in loose

\* The nightly purge, working from a list read earlier, removes no tenant that
\* has been restored since: a row that goes was soft-deleted when it went, or is
\* a creation taken back.
RestoreBeatsPurge ==
    [][\A t \in Creators : Exists(t) /\ ~Exists(t)' => tenant[t].deleted \/ creator[t].pc = "undo"]_tenVars

\* A deleted tenant that nobody restores is purged in the end.
DeletedIsPurged == \A t \in Creators : (Exists(t) /\ tenant[t].deleted) ~> (~Exists(t) \/ ~tenant[t].deleted)

\* The doc's promise that the centre's silence never costs the customer the
\* invite of a workspace that has been made (captivo-id-register.ts,
\* entitled-flow.ts).  Violated: a slow answer of the centre costs just that.
InviteSurvivesCentre == \A c \in Creators : creator[c].pc # "lost"
=============================================================================
