------------------------------- MODULE Sites -------------------------------
(***************************************************************************)
(* Protected sites: how admins of several workspaces create, edit and      *)
(* delete them, the public hostname that routes a visitor to one, the      *)
(* check of a customer's own domain, and the vault credential of a remote  *)
(* desktop.                                                                *)
(*                                                                         *)
(* A request is two steps wherever the handler reads, decides and then     *)
(* writes: another request commits between the two.  The write is the      *)
(* commit; `db.$transaction` makes the site row and its credential one     *)
(* write in both deployments.                                              *)
(***************************************************************************)
EXTENDS Naturals, FiniteSets

CONSTANTS
    SiteIds,       \* the sites a run may create
    SiteAdmins,    \* requests in flight, one per admin
    Workspaces,    \* tenants
    HomeOf,        \* the tenant a site belongs to: [SiteIds -> Workspaces]
    Labels,        \* subdomain labels
    MaxEdits,      \* bound on requests
    SiteScopes     \* which groups of operations a run combines

ASSUME SitesAssumption ==
    /\ HomeOf \in [SiteIds -> Workspaces]
    /\ MaxEdits \in Nat
    /\ SiteIds # {} /\ "no_site" \notin SiteIds
    /\ "" \notin Labels

VARIABLES
    sites,       \* the Site rows with their VaultCredential
    calls,       \* one request per admin
    multi,       \* MULTI_TENANT
    caps,        \* what the deployment and the workspace's plan switch on
    dns,         \* hostnames whose A record is this server: the wildcard's, and
                 \* the customer domains that were pointed here
    resolved,    \* hostnames a verification has seen resolve here
    crossed,     \* sites edited while another request on them was open
    cleared,     \* sites whose credential an admin removed
    edits,
    siteScope

siteVars == <<sites, calls, multi, caps, dns, resolved, crossed, cleared, edits, siteScope>>

\* Self-hosted, every site is the one tenant's.
Home(s) == IF multi THEN HomeOf[s] ELSE CHOOSE w \in Workspaces: TRUE

Modes == {"TRANSPARENT", "ISOLATED", "GATEWAY"}
Secrets == {"none", "empty", "set"}
\* A hostname is a label under a tenant's console domain, or under a domain of
\* the customer's own.
Hostnames == (Workspaces \cup {"own"}) \X Labels
NoHost == <<"", "">>

Row == [there: BOOLEAN, mode: Modes, host: Hostnames \cup {NoHost}, custom: BOOLEAN,
        verified: BOOLEAN, vault: Secrets]
NoSite == [there |-> FALSE, mode |-> "TRANSPARENT", host |-> NoHost, custom |-> FALSE,
           verified |-> FALSE, vault |-> "none"]

\* What a form posts: the mode, and what that mode needs.
Inputs == [mode: {"TRANSPARENT"}, host: Hostnames, custom: BOOLEAN, secret: {FALSE}]
          \cup [mode: {"ISOLATED"}, host: {NoHost}, custom: {FALSE}, secret: {FALSE}]
          \cup [mode: {"GATEWAY"}, host: {NoHost}, custom: {FALSE}, secret: BOOLEAN]
NoInput == [mode |-> "ISOLATED", host |-> NoHost, custom |-> FALSE, secret |-> FALSE]

Call == [step: {"idle", "create", "patch", "dns"}, site: SiteIds, in: Inputs,
         was: Hostnames \cup {NoHost}]
IdleCall == [step |-> "idle", site |-> CHOOSE s \in SiteIds: TRUE, in |-> NoInput, was |-> NoHost]

Has(op) == op \in siteScope
Finish(a) == calls' = [calls EXCEPT ![a] = IdleCall]
Begin(a, step, s, in, was) ==
    /\ calls[a].step = "idle"
    /\ edits < MaxEdits
    /\ edits' = edits + 1
    /\ calls' = [calls EXCEPT ![a] = [step |-> step, site |-> s, in |-> in, was |-> was]]
\* A request open on s other than a's.
OpenElsewhere(a, s) == \E b \in SiteAdmins \ {a}: calls[b].step # "idle" /\ calls[b].site = s

(***************************************************************************)
(* Validation and hostnames.                                               *)
(***************************************************************************)

\* validateSiteInput: a remote desktop and an isolated browser need their
\* capability; a created remote desktop needs its secret; a managed hostname is
\* the label under the workspace's own suffix, a custom one is taken as typed.
ValidateSiteInput(in, w, requireSecret) ==
    CASE in.mode = "ISOLATED" -> "isolated" \in caps
      [] in.mode = "GATEWAY" -> "gateway" \in caps /\ (requireSecret => in.secret)
      [] OTHER -> IF in.custom THEN TRUE ELSE in.host[1] = w

\* siteHostSuffix: the namespace a workspace's labels live in.
SiteHostSuffix(w) == w

Holders(h) == {s \in SiteIds: sites[s].there /\ sites[s].host = h}

\* resolve_tenant_by_hostname answers with any one holder; a hostname held by
\* another tenant is taken.  Self-hosted there is one tenant and no check.
CrossTenantHostnameTaken(h, w, owner) ==
    /\ multi
    /\ Holders(h) # {}
    /\ owner # w

OwnersOf(h) == IF Holders(h) = {} THEN {"nobody"} ELSE {Home(s): s \in Holders(h)}

\* The unique indexes: (tenantId, hostname), and hostname among custom domains.
UniqueHost(s, h, custom) ==
    \A t \in Holders(h) \ {s}:
        /\ Home(t) # Home(s)
        /\ ~(custom /\ sites[t].custom)

(***************************************************************************)
(* POST /api/admin/sites.                                                  *)
(***************************************************************************)

CreateChecks(a, s, in) ==
    /\ Has("create") /\ ~sites[s].there
    /\ ~OpenElsewhere(a, s)
    /\ \E owner \in OwnersOf(in.host):
        /\ ValidateSiteInput(in, SiteHostSuffix(Home(s)), TRUE)
        /\ ~(in.mode = "TRANSPARENT" /\ CrossTenantHostnameTaken(in.host, Home(s), owner))
    /\ Begin(a, "create", s, in, NoHost)
    /\ UNCHANGED <<sites, multi, caps, dns, resolved, crossed, cleared, siteScope>>

\* The row a creation inserts; a remote desktop's credential goes with it.
Created(in) ==
    [there |-> TRUE, mode |-> in.mode, host |-> in.host, custom |-> in.custom,
     verified |-> FALSE, vault |-> IF in.mode = "GATEWAY" THEN "set" ELSE "none"]

CreateWrites(a) ==
    /\ calls[a].step = "create"
    /\ LET c == calls[a] IN
       sites' = IF c.in.mode # "TRANSPARENT" \/ UniqueHost(c.site, c.in.host, c.in.custom)
                THEN [sites EXCEPT ![c.site] = Created(c.in)]
                ELSE sites
    /\ Finish(a)
    /\ UNCHANGED <<multi, caps, dns, resolved, crossed, cleared, edits, siteScope>>

(***************************************************************************)
(* PATCH and DELETE /api/admin/sites/[id].                                 *)
(***************************************************************************)

\* A remote desktop without a stored credential must bring its secret.
HadVault(s, in) == sites[s].vault # "none" \/ in.secret

PatchChecks(a, s, in) ==
    /\ Has("patch") /\ sites[s].there
    /\ ValidateSiteInput(in, SiteHostSuffix(Home(s)), FALSE)
    /\ in.mode = "TRANSPARENT" =>
        \E owner \in OwnersOf(in.host): ~CrossTenantHostnameTaken(in.host, Home(s), owner)
    /\ in.mode = "GATEWAY" => HadVault(s, in)
    /\ Begin(a, "patch", s, in, sites[s].host)
    /\ UNCHANGED <<sites, multi, caps, dns, resolved, crossed, cleared, siteScope>>

\* Keeps the verification over any edit of a custom domain.
PatchTransparentKeeps(r, in, was) ==
    [r EXCEPT !.mode = "TRANSPARENT", !.host = in.host, !.custom = in.custom,
              !.verified = @ /\ in.custom]

\* The transparent branch: a custom domain stays verified only when the hostname
\* read at the start is the one written; the credential is left alone.
PatchTransparent(r, in, was) ==
    [r EXCEPT !.mode = "TRANSPARENT", !.host = in.host, !.custom = in.custom,
              !.verified = @ /\ in.custom /\ in.host = was]

PatchIsolated(r) == [r EXCEPT !.mode = "ISOLATED", !.host = NoHost, !.vault = "none"]

\* The upsert writes an empty secret when there is no row and none was posted.
PatchGateway(r, in) ==
    [r EXCEPT !.mode = "GATEWAY", !.host = NoHost,
              !.vault = IF in.secret THEN "set" ELSE IF @ = "none" THEN "empty" ELSE @]

Patched(r, in, was) ==
    CASE in.mode = "TRANSPARENT" -> PatchTransparent(r, in, was)
      [] in.mode = "ISOLATED" -> PatchIsolated(r)
      [] OTHER -> PatchGateway(r, in)

\* An update of a row that is gone throws; a hostname another row took meanwhile
\* is answered 409.
PatchWrites(a) ==
    /\ calls[a].step = "patch"
    /\ LET c == calls[a]
           done == /\ sites[c.site].there
                   /\ c.in.mode = "TRANSPARENT" => UniqueHost(c.site, c.in.host, c.in.custom)
       IN  IF done
           THEN /\ sites' = [sites EXCEPT ![c.site] = Patched(@, c.in, c.was)]
                /\ crossed' = IF OpenElsewhere(a, c.site) THEN crossed \cup {c.site} ELSE crossed
                /\ cleared' = IF c.in.secret THEN cleared \ {c.site} ELSE cleared
           ELSE UNCHANGED <<sites, crossed, cleared>>
    /\ Finish(a)
    /\ UNCHANGED <<multi, caps, dns, resolved, edits, siteScope>>

\* The row, its credential and its grants go together.
DeleteSite(s) ==
    /\ Has("patch") /\ sites[s].there
    /\ edits < MaxEdits /\ edits' = edits + 1
    /\ sites' = [sites EXCEPT ![s] = NoSite]
    /\ cleared' = cleared \ {s}
    /\ crossed' = crossed \ {s}
    /\ UNCHANGED <<calls, multi, caps, dns, resolved, siteScope>>

(***************************************************************************)
(* The vault: PUT and DELETE /api/admin/sites/[id]/vault.                  *)
(***************************************************************************)

SetVaultCredential(s) ==
    /\ Has("vault") /\ "vault" \in caps /\ sites[s].there
    /\ edits < MaxEdits /\ edits' = edits + 1
    /\ sites' = [sites EXCEPT ![s].vault = "set"]
    /\ cleared' = cleared \ {s}
    /\ UNCHANGED <<calls, multi, caps, dns, resolved, crossed, siteScope>>

ClearVaultCredential(s) ==
    /\ Has("vault")
    /\ edits < MaxEdits /\ edits' = edits + 1
    /\ sites' = [sites EXCEPT ![s].vault = "none"]
    /\ cleared' = cleared \cup {s}
    /\ UNCHANGED <<calls, multi, caps, dns, resolved, crossed, siteScope>>

\* POST /api/internal/gateway/descriptor: what the data plane is told to open.
Descriptor(s) ==
    CASE ~sites[s].there \/ sites[s].mode = "TRANSPARENT" -> "not_gateway"
      [] sites[s].mode = "ISOLATED" ->
            IF "isolated" \in caps THEN "kasm" ELSE "isolation_disabled"
      [] OTHER -> IF sites[s].vault = "none" THEN "no_credential" ELSE "guac"

(***************************************************************************)
(* A customer's own domain: POST /api/admin/sites/[id]/verify-domain.      *)
(***************************************************************************)

VerifyReads(a, s) ==
    /\ Has("verify")
    /\ sites[s].there /\ sites[s].mode = "TRANSPARENT" /\ sites[s].custom
    /\ Begin(a, "dns", s, NoInput, sites[s].host)
    /\ UNCHANGED <<sites, multi, caps, dns, resolved, crossed, cleared, siteScope>>

\* classifyVerify: ok when this server's address is among the answers.
ClassifyVerify(h) == IF h \in dns THEN "ok" ELSE "missing"

\* The row is marked by id, whatever hostname it has by then.
VerifyAnswers(a) ==
    /\ calls[a].step = "dns"
    /\ LET c == calls[a] IN
       IF ClassifyVerify(c.was) = "ok"
       THEN /\ resolved' = resolved \cup {c.was}
            /\ sites' = IF sites[c.site].there
                        THEN [sites EXCEPT ![c.site].verified = TRUE] ELSE sites
       ELSE UNCHANGED <<resolved, sites>>
    /\ Finish(a)
    /\ UNCHANGED <<multi, caps, dns, crossed, cleared, edits, siteScope>>

\* POST /api/internal/site/by-host and GET /api/internal/tls-check: the tenant
\* is resolved from the hostname, then its site is looked up in that scope.
SitesByHost(h) ==
    IF Holders(h) = {} THEN {"no_site"}
    ELSE {s \in SiteIds: s \in Holders(h) /\ Home(s) \in OwnersOf(h)}

TlsCheck(h) == SitesByHost(h) # {"no_site"}

SiteInit ==
    /\ sites = [s \in SiteIds |-> NoSite]
    /\ calls = [a \in SiteAdmins |-> IdleCall]
    /\ multi \in BOOLEAN
    /\ caps \in {{}, {"gateway", "isolated", "vault"}}
    /\ \E own \in SUBSET {h \in Hostnames: h[1] = "own"}:
          dns = {h \in Hostnames: h[1] # "own"} \cup own
    /\ resolved = {}
    /\ crossed = {}
    /\ cleared = {}
    /\ edits = 0
    /\ siteScope \in SiteScopes

SiteNext ==
    \/ \E a \in SiteAdmins, s \in SiteIds, in \in Inputs:
          CreateChecks(a, s, in) \/ PatchChecks(a, s, in)
    \/ \E a \in SiteAdmins: CreateWrites(a) \/ PatchWrites(a) \/ VerifyAnswers(a)
    \/ \E s \in SiteIds: DeleteSite(s) \/ SetVaultCredential(s) \/ ClearVaultCredential(s)
    \/ \E a \in SiteAdmins, s \in SiteIds: VerifyReads(a, s)

SiteSpec == SiteInit /\ [][SiteNext]_siteVars

-----------------------------------------------------------------------------
\* The state has its shape, and a row that is not there holds nothing: a
\* credential does not outlive the site it is of.
SiteTypeOK ==
    /\ sites \in [SiteIds -> Row]
    /\ calls \in [SiteAdmins -> Call]
    /\ multi \in BOOLEAN
    /\ dns \subseteq Hostnames /\ resolved \subseteq Hostnames
    /\ crossed \subseteq SiteIds /\ cleared \subseteq SiteIds
    /\ edits \in 0..MaxEdits
    /\ \A s \in SiteIds: ~sites[s].there => sites[s] = NoSite

\* A customer's domain belongs to one site, whichever requests of whichever
\* workspaces race for it: the check before the write reads a row the other
\* request has not written yet, and the index over custom domains decides.
CustomHostHasOneSite ==
    \A s, t \in SiteIds:
        (/\ s # t /\ sites[s].there /\ sites[t].there
         /\ sites[s].custom /\ sites[t].custom
         /\ sites[s].mode = "TRANSPARENT" /\ sites[t].mode = "TRANSPARENT")
        => sites[s].host # sites[t].host

\* A hostname answers only for a web application: a site switched to a remote
\* desktop or an isolated browser gives its name up, so the proxy never finds a
\* row without an upstream and the name is free for the next site.
RoutedIsTransparent ==
    \A h \in Hostnames, s \in SiteIds:
        s \in SitesByHost(h) => sites[s].mode = "TRANSPARENT" /\ TlsCheck(h)

\* A remote desktop can be opened: through any sequence of mode switches and
\* edits its credential is there with a secret, unless an admin removed it or two
\* edits of the site overlapped.
GatewayOpens ==
    \A s \in SiteIds \ (cleared \cup crossed):
        sites[s].mode = "GATEWAY" /\ sites[s].there
 => Descriptor(s) = "guac" /\ sites[s].vault = "set"

\* "Verified" is about the hostname the site has: that name was seen to resolve
\* to this server, unless an edit overlapped the check of the same site.
VerifiedResolved ==
    \A s \in SiteIds \ crossed:
        sites[s].verified /\ sites[s].mode = "TRANSPARENT" => sites[s].host \in resolved

\* What the update's comment says of a remote desktop's credential: "a
\* first-time credential must include a secret."  Violated when the credential is
\* removed between the check and the write.
SecretNeverEmpty == \A s \in SiteIds: sites[s].vault # "empty"
=============================================================================
