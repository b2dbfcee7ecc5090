# A TLA+ verification of Captivo Access

Captivo Access lets outside vendors reach internal sites (web applications,
desktops over guacd, isolated browsers) without a VPN. This directory holds
TLA+ models of its protocols, the TLC configurations that check them on small
instances, and theorems about them with proofs checked by TLAPS. Every
definition is written from the code under `src/`; `PROJECT.json` names the lines
each one stands for.

## 1. The system

| Part | Where | What it does |
|---|---|---|
| Manager (control plane) | `src/src/` (Next.js, Prisma, Postgres) | accounts, sites, grants, connectors, audit chains, recordings index, cron jobs, console and session pages |
| Data plane | `src/dataplane/` (Go) | terminates connector tunnels, proxies vendors' traffic, runs live sessions, queues audit events |
| Connector | `src/connector/` (Go) | runs in the customer's network, dials out to the data plane, stores recordings, enforces egress |
| Wire format | `src/tunnel/` | length-prefixed JSON frames over yamux streams over one WebSocket |
| Browser broker | `src/kasm-browser/` (Python) | starts and reaps isolated browsers next to a connector |

The manager and the data plane call one another over HTTP with a shared secret:
the data plane authenticates connectors, evaluates access, reports connector
status and posts audit events; the manager kicks tunnels, lists and terminates
live sessions and pushes policy. Each of these calls can be slow, fail, or
succeed with its answer lost.

Two deployments differ in their transactions. **Self-hosted**, every statement
(or inner `db.$transaction`) of a handler commits by itself. In the **cloud**
(`MULTI_TENANT`), `withTenant` runs the whole request in one READ COMMITTED
transaction with a time budget (5 s by default), and inner transactions join
it. So a request's writes become visible at its end, row locks last as long as
the request, and a slow call can roll everything back. Where that matters a
module has the deployment as a constant or as a variable fixed in Init
(`MultiTenant`, `Cloud`, `deployment`, `cloudTx`, `inCloud`, `multi`, `cloud`); the
others say in their headers why one transaction model serves both.

## 2. The modules

| Module | Models | Run | Proofs |
|---|---|---|---|
| `ConnectorLifecycle` | pairing, tunnels, registry, status, revoke, re-pair, delete | `lifecycle_pairing`, `lifecycle_tunnels` | `ConnectorLifecycleProofs` |
| `AuditVerify` | `computeEventHash`, `verifyChain`, `verifyOneAnchor`, `shouldAnchor` as operators | with `AuditChain` | |
| `AuditLog` | the abstract append-only log (a specification, no code) | instantiated by `AuditChain` | |
| `AuditChain` | one chain with its writers, backfill, retention, verifier, anchors | `audit_access`, `audit_admin` | `AuditChainProofs` |
| `AccessGrants` | grants, decisions, policy, access evaluation, directory sync | `access_grants` | `AccessGrantsProofs` |
| `LiveSessions` | tunnels, hub, viewers, control, termination | `live_sessions`, `live_terminate` | `SessionProofs` |
| `Enrollment` | first-run setup, invitations, passkey ceremonies, TOTP recovery | `identity` | `EnrollmentProofs` |
| `SignIn` | sign-in, second factor, session cap, policy cache, centre roles, support links | `identity` | `SignInProofs` |
| `OidcFlow` | the round trip to an identity provider, its settings | `identity` | `SignInProofs` |
| `MobileApp` | the app's one-time code, token and push registrations | `identity` | `EnrollmentProofs` |
| `Platform` | cron fan-out and heartbeats, plan caps, operators | `jobs` | `JobsProofs` |
| `Recordings` | index, chunks, erasure, retention, replay, command search | `jobs` | `JobsProofs` |
| `SiteHealth` | probes and the notices they send | `workspace` | `JobsProofs` |
| `Tenancy` | creation by three doors, suspension, delete, restore, purge | `workspace` | `WorkspaceProofs` |
| `Settings` | the policy row behind its cache, the two stored passwords | `workspace` | `WorkspaceProofs` |
| `Sites` | resources, hostnames, domain verification, vault rows | `workspace` | `WorkspaceProofs` |
| `SessionPage` | consent, client life, splash, drop target, monitoring notice | `workspace` | `SessionProofs` |
| `SessionInput` | keyboard, on-screen keyboard, clipboard of a session | `workspace` | |
| `ConsoleTables` | filters, paging, debounce, late answers, bulk delete | `workspace` | `WorkspaceProofs` |
| `ResourceForm` | resource and policy forms, what is stored, what a session gets | `workspace`, `clipboard_dropped` | `SessionProofs` |
| `RecordingMode` | how recording policy and a resource's toggle combine | shared | |

Each `MC*` module instantiates one or several of these for TLC. `MCIdentity`,
`MCJobs` and `MCWorkspace` hold several parts that share no state: a behaviour is
of one `part`, and the others rest in one initial state of theirs. A module with
many operations has a scope variable, fixed in Init, that says which groups of
them meet in a behaviour; the cfg lists the groups. The proofs assume nothing of
the scopes, so they cover all groups at once.

**Conventions.** A handler (an HTTP request, a goroutine, a cron run) is a record
with a `pc` or a `step`, its locals, and one action per stretch of code between
two points at which another actor can see or change shared state: a database
statement, a lock, an HTTP call, an `await`. Statements conditional in their
`WHERE` are one step, because Postgres re-evaluates the condition under the row
lock. Most handler identifiers serve one request, so the sets of handlers bound
how many requests a behaviour has; because they run out, most runs do not check
for deadlock. Some definitions stand just before another with the same parameters
and are used by no specification: they are plausible bugs (a dropped guard, a
missing reset), and replacing the definition after them shows that a property
notices.

### ConnectorLifecycle

| Variable | Code |
|---|---|
| `status`, `tokenOf`, `hasSite` | `Connector.status`, the token its `tokenHash` matches, whether a `Site` row refers to it |
| `pairing` | `ConnectorPairing` rows: existing, used, expired, bound to a connector (re-pair) |
| `redeem`, `held` | requests to `/api/connector/pair` and the tokens agents have stored |
| `session`, `registry` | `HandleTunnel` goroutines and the data plane's `Registry` map |
| `reports` | status reports on their way to the manager, in any order |
| `op`, `kick` | administrators' requests and the `/kick` call each makes |
| `missed` | history: handlers a kick could not see |

`RedeemScan` is the scan with argon2 over unused rows, `RedeemRotate` and
`RedeemCreate` the conditional consume and the write in `finishRedeem`; in the
cloud `RedeemRefetch` reads the row again in the request's transaction.
`TunnelAuth` (or `TunnelMatch` and `TunnelStatusCheck` in the cloud),
`TunnelRegister`, `TunnelServe`, `TunnelCleanup` follow `HandleTunnel` and its
deferred function. `Revoke`, `RepairCheck`/`RepairPair`/`RepairInvalidate` and
`DeleteCheck`/`DeleteRow` are the administrators' routes statement by statement;
`Written` says what a request commits and `Locked` which rows an uncommitted cloud
request holds. `KickClose` and `KickRemove` are two steps since `/kick` closes the
session before it removes the entry. `DataplaneRestarts` empties the registry and
runs no cleanup.

### AuditChain

A hash is modelled as the sequence of all `(seq, event)` pairs that went into
it, so equal hashes mean equal histories (SHA-256 is taken as injective).
`AppendBegin` .. `AppendCommit` are `appendAuditEvents` and `recordAdminAction`:
advisory lock, upsert of the head, one `Link` per event, insert and commit.
`AppendAbort` is a roll-back at any point. `RetentionBoundary` and
`RetentionDelete` are the two statements of the retention job. `VerifyBegin` and
`VerifyPage` are the verify route, page by page, each a query of its own.
`AnchorReadHead`, `AnchorDecide`, `AnchorStore` are `runAnchorFor` with the call
to the authority in between. `AuditLog` knows only a sequence of entries and how
many of the first are purged; `AppendOnly` says that every step of the chain is a
step of that log or changes nothing in it. An append's own transaction and a cloud
request's differ only in how long the lock is kept, so one model serves both.

### AccessGrants

`grants` is the table, by id; `requests`, `edits`, `withdrawals` and `syncs`
hold the handlers that have read and not yet written. A grant's handlers write
once, last, so it makes no difference whether that write commits by itself or
with the request. `ClassifyGrant`, `Better`, `Best` and `EvaluateAccess` translate
`evaluate.ts`: `Best` is the loop's accumulator as a recursive function over the
rows in the order the query returned them. `GrantCapError` and `GrantEndsAtError`
are the date checks. `SyncUserAtLogin` .. `ProvisionUser` are the login-time
reconcile, with the plan (`ToCreate`, `ToRevoke`) computed from what was read. Time
is a natural number and one unit is a day of the cap; a weekly schedule is the set
of instants inside its hours.

### LiveSessions

`vend` is the handler of each tunnel, `conn` its connection to guacd or the
isolated browser, `hub` and `ls` the `SessionHub` map and its `LiveSession`
objects (a viewer may keep an object the map has dropped), `view`, `ctl` and
`kill` the operators' requests. `kill` has two program counters: `pc` for the
manager's request and `dp` for the data plane's handler of the call it made,
which goes on when the manager stops waiting. `PumpRead` and `PumpWrite` are the
input relay: an instruction is found allowed, then written.

### Enrollment, SignIn, OidcFlow, MobileApp

`Enrollment` has the rows `user`, `key`, `totp` and `invite`, the cookies of each
browser (`jar`, shared by its tabs through `jarOf`), the ceremony each `tab` is in
and the administrators' requests `adm`. A ceremony reads its challenge cookie when
it verifies, so a tab that started another ceremony meanwhile has replaced it.
Self-hosted, the account, its passkey and the conditional consume of the invitation
are one inner transaction, and an error undoes them all; in the cloud that transaction
is the request's own, which answers 410 and still commits.
WebAuthn itself is external: an answer is accepted when it is for the challenge in
the cookie.

`SignIn` has the session rows in the order of `createdAt`, the sign-in requests
(`handler`) between their statements, the saved second-factor `policy` and
`getSessionPolicy`'s process-wide `cache`, the centre's membership calls (`push`)
against the console's edits (`editor`), and the support links (`handoff`) with the
requests that redeem them. `crossed` and `loadCrossed` are history variables: an
edit that overlapped a word of the centre, a save that overlapped a load.

`OidcFlow` has the one state cookie the tabs share, where each tab is on its trip,
the settings row and what the provider (external) has redeemed. `MobileApp` has the
hand-off cookie, the `Session` rows with `mobile` set, the app's sign-in `attempt`s
and the push registrations (`device`). What a landed sign-in does to accounts and
sessions is in `Enrollment` and `SignIn`.

### Platform, Recordings, SiteHealth

`Platform`: `pass` is a fan-out under way and the tenants still to run; `stamp` and
`work` count the periods since a heartbeat and since the job's work was committed,
which differ when a job throws. `cap`, `used`, `envelope` and `adder` are a plan
limit, the count, the cached copy and the requests between check and insert.

`Recordings`: the index (`recRow`, with the uncommitted erasure mark `recHeld`),
the connectors' stores (`recBytes`, `dirOld`), the session still writing (`writer`),
and three kinds of messages, `reports`, `pushes` and `acks`, which can be lost,
delayed and overtaken. `recMoved` counts sites that moved to another connector: the
properties say what holds until then.

`SiteHealth`: `probing` is the scheduled pass (read, probe, write, notify), `test`
the button that probes one site, `told` the newest notice. `disturbed` holds the
sites both had open, or whose pass ended early.

### Tenancy, Settings, Sites

`Tenancy`: `creator` is a creation in progress (several commits, undone when a later
one throws), `tenant` the row, `suspension`, `signing` and `candidates` the status
request, the sign-ins that have resolved their host, and the purge job's list.
`Settings`: a read that misses the cache is a query and a write after the `await`;
`saves` are the policy requests, `secretSaves` the two forms with a stored password.
`Sites`: `calls` are requests between what they read and what they write; `crossed`
holds sites that were edited while another request on them was open.

### SessionPage, SessionInput, ConsoleTables, ResourceForm

These are the pages, one browser tab each; their interleavings are those of timers,
imports, answers of the server and the user. `SessionPage` has the page's props at
load (`given`) apart from what the data plane decides at connect (`recording`), the
client's life, the splash with its timer, and the monitoring poll. `SessionInput` has
the keys the remote believes are down (`kb`) against the fingers (`down`), and the two
clipboards with the messages that cross between them. `ConsoleTables` has the loads in
flight (`inflight`, numbered by `requestId`) and the answer on the screen (`shown`).
`ResourceForm` has the stored row, the policy row, and what each administrator's form
holds; `Session` is the descriptor the data plane would act on.

## 3. Runs

| Run | Instance | Properties |
|---|---|---|
| `lifecycle_pairing` | self-hosted; 2 connectors, 2 codes, 2 redeems, 1 tunnel, 2 admin requests, 1 restart; no `invalidateNow` | `CodeRedeemedOnce`, `RevokedIsFinal`, `TokenNeverReturns` |
| `lifecycle_tunnels` | cloud; 1 connector, 2 codes, 2 tunnels, 1 admin request, with `invalidateNow`; fair | `RevokeMissesOnlyHandshakes`, `DeadSessionDeregistered` |
| `audit_access` | 4 events in batches of one and two, 2 writers, 2 retention runs, 1 verifier, 2 anchor runs, pages of 2 | `ChainIntact`, `VerifierHonest`, `AnchorsHold`, refinement `AppendOnly` |
| `audit_admin` | 2 rows from before the chain, 3 writers, 1 verifier, 1 anchor run, pages of 4; fair | `ChainedOnce`, `AppendFinishes`, `AnchorCatchesUp` |
| `access_grants` | 1 user, 2 sites, 2 grants, 2 handlers, 3 instants, cap of one day; people's grants on a site, or two logins' sync | `DecidedOnce`, `CapHolds`, `EvaluateRight`, `RetiredFrozen`, `SyncExact` |
| `live_sessions` | self-hosted; 1 tunnel, 2 operators, 2 views, 1 control request, 1 termination | `ViewersCounted`, `InputFollowsControl`, `AuditPaired`, `NoOrphanBrowser` |
| `live_terminate` | cloud; 1 tunnel, 2 terminations; fair | `TerminateEnds`, `RevokeHappens` |
| `identity` | 2 tabs or requests, 2 browsers, 2 invitations, 2 providers, 2 app sign-ins, cap of 2 sessions | `OneAccountPerInvite`, `SessionCapBound`, `CeilingKept`, `LandsWhereItStarted`, `OneTokenPerCode` |
| `jobs` | 2 tenants, 1 failing job, 2 recordings on 2 connectors, 2 erasure requests, 2 site moves; fair | `EveryTenantServed`, `ErasureConfirmed`, `ReplayHonest`, `ErasureCompletes` |
| `workspace` | 2 creations, 2 saves, 2 sites, 2 administrators, one session page, one table of 3 entries | `OneWorkspacePerOrg`, `SavedIsServed`, `VerifiedResolved`, `NoticeMatchesHealth`, `SplashHonest`, `NothingSticks`, `NewestAnswerShown`, `LockKeepsPreference` |
| `revoked_resurrected` | 1 connector, 2 codes, 2 admin requests with `invalidateNow` | `RevokedIsFinal` is violated |
| `clipboard_dropped` | 1 resource form | `ClipboardSetHereWins` is violated |

**What each property says** is in the comment before its definition. In short: a
pairing code buys one token, revocation is final, a rotated token never validates
again, a kick misses only handshakes; the chain verifies at all times, the verifier
blames only retention, anchors stay true, no event is chained twice, the chain is an
append-only log; one decision per request, the cap holds for everything people make,
the access decision agrees with the columns in any row order, a retired grant stays
as it is, a login leaves exactly the mapped sites; viewers are counted, input follows
control, audit trails are paired, browsers do not outlive their tunnel; an invitation
makes one account, the session cap is overshot by at most the requests in flight, no
role exceeds the centre's ceiling, no tab lands where another was going, a code yields
one app token; a confirmed erasure left no bytes, an empty replay means nobody holds
the recording; an organisation has one workspace, a saved policy is what is served, a
verified domain resolved, notices agree with health, the splash lifts for its own
session, no modifier key sticks, stale rows never replace newer ones, and a locked
toggle keeps its stored value.

**Bounds.** The lifecycle races are between at most three parties: two
redeemers and a revocation, or a handler, its successor and a kick. In the audit
chain, pages of two over up to four rows give a full page, a last short page and an
append or a purge between them. Two grants of one user are the least with duplicates
and with an order to choose, and two handlers the least for a race; `MaxTime` puts an
instant before, at and after every date. Two tabs of one browser are the least that
share a cookie, two sign-ins the least that race for the cap. Two recordings share
one push; two moves take a site away and back. Two loads are the least that can
overtake each other, two forms the least of which one outdates the other. Each bound
is a named constant, and the theorems of section 5 hold for every value of them.

**Symmetry** is declared for interchangeable requests, handlers, writers, ids and
viewers, never in a run with a liveness property.

## 4. Fairness

Safety properties assume none. The liveness properties assume only what follows from
how the code is scheduled.

- `DeadSessionDeregistered`: weak fairness of each tunnel's handler goroutine. Go
  runs it, and its only blocking call (`ReportStatus`) has a 10 s timeout.
- `AppendFinishes`: weak fairness of the transaction that holds the lock, and
  strong fairness of taking it. Postgres queues the waiters for an advisory lock,
  so no waiter is passed for ever.
- `AnchorCatchesUp`: the cron job keeps running (weak fairness), and the
  authority answers now and then (strong fairness of `AnchorStore`, which may be
  preceded by any number of failures).
- `TerminateEnds`, `RevokeHappens`: weak fairness of the data plane's and the
  manager's handlers, of the relay noticing that its connection was closed, and of
  the manager's wait, which is bounded by its 5 s timeout. One step of this needs
  care. A relay blocked in a write to a browser that has stopped reading has no
  deadline of its own, and notices only when the browser's TCP connection or
  the front proxy gives up. The model takes that to happen; the hazard is listed.
- `EveryTenantServed`: the scheduler calls each job again and again (strong
  fairness of `CronHit`, which is disabled while a pass is under way), and a pass
  that has begun goes on (weak fairness of `RunJob`). Jobs throw finitely often.
- `ErasureCompletes`: the reconcile job, a connector's reconnect and the end of a
  request's transaction happen (weak fairness); of the pushes and acknowledgements
  that keep being sent for a recording, some arrive (strong fairness), which is what
  retrying over a channel that loses finitely many in a row gives.

## 5. What is proved

The theorems hold for every value of the constants that satisfies the `ASSUME` of
their module (distinct null values, finite sets, positive page sizes, and the like).
TLC evaluates those assumptions in every run. Every safety property of a passing run,
with one exception named below, is the conclusion of a theorem; further theorems state
properties that no run needs to repeat. Each proof has the same shape: an inductive
invariant that begins with the types of the state, a lemma per action that it is kept,
and a last step that the property follows. What the invariants add to the types:

**ConnectorLifecycleProofs.** `CodeInv`: an answered request has consumed its code, a
consumed code was visible, and codes of uncommitted re-pairs are neither visible nor
shared. It gives `OneTokenPerCode` and, with the history of minted tokens,
`RotatedTokensStayOut`. `RegistrySound` is inductive given the types.
`RevocationFinal`, `DeletionNeedsRevocation` and `RevocationMisses` assume
`TRUE \notin RepairModes` (nobody re-pairs with `invalidateNow`); without that the first
is false of the code, as `revoked_resurrected` shows. They rest on `RevokeInv` (what a
request in flight implies about the row's status) and `MissedInv` (an authenticated
handler the kick did not see is in `missed`).

**AuditChainProofs.** `ChainInv`: the rows are those of a suffix of the history the
head's hash stands for, only the lock's holder is between its read of the head and its
commit and what it has chained continues the committed chain, and heads that were read
or anchored are prefixes of that history. It gives `AlwaysIntact`, `AnchorsStayTrue` and
`ImplementsLog` (the refinement of `AuditLog`). `OnceInv` adds that an event is in one
place only: not yet recorded, in one transaction, in the history, or rolled back; it
gives `NoEventTwice`. `PagesInv` says what a verifier between two pages has seen: a
stretch of the history that ends where the next page begins, unless retention ran; it
gives `AlarmsHaveCause`.

**AccessGrantsProofs.** `NextTable` classifies what a step may do to a row (keep,
decide, edit, insert, revoke, drop); `RetiredStaysFrozen`, `WithdrawsOnlyPending` and
`OneDecision` follow. `CapAlwaysHolds` needs `CapInv`, which extends the cap to what
handlers hold between their check and their write; the key lemma is that waiting only
shortens what is left of a grant. `LoginsReconcile` shows that the plan applied to the
rows it was computed from leaves exactly the mapped sites. `AccessIsEvaluatedRight`
is about a loop over the rows in arbitrary order: the library's induction theorems
cannot be used, so the proof takes the least position at which the accumulator is not
the best of the rows before it, and shows there is none.

**SessionProofs.** `PhaseInv` places every effect of a tunnel's handler (hub entry,
audit events, browser) at its step: `EntriesHaveHandlers`, `TrailsArePaired`,
`BrowsersAreClosed`. `WatchInv` says that a view's session has been registered, that
the count is right, and that a pump's late input is one it already held:
`CountsAreRight` (any finite set of views) and `ControlIsPrompt`. `PageInv`
(which client a phase, a timer and a recording belong to): `SplashLiftsForCause`,
`ConsentComesFirst`. `FormInv` (a form no save has outdated still holds what it read, but
for the fields touched): `LocksKeepPreference`, `LogosAreSavedAsShown`.

**SignInProofs.** `SignInv` counts, for each user, the sessions that stand against the
requests between their trim and their insert: `SessionsCapped`. The same invariant
keeps role and ceiling of users no edit crossed (`CeilingsKept`), the cache and the
loads (`CachedPolicyHonest`), the step-up (`SteppedUpOnce`), the links
(`SupportLinksUsedOnce`). `FlowInv` ties the state cookie, a trip's claims and the
redeemed codes to the start they came from: `TripsLandAtHome`, `SecretsFit`,
`OffStaysOff`.

**EnrollmentProofs.** `EnrolInv` says what each tab between two requests may rely on:
whose challenge its cookie holds, which invitation it consumed, which ids are spent.
`OneAccountEach`, `InvitationsSpent` and `RefusalsMakeNothing` are stated for the
self-hosted deployment, as in the cloud the error that should undo an enrolment undoes
nothing (section 6). `HandlesAreUsers` and `SetupStaysClosed` hold in every deployment.
`AppInv` ties an attempt of the app that holds a session row to the state of the row:
`CodesYieldOneToken`, `PhonesHaveSessions`, `EndedSessionsStayEnded`,
`TokensNeedTheirVerifier`.

**JobsProofs.** `HealthInv`: `NoticesMatchHealth`, `NoticesNotRepeated`. Heartbeats and
work: `StoppedFlagged`. The requests between check and insert: `CapsOvershootBounded`.
`RecInv`, on where the bytes of a listed recording can be and what a push or an
acknowledgement in flight can still remove: `ErasuresConfirmed`, `UnaskedRowsStay`,
`OnlyAskedDestroyed`, `ReplaysHonest`.

**WorkspaceProofs.** `TenInv`: `OneWorkspaceEach`, `CapsComeFirst`, `RefusedIsGone`,
`SuspensionEndsSessions`, `RestoredSurvives`. `SetInv`: `SavedAndServed`,
`CentreKeepsZone`, `BlankKept`. `SiteInv`: `CustomDomainsUnique`, `OnlyWebAppsRouted`,
`RemoteDesktopsOpen`, `VerifiedNamesResolved`. `TblInv` (loads are
numbered in order and the table spins for the newest): `StaleRowsStayOut`,
`SpinnerIsHonest`.

**Only model-checked.**

- The liveness properties: `DeadSessionDeregistered`, `AppendFinishes`,
  `AnchorCatchesUp`, `TerminateEnds`, `RevokeHappens`, `EveryTenantServed`,
  `ErasureCompletes`. TLAPS 1.4.5 does not reason about fairness and `ENABLED`.
- `NothingSticks`: what a panel or a chord leaves down is a fold over the keys it
  releases, and what a fold computes needs induction. The keyboard is finite and the
  run explores all of it in each scope, so nothing is left to generalise but the texts
  on the clipboard, which it does not depend on.
- Formulas that hold on the instances above when added to their cfg but are kept out
  of the runs: the type invariants of the modules (`EnrolTypeOK`, `TblTypeOK`, ...;
  the proofs have their own), `RowsFitFilters`, `NoFalseEmpty`, `BulkDeletedGone`
  (`ConsoleTables`); `SearchHonest` (`Recordings`); `KeystrokesNeedRecording`,
  `ClipboardControlsAgree`, `InheritLabelsHonest`, `UntouchedSaveChangesNothing`,
  `ParameterSetHereWins` (`ResourceForm`); `NeverDoublePressesCtrl`,
  `ClipboardPolicyKept`, `PasteInsertsWhatWasAsked` (`SessionInput`); `OverWillUpload`
  (`SessionPage`). Five more are liveness properties that hold of the module's own
  fair specification: `SplashLifts` and `MonitoringIsTold` (`PageSpec`), `StaleCopyEnds`
  (`SettingsSpec`), `HealthCatchesUp` (`HealthSpec`), `DeletedIsPurged` (`TenancySpec`).

## 6. Where the code and what it says of itself differ

Two runs are counterexamples, with the quoted text in `PROJECT.json`:
`revoked_resurrected` (a re-pair with `invalidateNow` writes PENDING over a revocation
made after its check) and `clipboard_dropped` (the clipboard rule of a remote desktop
is posted and never stored).

The modules state further expectations, taken from comments and documentation, that
TLC refutes when the formula is added to a cfg. Those of `BlankKeepsMailPassword`,
`PendingUnique`, `DeleteSparesSites`, `VendorStaysOut` and `MonitoredIsTold` need a bound
the runs do not have: three saves, two people's handlers, a site attached to a revoked
connector, two tunnels.

| Formula | What happens |
|---|---|
| `RevokedNotProxyable` (`ConnectorLifecycle`) | a tunnel that authenticated before a revocation registers after its kick and stays; what does hold is `RevokeMissesOnlyHandshakes` |
| `DeleteSparesSites` | a site created between the delete's check and the delete goes with the connector |
| `VerifierNeverAlarms` (`AuditChain`) | retention between two pages makes the verifier report an untampered chain broken; what does hold is `VerifierHonest` |
| `PendingUnique`, `EveryGrantExpires` (`AccessGrants`) | two posts of one vendor leave two pending requests; directory grants have no end, whatever the maximum duration |
| `TerminateCloses`, `VendorStaysOut`, `MonitoredIsTold` (`LiveSessions`) | a termination before the closer is set answers success and closes nothing; a reconnect between termination and revocation outlives both; with two sessions on a site the notice follows whichever the map yields first |
| `InviteSpentAnywhere` (`Enrollment`) | in the cloud an account is made of an invitation that was revoked meanwhile |
| `EnabledHasSecret` (`OidcFlow`) | the check for a stored secret is satisfied by the platform's |
| `OperatorRemains` (`Platform`) | two operators who remove each other leave none |
| `ErasureConfirmedAlways`, `PartialTold` (`Recordings`) | retention, or a connector the site moved to, lets a pending row go while the bytes remain; a search with matches drops the flag that it could not ask everyone |
| `EveryEdgeIsTold` (`SiteHealth`) | a pass cut short, or overlapping a test, leaves a change untold |
| `InviteSurvivesCentre` (`Tenancy`) | a slow answer of the centre costs the customer the invite of a workspace already made |
| `BlankKeepsMailPassword` (`Settings`) | a mail form saved blank writes back the password it had read |
| `SecretNeverEmpty` (`Sites`) | a credential removed between check and write is replaced by an empty one |
| `RecordedIsDisclosed` (`SessionPage`) | recording turned on between the page's load and the client's connect is not announced |
| `PanelKeepsThePaste` (`SessionInput`) | the Clipboard buttons open the panel without the ref the paste handler reads |
| `KeystrokesWhenRequired`, `SaveKeepsOthers`, `UntouchedSaveAccepted` (`ResourceForm`) | keystrokes are gated on the resource's own toggle; the later of two submits undoes the other's edit; a custom domain under the server's suffix is posted as a label |

## 7. Not modelled

- Inside the modelled parts: notification mails, logging and wording; the LDAP
  protocol and DN matching; time zones (a schedule is a set of instants); the
  source-address allowlist; keystroke and file-transfer observers; the guacd
  handshake; the decoding of recordings and the arithmetic of byte ranges.
- Cryptography and libraries: argon2, SHA-256, WebAuthn, TOTP, RFC 3161 tokens,
  yamux, Guacamole.Keyboard, row-level security. They are taken to do what their
  callers expect.
- Whole parts: the data plane's audit queue, the control stream's two writers and
  telemetry, the browser proxy, egress matching, the isolated-browser broker, rate
  limits, file transfer, the parsing of the Guacamole byte stream, dashboards, the
  update check. `PROJECT.json` gives the reason for each.

## 8. How to run

`tlc -workers 2 -config MCWorkspace.cfg MCWorkspace` (and so on for each run of
`PROJECT.json`), and `tlapm JobsProofs.tla` for the proofs. No run takes longer than
five minutes on two cores; a proof module takes from three to fifteen. A leaf names
`Zenon` where Zenon finds its proof: it is quicker than encoding the step for the
SMT solver, which gets slower as a module's record types add up.
