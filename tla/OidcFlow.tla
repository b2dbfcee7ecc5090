------------------------------ MODULE OidcFlow ------------------------------
(***************************************************************************)
(* The round trip to an identity provider: which provider a console signs  *)
(* in with, the one state cookie the tabs of a browser share, the callback *)
(* up to the place it lands, and the zone the organisation dictates.  The  *)
(* provider is external: it answers a start with a code and a token, and   *)
(* redeems a code once, for the client secret and the verifier it knows.   *)
(* What the landing does to accounts and sessions is in Enrollment and     *)
(* SignIn.                                                                 *)
(***************************************************************************)
EXTENDS Integers, FiniteSets, Sequences

CONSTANTS FlowTabs,     \* tabs of one browser
          Providers,    \* the tenant's possible identity providers
          Hosts,        \* kinds of console: "self", "tenant" or "platform"
          MaxStarts,    \* bound: round trips begun
          MaxSaves      \* bound: changes of the SSO settings

VARIABLES flowHost,   \* the console this browser is at
          envOidc,    \* is the platform's provider configured in the environment?
          ssoRow,     \* the tenant's OidcConfig row
          saves,      \* how often it was saved
          stateCookie,\* the browser's ca_oidc cookie
          starts,     \* round trips begun
          trip,       \* where each tab is
          redeemed,   \* codes the provider has redeemed
          landed,     \* history: how often a round trip ended signed in
          zone        \* the display zone and who set it

flowVars == <<flowHost, envOidc, ssoRow, saves, stateCookie, starts, trip, redeemed, landed, zone>>

Ids == 1..MaxStarts
NoRow == [has |-> FALSE, enabled |-> FALSE, issuer |-> "none", secret |-> "none"]
NoCookie == [id |-> 0, returnTo |-> 0]
NoTrip == [pc |-> "none", id |-> 0, issuer |-> "none", sent |-> NoCookie, cfg |-> "none", saves |-> 0, token |-> [ok |-> FALSE]]
Captivo == "captivo-id"

\* A tenant that names the platform's own provider in its row is left out.
ASSUME FlowAssumption ==
    MaxStarts \in Nat /\ MaxSaves \in Nat /\ "none" \notin Providers /\ Captivo \notin Providers

-----------------------------------------------------------------------------
(* Which provider *)

\* readPlatformOidc: all of the environment's values, and never on a
\* customer's own server.
ReadPlatformOidc == IF flowHost = "self" \/ ~envOidc THEN "none" ELSE Captivo

\* pickOidcSource: the tenant's own row wins, and a disabled row means no SSO.
PickOidcSource(row) ==
    IF row.has THEN IF row.enabled THEN "tenant" ELSE "none"
    ELSE IF ReadPlatformOidc # "none" THEN "platform" ELSE "none"

\* getOidcConfig: the provider in use and whether it has a secret.
GetOidcConfig(row) ==
    CASE PickOidcSource(row) = "tenant" -> [issuer |-> row.issuer, hasSecret |-> row.secret # "none"]
      [] PickOidcSource(row) = "platform" -> [issuer |-> Captivo, hasSecret |-> TRUE]
      [] OTHER -> [issuer |-> "none", hasSecret |-> FALSE]

\* getOidcSecret: whose secret the token request carries.
GetOidcSecret(row) ==
    CASE PickOidcSource(row) = "tenant" -> row.secret
      [] PickOidcSource(row) = "platform" -> Captivo
      [] OTHER -> "none"

\* saveOidcConfig: an upsert that keeps the stored secret unless one is given.
Upserted(row, enabled, issuer, given) ==
    [has |-> TRUE, enabled |-> enabled, issuer |-> issuer,
     secret |-> IF given THEN issuer ELSE row.secret]

\* POST /api/admin/sso: enabling asks for a secret, given now or found through
\* getOidcConfig.
SaveSso(enabled, issuer, given) ==
    /\ saves < MaxSaves /\ saves' = saves + 1
    /\ enabled /\ ~given => GetOidcConfig(ssoRow).hasSecret
    /\ ssoRow' = Upserted(ssoRow, enabled, issuer, given)
    /\ UNCHANGED <<flowHost, envOidc, stateCookie, starts, trip, redeemed, landed, zone>>

\* authorizationScope: the captivo scope is asked for only of an issuer that
\* advertises it; without it the token carries no grants.
CarriesGrants(issuer) == issuer = Captivo

-----------------------------------------------------------------------------
(* The round trip *)

FlowInit ==
    /\ flowHost \in Hosts /\ envOidc \in BOOLEAN
    /\ (flowHost = "self" => ~envOidc)
    /\ ssoRow = NoRow /\ saves = 0
    /\ stateCookie = NoCookie /\ starts = 0
    /\ trip = [t \in FlowTabs |-> NoTrip]
    /\ redeemed = {} /\ landed = [i \in Ids |-> 0]
    /\ zone = [value |-> "unset", center |-> FALSE]

\* setOidcState: the cookie of the previous round trip is overwritten.
SetOidcState(id) == stateCookie' = [id |-> id, returnTo |-> id]

\* GET /api/auth/oidc/start.
Start(t) ==
    LET cfg == GetOidcConfig(ssoRow) IN
    /\ trip[t].pc = "none" /\ starts < MaxStarts /\ cfg.issuer # "none"
    /\ starts' = starts + 1
    /\ SetOidcState(starts + 1)
    /\ trip' = [trip EXCEPT ![t] = [NoTrip EXCEPT !.pc = "provider", !.id = starts + 1, !.issuer = cfg.issuer,
                                                      !.saves = saves]]
    /\ UNCHANGED <<flowHost, envOidc, ssoRow, saves, redeemed, landed, zone>>

\* The provider sends the browser back with a code, or with an error; the
\* request carries the cookie the browser has at that moment.
Return(t) ==
    /\ trip[t].pc = "provider"
    /\ trip' = [trip EXCEPT ![t].pc = "callback", ![t].sent = stateCookie]
    /\ UNCHANGED <<flowHost, envOidc, ssoRow, saves, stateCookie, starts, redeemed, landed, zone>>

\* The callback address is loaded again in another tab.
Reload(t, u) ==
    /\ trip[t].pc \in {"callback", "exchange"} /\ trip[u].pc = "none"
    /\ trip' = [trip EXCEPT ![u] = [trip[t] EXCEPT !.pc = "callback", !.sent = stateCookie, !.cfg = "none"]]
    /\ UNCHANGED <<flowHost, envOidc, ssoRow, saves, stateCookie, starts, redeemed, landed, zone>>

\* clearOidcState: every answer of the callback drops the cookie.
Answer(t) == trip' = [trip EXCEPT ![t] = NoTrip] /\ stateCookie' = NoCookie

\* The handler's first checks: a configured provider, the cookie (readOidcState)
\* and its state.
StateMatchesAny(t) == trip[t].sent # NoCookie

StateMatches(t) == trip[t].sent # NoCookie /\ trip[t].sent.id = trip[t].id

CallbackCheck(t) ==
    LET cfg == GetOidcConfig(ssoRow) IN
    /\ trip[t].pc = "callback"
    /\ IF cfg.issuer # "none" /\ StateMatches(t)
       THEN trip' = [trip EXCEPT ![t].pc = "exchange", ![t].cfg = cfg.issuer] /\ UNCHANGED stateCookie
       ELSE Answer(t)
    /\ UNCHANGED <<flowHost, envOidc, ssoRow, saves, starts, redeemed, landed, zone>>

\* The token request: the provider configured now is given the code, a secret
\* read again from the row, and the cookie's verifier.
RedeemsCode(t) ==
    /\ trip[t].cfg = trip[t].issuer /\ GetOidcSecret(ssoRow) = trip[t].issuer
    /\ trip[t].sent.id = trip[t].id /\ trip[t].id \notin redeemed

Exchange(t, token) ==
    /\ trip[t].pc = "exchange"
    /\ IF RedeemsCode(t)
       THEN /\ redeemed' = redeemed \cup {trip[t].id}
            /\ trip' = [trip EXCEPT ![t].pc = "claims", ![t].token = token]
            /\ UNCHANGED stateCookie
       ELSE Answer(t) /\ UNCHANGED redeemed
    /\ UNCHANGED <<flowHost, envOidc, ssoRow, saves, starts, landed, zone>>

\* checkClaims: issuer, audience with its authorised party, nonce and a
\* verified address.
CheckClaims(token, issuer, id) ==
    /\ token.iss = issuer
    /\ "us" \in token.aud /\ (Cardinality(token.aud) > 1 => token.azp = "us")
    /\ token.nonce = id
    /\ token.verified

\* accessGrantFor and accessGrant: the grant for this console's organisation,
\* or any, in a token that was asked to carry grants.
AccessGrantFor(t) == CarriesGrants(trip[t].issuer) /\ trip[t].token.grant = "own"
AccessGrant(t) == CarriesGrants(trip[t].issuer) /\ trip[t].token.grant \in {"own", "other"}

\* Where a verified person lands: an account, a live invitation, the platform's
\* offer of a workspace, membership by the organisation's word, or nowhere.
Landing(t, person) ==
    CASE person.user -> "session"
      [] person.invite -> "invite"
      [] flowHost = "platform" /\ AccessGrant(t) -> "workspace"
      [] flowHost = "tenant" /\ trip[t].cfg = Captivo /\ AccessGrantFor(t) -> "join"
      [] OTHER -> "no_account"

\* grantTimeZone, applyCenterTimeZone: the organisation's zone is written as the
\* console's when the grant names it.
ApplyCenterTimeZone(z) == zone' = [value |-> z, center |-> TRUE]

Callback(t, person) ==
    LET signedIn == Landing(t, person) \in {"session", "invite", "join"} IN
    /\ trip[t].pc = "claims"
    /\ Answer(t)
    /\ IF CheckClaims(trip[t].token, trip[t].cfg, trip[t].sent.id)
       THEN /\ landed' = IF signedIn THEN [landed EXCEPT ![trip[t].sent.returnTo] = @ + 1] ELSE landed
            /\ IF flowHost = "tenant" /\ trip[t].cfg = Captivo /\ AccessGrantFor(t)
               THEN ApplyCenterTimeZone("org") ELSE UNCHANGED zone
       ELSE UNCHANGED <<landed, zone>>
    /\ UNCHANGED <<flowHost, envOidc, ssoRow, saves, starts, redeemed>>

CookieExpiresInBrowser ==
    /\ stateCookie # NoCookie /\ stateCookie' = NoCookie
    /\ UNCHANGED <<flowHost, envOidc, ssoRow, saves, starts, trip, redeemed, landed, zone>>

\* The person gives up at the provider, the provider answers with an error, or
\* its discovery document cannot be fetched.
LeaveTrip(t) ==
    /\ trip[t].pc \in {"provider", "callback"}
    /\ IF trip[t].pc = "callback" THEN Answer(t) ELSE trip' = [trip EXCEPT ![t] = NoTrip] /\ UNCHANGED stateCookie
    /\ UNCHANGED <<flowHost, envOidc, ssoRow, saves, starts, redeemed, landed, zone>>

\* Tokens the provider may sign for this trip: one per grant, one with another
\* authorised party and one whose address is not verified.
Token(t, grant, azp, verified) ==
    [ok |-> TRUE, iss |-> trip[t].issuer, aud |-> {"us", "them"}, azp |-> azp, nonce |-> trip[t].id,
     verified |-> verified, grant |-> grant]
Tokens(t) == {Token(t, g, "us", TRUE) : g \in {"none", "own", "other"}}
             \cup {Token(t, "own", "them", TRUE), Token(t, "own", "us", FALSE)}

FlowNext ==
    \/ \E enabled, given \in BOOLEAN, p \in Providers : SaveSso(enabled, p, given)
    \/ CookieExpiresInBrowser
    \/ \E t \in FlowTabs :
         \/ Start(t) \/ Return(t) \/ CallbackCheck(t) \/ LeaveTrip(t)
         \/ \E u \in FlowTabs : Reload(t, u)
         \/ \E token \in Tokens(t) : Exchange(t, token)
         \/ \E person \in [user : BOOLEAN, invite : BOOLEAN] : Callback(t, person)

FlowSpec == FlowInit /\ [][FlowNext]_flowVars

-----------------------------------------------------------------------------
(* Properties *)

\* The values of the settings, the cookie and the tabs.
FlowTypeOK ==
    /\ ssoRow.issuer \in Providers \cup {"none"} /\ ssoRow.secret \in Providers \cup {"none"}
    /\ stateCookie.id \in 0..starts /\ redeemed \subseteq 1..starts
    /\ \A t \in FlowTabs : /\ trip[t].pc \in {"none", "provider", "callback", "exchange", "claims"}
                           /\ trip[t].id \in 0..starts
                           /\ trip[t].pc = "claims" => trip[t].token.ok

\* However the tabs of a browser start, return and reload, a round trip signs
\* in at most once, and only for the round trip whose destination it follows:
\* one tab never lands where another was going.
LandsWhereItStarted ==
    /\ \A i \in Ids : landed[i] <= 1
    /\ \A t \in FlowTabs : trip[t].pc \in {"exchange", "claims"} => trip[t].sent.returnTo = trip[t].id

\* getOidcConfig and getOidcSecret, read at different moments, agree: while the
\* settings stay as they were at the start, a code goes back to its provider
\* with that provider's secret (a row whose secret is its issuer's).
SecretFitsProvider ==
    \A t \in FlowTabs :
        /\ trip[t].pc = "exchange" /\ trip[t].saves = saves
        /\ trip[t].issuer = Captivo \/ ssoRow.secret = ssoRow.issuer
        => trip[t].cfg = trip[t].issuer /\ GetOidcSecret(ssoRow) = trip[t].issuer

\* A tenant that turned its own federation off, or a customer's own server, is
\* not moved onto the platform's provider: no trip starts there.
FederationOffStaysOff ==
    [][\A t \in FlowTabs : trip[t].pc = "none" /\ trip'[t].pc = "provider" /\ trip'[t].issuer = Captivo
         => ~ssoRow.has /\ flowHost # "self"]_flowVars

\* Enabling the tenant's provider leaves it with a secret to exchange codes with.
\* Violated: the check takes the platform's secret for the tenant's own.
EnabledHasSecret == ssoRow.enabled => ssoRow.secret # "none"

=============================================================================
