------------------------------- MODULE SignIn -------------------------------
(***************************************************************************)
(* Signing in and what ends it: passkey and identity-provider sign-ins,    *)
(* the session policy with its process-wide cache, the second-factor gate, *)
(* the cap on concurrent sessions, the roles the identity centre pushes    *)
(* and the console edits, and the one-time links of support sessions.  A   *)
(* handler interleaves with the others between its database statements.  A *)
(* cloud request commits its writes together; the centre and support exist *)
(* only there, so their writes appear in one step.  Sessions are numbered  *)
(* in the order of createdAt.                                              *)
(***************************************************************************)
EXTENDS Integers, FiniteSets

CONSTANTS Users,         \* accounts
          Handlers,      \* sign-in requests
          Editors,       \* console requests that edit an account
          Handoffs,      \* support hand-off links
          Redeemers,     \* requests that redeem a one-time code or link
          MaxConcurrent, \* the policy's maxConcurrentPerUser
          MaxSessions,   \* bound: sessions created in a behaviour
          MaxOidcSessions, \* bound: the same, with the identity provider
          MaxPushes,     \* bound: changes the centre makes
          SignScopes         \* bound: the groups of operations a behaviour combines

ASSUME SignInAssumption ==
    /\ MaxConcurrent \in Nat \ {0} /\ MaxSessions \in Nat /\ MaxOidcSessions \in 0..MaxSessions /\ MaxPushes \in Nat
    /\ IsFiniteSet(Handlers) /\ Handlers # {}

VARIABLES signScope,  \* the groups of operations of this behaviour
          account,    \* console role, the centre's role and status of a user
          orgRole,    \* the role each user has at the centre
          push,       \* membership calls under way
          pushes,     \* how many changes the centre made
          policy,     \* does the saved policy require a second factor?
          cache,      \* getSessionPolicy's cached answer
          loadCrossed,\* history: the policy was saved under a load
          session,    \* session rows
          handler,    \* the sign-in requests
          editor,     \* the account edits
          crossed,    \* history: users edited across a word of the centre
          created,    \* how many session rows were ever written
          handoff,    \* support links: used or not, and the sessions made
          redeemer    \* the requests that redeem a code or a link

signVars == <<signScope, account, orgRole, push, pushes, policy, cache, loadCrossed,
              session, handler, editor, crossed, created, handoff, redeemer>>

ConsoleRoles == {"ADMIN", "OPERATOR", "AUDITOR", "STAFF", "VENDOR"}
CenterRoles == {"ADMIN", "MEMBER"}
SessionIds == 1..MaxSessions
NoSession == [user |-> "none", kind |-> "none", proven |-> FALSE]
AtRest == [pc |-> "idle", user |-> "none", via |-> "none", amr |-> {}, stepped |-> FALSE,
           redirects |-> 0, claim |-> "none", pol |-> FALSE, evict |-> {}, verdict |-> "unchanged"]
NoEdit == [pc |-> "idle", user |-> "none", role |-> "none", center |-> "none"]

SessionBound == IF "oidc" \in signScope THEN MaxOidcSessions ELSE MaxSessions
Kind(s) == session[s].kind
SessionsOf(u) == {s \in SessionIds : session[s].user = u}
WebSessions(u) == {s \in SessionsOf(u) : Kind(s) = "web"}

SignInInit ==
    /\ signScope \in SignScopes
    /\ account = [u \in Users |-> [role |-> "STAFF", center |-> "none", active |-> TRUE]]
    /\ orgRole = [u \in Users |-> "MEMBER"]
    /\ push = {} /\ pushes = 0
    /\ policy = FALSE /\ cache = "empty" /\ loadCrossed = FALSE
    /\ session = [s \in SessionIds |-> NoSession]
    /\ handler = [h \in Handlers |-> AtRest]
    /\ editor = [e \in Editors |-> NoEdit]
    /\ crossed = {}
    /\ created = 0
    /\ handoff = [l \in Handoffs |-> [used |-> FALSE, made |-> 0]]
    /\ redeemer = [r \in Redeemers |-> "none"]

LinksUnchanged == UNCHANGED <<handoff, redeemer>>
SessionsUnchanged == LinksUnchanged /\ UNCHANGED <<session, created>>
AccountsUnchanged == UNCHANGED <<account, orgRole, push, pushes, editor, crossed>>
PolicyUnchanged == UNCHANGED <<policy, cache, loadCrossed>>

-----------------------------------------------------------------------------
(* The session policy and its cache *)

\* getSessionPolicy: the cached answer, or the row, which is then cached.
ReadPolicy(h) ==
    /\ handler[h].pc = "policy"
    /\ handler' = [handler EXCEPT
         ![h].pc = IF cache = "empty" THEN "keep" ELSE "gate",
         ![h].pol = IF cache = "empty" THEN policy ELSE cache = "required"]
    /\ AccountsUnchanged /\ PolicyUnchanged /\ SessionsUnchanged /\ UNCHANGED signScope

KeepPolicy(h) ==
    /\ handler[h].pc = "keep"
    /\ cache' = IF handler[h].pol THEN "required" ELSE "free"
    /\ handler' = [handler EXCEPT ![h].pc = "gate"]
    /\ AccountsUnchanged /\ SessionsUnchanged /\ UNCHANGED <<signScope, policy, loadCrossed>>

\* The cached policy is used for thirty seconds.
CacheExpires ==
    /\ cache # "empty"
    /\ cache' = "empty" /\ loadCrossed' = \E h \in Handlers : handler[h].pc = "keep" /\ handler[h].pol # policy
    /\ AccountsUnchanged /\ SessionsUnchanged /\ UNCHANGED <<signScope, policy, handler>>

\* saveSessionPolicy: the row is written and the cache dropped.
PolicySaved ==
    /\ policy' = ~policy /\ cache' = "empty"
    /\ loadCrossed' = (loadCrossed \/ \E h \in Handlers : handler[h].pc = "keep")

\* POST /api/admin/policy/session: the requirement is turned on only from a
\* session that would itself pass it.
SavePolicy(s) ==
    /\ Kind(s) = "web" /\ (~policy => session[s].proven)
    /\ PolicySaved
    /\ AccountsUnchanged /\ SessionsUnchanged /\ UNCHANGED <<signScope, handler>>

-----------------------------------------------------------------------------
(* Sign-in *)

\* hasSecondFactor: some method of the sign-in is a second factor.
HasSecondFactor(amr) == amr \cap {"otp", "mfa", "hwk", "swk", "sc", "fido"} # {}

\* passkeyAmr: possession, or two factors when the person was verified.
PasskeyAmr(verified) == IF verified THEN {"passkey", "mfa"} ELSE {"passkey"}

\* readAmr: the methods the token states; one that states none, or not as a
\* list, proves nothing.
ReadAmr(claim) == IF claim.list THEN claim.methods ELSE {}

\* A verified passkey response of an active user; its gate is the final answer.
PasskeyVerify(h, u, verified) ==
    /\ handler[h].pc = "idle" /\ account[u].active
    /\ handler' = [handler EXCEPT ![h] = [AtRest EXCEPT !.pc = "policy", !.user = u, !.via = "passkey",
                                                        !.amr = PasskeyAmr(verified), !.stepped = TRUE]]
    /\ AccountsUnchanged /\ PolicyUnchanged /\ SessionsUnchanged /\ UNCHANGED signScope

\* The callback holds a verified ID token: its methods (readAmr) and the
\* organisation's grant it carried when it was signed.
OidcToken(h, u, claim) ==
    /\ handler[h].pc \in {"idle", "redirected"}
    /\ handler[h].pc = "redirected" => handler[h].user = u
    /\ handler' = [handler EXCEPT ![h] = [AtRest EXCEPT !.pc = "policy", !.user = u, !.via = "oidc",
                     !.amr = ReadAmr(claim), !.claim = orgRole[u],
                     !.stepped = handler[h].pc = "redirected", !.redirects = handler[h].redirects]]
    /\ AccountsUnchanged /\ PolicyUnchanged /\ SessionsUnchanged /\ UNCHANGED signScope

\* secondFactorGate.
SecondFactorGate(required, amr, stepped) ==
    IF ~required \/ HasSecondFactor(amr) THEN "allow" ELSE IF stepped THEN "refuse" ELSE "step_up"

GateStep(h) ==
    LET at == handler[h]
        verdict == SecondFactorGate(at.pol, at.amr, at.stepped) IN
    /\ at.pc = "gate"
    /\ handler' = [handler EXCEPT ![h] =
         CASE verdict = "allow" -> [at EXCEPT !.pc = IF at.via = "oidc" THEN "reconcile" ELSE "list"]
           [] verdict = "step_up" -> [at EXCEPT !.pc = "redirected", !.redirects = at.redirects + 1]
           [] OTHER -> AtRest]
    /\ AccountsUnchanged /\ PolicyUnchanged /\ SessionsUnchanged /\ UNCHANGED signScope

-----------------------------------------------------------------------------
(* The centre's word *)

\* consoleRolesFor: the ceiling of a centre role.
ConsoleRolesFor(c) == IF c = "MEMBER" THEN {"OPERATOR", "AUDITOR", "STAFF"}
                                      ELSE {"ADMIN", "OPERATOR", "AUDITOR", "STAFF"}

\* accessRoleForGrant: the console role a centre role starts with.
AccessRoleForGrant(c) == IF c = "MEMBER" THEN "STAFF" ELSE "ADMIN"

\* reconcileCenterRole: what the row becomes, or that nothing changes.
ReconcileLoose(row, grant) ==
    IF grant = "none"
    THEN IF row.center # "none" THEN [row EXCEPT !.active = FALSE] ELSE row
    ELSE [row EXCEPT !.center = grant, !.active = TRUE]

Reconcile(row, grant) ==
    IF grant = "none"
    THEN IF row.center # "none" THEN [row EXCEPT !.active = FALSE] ELSE row
    ELSE [role |-> IF row.center # grant \/ row.role \notin ConsoleRolesFor(grant)
                   THEN AccessRoleForGrant(grant) ELSE row.role,
          center |-> grant, active |-> TRUE]

\* The callback reads the row and decides; a user the centre no longer grants
\* is disabled and refused.
CenterDecide(h) ==
    LET u == handler[h].user
        row == Reconcile(account[u], handler[h].claim) IN
    /\ handler[h].pc = "reconcile"
    /\ IF handler[h].claim = "none" /\ account[u].center # "none"
       THEN account' = [account EXCEPT ![u].active = FALSE] /\ handler' = [handler EXCEPT ![h] = AtRest]
       ELSE /\ UNCHANGED account
            /\ handler' = [handler EXCEPT ![h] =
                 IF ~row.active THEN AtRest
                 ELSE [handler[h] EXCEPT !.pc = "list", !.verdict = IF row = account[u] THEN "unchanged" ELSE row.role]]
    /\ UNCHANGED <<signScope, orgRole, push, pushes, editor, crossed>>
    /\ PolicyUnchanged /\ SessionsUnchanged

\* An owner changes a member's role at the centre, removes the member or signs
\* them out; the centre tells the workspace with a call that may be lost.
CentreChanges(u, r) ==
    /\ pushes < MaxPushes /\ r # orgRole[u]
    /\ orgRole' = [orgRole EXCEPT ![u] = r]
    /\ push' = push \cup {[user |-> u, role |-> r]}
    /\ pushes' = pushes + 1
    /\ PolicyUnchanged /\ SessionsUnchanged /\ UNCHANGED <<signScope, account, handler, editor, crossed>>

CentreSignsOut(u) ==
    /\ pushes < MaxPushes
    /\ push' = push \cup {[user |-> u, role |-> "signOut"]}
    /\ pushes' = pushes + 1
    /\ PolicyUnchanged /\ SessionsUnchanged /\ UNCHANGED <<signScope, account, orgRole, handler, editor, crossed>>

PushLost(m) ==
    /\ m \in push
    /\ push' = push \ {m}
    /\ PolicyUnchanged /\ SessionsUnchanged /\ UNCHANGED <<signScope, account, orgRole, pushes, handler, editor, crossed>>

\* POST /api/center/membership: only a user the centre manages is touched; an
\* applied change and a sign-out end every session of the user, the app's too.
EndSessionsOf(u) == session' = [s \in SessionIds |-> IF session[s].user = u THEN NoSession ELSE session[s]]

Membership(m) ==
    LET u == m.user
        row == Reconcile(account[u], m.role) IN
    /\ m \in push
    /\ push' = push \ {m}
    /\ IF account[u].center = "none" \/ (m.role \in CenterRoles /\ row = account[u])
       THEN UNCHANGED <<account, session, crossed>>
       ELSE /\ IF m.role = "signOut"
               THEN UNCHANGED <<account, crossed>>
               ELSE /\ account' = [account EXCEPT ![u] = row]
                    /\ crossed' = IF m.role = "none" THEN crossed ELSE crossed \ {u}
            /\ EndSessionsOf(u)
    /\ PolicyUnchanged /\ LinksUnchanged /\ UNCHANGED <<signScope, orgRole, pushes, handler, editor, created>>

\* PATCH /api/admin/users/[id] of a role: the ceiling is checked against the
\* row as it was read; of a status: only for a user the centre does not manage.
EditRead(e, u, r) ==
    /\ editor[e].pc = "idle"
    /\ account[u].center # "none" => r \in ConsoleRolesFor(account[u].center)
    /\ editor' = [editor EXCEPT ![e] = [pc |-> "write", user |-> u, role |-> r, center |-> account[u].center]]
    /\ PolicyUnchanged /\ SessionsUnchanged /\ UNCHANGED <<signScope, account, orgRole, push, pushes, handler, crossed>>

EditWrite(e) ==
    LET u == editor[e].user IN
    /\ editor[e].pc = "write"
    /\ IF editor[e].role = "status"
       THEN account' = [account EXCEPT ![u].active = ~@] /\ UNCHANGED crossed
       ELSE /\ account' = [account EXCEPT ![u].role = editor[e].role]
            /\ crossed' = IF editor[e].center # account[u].center THEN crossed \cup {u} ELSE crossed
    /\ editor' = [editor EXCEPT ![e] = NoEdit]
    /\ PolicyUnchanged /\ SessionsUnchanged /\ UNCHANGED <<signScope, orgRole, push, pushes, handler>>

-----------------------------------------------------------------------------
(* Sessions *)

\* evictionIds: the oldest live sessions beyond the cap less one.
EvictionIds(live) == {s \in live : Cardinality({r \in live : r > s}) >= MaxConcurrent - 1}

\* createSession: the user's live console sessions are listed, the excess is
\* deleted, and the row is written.
ListSessions(h) ==
    /\ handler[h].pc = "list"
    /\ handler' = [handler EXCEPT ![h].pc = "evict", ![h].evict = EvictionIds(WebSessions(handler[h].user))]
    /\ AccountsUnchanged /\ PolicyUnchanged /\ SessionsUnchanged /\ UNCHANGED signScope

EvictSessions(h) ==
    /\ handler[h].pc = "evict"
    /\ session' = [s \in SessionIds |-> IF s \in handler[h].evict THEN NoSession ELSE session[s]]
    /\ handler' = [handler EXCEPT ![h].pc = "create", ![h].evict = {}]
    /\ AccountsUnchanged /\ PolicyUnchanged /\ LinksUnchanged /\ UNCHANGED <<signScope, created>>

WriteSession(u, kind, amr) ==
    /\ created < SessionBound
    /\ created' = created + 1
    /\ session' = [session EXCEPT ![created + 1] = [user |-> u, kind |-> kind, proven |-> HasSecondFactor(amr)]]

\* The write is tried again without listing the live sessions again.
CreateSessionRetried(h) ==
    LET u == handler[h].user IN
    /\ handler[h].pc = "create"
    /\ WriteSession(u, "web", handler[h].amr)
    /\ IF handler[h].verdict = "unchanged"
       THEN UNCHANGED <<account, crossed>>
       ELSE /\ account' = [account EXCEPT ![u] = [role |-> handler[h].verdict, center |-> handler[h].claim, active |-> TRUE]]
            /\ crossed' = crossed \ {u}
    /\ handler' = [handler EXCEPT ![h].verdict = "unchanged"]
    /\ PolicyUnchanged /\ LinksUnchanged /\ UNCHANGED <<signScope, orgRole, push, pushes, editor>>

\* The row is written; a callback that decided to follow the centre commits
\* the account's new role with it.
CreateSession(h) ==
    LET u == handler[h].user IN
    /\ handler[h].pc = "create"
    /\ WriteSession(u, "web", handler[h].amr)
    /\ IF handler[h].verdict = "unchanged"
       THEN UNCHANGED <<account, crossed>>
       ELSE /\ account' = [account EXCEPT ![u] = [role |-> handler[h].verdict, center |-> handler[h].claim, active |-> TRUE]]
            /\ crossed' = crossed \ {u}
    /\ handler' = [handler EXCEPT ![h] = AtRest]
    /\ PolicyUnchanged /\ LinksUnchanged /\ UNCHANGED <<signScope, orgRole, push, pushes, editor>>

\* destroySession, revokeSession: rows go; one that is gone already is no error.
Ends(S) ==
    /\ \A s \in S : session[s] # NoSession
    /\ session' = [s \in SessionIds |-> IF s \in S THEN NoSession ELSE session[s]]
    /\ AccountsUnchanged /\ PolicyUnchanged /\ LinksUnchanged /\ UNCHANGED <<signScope, handler, created>>

\* The logout button ends the console's session and a support session with it.
Logout(s) == Ends({s})

\* An administrator ends another session, or several, never their own.
RevokeSession(own, s) == Kind(own) = "web" /\ s # own /\ Ends({s})
RevokeSessions(own, S) == Kind(own) = "web" /\ S \ {own} # {} /\ Ends(S \ {own})

\* getSessionUser finds the session idle for longer than the policy allows.
IdleTimeout(s) == Kind(s) \in {"web", "support"} /\ (session[s].user \in Users => account[session[s].user].active) /\ Ends({s})

\* endSupportSession.
EndSupportSession(s) == Kind(s) = "support" /\ Ends({s})

\* The sign-in fails on the way (deprovisioned by the directory, an error).
SignInFails(h) ==
    /\ handler[h].pc # "idle"
    /\ handler' = [handler EXCEPT ![h] = AtRest]
    /\ AccountsUnchanged /\ PolicyUnchanged /\ SessionsUnchanged /\ UNCHANGED signScope

-----------------------------------------------------------------------------
(* Support links *)

\* startSupportSession: the link is found unused.
HandoffRead(r, l) ==
    /\ redeemer[r] = "none" /\ ~handoff[l].used
    /\ redeemer' = [redeemer EXCEPT ![r] = l]
    /\ AccountsUnchanged /\ PolicyUnchanged
    /\ UNCHANGED <<signScope, handler, session, created, handoff>>

\* The session row, the conditional use of the link, and the removal of the
\* row when another request was first commit together.
HandoffCommit(r) ==
    LET l == redeemer[r] IN
    /\ redeemer[r] # "none"
    /\ IF handoff[l].used
       THEN UNCHANGED <<handoff, session, created>>
       ELSE /\ handoff' = [handoff EXCEPT ![l] = [used |-> TRUE, made |-> @.made + 1]]
            /\ WriteSession("support", "support", {})
    /\ redeemer' = [redeemer EXCEPT ![r] = "none"]
    /\ AccountsUnchanged /\ PolicyUnchanged /\ UNCHANGED <<signScope, handler>>

-----------------------------------------------------------------------------
Within(group, A) == group \in signScope /\ A

\* Whether a factor was proven matters only where the policy may require it.
Proofs == IF "policy" \in signScope THEN BOOLEAN ELSE {TRUE}
AmrClaims == IF "policy" \in signScope THEN [list : BOOLEAN, methods : {{"pwd"}, {"pwd", "otp"}}]
                                        ELSE {[list |-> TRUE, methods |-> {"pwd", "otp"}]}

SignInNext ==
    \/ \E h \in Handlers :
         \/ \E u \in Users, ok \in Proofs : Within("passkey", PasskeyVerify(h, u, ok))
         \/ \E u \in Users, claim \in AmrClaims : Within("oidc", OidcToken(h, u, claim))
         \/ ReadPolicy(h) \/ KeepPolicy(h) \/ GateStep(h) \/ CenterDecide(h)
         \/ ListSessions(h) \/ EvictSessions(h) \/ CreateSession(h) \/ SignInFails(h)
    \/ Within("policy", CacheExpires \/ \E s \in SessionIds : SavePolicy(s))
    \/ \E u \in Users : Within("centre", CentreSignsOut(u) \/ \E r \in CenterRoles \cup {"none"} : CentreChanges(u, r))
    \/ \E m \in push : PushLost(m) \/ Membership(m)
    \/ \E e \in Editors : Within("edit", EditWrite(e) \/ \E u \in Users, r \in {"ADMIN", "status"} : EditRead(e, u, r))
    \/ \E s \in SessionIds :
         Within("ends", Logout(s) \/ IdleTimeout(s) \/ EndSupportSession(s) \/ \E own \in SessionIds : RevokeSession(own, s))
    \/ \E own \in SessionIds, S \in SUBSET SessionIds : Within("ends", RevokeSessions(own, S))
    \/ \E r \in Redeemers : HandoffCommit(r) \/ \E l \in Handoffs : Within("ends", HandoffRead(r, l))

SignInSpec == SignInInit /\ [][SignInNext]_signVars

-----------------------------------------------------------------------------
(* Properties *)

\* The values the rows, the cache and the requests can take.
SignInTypeOK ==
    /\ \A u \in Users : account[u].role \in ConsoleRoles
                      /\ account[u].center \in CenterRoles \cup {"none"} /\ account[u].active \in BOOLEAN
    /\ cache \in {"empty", "required", "free"}
    /\ created \in 0..MaxSessions
    /\ \A s \in SessionIds : /\ Kind(s) \in {"none", "web", "support"}
                             /\ s > created => session[s] = NoSession
    /\ \A h \in Handlers : handler[h].pc = "idle" <=> handler[h] = AtRest

\* The cap of createSession is checked by a read before the writes, so sign-ins
\* that run together may pass it, but never by more than their number: a user
\* has at most the cap less one live console sessions for each round of
\* requests, plus one for each request under way.
SessionCapBound ==
    \A u \in Users : Cardinality(WebSessions(u)) <= MaxConcurrent - 1 + Cardinality(Handlers)

\* Within one process, the cached session policy differs from the saved one
\* only when a load was under way while the policy was saved.
PolicyCacheHonest == cache # "empty" /\ ~loadCrossed => (cache = "required") = policy

\* A user the centre manages holds no console role above the centre's ceiling,
\* unless a console edit that had read the row before the centre's word was
\* written after it.
CeilingKept ==
    \A u \in Users : account[u].center # "none" /\ u \notin crossed
                     => account[u].role \in ConsoleRolesFor(account[u].center)

\* An arrival that proves no second factor is sent back to the provider once,
\* never in a circle.
StepUpOnce == \A h \in Handlers : handler[h].redirects <= 1

\* Racing requests that open one support link yield one session.
SingleUse == \A l \in Handoffs : handoff[l].made <= 1

=============================================================================
