----------------------------- MODULE Enrollment -----------------------------
(***************************************************************************)
(* How accounts and passkeys come to be: first-run setup, invitations and  *)
(* their revocation and resending, the passkey ceremonies of the browser   *)
(* forms, enrolment through an identity provider, extra passkeys and the   *)
(* TOTP recovery.  A request is a tab of a browser or an administrator's   *)
(* handler; every database statement of a self-hosted install commits by   *)
(* itself, while a cloud request is one READ COMMITTED transaction whose   *)
(* writes appear together when it commits.  The cookies are the browser's, *)
(* shared by its tabs.  Requests refused before their first effect (rate   *)
(* limit, malformed body, wrong origin) change nothing and are left out.   *)
(***************************************************************************)
EXTENDS Integers, FiniteSets

CONSTANTS Emails,       \* addresses
          Invites,      \* invitation rows
          Tabs,         \* browser tabs, each running one ceremony at a time
          Browsers,     \* cookie jars
          Admins,       \* administrators' requests
          InviteRoles,  \* the roles invitations are created with
          MaxUsers,     \* the workspace's maxUsers limit
          MaxIds,       \* bound: ceremonies and accounts of a behaviour
          Deployments,  \* the deployments to consider: self, tenant, platform
          EnrolScopes        \* bound: the groups of operations a behaviour combines

ASSUME EnrollmentAssumption ==
    /\ MaxIds \in Nat /\ MaxUsers \in Nat
    /\ Emails # {} /\ "setup" \notin Invites
    /\ Deployments \subseteq {"self", "tenant", "platform"}
    /\ \A s \in EnrolScopes : s \subseteq {"invites", "provider", "keys", "users"}

VARIABLES enrolScope,   \* the groups of operations of this behaviour
          jarOf,        \* the browser of each tab
          deployment,   \* self-hosted, a cloud tenant's host or the platform's
          next,         \* the next random id: of a ceremony, its uid and key
          user,         \* account rows, by id
          key,          \* passkey rows: owner and the userHandle they embed
          totp,         \* accounts with a confirmed TOTP secret
          invite,       \* invitation rows
          made,         \* history: the accounts an invitation was turned into
          jar,          \* cookies: ca_challenge, ca_recover, ca_session
          tab,          \* the ceremony a tab is in
          adm           \* the administrators' requests

enrolVars == <<enrolScope, jarOf, deployment, next, user, key, totp, invite, made, jar, tab, adm>>

AccountIds == 1..MaxIds
None == 0
Absent == [email |-> "none", role |-> "none", active |-> FALSE, via |-> "none"]
NoKey == [owner |-> None, handle |-> None, born |-> "none"]
NoChallenge == [ch |-> None, uid |-> None]
Idle == [pc |-> "idle", mode |-> "none", inv |-> "none", email |-> "none",
         ch |-> None, handle |-> None, uid |-> None]
NoRequest == [pc |-> "idle", inv |-> "none", email |-> "none", role |-> "none"]
NoInvite == [st |-> "none", email |-> "none", role |-> "none", expired |-> FALSE]

Cloud == deployment # "self"
Rows == {u \in AccountIds : user[u] # Absent}
EmailTaken(e) == \E u \in Rows : user[u].email = e
KeysOf(u) == {k \in AccountIds : key[k].owner = u}

\* resolveSetupRole: which account /setup creates here, if any.
SetupRole == CASE deployment = "self" -> "ADMIN"
               [] deployment = "platform" -> "PLATFORM"
               [] OTHER -> "refused"

\* getCurrentUser, for the ca_session cookie of the tab's browser.
CurrentUser(t) == LET u == jar[jarOf[t]].session
                  IN  IF u \in Rows /\ user[u].active THEN u ELSE None

\* verifyInvite: the row exists, is unused and has not expired.
InviteValid(i) == invite[i].st = "pending" /\ ~invite[i].expired

\* A cloud tenant is provisioned with the invitation of its first administrator.
Provisioned == [st |-> "pending", email |-> CHOOSE e \in Emails : TRUE, role |-> "ADMIN", expired |-> FALSE]

EnrolInit ==
    /\ enrolScope \in EnrolScopes /\ jarOf \in [Tabs -> Browsers] /\ deployment \in Deployments
    /\ next = 1
    /\ user = [u \in AccountIds |-> Absent]
    /\ key = [k \in AccountIds |-> NoKey]
    /\ totp = {}
    /\ invite = [i \in Invites |-> IF deployment = "tenant" /\ i = CHOOSE j \in Invites : TRUE
                                   THEN Provisioned ELSE NoInvite]
    /\ made = [i \in Invites |-> {}]
    /\ jar = [b \in Browsers |-> [challenge |-> NoChallenge, recover |-> None, session |-> None]]
    /\ tab = [t \in Tabs |-> Idle]
    /\ adm = [a \in Admins |-> NoRequest]

-----------------------------------------------------------------------------
(* The cookies *)

\* setChallenge: the one challenge cookie of the browser is overwritten.
SetChallenge(t, c, uid) == jar' = [jar EXCEPT ![jarOf[t]].challenge = [ch |-> c, uid |-> uid]]

\* readChallenge and verifyRegistration: the response answers the challenge
\* the cookie holds.
ChallengeAnswered(t) ==
    /\ jar[jarOf[t]].challenge.ch # None
    /\ jar[jarOf[t]].challenge.ch = tab[t].ch

\* createSession, ca_session set and ca_challenge cleared, as every ceremony ends.
SignedIn(t, u) ==
    jar' = [jar EXCEPT ![jarOf[t]].session = u, ![jarOf[t]].challenge = NoChallenge]

\* The five minutes of ca_challenge and the ten of ca_recover run out.
CookieExpires(b) ==
    /\ \/ jar[b].challenge # NoChallenge /\ jar' = [jar EXCEPT ![b].challenge = NoChallenge]
       \/ jar[b].recover # None /\ jar' = [jar EXCEPT ![b].recover = None]
    /\ UNCHANGED <<enrolScope, jarOf, deployment, next, user, key, totp, invite, made, tab, adm>>

-----------------------------------------------------------------------------
(* Passkey ceremonies: the options call *)

\* A form submits: the options call answers with a fresh challenge for the
\* account `handle`, and the browser prompts for the passkey.
Prompted(t, mode, i, e, handle, uid) ==
    /\ tab' = [tab EXCEPT ![t] = [pc |-> "prompt", mode |-> mode, inv |-> i, email |-> e,
                                  ch |-> next, handle |-> handle, uid |-> None]]
    /\ SetChallenge(t, next, uid)
    /\ next' = next + 1
    /\ UNCHANGED <<enrolScope, jarOf, deployment, user, key, totp, invite, made, adm>>

SetupOptions(t, e) ==
    /\ tab[t] = Idle /\ next \in AccountIds
    /\ SetupRole # "refused"
    /\ Rows = {}
    /\ Prompted(t, "setup", "none", e, next, next)

InviteOptions(t, i) ==
    /\ tab[t] = Idle /\ next \in AccountIds
    /\ InviteValid(i)
    /\ Prompted(t, "invite", i, invite[i].email, next, next)

AddOptions(t) ==
    /\ tab[t] = Idle /\ next \in AccountIds
    /\ CurrentUser(t) # None
    /\ Prompted(t, "add", "none", "none", CurrentUser(t), None)

\* The recovery form goes on to the options call once its code was accepted.
RecoverOptions(t) ==
    LET u == jar[jarOf[t]].recover IN
    /\ tab[t].pc = "recovered" /\ next \in AccountIds
    /\ u \in Rows /\ user[u].active
    /\ Prompted(t, "recover", "none", "none", u, None)

\* The person cancels the prompt, a refusal has been shown, or the server
\* restarts under the request: the form may be submitted again.
Abandon(t) ==
    /\ tab[t] # Idle
    /\ tab' = [tab EXCEPT ![t] = Idle]
    /\ UNCHANGED <<enrolScope, jarOf, deployment, next, user, key, totp, invite, made, jar, adm>>

-----------------------------------------------------------------------------
(* Passkey ceremonies: the verify call *)

\* The checks of a call that creates an account passed; uid is the one the
\* challenge cookie carries.
Checked(t) ==
    /\ tab' = [tab EXCEPT ![t].pc = "create", ![t].uid = jar[jarOf[t]].challenge.uid]
    /\ UNCHANGED <<enrolScope, jarOf, deployment, next, user, key, totp, invite, made, jar, adm>>

Refused(t) ==
    /\ tab' = [tab EXCEPT ![t] = [Idle EXCEPT !.mode = "refused"]]
    /\ UNCHANGED <<enrolScope, jarOf, deployment, next, user, key, totp, invite, made, jar, adm>>

\* user.create with the challenge's uid and passkey.create.
NewAccount(t, role, i) ==
    /\ user' = [user EXCEPT ![tab[t].uid] = [email |-> tab[t].email, role |-> role,
                                             active |-> TRUE, via |-> i]]
    /\ key' = [key EXCEPT ![tab[t].ch] = [owner |-> tab[t].uid, handle |-> tab[t].handle,
                                          born |-> tab[t].mode]]

SetupVerify(t) ==
    /\ tab[t].pc = "prompt" /\ tab[t].mode = "setup"
    /\ IF ChallengeAnswered(t) /\ Rows = {} THEN Checked(t) ELSE Refused(t)

SetupCreate(t) ==
    /\ tab[t].pc = "create" /\ tab[t].mode = "setup"
    /\ IF EmailTaken(tab[t].email)
       THEN Refused(t)
       ELSE /\ NewAccount(t, SetupRole, "setup")
            /\ SignedIn(t, tab[t].uid)
            /\ tab' = [tab EXCEPT ![t] = Idle]
            /\ UNCHANGED <<enrolScope, jarOf, deployment, next, totp, invite, made, adm>>

InviteVerify(t) ==
    /\ tab[t].pc = "prompt" /\ tab[t].mode = "invite"
    /\ IF InviteValid(tab[t].inv) /\ ChallengeAnswered(t) THEN Checked(t) ELSE Refused(t)

\* The account, its passkey and the consumption of the invitation.  In the
\* cloud `db.$transaction` runs on the request's own transaction, so the error
\* thrown when the invitation is no longer pending undoes nothing: the
\* request answers 410 and commits the account (txAwareTransaction).
EnrolUnconditional(t) ==
    LET i == tab[t].inv IN
    /\ tab[t].pc = "create" /\ tab[t].mode = "invite"
    /\ IF EmailTaken(tab[t].email)
       THEN Refused(t)
       ELSE /\ NewAccount(t, invite[i].role, i)
            /\ made' = [made EXCEPT ![i] = @ \cup {tab[t].uid}]
            /\ SignedIn(t, tab[t].uid)
            /\ tab' = [tab EXCEPT ![t] = Idle]
            /\ UNCHANGED <<enrolScope, jarOf, deployment, next, totp, invite, adm>>

Enrol(t) ==
    LET i == tab[t].inv IN
    /\ tab[t].pc = "create" /\ tab[t].mode = "invite"
    /\ IF EmailTaken(tab[t].email) \/ (invite[i].st # "pending" /\ ~Cloud)
       THEN Refused(t)
       ELSE /\ NewAccount(t, invite[i].role, i)
            /\ made' = [made EXCEPT ![i] = @ \cup {tab[t].uid}]
            /\ IF invite[i].st = "pending"
               THEN /\ invite' = [invite EXCEPT ![i].st = "used"]
                    /\ SignedIn(t, tab[t].uid)
                    /\ tab' = [tab EXCEPT ![t] = Idle]
               ELSE /\ tab' = [tab EXCEPT ![t] = [Idle EXCEPT !.mode = "refused"]]
                    /\ UNCHANGED <<invite, jar>>
            /\ UNCHANGED <<enrolScope, jarOf, deployment, next, totp, adm>>

\* One more passkey for an account that is signed in, or that recovered.
KeyAdded(t, u) ==
    /\ key' = [key EXCEPT ![tab[t].ch] = [owner |-> u, handle |-> tab[t].handle, born |-> tab[t].mode]]
    /\ tab' = [tab EXCEPT ![t] = Idle]
    /\ UNCHANGED <<enrolScope, jarOf, deployment, next, user, totp, invite, made, adm>>

AddVerify(t) ==
    /\ tab[t].pc = "prompt" /\ tab[t].mode = "add"
    /\ IF CurrentUser(t) # None /\ ChallengeAnswered(t)
       THEN /\ KeyAdded(t, CurrentUser(t))
            /\ jar' = [jar EXCEPT ![jarOf[t]].challenge = NoChallenge]
       ELSE Refused(t)

RecoverVerify(t) ==
    LET u == jar[jarOf[t]].recover IN
    /\ tab[t].pc = "prompt" /\ tab[t].mode = "recover"
    /\ IF u \in Rows /\ user[u].active /\ ChallengeAnswered(t)
       THEN /\ KeyAdded(t, u)
            /\ jar' = [jar EXCEPT ![jarOf[t]] = [challenge |-> NoChallenge, recover |-> None, session |-> u]]
       ELSE Refused(t)

-----------------------------------------------------------------------------
(* Recovery codes and passkeys of a signed-in person *)

\* POST /api/recovery after a correct code, and DELETE /api/recovery.
SaveTotp(t) ==
    /\ CurrentUser(t) # None
    /\ totp' = totp \cup {CurrentUser(t)}
    /\ UNCHANGED <<enrolScope, jarOf, deployment, next, user, key, invite, made, jar, tab, adm>>

DropTotp(t) ==
    /\ CurrentUser(t) \in totp
    /\ totp' = totp \ {CurrentUser(t)}
    /\ UNCHANGED <<enrolScope, jarOf, deployment, next, user, key, invite, made, jar, tab, adm>>

\* POST /api/auth/recover with the address and the code of account u.
Recover(t, u) ==
    /\ tab[t] = Idle
    /\ u \in Rows /\ user[u].active /\ u \in totp
    /\ jar' = [jar EXCEPT ![jarOf[t]].recover = u]
    /\ tab' = [tab EXCEPT ![t].pc = "recovered"]
    /\ UNCHANGED <<enrolScope, jarOf, deployment, next, user, key, totp, invite, made, adm>>

\* DELETE /api/passkeys/[id]: the owner's passkeys are counted, then one goes.
CountKeys(t, k) ==
    LET u == CurrentUser(t) IN
    /\ tab[t] = Idle
    /\ u # None /\ key[k].owner = u
    /\ Cardinality(KeysOf(u)) > 1
    /\ tab' = [tab EXCEPT ![t].pc = "counted", ![t].ch = k]
    /\ UNCHANGED <<enrolScope, jarOf, deployment, next, user, key, totp, invite, made, jar, adm>>

DeleteKey(t) ==
    /\ tab[t].pc = "counted"
    /\ key' = [key EXCEPT ![tab[t].ch] = NoKey]
    /\ tab' = [tab EXCEPT ![t] = Idle]
    /\ UNCHANGED <<enrolScope, jarOf, deployment, next, user, totp, invite, made, jar, adm>>

-----------------------------------------------------------------------------
(* Arriving from the identity provider with a verified address *)

\* The callback finds an account and signs it in.
OidcKnown(t, u) ==
    /\ tab[t] = Idle
    /\ u \in Rows /\ user[u].active
    /\ jar' = [jar EXCEPT ![jarOf[t]].session = u]
    /\ UNCHANGED <<enrolScope, jarOf, deployment, next, user, key, totp, invite, made, tab, adm>>

\* No account: the callback looks for a live invitation of the address.
OidcLookup(t, e) ==
    /\ tab[t] = Idle /\ ~EmailTaken(e)
    /\ \E i \in Invites :
          /\ InviteValid(i) /\ invite[i].email = e
          /\ tab' = [tab EXCEPT ![t] = [Idle EXCEPT !.pc = "consume", !.mode = "oidc", !.inv = i, !.email = e]]
    /\ UNCHANGED <<enrolScope, jarOf, deployment, next, user, key, totp, invite, made, jar, adm>>

\* user.create and startSession for the invitation the request consumed.
OidcAccount(t) ==
    /\ user' = [user EXCEPT ![next] = [email |-> tab[t].email, role |-> invite[tab[t].inv].role,
                                       active |-> TRUE, via |-> tab[t].inv]]
    /\ made' = [made EXCEPT ![tab[t].inv] = @ \cup {next}]
    /\ jar' = [jar EXCEPT ![jarOf[t]].session = next]
    /\ next' = next + 1
    /\ tab' = [tab EXCEPT ![t] = Idle]
    /\ UNCHANGED <<enrolScope, jarOf, deployment, key, totp, adm>>

\* The conditional consumption.  A self-hosted install commits it at once; in
\* the cloud it commits with the account, and a failed user.create takes it back.
OidcConsume(t) ==
    LET i == tab[t].inv IN
    /\ tab[t].pc = "consume" /\ next \in AccountIds
    /\ IF invite[i].st # "pending" \/ (Cloud /\ EmailTaken(tab[t].email))
       THEN Refused(t)
       ELSE /\ invite' = [invite EXCEPT ![i].st = "used"]
            /\ IF Cloud
               THEN OidcAccount(t)
               ELSE /\ tab' = [tab EXCEPT ![t].pc = "consumed"]
                    /\ UNCHANGED <<enrolScope, jarOf, deployment, next, user, key, totp, made, jar, adm>>

OidcCreate(t) ==
    /\ tab[t].pc = "consumed" /\ next \in AccountIds
    /\ IF EmailTaken(tab[t].email)
       THEN Refused(t)
       ELSE OidcAccount(t) /\ UNCHANGED invite

-----------------------------------------------------------------------------
(* Administrators: invitations and accounts *)

\* The requests below come from an administrator of the workspace.
AdminPresent == \E u \in Rows : user[u].role \in {"ADMIN", "PLATFORM"} /\ user[u].active

\* POST /api/admin/invites: the address has no account and the workspace is
\* within its limit; then the row is written.
InviteCheck(a, i, e, r) ==
    /\ adm[a] = NoRequest /\ invite[i] = NoInvite
    /\ ~EmailTaken(e)
    /\ Cardinality(Rows) < MaxUsers
    /\ adm' = [adm EXCEPT ![a] = [pc |-> "write", inv |-> i, email |-> e, role |-> r]]
    /\ UNCHANGED <<enrolScope, jarOf, deployment, next, user, key, totp, invite, made, jar, tab>>

\* createInvite: a row with a token of its own, valid for the invitation TTL.
CreateInvite(a, i) ==
    invite' = [invite EXCEPT ![i] = [st |-> "pending", email |-> adm[a].email,
                                     role |-> adm[a].role, expired |-> FALSE]]

InviteWrite(a) ==
    /\ adm[a].pc = "write"
    /\ IF invite[adm[a].inv] = NoInvite THEN CreateInvite(a, adm[a].inv) ELSE UNCHANGED invite
    /\ adm' = [adm EXCEPT ![a] = NoRequest]
    /\ UNCHANGED <<enrolScope, jarOf, deployment, next, user, key, totp, made, jar, tab>>

InviteExpires(i) ==
    /\ InviteValid(i)
    /\ invite' = [invite EXCEPT ![i].expired = TRUE]
    /\ UNCHANGED <<enrolScope, jarOf, deployment, next, user, key, totp, made, jar, tab, adm>>

\* DELETE /api/admin/invites/[id] and POST .../resend read the row first ...
RevokeRead(a, i, op) ==
    /\ adm[a] = NoRequest /\ invite[i].st = "pending"
    /\ adm' = [adm EXCEPT ![a] = [pc |-> op, inv |-> i, email |-> invite[i].email, role |-> invite[i].role]]
    /\ UNCHANGED <<enrolScope, jarOf, deployment, next, user, key, totp, invite, made, jar, tab>>

\* ... and delete it only while it is still pending.
RevokeDelete(a) ==
    /\ adm[a].pc = "revoke"
    /\ invite' = [invite EXCEPT ![adm[a].inv].st = IF @ = "pending" THEN "gone" ELSE @]
    /\ adm' = [adm EXCEPT ![a] = NoRequest]
    /\ UNCHANGED <<enrolScope, jarOf, deployment, next, user, key, totp, made, jar, tab>>

\* Resending deletes the pending row, then mints a new one for the address; in
\* the cloud the two commit together.
ResendDelete(a) ==
    LET old == adm[a].inv IN
    /\ adm[a].pc = "resend"
    /\ IF invite[old].st # "pending"
       THEN adm' = [adm EXCEPT ![a] = NoRequest] /\ UNCHANGED invite
       ELSE IF Cloud
       THEN \E j \in Invites :
              /\ invite[j] = NoInvite
              /\ invite' = [invite EXCEPT ![old].st = "gone",
                                          ![j] = [invite[old] EXCEPT !.expired = FALSE]]
              /\ adm' = [adm EXCEPT ![a] = NoRequest]
       ELSE /\ invite' = [invite EXCEPT ![old].st = "gone"]
            /\ adm' = [adm EXCEPT ![a].pc = "mint"]
    /\ UNCHANGED <<enrolScope, jarOf, deployment, next, user, key, totp, made, jar, tab>>

ResendMint(a) ==
    /\ adm[a].pc = "mint"
    /\ \E j \in Invites : invite[j] = NoInvite /\ CreateInvite(a, j)
    /\ adm' = [adm EXCEPT ![a] = NoRequest]
    /\ UNCHANGED <<enrolScope, jarOf, deployment, next, user, key, totp, made, jar, tab>>

\* PATCH /api/admin/users/[id] of the status.
SetActive(u, b) ==
    /\ u \in Rows /\ user[u].role \notin {"ADMIN", "PLATFORM"} /\ user[u].active # b
    /\ user' = [user EXCEPT ![u].active = b]
    /\ UNCHANGED <<enrolScope, jarOf, deployment, next, key, totp, invite, made, jar, tab, adm>>

\* DELETE /api/admin/users/[id], with its cascade to passkeys and TOTP secret.
DeleteUser(u) ==
    /\ u \in Rows /\ user[u].role # "ADMIN"
    /\ user' = [user EXCEPT ![u] = Absent]
    /\ key' = [k \in AccountIds |-> IF key[k].owner = u THEN NoKey ELSE key[k]]
    /\ totp' = totp \ {u}
    /\ UNCHANGED <<enrolScope, jarOf, deployment, next, invite, made, jar, tab, adm>>

-----------------------------------------------------------------------------
SetupStep(t) == SetupVerify(t) \/ SetupCreate(t) \/ \E e \in Emails : SetupOptions(t, e)

InviteStep(t) == InviteVerify(t) \/ Enrol(t) \/ \E i \in Invites : InviteOptions(t, i)

ProviderStep(t) ==
    \/ OidcConsume(t) \/ OidcCreate(t)
    \/ \E e \in Emails : OidcLookup(t, e)
    \/ \E u \in AccountIds : OidcKnown(t, u)

KeyStep(t) ==
    \/ AddOptions(t) \/ AddVerify(t) \/ RecoverOptions(t) \/ RecoverVerify(t)
    \/ SaveTotp(t) \/ DropTotp(t) \/ DeleteKey(t)
    \/ \E u \in AccountIds : Recover(t, u)
    \/ \E k \in AccountIds : CountKeys(t, k)

AdminStep(a) ==
    \/ \E i \in Invites, e \in Emails, r \in InviteRoles : InviteCheck(a, i, e, r)
    \/ \E i \in Invites, op \in {"revoke", "resend"} : RevokeRead(a, i, op)
    \/ InviteWrite(a) \/ RevokeDelete(a) \/ ResendDelete(a) \/ ResendMint(a)

EnrolNext ==
    \/ \E t \in Tabs : SetupStep(t) \/ InviteStep(t) \/ Abandon(t)
    \/ "provider" \in enrolScope /\ \E t \in Tabs : ProviderStep(t)
    \/ "keys" \in enrolScope /\ \E t \in Tabs : KeyStep(t)
    \/ "invites" \in enrolScope /\ AdminPresent /\ \E a \in Admins : AdminStep(a)
    \/ \E b \in Browsers : CookieExpires(b)
    \/ \E i \in Invites : InviteExpires(i)
    \/ "users" \in enrolScope
       /\ \E u \in AccountIds : DeleteUser(u) \/ SetActive(u, TRUE) \/ SetActive(u, FALSE)

EnrolSpec == EnrolInit /\ [][EnrolNext]_enrolVars

-----------------------------------------------------------------------------
\* Type correctness of the rows, cookies and requests.
EnrolTypeOK ==
    /\ deployment \in Deployments /\ next \in 1..MaxIds + 1
    /\ \A u \in AccountIds : /\ user[u].via \in Invites \cup {"setup", "none"}
                     /\ user[u].role \in InviteRoles \cup {"ADMIN", "PLATFORM", "none"}
    /\ \A k \in AccountIds : key[k].owner \in AccountIds \cup {None} /\ key[k].handle \in AccountIds \cup {None}
    /\ totp \subseteq AccountIds
    /\ \A i \in Invites : invite[i].st \in {"none", "pending", "used", "gone"} /\ made[i] \subseteq AccountIds
    /\ \A b \in Browsers : jar[b].session \in AccountIds \cup {None} /\ jar[b].recover \in AccountIds \cup {None}
    /\ \A t \in Tabs : tab[t].uid \in AccountIds \cup {None} /\ tab[t].ch \in AccountIds \cup {None}

\* On a self-hosted install an invitation becomes at most one account, however
\* its passkey enrolments, the identity provider's callback, a resend, a
\* revocation and the deletion of the account interleave.
OneAccountPerInvite == deployment = "self" => \A i \in Invites : Cardinality(made[i]) <= 1

\* On a self-hosted install an account that came from an invitation came from
\* one that is recorded as used: never from one revoked or replaced under it.
InviteSpent == deployment = "self" => \A i \in Invites : made[i] # {} => invite[i].st = "used"

\* The same wherever the manager runs, as the enrolment's comment promises
\* ("if one fails, none of it is committed").  Violated in the cloud, where the
\* account of an invitation revoked meanwhile commits with its request.
InviteSpentAnywhere == \A i \in Invites : made[i] # {} => invite[i].st = "used"

\* A verify call that is refused has created nothing (self-hosted).
RefusedMakesNothing ==
    [][\A t \in Tabs : deployment = "self" /\ tab[t].pc \in {"create", "consumed"} /\ tab'[t].mode = "refused"
          => UNCHANGED <<user, key>>]_enrolVars

\* The userHandle a passkey embeds is the id of the account it was created with.
HandleIsUser ==
    \A k \in AccountIds : key[k].born \in {"setup", "invite"} => key[k].handle = key[k].owner

\* Once an account exists and no setup request has already passed its check,
\* first-run setup creates no further account, whatever ceremonies are pending.
SetupClosed ==
    [][Rows # {} /\ (\A t \in Tabs : ~(tab[t].pc = "create" /\ tab[t].mode = "setup"))
         => /\ \A u \in AccountIds : user'[u].via = "setup" => user[u].via = "setup"
            /\ \A t \in Tabs : ~(tab'[t].pc = "create" /\ tab'[t].mode = "setup")]_enrolVars
=============================================================================
