---------------------------- MODULE AccessGrants ----------------------------
(***************************************************************************)
(* Access grants: who may reach which site, and when.                      *)
(*                                                                         *)
(* A vendor asks for a grant, an operator approves, denies, creates, edits *)
(* or revokes one, the vendor withdraws a request, and every login         *)
(* reconciles the grants that come from directory groups.  Each handler    *)
(* reads, decides and writes in separate statements; a handler between two *)
(* of them is a record in requests, edits, withdrawals or syncs.  A        *)
(* conditional UPDATE or DELETE re-evaluates its WHERE under the row lock  *)
(* and is one step.  An instant is a natural number and stands for a day   *)
(* of the maximum grant duration; a schedule is the set of instants inside *)
(* its hours (Always when the grant has none).                             *)
(***************************************************************************)
EXTENDS Integers, Sequences, FiniteSets, Functions

CONSTANTS Users, Sites,     \* rows of User and of Site
          GrantIds,         \* the ids grants are given (bounds how many are ever made)
          Handlers,         \* request handlers that may be running at once
          NoDate,           \* startsAt or endsAt is null
          InputDates,       \* the dates people enter
          Schedules,        \* the weekly schedules people choose
          Policies,         \* the maximum grant durations an admin sets (0: no cap)
          DirectoryEnabled, \* the directory is configured and enabled
          RoleGroup,        \* a group mapping that gives a role and no site
          MaxTime           \* bound on the clock

ASSUME DateAssumption ==
    /\ NoDate \notin Nat
    /\ InputDates \subseteq Nat \cup {NoDate}
    /\ Schedules \subseteq SUBSET (0..MaxTime)
    /\ Policies \subseteq Nat
    /\ MaxTime \in Nat
    /\ RoleGroup \notin Sites
    /\ IsFiniteSet(GrantIds)

VARIABLES now, policy,
          user,       \* status of each user row, "GONE" once it is deleted
          managed,    \* users with directoryManaged set
          sites,      \* the site rows that exist
          groups,     \* what each user's directory groups map to at this moment
          grants,     \* the AccessGrant table, by id
          used,       \* ids given out so far
          decisions,  \* how often decideGrant has updated each grant
          requests, edits, withdrawals, syncs

vars == <<now, policy, user, managed, sites, groups, grants, used, decisions,
          requests, edits, withdrawals, syncs>>
world == <<now, policy, user, managed, sites, groups>>
handlers == <<requests, edits, withdrawals, syncs>>

Dates == Nat \cup {NoDate}
Always == 0..MaxTime
Targets == Sites \cup {RoleGroup}

Grant == [user : Users, site : Sites, start : Dates, end : Dates,
          schedule : SUBSET Always, status : {"ACTIVE", "REVOKED", "DENIED"},
          needs : BOOLEAN, approved : BOOLEAN, directory : BOOLEAN]
Request == [h : Handlers, pc : {"held", "pending", "create", "grant"},
            user : Users, site : Sites, start : Dates, end : Dates,
            schedule : SUBSET Always]
Edit == [h : Handlers, grant : GrantIds, start : Dates, end : Nat]
Withdrawal == [h : Handlers, grant : GrantIds, user : Users]
Sync == [h : Handlers, user : Users, managed : BOOLEAN,
         pc : {"resolve", "read", "deprovision", "provision"},
         matched : SUBSET Targets, current : SUBSET Sites]

Init ==
    /\ now = 0
    /\ policy \in Policies
    /\ user = [u \in Users |-> "ACTIVE"]
    /\ managed = {}
    /\ sites = Sites
    /\ groups = [u \in Users |-> {}]
    /\ grants = [g \in {} |-> {}]
    /\ used = {}
    /\ decisions = [g \in GrantIds |-> 0]
    /\ requests = {} /\ edits = {} /\ withdrawals = {} /\ syncs = {}

-----------------------------------------------------------------------------
\* What a grant allows.

Live(g) == g.status = "ACTIVE"
Pending(g) == Live(g) /\ g.needs /\ ~g.approved

\* Mutant: the end of the window is tested before its start, and a pending
\* request before both.
ClassifyPendingFirst(g, t) ==
    IF g.status # "ACTIVE" THEN (IF g.status = "REVOKED" THEN "revoked" ELSE "denied")
    ELSE IF g.end # NoDate /\ t >= g.end THEN "expired"
    ELSE IF g.needs /\ ~g.approved THEN "pending_approval"
    ELSE IF g.start # NoDate /\ t < g.start THEN "not_yet"
    ELSE IF t \notin g.schedule THEN "off_schedule" ELSE "allow"

ClassifyGrant(g, t) ==
    IF g.status = "REVOKED" THEN "revoked"
    ELSE IF g.status = "DENIED" THEN "denied"
    ELSE IF g.start # NoDate /\ t < g.start THEN "not_yet"
    ELSE IF g.end # NoDate /\ t > g.end THEN "expired"
    ELSE IF g.needs /\ ~g.approved THEN "pending_approval"
    ELSE IF t \notin g.schedule THEN "off_schedule"
    ELSE "allow"

DENY_PRIORITY == [pending_approval |-> 5, not_yet |-> 4, off_schedule |-> 3,
                  expired |-> 2, revoked |-> 1, denied |-> 1]

GrantsOf(u, s) == {g \in DOMAIN grants : grants[g].user = u /\ grants[g].site = s}

\* The answer so far against one more grant's.
Better(best, d) ==
    IF best = "allow" THEN best
    ELSE IF d = "allow" \/ best = "none" \/ DENY_PRIORITY[d] > DENY_PRIORITY[best]
    THEN d ELSE best

\* The loop over the grants in the order the query returned them: the first
\* grant that allows ends it.
Best(order, t) ==
    LET best[n \in 0..Len(order)] ==
          IF n = 0 THEN "none"
          ELSE Better(best[n-1], ClassifyGrant(grants[order[n]], t))
    IN best[Len(order)]

EvaluateAccess(u, order, t) ==
    IF user[u] # "ACTIVE" THEN "user_disabled"
    ELSE IF order = <<>> THEN "no_grant"
    ELSE Best(order, t)

\* A site the user holds or is getting: anything but revoked, denied, expired.
Holds(u, s) ==
    \E g \in GrantsOf(u, s) :
        ClassifyGrant(grants[g], now) \notin {"revoked", "denied", "expired"}

\* Mutant: a window of one day too many passes.
CapErrorOffByOne(start, end) ==
    /\ policy > 0
    /\ \/ end = NoDate
       \/ end - (IF start = NoDate THEN now ELSE start) > policy + 1

GrantCapError(start, end) ==
    /\ policy > 0
    /\ \/ end = NoDate
       \/ end - (IF start = NoDate THEN now ELSE start) > policy

GrantEndsAtError(end, start) == end <= now \/ (start # NoDate /\ end <= start)

-----------------------------------------------------------------------------
\* The table.

Busy == {x.h : x \in requests} \cup {x.h : x \in edits}
            \cup {x.h : x \in withdrawals} \cup {x.h : x \in syncs}

NewGrant(r, needsApproval, fromDirectory) ==
    [user |-> r.user, site |-> r.site, start |-> r.start, end |-> r.end,
     schedule |-> r.schedule, status |-> "ACTIVE", needs |-> needsApproval,
     approved |-> FALSE, directory |-> fromDirectory]

Add(g, row) ==
    /\ used' = used \cup {g}
    /\ grants' = [i \in DOMAIN grants \cup {g} |-> IF i = g THEN row ELSE grants[i]]

Drop(ids) == grants' = [i \in DOMAIN grants \ ids |-> grants[i]]

SetStatus(ids, status) ==
    [i \in DOMAIN grants |->
        IF i \in ids THEN [grants[i] EXCEPT !.status = status] ELSE grants[i]]

-----------------------------------------------------------------------------
\* A vendor asks for access.

SubmitRequest(h, u, s, start, end, sched) ==
    /\ h \notin Busy
    /\ user[u] = "ACTIVE"
    /\ ~(start # NoDate /\ end # NoDate /\ start > end)
    /\ ~GrantCapError(start, end)
    /\ s \in sites
    /\ requests' = requests \cup
         {[h |-> h, pc |-> "held", user |-> u, site |-> s, start |-> start,
           end |-> end, schedule |-> sched]}
    /\ UNCHANGED <<world, grants, used, decisions, edits, withdrawals, syncs>>

\* The next statement of request r, or its refusal.
Advance(r, go, pc) ==
    requests' = (requests \ {r}) \cup (IF go THEN {[r EXCEPT !.pc = pc]} ELSE {})

CheckHeld(r) ==
    /\ r.pc = "held"
    /\ Advance(r, ~Holds(r.user, r.site), "pending")
    /\ UNCHANGED <<world, grants, used, decisions, edits, withdrawals, syncs>>

CheckPending(r) ==
    /\ r.pc = "pending"
    /\ Advance(r, ~\E g \in GrantsOf(r.user, r.site) : Pending(grants[g]), "create")
    /\ UNCHANGED <<world, grants, used, decisions, edits, withdrawals, syncs>>

\* The insert: the foreign keys refuse a user or a site deleted meanwhile.
CreateAccessRequest(r) ==
    /\ r.pc = "create"
    /\ requests' = requests \ {r}
    /\ IF user[r.user] # "GONE" /\ r.site \in sites
       THEN \E g \in GrantIds \ used : Add(g, NewGrant(r, TRUE, FALSE))
       ELSE UNCHANGED <<grants, used>>
    /\ UNCHANGED <<world, decisions, edits, withdrawals, syncs>>

\* The vendor takes a request back: a read, then a delete of a pending row.
WithdrawRead(h, g, u) ==
    /\ h \notin Busy
    /\ user[u] = "ACTIVE"
    /\ g \in DOMAIN grants
    /\ grants[g].user = u /\ Pending(grants[g])
    /\ withdrawals' = withdrawals \cup {[h |-> h, grant |-> g, user |-> u]}
    /\ UNCHANGED <<world, grants, used, decisions, requests, edits, syncs>>

WithdrawDelete(w) ==
    /\ withdrawals' = withdrawals \ {w}
    /\ Drop({g \in DOMAIN grants :
               g = w.grant /\ grants[g].user = w.user /\ Pending(grants[g])})
    /\ UNCHANGED <<world, used, decisions, requests, edits, syncs>>

-----------------------------------------------------------------------------
\* The operators.

AdminCreate(h, u, s, start, end, sched) ==
    /\ h \notin Busy
    /\ ~GrantCapError(start, end)
    /\ user[u] # "GONE" /\ s \in sites
    /\ requests' = requests \cup
         {[h |-> h, pc |-> "grant", user |-> u, site |-> s, start |-> start,
           end |-> end, schedule |-> sched]}
    /\ UNCHANGED <<world, grants, used, decisions, edits, withdrawals, syncs>>

CreateGrant(r) ==
    /\ r.pc = "grant"
    /\ requests' = requests \ {r}
    /\ IF user[r.user] # "GONE" /\ r.site \in sites
       THEN \E g \in GrantIds \ used : Add(g, NewGrant(r, FALSE, FALSE))
       ELSE UNCHANGED <<grants, used>>
    /\ UNCHANGED <<world, decisions, edits, withdrawals, syncs>>

Decision(g, approve) ==
    [grants EXCEPT ![g] =
        IF approve THEN [grants[g] EXCEPT !.approved = TRUE]
        ELSE [grants[g] EXCEPT !.status = "DENIED", !.approved = TRUE]]

\* Mutant: the update asks only whether anyone has decided yet.
DecideUnapproved(g, approve) ==
    /\ g \in DOMAIN grants
    /\ grants[g].needs /\ ~grants[g].approved
    /\ grants' = Decision(g, approve)
    /\ decisions' = [decisions EXCEPT ![g] = decisions[g] + 1]
    /\ UNCHANGED <<world, used, handlers>>

\* Mutant: the update asks only whether the grant is active.
DecideActive(g, approve) ==
    /\ g \in DOMAIN grants
    /\ Live(grants[g]) /\ decisions[g] < 2
    /\ grants' = Decision(g, approve)
    /\ decisions' = [decisions EXCEPT ![g] = decisions[g] + 1]
    /\ UNCHANGED <<world, used, handlers>>

\* Approve or deny: of a grant no longer pending nothing is changed, and the
\* caller neither records nor mails a decision.
DecideGrant(g, approve) ==
    /\ g \in DOMAIN grants
    /\ Pending(grants[g])
    /\ grants' = Decision(g, approve)
    /\ decisions' = [decisions EXCEPT ![g] = decisions[g] + 1]
    /\ UNCHANGED <<world, used, handlers>>

RevokeGrant(g) ==
    /\ g \in DOMAIN grants
    /\ grants' = SetStatus({g}, "REVOKED")
    /\ UNCHANGED <<world, used, decisions, handlers>>

\* A new end date: a read and its checks, then an update of an active row.
EditRead(h, g, end) ==
    /\ h \notin Busy
    /\ g \in DOMAIN grants
    /\ Live(grants[g])
    /\ end \in Nat
    /\ ~GrantEndsAtError(end, grants[g].start)
    /\ ~GrantCapError(grants[g].start, end)
    /\ edits' = edits \cup {[h |-> h, grant |-> g, start |-> grants[g].start, end |-> end]}
    /\ UNCHANGED <<world, grants, used, decisions, requests, withdrawals, syncs>>

EditWrite(e) ==
    /\ edits' = edits \ {e}
    /\ grants' = [i \in DOMAIN grants |->
          IF i = e.grant /\ Live(grants[i])
          THEN [grants[i] EXCEPT !.end = e.end] ELSE grants[i]]
    /\ UNCHANGED <<world, used, decisions, requests, withdrawals, syncs>>

-----------------------------------------------------------------------------
\* The directory, at every login.  A throttled login, or one whose lookup
\* fails, changes nothing and is no step.

DirectorySites(u) ==
    {grants[g].site : g \in {i \in DOMAIN grants :
        grants[i].user = u /\ Live(grants[i]) /\ grants[i].directory}}

\* The login has the user's row; directoryManaged is the value it held then.
SyncUserAtLogin(h, u) ==
    /\ DirectoryEnabled
    /\ h \notin Busy
    /\ user[u] = "ACTIVE"
    /\ syncs' = syncs \cup {[h |-> h, user |-> u, managed |-> u \in managed,
                             pc |-> "resolve", matched |-> {}, current |-> {}]}
    /\ UNCHANGED <<world, grants, used, decisions, requests, edits, withdrawals>>

\* The directory answers, and ComputeReconcile decides what the answer means:
\* no group that is mapped ends a managed user and leaves a local one alone.
ResolveUser(x) ==
    /\ x.pc = "resolve"
    /\ LET matched == groups[x.user] \cap (sites \cup {RoleGroup})
       IN syncs' = (syncs \ {x}) \cup
            (IF matched = {}
             THEN IF x.managed THEN {[x EXCEPT !.pc = "deprovision"]} ELSE {}
             ELSE {[x EXCEPT !.pc = "read", !.matched = matched]})
    /\ UNCHANGED <<world, grants, used, decisions, requests, edits, withdrawals>>

ReadCurrent(x) ==
    /\ x.pc = "read"
    /\ syncs' = (syncs \ {x}) \cup
         {[x EXCEPT !.pc = "provision", !.current = DirectorySites(x.user)]}
    /\ UNCHANGED <<world, grants, used, decisions, requests, edits, withdrawals>>

ToCreate(x) == (x.matched \cap Sites) \ x.current
ToRevoke(x) == x.current \ x.matched

DirectoryGrant(u, s) ==
    NewGrant([user |-> u, site |-> s, start |-> NoDate, end |-> NoDate,
              schedule |-> Always], FALSE, TRUE)

\* Mutant: only one of the rows a site has is revoked.
RevokedByPlanFirst(x) ==
    LET all == {g \in DOMAIN grants : /\ grants[g].user = x.user
                                      /\ Live(grants[g])
                                      /\ grants[g].directory
                                      /\ grants[g].site \in ToRevoke(x)}
    IN IF all = {} THEN {} ELSE {CHOOSE g \in all : TRUE}

RevokedByPlan(x) ==
    {g \in DOMAIN grants : /\ grants[g].user = x.user
                           /\ Live(grants[g])
                           /\ grants[g].directory
                           /\ grants[g].site \in ToRevoke(x)}

\* One transaction: the flag, a grant for each new site, and the sites that
\* are no longer mapped.  It fails as a whole when the user, or a site it
\* grants, has gone.
ProvisionUser(x) ==
    /\ x.pc = "provision"
    /\ syncs' = syncs \ {x}
    /\ IF user[x.user] # "GONE" /\ ToCreate(x) \subseteq sites
       THEN /\ managed' = managed \cup {x.user}
            /\ \E ids \in SUBSET (GrantIds \ used) :
                 \E given \in Bijection(ids, ToCreate(x)) :
                    /\ used' = used \cup ids
                    /\ grants' = [i \in DOMAIN grants \cup ids |->
                         IF i \in ids THEN DirectoryGrant(x.user, given[i])
                         ELSE SetStatus(RevokedByPlan(x), "REVOKED")[i]]
       ELSE UNCHANGED <<managed, grants, used>>
    /\ UNCHANGED <<now, policy, user, sites, groups, decisions, requests, edits, withdrawals>>

DeprovisionUser(x) ==
    /\ x.pc = "deprovision"
    /\ syncs' = syncs \ {x}
    /\ IF user[x.user] # "GONE"
       THEN /\ user' = [user EXCEPT ![x.user] = "DISABLED"]
            /\ grants' = SetStatus({g \in DOMAIN grants :
                                      grants[g].user = x.user /\ Live(grants[g])}, "REVOKED")
       ELSE UNCHANGED <<user, grants>>
    /\ UNCHANGED <<now, policy, managed, sites, groups, used, decisions, requests, edits, withdrawals>>

-----------------------------------------------------------------------------
\* Everything around the grants.

Tick ==
    /\ now < MaxTime
    /\ now' = now + 1
    /\ UNCHANGED <<policy, user, managed, sites, groups, grants, used, decisions, handlers>>

SetPolicy(days) ==
    /\ policy' = days
    /\ UNCHANGED <<now, user, managed, sites, groups, grants, used, decisions, handlers>>

ChangeGroups(u, targets) ==
    /\ DirectoryEnabled
    /\ groups' = [groups EXCEPT ![u] = targets]
    /\ UNCHANGED <<now, policy, user, managed, sites, grants, used, decisions, handlers>>

SetUserStatus(u, status) ==
    /\ user[u] # "GONE"
    /\ user' = [user EXCEPT ![u] = status]
    /\ UNCHANGED <<now, policy, managed, sites, groups, grants, used, decisions, handlers>>

\* Deleting a user or a site deletes its grants with it.
DeleteUser(u) ==
    /\ user[u] # "GONE"
    /\ user' = [user EXCEPT ![u] = "GONE"]
    /\ Drop({g \in DOMAIN grants : grants[g].user = u})
    /\ UNCHANGED <<now, policy, managed, sites, groups, used, decisions, handlers>>

DeleteSite(s) ==
    /\ s \in sites
    /\ sites' = sites \ {s}
    /\ Drop({g \in DOMAIN grants : grants[g].site = s})
    /\ UNCHANGED <<now, policy, user, managed, groups, used, decisions, handlers>>

Next ==
    \/ \E h \in Handlers, u \in Users, s \in Sites, start \in InputDates,
          end \in InputDates, sched \in Schedules :
          SubmitRequest(h, u, s, start, end, sched) \/ AdminCreate(h, u, s, start, end, sched)
    \/ \E r \in requests : CheckHeld(r) \/ CheckPending(r) \/ CreateAccessRequest(r) \/ CreateGrant(r)
    \/ \E h \in Handlers, g \in GrantIds, u \in Users : WithdrawRead(h, g, u)
    \/ \E w \in withdrawals : WithdrawDelete(w)
    \/ \E g \in GrantIds, approve \in BOOLEAN : DecideGrant(g, approve)
    \/ \E g \in GrantIds : RevokeGrant(g)
    \/ \E h \in Handlers, g \in GrantIds, end \in InputDates : EditRead(h, g, end)
    \/ \E e \in edits : EditWrite(e)
    \/ \E h \in Handlers, u \in Users : SyncUserAtLogin(h, u)
    \/ \E x \in syncs : ResolveUser(x) \/ ReadCurrent(x) \/ ProvisionUser(x) \/ DeprovisionUser(x)
    \/ Tick
    \/ \E days \in Policies : SetPolicy(days)
    \/ \E u \in Users, targets \in SUBSET Targets : ChangeGroups(u, targets)
    \/ \E u \in Users, status \in {"ACTIVE", "DISABLED"} : SetUserStatus(u, status)
    \/ \E u \in Users : DeleteUser(u)
    \/ \E s \in Sites : DeleteSite(s)

Spec == Init /\ [][Next]_vars

-----------------------------------------------------------------------------
\* Properties.

WorldOK ==
    /\ now \in Nat /\ policy \in Policies
    /\ user \in [Users -> {"ACTIVE", "DISABLED", "GONE"}]
    /\ managed \subseteq Users /\ sites \subseteq Sites
    /\ groups \in [Users -> SUBSET Targets]

TableOK ==
    /\ used \subseteq GrantIds
    /\ grants = [g \in DOMAIN grants |-> grants[g]]
    /\ DOMAIN grants \subseteq used
    /\ \A g \in DOMAIN grants : /\ grants[g] \in Grant
                                /\ user[grants[g].user] # "GONE"
                                /\ grants[g].site \in sites
    /\ decisions \in [GrantIds -> Nat]

HandlersOK ==
    /\ requests \subseteq Request /\ edits \subseteq Edit
    /\ withdrawals \subseteq Withdrawal /\ syncs \subseteq Sync

\* The columns of the table and the locals of the handlers keep their types,
\* and every grant belongs to a user and a site that exist.
TypeOK == WorldOK /\ TableOK /\ HandlersOK

\* A grant that was revoked or denied is final (README: revoking is
\* irreversible): whatever approval, edit or sync was under way when it ended
\* leaves it as it is.  A denied grant can still be revoked.
RetiredFrozen ==
    [][\A g \in DOMAIN grants \cap DOMAIN grants' :
          ~Live(grants[g]) =>
              grants'[g] \in {grants[g], [grants[g] EXCEPT !.status = "REVOKED"]}]_vars

\* A withdrawal removes a request that nobody has decided and nothing else: a
\* grant only disappears while it is pending, or with its user or its site.
OnlyPendingWithdrawn ==
    [][\A g \in DOMAIN grants \ DOMAIN grants' :
          \/ Pending(grants[g])
          \/ user'[grants[g].user] = "GONE"
          \/ grants[g].site \notin sites']_vars

\* Two operators who decide the same request at the same time make one
\* decision, for a grant that then stays decided.
DecidedOnce ==
    \A g \in GrantIds :
        /\ decisions[g] <= 1
        /\ g \in DOMAIN grants =>
              (decisions[g] = 1 <=> grants[g].needs /\ grants[g].approved)

\* A cap was in force all along, and never a longer one.
CappedBy(days) == \A q \in Policies : 0 < q /\ q <= days

Within(t, start, end, days) ==
    /\ end # NoDate
    /\ end - (IF start = NoDate THEN t ELSE start) <= days

\* Under a maximum grant duration no grant that people made or edited reaches
\* further than the cap from its start, or from now if it has already begun,
\* however long the checks took to become a write.
CapHolds ==
    \A days \in Policies : CappedBy(days) =>
        \A g \in DOMAIN grants :
            grants[g].directory \/ Within(now, grants[g].start, grants[g].end, days)

\* A login whose view of the directory grants is still current leaves the
\* user with exactly the sites the directory mapped, whatever duplicates and
\* leftovers earlier logins produced by racing one another.
SyncExact ==
    [][\A x \in syncs \ syncs' :
          /\ x.pc = "provision"
          /\ user[x.user] # "GONE" /\ ToCreate(x) \subseteq sites
          /\ x.current = DirectorySites(x.user)
          => DirectorySites(x.user)' = x.matched \cap Sites]_vars

\* A grant that lets its user in at t, read off the columns.
Entitles(g, t) ==
    /\ g.status = "ACTIVE"
    /\ g.needs => g.approved
    /\ g.start = NoDate \/ g.start <= t
    /\ g.end = NoDate \/ t <= g.end
    /\ t \in g.schedule

\* evaluateAccess, in whatever order the rows come back: it allows exactly
\* when the user is active and some grant entitles them; it says a request is
\* pending exactly when an approval now would open the door (up to the grant's
\* hours); and it calls access ended only when no grant is left to wait for.
EvaluateRight ==
    \A u \in Users, s \in Sites :
        \A order \in Bijection(1..Cardinality(GrantsOf(u, s)), GrantsOf(u, s)) :
            LET answer == EvaluateAccess(u, order, now)
                rows == {grants[g] : g \in GrantsOf(u, s)}
                active == user[u] = "ACTIVE"
                entitled == \E g \in rows : Entitles(g, now)
                begun(g) == g.start = NoDate \/ g.start <= now
                over(g) == g.end # NoDate /\ now > g.end
            IN /\ answer = "allow" <=> active /\ entitled
               /\ answer = "pending_approval" <=>
                    /\ active /\ ~entitled
                    /\ \E g \in rows : Pending(g) /\ begun(g) /\ ~over(g)
               /\ answer \in {"expired", "revoked", "denied"} =>
                    \A g \in rows : Live(g) => over(g)

\* createAccessRequest: one pending request per user and site at a time.
\* Violated: two posts both look before either inserts.
PendingUnique ==
    \A g, i \in DOMAIN grants :
        (/\ Pending(grants[g]) /\ Pending(grants[i])
         /\ grants[g].user = grants[i].user
         /\ grants[g].site = grants[i].site) => g = i

\* The policy page: with a maximum grant duration set, every grant expires.
\* Violated by the grants of the directory, which have no end.
EveryGrantExpires ==
    (\A q \in Policies : q > 0) =>
        \A g \in DOMAIN grants : Live(grants[g]) => grants[g].end # NoDate

=============================================================================
