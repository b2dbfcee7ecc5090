-------------------------- MODULE MCAccessGrants --------------------------
(***************************************************************************)
(* AccessGrants for TLC.  A behaviour is of one of two parts: people's     *)
(* grants on one site, in one handler and under a cap, or the directory's  *)
(* grants on two sites, reconciled by two logins.                          *)
(***************************************************************************)
EXTENDS AccessGrants, TLC

VARIABLE part

SomeDates == {NoDate, 1, 2}
SomeHours == {Always, {1}}
Symmetry  == Permutations(GrantIds) \cup Permutations(Handlers) \cup Permutations(Sites)

\* The part: people's grants on a site in a handler, or the directory's.
GrantsInit == Init /\ part \in (Sites \X Handlers) \cup {<<>>}

People(s, h) ==
    \/ \E u \in Users, start \in InputDates, end \in InputDates, sched \in Schedules :
          SubmitRequest(h, u, s, start, end, sched) \/ AdminCreate(h, u, s, start, end, sched)
    \/ \E r \in requests : CheckHeld(r) \/ CheckPending(r) \/ CreateAccessRequest(r) \/ CreateGrant(r)
    \/ \E g \in GrantIds, u \in Users : WithdrawRead(h, g, u)
    \/ \E g \in GrantIds, end \in InputDates : EditRead(h, g, end)
    \/ \E e \in edits : EditWrite(e)
    \/ Tick
    \/ \E days \in Policies : SetPolicy(days)
    \/ DeleteSite(s)

Directory ==
    \/ \E h \in Handlers, u \in Users : SyncUserAtLogin(h, u)
    \/ \E x \in syncs : ResolveUser(x) \/ ReadCurrent(x) \/ ProvisionUser(x) \/ DeprovisionUser(x)
    \/ \E u \in Users, targets \in SUBSET Targets : ChangeGroups(u, targets)
    \/ \E h \in Handlers, g \in GrantIds, u \in Users : WithdrawRead(h, g, u)
    \/ \E s \in Sites : DeleteSite(s)

Both ==
    \/ \E w \in withdrawals : WithdrawDelete(w)
    \/ \E g \in GrantIds, approve \in BOOLEAN : DecideGrant(g, approve)
    \/ \E g \in GrantIds : RevokeGrant(g)
    \/ \E u \in Users, status \in {"ACTIVE", "DISABLED"} : SetUserStatus(u, status)
    \/ \E u \in Users : DeleteUser(u)

GrantsNext ==
    /\ \/ \E s \in Sites, h \in Handlers : part = <<s, h>> /\ People(s, h)
       \/ part = <<>> /\ Directory
       \/ Both
    /\ UNCHANGED part

GrantsSpec == GrantsInit /\ [][GrantsNext]_<<vars, part>>
===========================================================================
