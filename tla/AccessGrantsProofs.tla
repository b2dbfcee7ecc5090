------------------------- MODULE AccessGrantsProofs -------------------------
(***************************************************************************)
(* Proofs about the access grants, for any users, sites, handlers and      *)
(* dates: types and foreign keys, that a decision is made once, that an    *)
(* ended grant stays as it is, that only pending requests are withdrawn,   *)
(* and that the maximum grant duration holds.                              *)
(***************************************************************************)
EXTENDS AccessGrants, TLAPS, WellFoundedInduction, FiniteSetTheorems

-----------------------------------------------------------------------------
\* Types.

\* A row the handlers insert is a grant.
LEMMA NewGrantType ==
    ASSUME NEW r, r.user \in Users, r.site \in Sites, r.start \in Dates,
           r.end \in Dates, r.schedule \in SUBSET Always,
           NEW a \in BOOLEAN, NEW d \in BOOLEAN
    PROVE  /\ NewGrant(r, a, d) \in Grant
           /\ NewGrant(r, a, d).user = r.user /\ NewGrant(r, a, d).site = r.site
           /\ NewGrant(r, a, d).start = r.start /\ NewGrant(r, a, d).end = r.end
           /\ NewGrant(r, a, d).directory = d /\ ~NewGrant(r, a, d).approved
           /\ NewGrant(r, a, d).status = "ACTIVE" /\ NewGrant(r, a, d).needs = a
BY Zenon DEF NewGrant, Grant

\* What the updates of a row keep.
LEMMA RowUpdates ==
    ASSUME NEW g \in Grant, NEW s \in {"ACTIVE", "REVOKED", "DENIED"}, NEW e \in Dates
    PROVE  /\ [g EXCEPT !.status = s] \in Grant
           /\ [g EXCEPT !.status = s].user = g.user /\ [g EXCEPT !.status = s].site = g.site
           /\ [g EXCEPT !.approved = TRUE] \in Grant
           /\ [g EXCEPT !.approved = TRUE].user = g.user /\ [g EXCEPT !.approved = TRUE].site = g.site
           /\ [g EXCEPT !.status = s, !.approved = TRUE] \in Grant
           /\ [g EXCEPT !.status = s, !.approved = TRUE].user = g.user
           /\ [g EXCEPT !.status = s, !.approved = TRUE].site = g.site
           /\ [g EXCEPT !.end = e] \in Grant
           /\ [g EXCEPT !.end = e].user = g.user /\ [g EXCEPT !.end = e].site = g.site
BY Zenon DEF Grant

\* The initial table is empty and every handler idle.
LEMMA InitType == Init => TypeOK
BY DateAssumption DEF Init, TypeOK, WorldOK, TableOK, HandlersOK

\* A step that leaves the world and the table alone keeps their types.
LEMMA Untouched ==
    ASSUME TypeOK, UNCHANGED <<world, grants, used, decisions>>
    PROVE  WorldOK' /\ TableOK'
BY Zenon DEF TypeOK, WorldOK, TableOK, world

\* A submitted form that passed its checks keeps the types.
LEMMA SubmitType ==
    ASSUME TypeOK, NEW h \in Handlers, NEW u \in Users, NEW s \in Sites,
           NEW start \in InputDates, NEW end \in InputDates, NEW sched \in Schedules,
           \/ SubmitRequest(h, u, s, start, end, sched)
           \/ AdminCreate(h, u, s, start, end, sched)
    PROVE  TypeOK'
<1>1. UNCHANGED <<world, grants, used, decisions, edits, withdrawals, syncs>>
  BY Zenon DEF SubmitRequest, AdminCreate
<1>2. PICK pc \in {"held", "grant"} :
        requests' = requests \cup
         {[h |-> h, pc |-> pc, user |-> u, site |-> s, start |-> start,
           end |-> end, schedule |-> sched]}
  BY Zenon DEF SubmitRequest, AdminCreate
<1>3. start \in Dates /\ end \in Dates /\ sched \in SUBSET Always
  BY DateAssumption, Zenon DEF Dates, Always
<1>4. [h |-> h, pc |-> pc, user |-> u, site |-> s, start |-> start,
       end |-> end, schedule |-> sched] \in Request
  BY <1>3, Zenon DEF Request
<1> QED
  BY <1>1, <1>2, <1>4, Untouched, Zenon DEF TypeOK, HandlersOK

\* The two checks of a request keep the types.
LEMMA CheckType ==
    ASSUME TypeOK, NEW r \in requests, CheckHeld(r) \/ CheckPending(r)
    PROVE  TypeOK'
<1>1. UNCHANGED <<world, grants, used, decisions, edits, withdrawals, syncs>>
  BY Zenon DEF CheckHeld, CheckPending
<1>2. PICK pc \in {"pending", "create"} :
        requests' \subseteq (requests \ {r}) \cup {[r EXCEPT !.pc = pc]}
  BY Zenon DEF CheckHeld, CheckPending, Advance
<1>3. r \in Request
  BY Zenon DEF TypeOK, HandlersOK
<1>4. [r EXCEPT !.pc = pc] \in Request
  BY <1>3, Zenon DEF Request
<1> QED
  BY <1>1, <1>2, <1>4, Untouched, Zenon DEF TypeOK, HandlersOK

\* So do the reads of a withdrawal and of an edit.
LEMMA ReadType ==
    ASSUME TypeOK, NEW h \in Handlers, NEW g \in GrantIds,
           \/ \E u \in Users : WithdrawRead(h, g, u)
           \/ \E end \in InputDates : EditRead(h, g, end)
    PROVE  TypeOK'
<1>1. ASSUME NEW u \in Users, WithdrawRead(h, g, u)
      PROVE  TypeOK'
  <2>1. UNCHANGED <<world, grants, used, decisions, requests, edits, syncs>>
    BY <1>1, Zenon DEF WithdrawRead
  <2>2. withdrawals' = withdrawals \cup {[h |-> h, grant |-> g, user |-> u]}
    BY <1>1, Zenon DEF WithdrawRead
  <2>3. [h |-> h, grant |-> g, user |-> u] \in Withdrawal
    BY Zenon DEF Withdrawal
  <2> QED
    BY <2>1, <2>2, <2>3, Untouched, Zenon DEF TypeOK, HandlersOK
<1>2. ASSUME NEW end \in InputDates, EditRead(h, g, end)
      PROVE  TypeOK'
  <2>1. UNCHANGED <<world, grants, used, decisions, requests, withdrawals, syncs>>
    BY <1>2, Zenon DEF EditRead
  <2>2. edits' = edits \cup {[h |-> h, grant |-> g, start |-> grants[g].start, end |-> end]}
    BY <1>2, Zenon DEF EditRead
  <2>3. end \in Nat /\ grants[g] \in Grant
    BY <1>2, Zenon DEF EditRead, TypeOK, TableOK
  <2>4. grants[g].start \in Dates
    BY <2>3, Zenon DEF Grant
  <2>5. [h |-> h, grant |-> g, start |-> grants[g].start, end |-> end] \in Edit
    BY <2>3, <2>4, Zenon DEF Edit
  <2> QED
    BY <2>1, <2>2, <2>5, Untouched, Zenon DEF TypeOK, HandlersOK
<1> QED
  BY <1>1, <1>2, Zenon

\* So does a login until it writes.
LEMMA SyncReadType ==
    ASSUME TypeOK,
           \/ \E h \in Handlers, u \in Users : SyncUserAtLogin(h, u)
           \/ \E x \in syncs : ResolveUser(x) \/ ReadCurrent(x)
    PROVE  TypeOK'
<1>1. ASSUME NEW x \in syncs
      PROVE  x \in Sync
  BY <1>1, Zenon DEF TypeOK, HandlersOK
<1>2. ASSUME NEW h \in Handlers, NEW u \in Users, SyncUserAtLogin(h, u)
      PROVE  TypeOK'
  <2>1. UNCHANGED <<world, grants, used, decisions, requests, edits, withdrawals>>
    BY <1>2, Zenon DEF SyncUserAtLogin
  <2>2. syncs' = syncs \cup {[h |-> h, user |-> u, managed |-> u \in managed,
                              pc |-> "resolve", matched |-> {}, current |-> {}]}
    BY <1>2, Zenon DEF SyncUserAtLogin
  <2>3. [h |-> h, user |-> u, managed |-> u \in managed,
         pc |-> "resolve", matched |-> {}, current |-> {}] \in Sync
    BY DEF Sync
  <2> QED
    BY <2>1, <2>2, <2>3, Untouched, Zenon DEF TypeOK, HandlersOK
<1>3. ASSUME NEW x \in syncs, ResolveUser(x)
      PROVE  TypeOK'
  <2> DEFINE m == groups[x.user] \cap (sites \cup {RoleGroup})
  <2>1. UNCHANGED <<world, grants, used, decisions, requests, edits, withdrawals>>
    BY <1>3, Zenon DEF ResolveUser
  <2>2. syncs' \subseteq (syncs \ {x}) \cup
            {[x EXCEPT !.pc = "deprovision"], [x EXCEPT !.pc = "read", !.matched = m]}
    BY <1>3, Zenon DEF ResolveUser
  <2>3. m \subseteq Targets
    BY Zenon DEF TypeOK, WorldOK, Targets
  <2> HIDE DEF m
  <2>4. /\ [x EXCEPT !.pc = "deprovision"] \in Sync
        /\ [x EXCEPT !.pc = "read", !.matched = m] \in Sync
    BY <1>1, <2>3, Zenon DEF Sync
  <2> QED
    BY <2>1, <2>2, <2>4, Untouched, Zenon DEF TypeOK, HandlersOK
<1>4. ASSUME NEW x \in syncs, ReadCurrent(x)
      PROVE  TypeOK'
  <2>1. UNCHANGED <<world, grants, used, decisions, requests, edits, withdrawals>>
    BY <1>4, Zenon DEF ReadCurrent
  <2>2. syncs' = (syncs \ {x}) \cup
         {[x EXCEPT !.pc = "provision", !.current = DirectorySites(x.user)]}
    BY <1>4, Zenon DEF ReadCurrent
  <2>3. DirectorySites(x.user) \subseteq Sites
    BY Zenon DEF DirectorySites, TypeOK, TableOK, Grant
  <2>4. [x EXCEPT !.pc = "provision", !.current = DirectorySites(x.user)] \in Sync
    BY <1>1, <2>3, Zenon DEF Sync
  <2> QED
    BY <2>1, <2>2, <2>4, Untouched, Zenon DEF TypeOK, HandlersOK
<1> QED
  BY <1>2, <1>3, <1>4, Zenon

-----------------------------------------------------------------------------
\* What a step may do to the table.

Kept(g) ==
    /\ g \in DOMAIN grants
    /\ grants'[g] \in {grants[g], [grants[g] EXCEPT !.status = "REVOKED"]}
    /\ decisions'[g] = decisions[g]

Decided(g) ==
    /\ g \in DOMAIN grants /\ Pending(grants[g])
    /\ grants'[g] \in {[grants[g] EXCEPT !.approved = TRUE],
                       [grants[g] EXCEPT !.status = "DENIED", !.approved = TRUE]}
    /\ decisions'[g] = decisions[g] + 1

Edited(g) ==
    /\ g \in DOMAIN grants /\ Live(grants[g])
    /\ \E e \in edits : e.grant = g /\ grants'[g] = [grants[g] EXCEPT !.end = e.end]
    /\ decisions'[g] = decisions[g]

Inserted(g) ==
    /\ g \in GrantIds \ used /\ g \in used'
    /\ grants'[g] \in Grant
    /\ ~grants'[g].approved
    /\ grants'[g].directory \/
         \E r \in requests : grants'[g].start = r.start /\ grants'[g].end = r.end
    /\ decisions'[g] = decisions[g]

RowsStep == \A g \in DOMAIN grants' : Kept(g) \/ Decided(g) \/ Edited(g) \/ Inserted(g)

KeysStep ==
    /\ used \subseteq used' /\ used' \subseteq GrantIds
    /\ \A g \in DOMAIN grants' : g \in DOMAIN grants \/ g \in used' \ used
    /\ \A g \in DOMAIN grants' : /\ user'[grants'[g].user] # "GONE"
                                 /\ grants'[g].site \in sites'
    /\ grants' = [g \in DOMAIN grants' |-> grants'[g]]
    /\ decisions' \in [GrantIds -> Nat]

RestStep ==
    /\ \A g \in GrantIds \ DOMAIN grants' : decisions'[g] = decisions[g]
    /\ \A g \in DOMAIN grants \ DOMAIN grants' :
          \/ Pending(grants[g])
          \/ user'[grants[g].user] = "GONE"
          \/ grants[g].site \notin sites'

TableStep == RowsStep /\ KeysStep /\ RestStep

\* A step that leaves the table, the users that exist and the sites alone.
LEMMA TableKept ==
    ASSUME TypeOK, UNCHANGED <<grants, used, decisions, sites>>,
           \A u \in Users : user[u] # "GONE" => user'[u] # "GONE"
    PROVE  TableStep
<1>1. RowsStep
  BY Zenon DEF RowsStep, Kept, TypeOK, TableOK
<1>2. KeysStep
  BY Zenon DEF KeysStep, TypeOK, TableOK, Grant
<1>3. RestStep
  BY Zenon DEF RestStep
<1> QED
  BY <1>1, <1>2, <1>3, Zenon DEF TableStep

\* A step that only revokes rows.
LEMMA TableRevoked ==
    ASSUME TypeOK, NEW ids, grants' = SetStatus(ids, "REVOKED"),
           UNCHANGED <<used, decisions, sites>>,
           \A u \in Users : user[u] # "GONE" => user'[u] # "GONE"
    PROVE  TableStep
<1>d. DOMAIN grants' = DOMAIN grants
  BY Zenon DEF SetStatus
<1>r. ASSUME NEW g \in DOMAIN grants
      PROVE  /\ grants'[g] \in {grants[g], [grants[g] EXCEPT !.status = "REVOKED"]}
             /\ grants'[g].user = grants[g].user /\ grants'[g].site = grants[g].site
             /\ grants[g].user \in Users
  <2>1. grants[g] \in Grant
    BY Zenon DEF TypeOK, TableOK
  <2> QED
    BY <2>1, RowUpdates, Zenon DEF SetStatus, Grant
<1>1. RowsStep
  BY <1>d, <1>r, Zenon DEF RowsStep, Kept
<1>2. KeysStep
  <2>1. grants' = [g \in DOMAIN grants' |-> grants'[g]]
    BY <1>d, Zenon DEF SetStatus
  <2> QED
    BY <2>1, <1>d, <1>r, Zenon DEF KeysStep, TypeOK, TableOK
<1>3. RestStep
  BY <1>d, Zenon DEF RestStep
<1> QED
  BY <1>1, <1>2, <1>3, Zenon DEF TableStep

\* A step that only deletes rows, each of them pending or an orphan.
LEMMA TableDropped ==
    ASSUME TypeOK, NEW ids, Drop(ids), UNCHANGED <<used, decisions>>,
           \A g \in DOMAIN grants \cap ids : \/ Pending(grants[g])
                                             \/ user'[grants[g].user] = "GONE"
                                             \/ grants[g].site \notin sites',
           \A g \in DOMAIN grants \ ids : /\ user'[grants[g].user] # "GONE"
                                          /\ grants[g].site \in sites'
    PROVE  TableStep
<1>d. DOMAIN grants' = DOMAIN grants \ ids
  BY Zenon DEF Drop
<1>r. \A g \in DOMAIN grants' : grants'[g] = grants[g]
  BY <1>d, Zenon DEF Drop
<1>1. RowsStep
  BY <1>d, <1>r, Zenon DEF RowsStep, Kept
<1>2. KeysStep
  <2>1. grants' = [g \in DOMAIN grants' |-> grants'[g]]
    BY <1>d, Zenon DEF Drop
  <2> QED
    BY <2>1, <1>d, <1>r, Zenon DEF KeysStep, TypeOK, TableOK
<1>3. RestStep
  BY <1>d, Zenon DEF RestStep
<1> QED
  BY <1>1, <1>2, <1>3, Zenon DEF TableStep

\* The insert of a request or of an operator's grant.
LEMMA InsertStep ==
    ASSUME TypeOK, NEW r \in requests, CreateAccessRequest(r) \/ CreateGrant(r)
    PROVE  TableStep
<1>r. /\ r \in Request /\ r.user \in Users /\ r.site \in Sites /\ r.start \in Dates
      /\ r.end \in Dates /\ r.schedule \in SUBSET Always
  BY Zenon DEF TypeOK, HandlersOK, Request
<1>u. UNCHANGED <<world, decisions>>
  BY Zenon DEF CreateAccessRequest, CreateGrant
<1>1. CASE UNCHANGED <<grants, used>>
  BY <1>1, <1>u, TableKept, Zenon DEF world
<1>2. CASE ~UNCHANGED <<grants, used>>
  <2>1. PICK g \in GrantIds \ used, needs \in BOOLEAN :
          Add(g, NewGrant(r, needs, FALSE)) /\ user[r.user] # "GONE" /\ r.site \in sites
    BY <1>2, Zenon DEF CreateAccessRequest, CreateGrant
  <2> DEFINE row == NewGrant(r, needs, FALSE)
  <2>2. /\ row \in Grant /\ row.user = r.user /\ row.site = r.site /\ row.start = r.start
        /\ row.end = r.end /\ ~row.approved
    BY <1>r, NewGrantType, Zenon
  <2> HIDE DEF row
  <2>3. /\ used' = used \cup {g}
        /\ grants' = [i \in DOMAIN grants \cup {g} |-> IF i = g THEN row ELSE grants[i]]
    BY <2>1, Zenon DEF Add, row
  <2>4. DOMAIN grants' = DOMAIN grants \cup {g}
    BY <2>3, Zenon
  <2>5. g \notin DOMAIN grants
    BY Zenon DEF TypeOK, TableOK
  <2>6. grants'[g] = row /\ \A i \in DOMAIN grants : grants'[i] = grants[i]
    BY <2>3, <2>5, Zenon
  <2>7. RowsStep
    <3>1. Inserted(g)
      BY <2>1, <2>2, <2>3, <2>6, <1>u, Zenon DEF Inserted
    <3>2. \A i \in DOMAIN grants : Kept(i)
      BY <2>6, <1>u, Zenon DEF Kept
    <3> QED
      BY <3>1, <3>2, <2>4, Zenon DEF RowsStep
  <2>8. KeysStep
    <3>1. grants' = [i \in DOMAIN grants' |-> grants'[i]]
      BY <2>3, Zenon
    <3>2. \A i \in DOMAIN grants' : user'[grants'[i].user] # "GONE" /\ grants'[i].site \in sites'
      BY <2>1, <2>2, <2>4, <2>6, <1>u, Zenon DEF TypeOK, TableOK, world
    <3> QED
      BY <3>1, <3>2, <2>3, <2>4, <1>u, Zenon DEF KeysStep, TypeOK, TableOK
  <2>9. RestStep
    BY <2>4, <1>u, Zenon DEF RestStep
  <2> QED
    BY <2>7, <2>8, <2>9, Zenon DEF TableStep
<1> QED
  BY <1>1, <1>2, Zenon

\* A decision changes the row it decides, and only if that is pending.
LEMMA DecideStep ==
    ASSUME TypeOK, NEW g \in GrantIds, NEW approve \in BOOLEAN, DecideGrant(g, approve)
    PROVE  TableStep
<1>0. /\ g \in DOMAIN grants /\ Pending(grants[g]) /\ grants[g] \in Grant
      /\ grants' = Decision(g, approve)
      /\ decisions' = [decisions EXCEPT ![g] = decisions[g] + 1]
      /\ UNCHANGED <<world, used, handlers>>
  BY Zenon DEF DecideGrant, TypeOK, TableOK
<1>1. DOMAIN grants' = DOMAIN grants
  BY <1>0, Zenon DEF Decision
<1>2. grants'[g] \in {[grants[g] EXCEPT !.approved = TRUE],
                      [grants[g] EXCEPT !.status = "DENIED", !.approved = TRUE]}
  BY <1>0, Zenon DEF Decision
<1>3. \A i \in DOMAIN grants : i # g => grants'[i] = grants[i]
  BY <1>0, Zenon DEF Decision
<1>4. grants'[g].user = grants[g].user /\ grants'[g].site = grants[g].site
  BY <1>0, <1>2, Zenon DEF Grant
<1>5. /\ decisions \in [GrantIds -> Nat] /\ decisions' \in [GrantIds -> Nat]
      /\ decisions'[g] = decisions[g] + 1
      /\ \A i \in GrantIds : i # g => decisions'[i] = decisions[i]
  BY <1>0 DEF TypeOK, TableOK
<1>6. RowsStep
  <2>1. Decided(g)
    BY <1>0, <1>2, <1>5, Zenon DEF Decided
  <2>2. \A i \in DOMAIN grants : i # g => Kept(i)
    BY <1>3, <1>5, Zenon DEF Kept, TypeOK, TableOK
  <2> QED
    BY <2>1, <2>2, <1>1, Zenon DEF RowsStep
<1>7. KeysStep
  <2>1. grants' = [i \in DOMAIN grants' |-> grants'[i]]
    BY <1>0, <1>1, Zenon DEF Decision
  <2>2. \A i \in DOMAIN grants' : user'[grants'[i].user] # "GONE" /\ grants'[i].site \in sites'
    BY <1>0, <1>1, <1>3, <1>4 DEF TypeOK, TableOK, world
  <2> QED
    BY <2>1, <2>2, <1>0, <1>1, <1>5, Zenon DEF KeysStep, TypeOK, TableOK
<1>8. RestStep
  BY <1>0, <1>1, <1>5, Zenon DEF RestStep
<1> QED
  BY <1>6, <1>7, <1>8, Zenon DEF TableStep

\* An edit changes the end of an active row.
LEMMA EditStep ==
    ASSUME TypeOK, NEW e \in edits, EditWrite(e)
    PROVE  TableStep
<1>0. /\ grants' = [i \in DOMAIN grants |->
            IF i = e.grant /\ Live(grants[i])
            THEN [grants[i] EXCEPT !.end = e.end] ELSE grants[i]]
      /\ UNCHANGED <<world, used, decisions>>
  BY Zenon DEF EditWrite
<1>1. DOMAIN grants' = DOMAIN grants
  BY <1>0, Zenon
<1>e. e.end \in Dates
  BY Zenon DEF TypeOK, HandlersOK, Edit, Dates
<1>2. ASSUME NEW i \in DOMAIN grants
      PROVE  /\ Kept(i) \/ Edited(i)
             /\ grants'[i].user = grants[i].user /\ grants'[i].site = grants[i].site
  <2>1. grants[i] \in Grant
    BY Zenon DEF TypeOK, TableOK
  <2>2. [grants[i] EXCEPT !.end = e.end].user = grants[i].user
        /\ [grants[i] EXCEPT !.end = e.end].site = grants[i].site
    BY <2>1, <1>e, RowUpdates, Zenon
  <2>3. CASE i = e.grant /\ Live(grants[i])
    BY <2>3, <2>2, <1>0, Zenon DEF Edited
  <2>4. CASE ~(i = e.grant /\ Live(grants[i]))
    BY <2>4, <1>0, Zenon DEF Kept
  <2> QED
    BY <2>3, <2>4, Zenon
<1>3. RowsStep
  BY <1>1, <1>2, Zenon DEF RowsStep
<1>4. KeysStep
  <2>1. grants' = [i \in DOMAIN grants' |-> grants'[i]]
    BY <1>0, <1>1, Zenon
  <2> QED
    BY <2>1, <1>0, <1>1, <1>2 DEF KeysStep, TypeOK, TableOK, world
<1>5. RestStep
  BY <1>0, <1>1, Zenon DEF RestStep
<1> QED
  BY <1>3, <1>4, <1>5, Zenon DEF TableStep

\* A login's transaction: new directory grants, and revoked ones.
LEMMA ProvisionStep ==
    ASSUME TypeOK, NEW x \in syncs, ProvisionUser(x)
    PROVE  TableStep
<1>x. x \in Sync /\ x.user \in Users /\ ToCreate(x) \subseteq Sites
  BY Zenon DEF TypeOK, HandlersOK, Sync, ToCreate
<1>u. UNCHANGED <<user, sites, decisions>>
  BY Zenon DEF ProvisionUser
<1>1. CASE UNCHANGED <<grants, used>>
  BY <1>1, <1>u, TableKept, Zenon
<1>2. CASE ~UNCHANGED <<grants, used>>
  <2> DEFINE old == SetStatus(RevokedByPlan(x), "REVOKED")
  <2>0. PICK ids \in SUBSET (GrantIds \ used) : \E given \in Bijection(ids, ToCreate(x)) :
          /\ used' = used \cup ids
          /\ grants' = [i \in DOMAIN grants \cup ids |->
               IF i \in ids THEN DirectoryGrant(x.user, given[i]) ELSE old[i]]
    BY <1>2, Zenon DEF ProvisionUser
  <2>1. PICK given \in Bijection(ids, ToCreate(x)) :
          /\ used' = used \cup ids
          /\ grants' = [i \in DOMAIN grants \cup ids |->
               IF i \in ids THEN DirectoryGrant(x.user, given[i]) ELSE old[i]]
    BY <2>0, Zenon
  <2>a. user[x.user] # "GONE" /\ ToCreate(x) \subseteq sites
    BY <1>2, Zenon DEF ProvisionUser
  <2>2. DOMAIN grants' = DOMAIN grants \cup ids
    BY <2>1, Zenon
  <2>3. ids \cap DOMAIN grants = {}
    BY Zenon DEF TypeOK, TableOK
  <2>4. ASSUME NEW i \in DOMAIN grants
        PROVE  /\ grants'[i] \in {grants[i], [grants[i] EXCEPT !.status = "REVOKED"]}
               /\ grants'[i].user = grants[i].user /\ grants'[i].site = grants[i].site
    <3>1. grants[i] \in Grant
      BY Zenon DEF TypeOK, TableOK
    <3>2. grants'[i] = old[i]
      BY <2>1, <2>3, Zenon
    <3>3. old[i] \in {grants[i], [grants[i] EXCEPT !.status = "REVOKED"]}
      BY Zenon DEF SetStatus
    <3> QED
      BY <3>1, <3>2, <3>3 DEF Grant
  <2>5. ASSUME NEW i \in ids
        PROVE  /\ grants'[i] \in Grant /\ ~grants'[i].approved /\ grants'[i].directory
               /\ grants'[i].user = x.user /\ grants'[i].site \in ToCreate(x)
    <3>1. grants'[i] = DirectoryGrant(x.user, given[i])
      BY <2>1, Zenon
    <3>2. given[i] \in ToCreate(x)
      BY Zenon DEF Bijection, Injection
    <3>3. given[i] \in Sites
      BY <3>2, <1>x, Zenon
    <3> DEFINE r == [user |-> x.user, site |-> given[i], start |-> NoDate, end |-> NoDate,
                     schedule |-> Always]
    <3>4. /\ r.user = x.user /\ r.site = given[i] /\ r.start \in Dates /\ r.end \in Dates
          /\ r.schedule \in SUBSET Always
      BY Zenon DEF Dates
    <3>5. DirectoryGrant(x.user, given[i]) = NewGrant(r, FALSE, TRUE)
      BY Zenon DEF DirectoryGrant
    <3> HIDE DEF r
    <3>6. /\ NewGrant(r, FALSE, TRUE) \in Grant /\ NewGrant(r, FALSE, TRUE).user = x.user
          /\ NewGrant(r, FALSE, TRUE).site = given[i]
          /\ NewGrant(r, FALSE, TRUE).directory /\ ~NewGrant(r, FALSE, TRUE).approved
      <4>1. r.user \in Users /\ r.site \in Sites
        BY <3>4, <3>3, <1>x, Zenon
      <4> QED
        BY <4>1, <3>4, NewGrantType, Zenon
    <3> QED
      BY <3>1, <3>2, <3>5, <3>6, Zenon
  <2> HIDE DEF old
  <2>6. RowsStep
    <3>1. \A i \in DOMAIN grants : Kept(i)
      BY <2>4, <1>u, Zenon DEF Kept
    <3>2. \A i \in ids : Inserted(i)
      BY <2>1, <2>5, <1>u, Zenon DEF Inserted
    <3> QED
      BY <3>1, <3>2, <2>2, Zenon DEF RowsStep
  <2>7. KeysStep
    <3>1. grants' = [i \in DOMAIN grants' |-> grants'[i]]
      BY <2>1, Zenon
    <3>2. \A i \in DOMAIN grants : user'[grants'[i].user] # "GONE" /\ grants'[i].site \in sites'
      BY <2>4, <1>u, Zenon DEF TypeOK, TableOK
    <3>3. \A i \in ids : user'[grants'[i].user] # "GONE" /\ grants'[i].site \in sites'
      BY <2>5, <2>a, <1>u, Zenon
    <3> QED
      BY <3>1, <3>2, <3>3, <2>1, <2>2, <1>u, Zenon DEF KeysStep, TypeOK, TableOK
  <2>8. RestStep
    BY <2>2, <1>u, Zenon DEF RestStep
  <2> QED
    BY <2>6, <2>7, <2>8, Zenon DEF TableStep
<1> QED
  BY <1>1, <1>2, Zenon

\* Every step of the system is such a step of the table.
LEMMA NextTable ==
    ASSUME TypeOK, Next
    PROVE  TableStep
<1>k. ASSUME UNCHANGED <<grants, used, decisions, sites, user>>
      PROVE  TableStep
  BY <1>k, TableKept, Zenon
<1>1. ASSUME NEW h \in Handlers, NEW u \in Users, NEW s \in Sites, NEW start \in InputDates,
             NEW end \in InputDates, NEW sched \in Schedules,
             SubmitRequest(h, u, s, start, end, sched) \/ AdminCreate(h, u, s, start, end, sched)
      PROVE  TableStep
  BY <1>1, <1>k, Zenon DEF SubmitRequest, AdminCreate, world
<1>2. ASSUME NEW r \in requests, CheckHeld(r) \/ CheckPending(r)
      PROVE  TableStep
  BY <1>2, <1>k, Zenon DEF CheckHeld, CheckPending, world
<1>3. ASSUME NEW r \in requests, CreateAccessRequest(r) \/ CreateGrant(r)
      PROVE  TableStep
  BY <1>3, InsertStep, Zenon
<1>4. ASSUME NEW h \in Handlers, NEW g \in GrantIds, NEW u \in Users, WithdrawRead(h, g, u)
      PROVE  TableStep
  BY <1>4, <1>k, Zenon DEF WithdrawRead, world
<1>5. ASSUME NEW w \in withdrawals, WithdrawDelete(w)
      PROVE  TableStep
  <2> DEFINE ids == {g \in DOMAIN grants :
                       g = w.grant /\ grants[g].user = w.user /\ Pending(grants[g])}
  <2>1. Drop(ids) /\ UNCHANGED <<used, decisions, user, sites>>
    BY <1>5, Zenon DEF WithdrawDelete, world
  <2>2. \A g \in DOMAIN grants \cap ids : \/ Pending(grants[g])
                                          \/ user'[grants[g].user] = "GONE"
                                          \/ grants[g].site \notin sites'
    BY Zenon
  <2>3. \A g \in DOMAIN grants \ ids : user'[grants[g].user] # "GONE" /\ grants[g].site \in sites'
    BY <2>1, Zenon DEF TypeOK, TableOK
  <2> HIDE DEF ids
  <2> QED
    BY <2>1, <2>2, <2>3, TableDropped, Zenon
<1>6. ASSUME NEW g \in GrantIds, NEW approve \in BOOLEAN, DecideGrant(g, approve)
      PROVE  TableStep
  BY <1>6, DecideStep, Zenon
<1>7. ASSUME NEW g \in GrantIds, RevokeGrant(g)
      PROVE  TableStep
  <2>1. grants' = SetStatus({g}, "REVOKED") /\ UNCHANGED <<used, decisions, sites, user>>
    BY <1>7, Zenon DEF RevokeGrant, world
  <2> QED
    BY <2>1, TableRevoked, Zenon
<1>8. ASSUME NEW h \in Handlers, NEW g \in GrantIds, NEW end \in InputDates, EditRead(h, g, end)
      PROVE  TableStep
  BY <1>8, <1>k, Zenon DEF EditRead, world
<1>9. ASSUME NEW e \in edits, EditWrite(e)
      PROVE  TableStep
  BY <1>9, EditStep, Zenon
<1>10. ASSUME NEW h \in Handlers, NEW u \in Users, SyncUserAtLogin(h, u)
       PROVE  TableStep
  BY <1>10, <1>k, Zenon DEF SyncUserAtLogin, world
<1>11. ASSUME NEW x \in syncs, ResolveUser(x) \/ ReadCurrent(x)
       PROVE  TableStep
  BY <1>11, <1>k, Zenon DEF ResolveUser, ReadCurrent, world
<1>12. ASSUME NEW x \in syncs, ProvisionUser(x)
       PROVE  TableStep
  BY <1>12, ProvisionStep, Zenon
<1>13. ASSUME NEW x \in syncs, DeprovisionUser(x)
       PROVE  TableStep
  <2> DEFINE ids == {g \in DOMAIN grants : grants[g].user = x.user /\ Live(grants[g])}
  <2>1. UNCHANGED <<used, decisions, sites>>
    BY <1>13, Zenon DEF DeprovisionUser
  <2>2. \/ UNCHANGED <<user, grants>>
        \/ user' = [user EXCEPT ![x.user] = "DISABLED"] /\ grants' = SetStatus(ids, "REVOKED")
    BY <1>13, Zenon DEF DeprovisionUser
  <2>3. \A u \in Users : user[u] # "GONE" => user'[u] # "GONE"
    BY <2>2, Zenon DEF TypeOK, WorldOK
  <2> HIDE DEF ids
  <2> QED
    BY <2>1, <2>2, <2>3, TableRevoked, TableKept, Zenon
<1>14. CASE Tick \/ \E days \in Policies : SetPolicy(days)
  BY <1>14, <1>k, Zenon DEF Tick, SetPolicy
<1>15. ASSUME NEW u \in Users, NEW t \in SUBSET Targets, ChangeGroups(u, t)
       PROVE  TableStep
  BY <1>15, <1>k, Zenon DEF ChangeGroups
<1>16. ASSUME NEW u \in Users, NEW st \in {"ACTIVE", "DISABLED"}, SetUserStatus(u, st)
       PROVE  TableStep
  <2>1. UNCHANGED <<grants, used, decisions, sites>>
    BY <1>16, Zenon DEF SetUserStatus
  <2>2. \A v \in Users : user[v] # "GONE" => user'[v] # "GONE"
    BY <1>16, Zenon DEF SetUserStatus, TypeOK, WorldOK
  <2> QED
    BY <2>1, <2>2, TableKept, Zenon
<1>17. ASSUME NEW u \in Users, DeleteUser(u)
       PROVE  TableStep
  <2> DEFINE ids == {g \in DOMAIN grants : grants[g].user = u}
  <2>1. Drop(ids) /\ UNCHANGED <<used, decisions, sites>> /\ user' = [user EXCEPT ![u] = "GONE"]
    BY <1>17, Zenon DEF DeleteUser
  <2>2. \A g \in DOMAIN grants \cap ids : user'[grants[g].user] = "GONE"
    BY <2>1, Zenon DEF TypeOK, WorldOK
  <2>3. \A g \in DOMAIN grants \ ids : user'[grants[g].user] # "GONE" /\ grants[g].site \in sites'
    BY <2>1, Zenon DEF TypeOK, WorldOK, TableOK, Grant
  <2> HIDE DEF ids
  <2> QED
    BY <2>1, <2>2, <2>3, TableDropped, Zenon
<1>18. ASSUME NEW s \in Sites, DeleteSite(s)
       PROVE  TableStep
  <2> DEFINE ids == {g \in DOMAIN grants : grants[g].site = s}
  <2>1. Drop(ids) /\ UNCHANGED <<used, decisions, user>> /\ sites' = sites \ {s}
    BY <1>18, Zenon DEF DeleteSite
  <2>2. \A g \in DOMAIN grants \cap ids : grants[g].site \notin sites'
    BY <2>1, Zenon
  <2>3. \A g \in DOMAIN grants \ ids : user'[grants[g].user] # "GONE" /\ grants[g].site \in sites'
    BY <2>1, Zenon DEF TypeOK, TableOK
  <2> HIDE DEF ids
  <2> QED
    BY <2>1, <2>2, <2>3, TableDropped, Zenon
<1> QED
  BY <1>1, <1>2, <1>3, <1>4, <1>5, <1>6, <1>7, <1>8, <1>9, <1>10, <1>11, <1>12, <1>13,
     <1>14, <1>15, <1>16, <1>17, <1>18, Zenon DEF Next

-----------------------------------------------------------------------------
\* The type invariant.

\* Such a step leaves a table of grants.
LEMMA TableType ==
    ASSUME TypeOK, TableStep
    PROVE  TableOK'
<1>1. ASSUME NEW g \in DOMAIN grants'
      PROVE  grants'[g] \in Grant
  <2>s. "REVOKED" \in {"ACTIVE", "REVOKED", "DENIED"} /\ "DENIED" \in {"ACTIVE", "REVOKED", "DENIED"}
    BY Zenon
  <2>1. CASE Inserted(g)
    BY <2>1, Zenon DEF Inserted
  <2>2. CASE g \in DOMAIN grants
    <3>1. grants[g] \in Grant
      BY <2>2, Zenon DEF TypeOK, TableOK
    <3>2. CASE Kept(g)
      BY <3>1, <3>2, <2>s, Zenon DEF Kept, Grant
    <3>3. CASE Decided(g)
      BY <3>1, <3>3, <2>s, ZenonT(60) DEF Decided, Grant
    <3>4. CASE Edited(g)
      <4>1. PICK e \in edits : grants'[g] = [grants[g] EXCEPT !.end = e.end]
        BY <3>4, Zenon DEF Edited
      <4>2. e.end \in Dates
        BY Zenon DEF TypeOK, HandlersOK, Edit, Dates
      <4> QED
        BY <3>1, <4>1, <4>2, Zenon DEF Grant
    <3> QED
      BY <3>2, <3>3, <3>4, <2>1, Zenon DEF TableStep, RowsStep
  <2> QED
    BY <2>1, <2>2, Zenon DEF TableStep, RowsStep, Kept, Decided, Edited
<1>2. DOMAIN grants' \subseteq used'
  BY Zenon DEF TableStep, KeysStep, TypeOK, TableOK
<1>3. KeysStep
  BY Zenon DEF TableStep
<1> QED
  BY <1>1, <1>2, <1>3, Zenon DEF KeysStep, TableOK

\* The users, sites and groups keep their types.
LEMMA WorldType ==
    ASSUME TypeOK, Next
    PROVE  WorldOK'
<1>w. WorldOK
  BY Zenon DEF TypeOK
<1>1. CASE UNCHANGED world
  BY <1>1, <1>w, Zenon DEF WorldOK, world
<1>2. ASSUME NEW x \in syncs, ProvisionUser(x) \/ DeprovisionUser(x)
      PROVE  WorldOK'
  <2>1. x.user \in Users
    BY Zenon DEF TypeOK, HandlersOK, Sync
  <2> QED
    BY <1>2, <1>w, <2>1, Zenon DEF ProvisionUser, DeprovisionUser, WorldOK
<1>3. CASE Tick \/ \E days \in Policies : SetPolicy(days)
  BY <1>3, <1>w DEF Tick, SetPolicy, WorldOK
<1>4. CASE \/ \E u \in Users, targets \in SUBSET Targets : ChangeGroups(u, targets)
           \/ \E u \in Users, status \in {"ACTIVE", "DISABLED"} : SetUserStatus(u, status)
           \/ \E u \in Users : DeleteUser(u)
           \/ \E s \in Sites : DeleteSite(s)
  BY <1>4, <1>w, Zenon DEF ChangeGroups, SetUserStatus, DeleteUser, DeleteSite, WorldOK
<1>5. ASSUME NEW h \in Handlers, NEW u \in Users, NEW s \in Sites, NEW start \in InputDates,
             NEW end \in InputDates, NEW sched \in Schedules,
             SubmitRequest(h, u, s, start, end, sched) \/ AdminCreate(h, u, s, start, end, sched)
      PROVE  WorldOK'
  <2>1. UNCHANGED world
    BY <1>5, Zenon DEF SubmitRequest, AdminCreate
  <2> QED
    BY <2>1, <1>1, Zenon
<1>8. ASSUME NEW r \in requests,
             CheckHeld(r) \/ CheckPending(r) \/ CreateAccessRequest(r) \/ CreateGrant(r)
      PROVE  WorldOK'
  <2>1. UNCHANGED world
    BY <1>8, Zenon DEF CheckHeld, CheckPending, CreateAccessRequest, CreateGrant
  <2> QED
    BY <2>1, <1>1, Zenon
<1>6. CASE \/ \E h \in Handlers, g \in GrantIds, u \in Users : WithdrawRead(h, g, u)
           \/ \E w \in withdrawals : WithdrawDelete(w)
           \/ \E g \in GrantIds, approve \in BOOLEAN : DecideGrant(g, approve)
           \/ \E g \in GrantIds : RevokeGrant(g)
           \/ \E h \in Handlers, g \in GrantIds, end \in InputDates : EditRead(h, g, end)
           \/ \E e \in edits : EditWrite(e)
  BY <1>6, <1>1, Zenon DEF WithdrawRead, WithdrawDelete, DecideGrant, RevokeGrant, EditRead, EditWrite
<1>7. CASE \/ \E h \in Handlers, u \in Users : SyncUserAtLogin(h, u)
           \/ \E x \in syncs : ResolveUser(x) \/ ReadCurrent(x)
  BY <1>7, <1>1, Zenon DEF SyncUserAtLogin, ResolveUser, ReadCurrent
<1> QED
  BY <1>2, <1>3, <1>4, <1>5, <1>6, <1>7, <1>8, Zenon DEF Next

\* No step breaks the types.
LEMMA NextType ==
    ASSUME TypeOK, Next
    PROVE  TypeOK'
<1>1. CASE HandlersOK'
  BY <1>1, NextTable, TableType, WorldType, Zenon DEF TypeOK
<1>2. CASE \/ \E h \in Handlers, u \in Users, s \in Sites, start \in InputDates,
                 end \in InputDates, sched \in Schedules :
                 SubmitRequest(h, u, s, start, end, sched) \/ AdminCreate(h, u, s, start, end, sched)
           \/ \E r \in requests : CheckHeld(r) \/ CheckPending(r)
  BY <1>2, SubmitType, CheckType, Zenon
<1>3. CASE \/ \E h \in Handlers, g \in GrantIds, u \in Users : WithdrawRead(h, g, u)
           \/ \E h \in Handlers, g \in GrantIds, end \in InputDates : EditRead(h, g, end)
  BY <1>3, ReadType, Zenon
<1>4. CASE \/ \E h \in Handlers, u \in Users : SyncUserAtLogin(h, u)
           \/ \E x \in syncs : ResolveUser(x) \/ ReadCurrent(x)
  BY <1>4, SyncReadType, Zenon
<1>5. CASE UNCHANGED handlers
  BY <1>5, <1>1, Zenon DEF handlers, TypeOK, HandlersOK
<1>6. CASE \E r \in requests : CreateAccessRequest(r) \/ CreateGrant(r)
  BY <1>6, <1>1, Zenon DEF CreateAccessRequest, CreateGrant, TypeOK, HandlersOK
<1>7. CASE (\E w \in withdrawals : WithdrawDelete(w)) \/ (\E e \in edits : EditWrite(e))
  BY <1>7, <1>1, Zenon DEF WithdrawDelete, EditWrite, TypeOK, HandlersOK
<1>8. CASE \E x \in syncs : ProvisionUser(x) \/ DeprovisionUser(x)
  BY <1>8, <1>1, Zenon DEF ProvisionUser, DeprovisionUser, TypeOK, HandlersOK
<1>9. \/ <1>2!1 \/ <1>3!1 \/ <1>4!1 \/ <1>5!1 \/ <1>6!1 \/ <1>7!1 \/ <1>8!1
  BY Zenon DEF Next, DecideGrant, RevokeGrant, Tick, SetPolicy, ChangeGroups, SetUserStatus,
         DeleteUser, DeleteSite
<1> QED
  BY <1>2, <1>3, <1>4, <1>5, <1>6, <1>7, <1>8, <1>9, Zenon

\* The types hold, and no grant outlives its user or its site.
THEOREM GrantTypes == Spec => []TypeOK
<1>1. TypeOK /\ UNCHANGED vars => TypeOK'
  BY Zenon DEF vars, TypeOK, WorldOK, TableOK, HandlersOK
<1> QED
  BY InitType, NextType, <1>1, PTL DEF Spec

-----------------------------------------------------------------------------
\* What ends stays ended, and what is decided stays decided.

\* The steps of the table keep an ended grant as it is.
LEMMA FrozenStep ==
    ASSUME TypeOK, Next, NEW g \in DOMAIN grants \cap DOMAIN grants', ~Live(grants[g])
    PROVE  grants'[g] \in {grants[g], [grants[g] EXCEPT !.status = "REVOKED"]}
<1>1. g \in used
  BY Zenon DEF TypeOK, TableOK
<1>2. Kept(g) \/ Decided(g) \/ Edited(g) \/ Inserted(g)
  BY NextTable, Zenon DEF TableStep, RowsStep
<1> QED
  BY <1>1, <1>2, Zenon DEF Kept, Decided, Edited, Inserted, Pending

\* No approval, denial, edit or sync that was already running when a grant was
\* revoked or denied changes it afterwards.
THEOREM RetiredStaysFrozen == Spec => RetiredFrozen
<1>1. TypeOK /\ [Next]_vars =>
        [\A g \in DOMAIN grants \cap DOMAIN grants' :
            ~Live(grants[g]) =>
                grants'[g] \in {grants[g], [grants[g] EXCEPT !.status = "REVOKED"]}]_vars
  BY FrozenStep, Zenon
<1> QED
  BY <1>1, GrantTypes, PTL DEF Spec, RetiredFrozen

\* A grant disappears only while it is pending, or with its user or its site:
\* a withdrawal that races an approval deletes nothing.
THEOREM WithdrawsOnlyPending == Spec => OnlyPendingWithdrawn
<1>1. TypeOK /\ [Next]_vars =>
        [\A g \in DOMAIN grants \ DOMAIN grants' :
            \/ Pending(grants[g])
            \/ user'[grants[g].user] = "GONE"
            \/ grants[g].site \notin sites']_vars
  BY NextTable, Zenon DEF TableStep, RestStep
<1> QED
  BY <1>1, GrantTypes, PTL DEF Spec, OnlyPendingWithdrawn

\* Nobody has decided about an id that was not given out.
FreshUndecided == \A g \in GrantIds \ used : decisions[g] = 0

\* A step keeps the count of decisions in line with the row.
LEMMA DecidedStep ==
    ASSUME TypeOK, DecidedOnce, FreshUndecided, Next
    PROVE  DecidedOnce' /\ FreshUndecided'
<1>t. TableStep
  BY NextTable, Zenon
<1>k. used \subseteq used' /\ DOMAIN grants \subseteq used /\ used' \subseteq GrantIds
  BY <1>t, Zenon DEF TableStep, KeysStep, TypeOK, TableOK
<1>d. DOMAIN grants' \subseteq used'
  BY <1>t, <1>k, Zenon DEF TableStep, KeysStep
<1>n. \A g \in GrantIds : decisions[g] \in Nat
  BY Zenon DEF TypeOK, TableOK
<1>1. ASSUME NEW g \in GrantIds
      PROVE  /\ decisions'[g] <= 1
             /\ g \in DOMAIN grants' =>
                   (decisions'[g] = 1 <=> grants'[g].needs /\ grants'[g].approved)
  <2>1. CASE g \notin DOMAIN grants'
    BY <2>1, <1>t, Zenon DEF TableStep, RestStep, DecidedOnce
  <2>2. CASE Inserted(g)
    BY <2>2, <1>n DEF Inserted, FreshUndecided
  <2>3. CASE Kept(g) \/ Decided(g) \/ Edited(g)
    <3>0. g \in DOMAIN grants /\ grants[g] \in Grant
      BY <2>3, Zenon DEF Kept, Decided, Edited, TypeOK, TableOK
    <3>1. CASE Kept(g)
      <4>1. grants'[g].needs = grants[g].needs /\ grants'[g].approved = grants[g].approved
        BY <3>0, <3>1, Zenon DEF Kept, Grant
      <4> QED
        BY <4>1, <3>0, <3>1, Zenon DEF Kept, DecidedOnce
    <3>2. CASE Edited(g)
      <4>1. grants'[g].needs = grants[g].needs /\ grants'[g].approved = grants[g].approved
        BY <3>0, <3>2, Zenon DEF Edited, Grant
      <4> QED
        BY <4>1, <3>0, <3>2, Zenon DEF Edited, DecidedOnce
    <3>3. CASE Decided(g)
      <4>1. grants'[g].needs = grants[g].needs /\ grants'[g].approved
        BY <3>0, <3>3, Zenon DEF Decided, Grant
      <4>2. grants[g].needs /\ ~grants[g].approved
        BY <3>3, Zenon DEF Decided, Pending
      <4>3. decisions[g] = 0
        BY <4>2, <3>0, <1>n DEF DecidedOnce
      <4> QED
        BY <4>1, <4>2, <4>3, <3>3 DEF Decided
    <3> QED
      BY <3>1, <3>2, <3>3, <2>3, Zenon
  <2> QED
    BY <2>1, <2>2, <2>3, <1>t, Zenon DEF TableStep, RowsStep
<1>2. FreshUndecided'
  BY <1>t, <1>k, <1>d, Zenon DEF TableStep, RestStep, FreshUndecided
<1> QED
  BY <1>1, <1>2, Zenon DEF DecidedOnce

\* However many operators answer a request, one decision is made,
\* and a grant counts as approved or denied exactly when that was done.
THEOREM OneDecision == Spec => []DecidedOnce
<1>1. Init => DecidedOnce /\ FreshUndecided
  BY DEF Init, DecidedOnce, FreshUndecided
<1>2. TypeOK /\ DecidedOnce /\ FreshUndecided /\ [Next]_vars => DecidedOnce' /\ FreshUndecided'
  <2>1. CASE UNCHANGED vars
    BY <2>1, Zenon DEF vars, DecidedOnce, FreshUndecided
  <2> QED
    BY <2>1, DecidedStep, Zenon
<1> QED
  BY <1>1, <1>2, GrantTypes, PTL DEF Spec

-----------------------------------------------------------------------------
\* The maximum grant duration.

\* What is within the cap stays within it as time passes.
LEMMA WithinGrows ==
    ASSUME NEW t \in Nat, NEW t2 \in Nat, t <= t2, NEW start \in Dates, NEW end \in Dates,
           NEW days \in Nat, Within(t, start, end, days)
    PROVE  Within(t2, start, end, days)
BY DateAssumption DEF Within, Dates

\* What the form's check lets through is within every bound on the caps.
LEMMA CapChecked ==
    ASSUME TypeOK, NEW days \in Policies, CappedBy(days), NEW start \in Dates,
           NEW end \in Dates, ~GrantCapError(start, end)
    PROVE  Within(now, start, end, days)
<1>1. policy \in Nat /\ policy > 0 /\ policy <= days /\ days \in Nat /\ now \in Nat
  BY DateAssumption, Zenon DEF TypeOK, WorldOK, CappedBy
<1> QED
  BY <1>1, DateAssumption DEF GrantCapError, Within, Dates

\* The locals of the handlers that will write a date: checked against the cap,
\* and an edit against the start its row still has.
RequestsWithin(days) == \A r \in requests : Within(now, r.start, r.end, days)
EditsWithin(days) ==
    \A e \in edits : /\ Within(now, e.start, e.end, days)
                     /\ e.grant \in used
                     /\ e.grant \in DOMAIN grants => grants[e.grant].start = e.start
RowsWithin(days) ==
    \A g \in DOMAIN grants :
        grants[g].directory \/ Within(now, grants[g].start, grants[g].end, days)

CapInv == \A days \in Policies : CappedBy(days) =>
              RowsWithin(days) /\ RequestsWithin(days) /\ EditsWithin(days)

\* Time never runs backwards.
LEMMA NowGrows ==
    ASSUME TypeOK, Next
    PROVE  now \in Nat /\ now' \in Nat /\ now <= now'
<1>1. now \in Nat
  BY Zenon DEF TypeOK, WorldOK
<1>2. now' = now \/ now' = now + 1
  <2>1. ASSUME NEW h \in Handlers, NEW u \in Users, NEW s \in Sites, NEW start \in InputDates,
               NEW end \in InputDates, NEW sched \in Schedules,
               SubmitRequest(h, u, s, start, end, sched) \/ AdminCreate(h, u, s, start, end, sched)
        PROVE  now' = now
    BY <2>1, Zenon DEF SubmitRequest, AdminCreate, world
  <2>2. ASSUME NEW r \in requests,
               CheckHeld(r) \/ CheckPending(r) \/ CreateAccessRequest(r) \/ CreateGrant(r)
        PROVE  now' = now
    BY <2>2, Zenon DEF CheckHeld, CheckPending, CreateAccessRequest, CreateGrant, world
  <2>3. ASSUME NEW g \in GrantIds,
               \/ \E h \in Handlers, u \in Users : WithdrawRead(h, g, u)
               \/ \E approve \in BOOLEAN : DecideGrant(g, approve)
               \/ RevokeGrant(g)
               \/ \E h \in Handlers, end \in InputDates : EditRead(h, g, end)
        PROVE  now' = now
    BY <2>3, Zenon DEF WithdrawRead, DecideGrant, RevokeGrant, EditRead, world
  <2>4. ASSUME (\E w \in withdrawals : WithdrawDelete(w)) \/ (\E e \in edits : EditWrite(e))
        PROVE  now' = now
    BY <2>4, Zenon DEF WithdrawDelete, EditWrite, world
  <2>5. ASSUME \/ \E h \in Handlers, u \in Users : SyncUserAtLogin(h, u)
               \/ \E x \in syncs : ResolveUser(x) \/ ReadCurrent(x)
        PROVE  now' = now
    BY <2>5, Zenon DEF SyncUserAtLogin, ResolveUser, ReadCurrent, world
  <2>6. ASSUME \E x \in syncs : ProvisionUser(x) \/ DeprovisionUser(x)
        PROVE  now' = now
    BY <2>6, Zenon DEF ProvisionUser, DeprovisionUser
  <2>7. ASSUME \/ \E days \in Policies : SetPolicy(days)
               \/ \E u \in Users, targets \in SUBSET Targets : ChangeGroups(u, targets)
               \/ \E u \in Users, status \in {"ACTIVE", "DISABLED"} : SetUserStatus(u, status)
               \/ \E u \in Users : DeleteUser(u)
               \/ \E s \in Sites : DeleteSite(s)
        PROVE  now' = now
    BY <2>7, Zenon DEF SetPolicy, ChangeGroups, SetUserStatus, DeleteUser, DeleteSite
  <2> QED
    BY <2>1, <2>2, <2>3, <2>4, <2>5, <2>6, <2>7, Zenon DEF Next, Tick
<1> QED
  BY <1>1, <1>2

\* The requests after a step were there before, or passed the form's checks.
LEMMA RequestsStep ==
    ASSUME TypeOK, Next, NEW r2 \in requests'
    PROVE  \/ \E r \in requests : r2.start = r.start /\ r2.end = r.end
           \/ r2.start \in Dates /\ r2.end \in Dates /\ ~GrantCapError(r2.start, r2.end)
<1>k. CASE requests' \subseteq requests
  BY <1>k, Zenon
<1>1. ASSUME NEW h \in Handlers, NEW u \in Users, NEW s \in Sites, NEW start \in InputDates,
             NEW end \in InputDates, NEW sched \in Schedules,
             SubmitRequest(h, u, s, start, end, sched) \/ AdminCreate(h, u, s, start, end, sched)
      PROVE  \/ r2 \in requests
             \/ r2.start \in Dates /\ r2.end \in Dates /\ ~GrantCapError(r2.start, r2.end)
  <2>1. start \in Dates /\ end \in Dates
    BY DateAssumption, Zenon DEF Dates
  <2>2. ~GrantCapError(start, end)
    BY <1>1, Zenon DEF SubmitRequest, AdminCreate
  <2>3. PICK pc \in {"held", "grant"} :
          requests' = requests \cup
           {[h |-> h, pc |-> pc, user |-> u, site |-> s, start |-> start,
             end |-> end, schedule |-> sched]}
    BY <1>1, Zenon DEF SubmitRequest, AdminCreate
  <2>4. r2 \in requests \/ (r2.start = start /\ r2.end = end)
    BY <2>3
  <2> QED
    BY <2>1, <2>2, <2>4, Zenon
<1>2. ASSUME NEW r \in requests, CheckHeld(r) \/ CheckPending(r)
      PROVE  \E q \in requests : r2.start = q.start /\ r2.end = q.end
  <2>1. PICK pc \in {"pending", "create"} :
          requests' \subseteq requests \cup {[r EXCEPT !.pc = pc]}
    BY <1>2, Zenon DEF CheckHeld, CheckPending, Advance
  <2>2. r \in Request
    BY Zenon DEF TypeOK, HandlersOK
  <2>3. [r EXCEPT !.pc = pc].start = r.start /\ [r EXCEPT !.pc = pc].end = r.end
    BY <2>2, Zenon DEF Request
  <2> QED
    BY <2>1, <2>3, Zenon
<1>3. ASSUME \E r \in requests : CreateAccessRequest(r) \/ CreateGrant(r)
      PROVE  requests' \subseteq requests
  BY <1>3, Zenon DEF CreateAccessRequest, CreateGrant
<1>4. ASSUME \/ \E h \in Handlers, g \in GrantIds, u \in Users : WithdrawRead(h, g, u)
             \/ \E w \in withdrawals : WithdrawDelete(w)
             \/ \E h \in Handlers, g \in GrantIds, end \in InputDates : EditRead(h, g, end)
             \/ \E e \in edits : EditWrite(e)
      PROVE  requests' = requests
  BY <1>4, Zenon DEF WithdrawRead, WithdrawDelete, EditRead, EditWrite
<1>5. ASSUME \/ \E h \in Handlers, u \in Users : SyncUserAtLogin(h, u)
             \/ \E x \in syncs : ResolveUser(x) \/ ReadCurrent(x)
      PROVE  requests' = requests
  BY <1>5, Zenon DEF SyncUserAtLogin, ResolveUser, ReadCurrent
<1>6. ASSUME \E x \in syncs : ProvisionUser(x) \/ DeprovisionUser(x)
      PROVE  requests' = requests
  BY <1>6, Zenon DEF ProvisionUser, DeprovisionUser
<1>7. ASSUME UNCHANGED handlers
      PROVE  requests' = requests
  BY <1>7, Zenon DEF handlers
<1>8. \/ \E h \in Handlers, u \in Users, s \in Sites, start \in InputDates,
            end \in InputDates, sched \in Schedules :
            SubmitRequest(h, u, s, start, end, sched) \/ AdminCreate(h, u, s, start, end, sched)
      \/ \E r \in requests : CheckHeld(r) \/ CheckPending(r)
      \/ requests' \subseteq requests
  <2>1. CASE \/ \E g \in GrantIds, approve \in BOOLEAN : DecideGrant(g, approve)
             \/ \E g \in GrantIds : RevokeGrant(g)
             \/ Tick
             \/ \E days \in Policies : SetPolicy(days)
             \/ \E u \in Users, targets \in SUBSET Targets : ChangeGroups(u, targets)
             \/ \E u \in Users, status \in {"ACTIVE", "DISABLED"} : SetUserStatus(u, status)
             \/ \E u \in Users : DeleteUser(u)
             \/ \E s \in Sites : DeleteSite(s)
    BY <2>1, <1>7, Zenon DEF DecideGrant, RevokeGrant, Tick, SetPolicy, ChangeGroups, SetUserStatus,
                      DeleteUser, DeleteSite
  <2> QED
    BY <2>1, <1>3, <1>4, <1>5, <1>6, Zenon DEF Next
<1> QED
  BY <1>1, <1>2, <1>8, <1>k, Zenon

\* The edits after a step were there before, or have just read their row.
LEMMA EditsStep ==
    ASSUME TypeOK, Next, NEW e2 \in edits'
    PROVE  \/ e2 \in edits
           \/ /\ UNCHANGED <<grants, used>>
              /\ e2.grant \in DOMAIN grants /\ e2.start = grants[e2.grant].start
              /\ e2.end \in Nat /\ ~GrantCapError(e2.start, e2.end)
<1>1. ASSUME NEW h \in Handlers, NEW g \in GrantIds, NEW end \in InputDates, EditRead(h, g, end)
      PROVE  \/ e2 \in edits
             \/ /\ UNCHANGED <<grants, used>>
                /\ e2.grant \in DOMAIN grants /\ e2.start = grants[e2.grant].start
                /\ e2.end \in Nat /\ ~GrantCapError(e2.start, e2.end)
  <2>1. /\ UNCHANGED <<grants, used>> /\ g \in DOMAIN grants /\ end \in Nat
        /\ ~GrantCapError(grants[g].start, end)
    BY <1>1, Zenon DEF EditRead
  <2>2. e2 \in edits \/ (e2.grant = g /\ e2.start = grants[g].start /\ e2.end = end)
    BY <1>1 DEF EditRead
  <2> QED
    BY <2>1, <2>2, Zenon
<1>2. ASSUME NEW h \in Handlers, NEW u \in Users, NEW s \in Sites, NEW start \in InputDates,
             NEW end \in InputDates, NEW sched \in Schedules,
             SubmitRequest(h, u, s, start, end, sched) \/ AdminCreate(h, u, s, start, end, sched)
      PROVE  edits' = edits
  BY <1>2, Zenon DEF SubmitRequest, AdminCreate
<1>3. ASSUME NEW r \in requests,
             CheckHeld(r) \/ CheckPending(r) \/ CreateAccessRequest(r) \/ CreateGrant(r)
      PROVE  edits' = edits
  BY <1>3, Zenon DEF CheckHeld, CheckPending, CreateAccessRequest, CreateGrant
<1>4. ASSUME \/ \E h \in Handlers, g \in GrantIds, u \in Users : WithdrawRead(h, g, u)
             \/ \E w \in withdrawals : WithdrawDelete(w)
             \/ \E e \in edits : EditWrite(e)
      PROVE  edits' \subseteq edits
  BY <1>4, Zenon DEF WithdrawRead, WithdrawDelete, EditWrite
<1>5. ASSUME \/ \E h \in Handlers, u \in Users : SyncUserAtLogin(h, u)
             \/ \E x \in syncs : ResolveUser(x) \/ ReadCurrent(x)
      PROVE  edits' = edits
  BY <1>5, Zenon DEF SyncUserAtLogin, ResolveUser, ReadCurrent
<1>6. ASSUME \E x \in syncs : ProvisionUser(x) \/ DeprovisionUser(x)
      PROVE  edits' = edits
  BY <1>6, Zenon DEF ProvisionUser, DeprovisionUser
<1>7. ASSUME \/ \E g \in GrantIds, approve \in BOOLEAN : DecideGrant(g, approve)
             \/ \E g \in GrantIds : RevokeGrant(g)
             \/ Tick
             \/ \E days \in Policies : SetPolicy(days)
             \/ \E u \in Users, targets \in SUBSET Targets : ChangeGroups(u, targets)
             \/ \E u \in Users, status \in {"ACTIVE", "DISABLED"} : SetUserStatus(u, status)
             \/ \E u \in Users : DeleteUser(u)
             \/ \E s \in Sites : DeleteSite(s)
      PROVE  edits' = edits
  BY <1>7, Zenon DEF DecideGrant, RevokeGrant, Tick, SetPolicy, ChangeGroups, SetUserStatus,
              DeleteUser, DeleteSite, handlers
<1> QED
  BY <1>1, <1>2, <1>3, <1>4, <1>5, <1>6, <1>7, Zenon DEF Next

\* A row keeps its start, and its end unless an edit changed it.
LEMMA RowDates ==
    ASSUME TypeOK, TableStep, NEW g \in DOMAIN grants'
    PROVE  \/ Inserted(g)
           \/ /\ g \in DOMAIN grants /\ grants[g] \in Grant
              /\ grants'[g].start = grants[g].start /\ grants'[g].directory = grants[g].directory
              /\ \/ grants'[g].end = grants[g].end
                 \/ \E e \in edits : e.grant = g /\ grants'[g].end = e.end
<1>1. CASE Kept(g) \/ Decided(g)
  <2>1. g \in DOMAIN grants /\ grants[g] \in Grant
    BY <1>1, Zenon DEF Kept, Decided, TypeOK, TableOK
  <2> QED
    BY <1>1, <2>1, Zenon DEF Kept, Decided, Grant
<1>2. CASE Edited(g)
  <2>1. g \in DOMAIN grants /\ grants[g] \in Grant
    BY <1>2, Zenon DEF Edited, TypeOK, TableOK
  <2>2. PICK e \in edits : e.grant = g /\ grants'[g] = [grants[g] EXCEPT !.end = e.end]
    BY <1>2, Zenon DEF Edited
  <2> QED
    BY <2>1, <2>2, Zenon DEF Grant
<1> QED
  BY <1>1, <1>2, Zenon DEF TableStep, RowsStep

\* No step takes a grant, a request or an edit beyond the cap.
LEMMA CapStep ==
    ASSUME TypeOK, CapInv, Next
    PROVE  CapInv'
<1>t. TableStep
  BY NextTable, Zenon
<1>n. now \in Nat /\ now' \in Nat /\ now <= now'
  BY NowGrows, Zenon
<1> SUFFICES ASSUME NEW days \in Policies, CappedBy(days)
             PROVE  RowsWithin(days)' /\ RequestsWithin(days)' /\ EditsWithin(days)'
  BY Zenon DEF CapInv, CappedBy
<1>d. days \in Nat
  BY DateAssumption, Zenon
<1>h. RowsWithin(days) /\ RequestsWithin(days) /\ EditsWithin(days)
  BY Zenon DEF CapInv
<1>r. \A r \in requests : r.start \in Dates /\ r.end \in Dates
  BY Zenon DEF TypeOK, HandlersOK, Request
<1>e. \A e \in edits : e.start \in Dates /\ e.end \in Dates
  BY Zenon DEF TypeOK, HandlersOK, Edit, Dates
<1>1. ASSUME NEW g \in DOMAIN grants'
      PROVE  grants'[g].directory \/ Within(now', grants'[g].start, grants'[g].end, days)
  <2>1. CASE Inserted(g)
    <3>1. CASE \E r \in requests : grants'[g].start = r.start /\ grants'[g].end = r.end
      BY <3>1, <1>h, <1>r, <1>n, <1>d, WithinGrows, Zenon DEF RequestsWithin
    <3> QED
      BY <3>1, <2>1, Zenon DEF Inserted
  <2>2. CASE ~Inserted(g)
    <3>1. /\ g \in DOMAIN grants /\ grants[g] \in Grant
          /\ grants'[g].start = grants[g].start /\ grants'[g].directory = grants[g].directory
          /\ \/ grants'[g].end = grants[g].end
             \/ \E e \in edits : e.grant = g /\ grants'[g].end = e.end
      BY <2>2, <1>t, RowDates, Zenon
    <3>2. CASE grants'[g].end = grants[g].end
      <4>1. grants[g].start \in Dates /\ grants[g].end \in Dates
        BY <3>1, Zenon DEF Grant
      <4>2. grants[g].directory \/ Within(now, grants[g].start, grants[g].end, days)
        BY <3>1, <1>h, Zenon DEF RowsWithin
      <4> QED
        BY <4>1, <4>2, <3>1, <3>2, <1>n, <1>d, WithinGrows, Zenon
    <3>3. ASSUME NEW e \in edits, e.grant = g, grants'[g].end = e.end
          PROVE  Within(now', grants'[g].start, grants'[g].end, days)
      <4>1. Within(now, e.start, e.end, days) /\ grants[g].start = e.start
        BY <3>1, <3>3, <1>h, Zenon DEF EditsWithin
      <4> QED
        BY <4>1, <3>1, <3>3, <1>e, <1>n, <1>d, WithinGrows, ZenonT(60)
    <3> QED
      BY <3>1, <3>2, <3>3, Zenon
  <2> QED
    BY <2>1, <2>2, Zenon
<1>2. ASSUME NEW r2 \in requests'
      PROVE  Within(now', r2.start, r2.end, days)
  <2>1. CASE \E r \in requests : r2.start = r.start /\ r2.end = r.end
    BY <2>1, <1>h, <1>r, <1>n, <1>d, WithinGrows, Zenon DEF RequestsWithin
  <2>2. CASE r2.start \in Dates /\ r2.end \in Dates /\ ~GrantCapError(r2.start, r2.end)
    <3>1. Within(now, r2.start, r2.end, days)
      BY <2>2, CapChecked, Zenon
    <3> QED
      BY <3>1, <2>2, <1>n, <1>d, WithinGrows, Zenon
  <2> QED
    BY <2>1, <2>2, RequestsStep, Zenon
<1>3. ASSUME NEW e2 \in edits'
      PROVE  /\ Within(now', e2.start, e2.end, days) /\ e2.grant \in used'
             /\ e2.grant \in DOMAIN grants' => grants'[e2.grant].start = e2.start
  <2>1. CASE e2 \in edits
    <3>1. /\ Within(now, e2.start, e2.end, days) /\ e2.grant \in used
          /\ e2.grant \in DOMAIN grants => grants[e2.grant].start = e2.start
      BY <2>1, <1>h, Zenon DEF EditsWithin
    <3>2. Within(now', e2.start, e2.end, days)
      BY <3>1, <2>1, <1>e, <1>n, <1>d, WithinGrows, Zenon
    <3>3. e2.grant \in used'
      BY <3>1, <1>t, Zenon DEF TableStep, KeysStep
    <3>4. ASSUME e2.grant \in DOMAIN grants'
          PROVE  grants'[e2.grant].start = e2.start
      <4>1. ~Inserted(e2.grant)
        BY <3>1, Zenon DEF Inserted
      <4> QED
        BY <4>1, <3>1, <3>4, <1>t, RowDates, Zenon
    <3> QED
      BY <3>2, <3>3, <3>4, Zenon
  <2>2. CASE /\ UNCHANGED <<grants, used>>
             /\ e2.grant \in DOMAIN grants /\ e2.start = grants[e2.grant].start
             /\ e2.end \in Nat /\ ~GrantCapError(e2.start, e2.end)
    <3>1. grants[e2.grant] \in Grant /\ e2.grant \in used
      BY <2>2, Zenon DEF TypeOK, TableOK
    <3>2. e2.start \in Dates /\ e2.end \in Dates
      BY <2>2, <3>1, Zenon DEF Grant, Dates
    <3>3. Within(now, e2.start, e2.end, days)
      BY <2>2, <3>2, CapChecked, Zenon
    <3>4. Within(now', e2.start, e2.end, days)
      BY <3>2, <3>3, <1>n, <1>d, WithinGrows, Zenon
    <3> QED
      BY <2>2, <3>1, <3>4, Zenon
  <2> QED
    BY <2>1, <2>2, EditsStep, Zenon
<1> QED
  BY <1>1, <1>2, <1>3, Zenon DEF RowsWithin, RequestsWithin, EditsWithin

\* Where a maximum grant duration is always in force, no grant that people
\* made or edited ever reaches further than the longest one allows.
THEOREM CapAlwaysHolds == Spec => []CapHolds
<1>1. Init => CapInv
  BY Zenon DEF Init, CapInv, RowsWithin, RequestsWithin, EditsWithin
<1>2. TypeOK /\ CapInv /\ [Next]_vars => CapInv'
  <2>1. CASE UNCHANGED vars
    BY <2>1, Zenon DEF vars, CapInv, CappedBy, RowsWithin, RequestsWithin, EditsWithin
  <2> QED
    BY <2>1, CapStep, Zenon
<1>3. CapInv => CapHolds
  BY Zenon DEF CapInv, CapHolds, RowsWithin
<1> QED
  BY <1>1, <1>2, <1>3, GrantTypes, PTL DEF Spec

-----------------------------------------------------------------------------
\* What a login leaves behind.

\* A row through which the directory gives user u a site.
GivesFrom(table, g, u) == table[g].user = u /\ Live(table[g]) /\ table[g].directory

\* The rows a login's transaction leaves: the old ones, revoked where the plan
\* says so, and a new one for each site that was missing.
LEMMA ProvisionRows ==
    ASSUME TypeOK, NEW x \in syncs, ProvisionUser(x),
           user[x.user] # "GONE", ToCreate(x) \subseteq sites
    PROVE  \E ids \in SUBSET (GrantIds \ used) :
             /\ DOMAIN grants' = DOMAIN grants \cup ids
             /\ \A i \in DOMAIN grants :
                  grants'[i] = IF i \in RevokedByPlan(x)
                               THEN [grants[i] EXCEPT !.status = "REVOKED"] ELSE grants[i]
             /\ \A i \in ids : /\ GivesFrom(grants', i, x.user)
                               /\ grants'[i].site \in ToCreate(x)
             /\ \A s \in ToCreate(x) : \E i \in ids : grants'[i].site = s
<1>x. x \in Sync /\ x.user \in Users /\ ToCreate(x) \subseteq Sites
  BY Zenon DEF TypeOK, HandlersOK, Sync, ToCreate
<1> DEFINE old == SetStatus(RevokedByPlan(x), "REVOKED")
<1>0. PICK ids \in SUBSET (GrantIds \ used) : \E given \in Bijection(ids, ToCreate(x)) :
        grants' = [i \in DOMAIN grants \cup ids |->
             IF i \in ids THEN DirectoryGrant(x.user, given[i]) ELSE old[i]]
  BY Zenon DEF ProvisionUser
<1>1. PICK given \in Bijection(ids, ToCreate(x)) :
        grants' = [i \in DOMAIN grants \cup ids |->
             IF i \in ids THEN DirectoryGrant(x.user, given[i]) ELSE old[i]]
  BY <1>0, Zenon
<1>2. ids \cap DOMAIN grants = {}
  BY Zenon DEF TypeOK, TableOK
<1>3. DOMAIN grants' = DOMAIN grants \cup ids
  BY <1>1, Zenon
<1>4. ASSUME NEW i \in DOMAIN grants
      PROVE  grants'[i] = IF i \in RevokedByPlan(x)
                          THEN [grants[i] EXCEPT !.status = "REVOKED"] ELSE grants[i]
  <2>1. grants'[i] = old[i]
    BY <1>1, <1>2, Zenon
  <2> QED
    BY <2>1, Zenon DEF SetStatus
<1>5. ASSUME NEW i \in ids
      PROVE  GivesFrom(grants', i, x.user) /\ grants'[i].site = given[i] /\ given[i] \in ToCreate(x)
  <2>1. grants'[i] = DirectoryGrant(x.user, given[i])
    BY <1>1, Zenon
  <2>2. given[i] \in ToCreate(x)
    BY Zenon DEF Bijection, Injection
  <2> QED
    BY <2>1, <2>2 DEF DirectoryGrant, NewGrant, GivesFrom, Live
<1>6. \A s \in ToCreate(x) : \E i \in ids : given[i] = s
  BY Zenon DEF Bijection, Surjection
<1> QED
  BY <1>3, <1>4, <1>5, <1>6

\* After the transaction the user holds the mapped sites and no other.
LEMMA ProvisionExact ==
    ASSUME TypeOK, NEW x \in syncs, ProvisionUser(x),
           user[x.user] # "GONE", ToCreate(x) \subseteq sites,
           x.current = DirectorySites(x.user)
    PROVE  DirectorySites(x.user)' = x.matched \cap Sites
<1>x. x \in Sync /\ x.current \subseteq Sites
  BY Zenon DEF TypeOK, HandlersOK, Sync
<1>1. PICK ids \in SUBSET (GrantIds \ used) :
             /\ DOMAIN grants' = DOMAIN grants \cup ids
             /\ \A i \in DOMAIN grants :
                  grants'[i] = IF i \in RevokedByPlan(x)
                               THEN [grants[i] EXCEPT !.status = "REVOKED"] ELSE grants[i]
             /\ \A i \in ids : /\ GivesFrom(grants', i, x.user)
                               /\ grants'[i].site \in ToCreate(x)
             /\ \A s \in ToCreate(x) : \E i \in ids : grants'[i].site = s
  BY ProvisionRows, Zenon
<1>g. \A i \in DOMAIN grants : grants[i] \in Grant
  BY Zenon DEF TypeOK, TableOK
<1>2. \A s : s \in x.current <=>
        \E i \in DOMAIN grants : GivesFrom(grants, i, x.user) /\ grants[i].site = s
  BY Zenon DEF DirectorySites, GivesFrom
<1>3. \A s : s \in DirectorySites(x.user)' <=>
        \E i \in DOMAIN grants' : GivesFrom(grants', i, x.user) /\ grants'[i].site = s
  BY Zenon DEF DirectorySites, GivesFrom, Live
<1>4. ASSUME NEW i \in DOMAIN grants
      PROVE  GivesFrom(grants', i, x.user) <=>
               GivesFrom(grants, i, x.user) /\ grants[i].site \notin ToRevoke(x)
  <2>1. CASE i \in RevokedByPlan(x)
    <3>1. grants'[i].status = "REVOKED"
      BY <1>1, <1>g, <2>1, Zenon DEF Grant
    <3> QED
      BY <2>1, <3>1, Zenon DEF GivesFrom, Live, RevokedByPlan
  <2>2. CASE i \notin RevokedByPlan(x)
    <3>1. grants'[i] = grants[i]
      BY <1>1, <2>2, Zenon
    <3> QED
      BY <2>2, <3>1, Zenon DEF GivesFrom, Live, RevokedByPlan
  <2> QED
    BY <2>1, <2>2, Zenon
<1>5. \A i \in DOMAIN grants : grants'[i].site = grants[i].site
  BY <1>1, <1>g, Zenon DEF Grant
<1>6. ASSUME NEW s, s \in DirectorySites(x.user)'
      PROVE  s \in x.matched \cap Sites
  <2>1. PICK i \in DOMAIN grants' : GivesFrom(grants', i, x.user) /\ grants'[i].site = s
    BY <1>3, <1>6, Zenon
  <2>2. CASE i \in ids
    BY <1>1, <2>1, <2>2, Zenon DEF ToCreate
  <2>3. CASE i \in DOMAIN grants
    <3>1. s \in x.current /\ s \notin ToRevoke(x)
      BY <1>2, <1>4, <1>5, <2>1, <2>3, Zenon
    <3> QED
      BY <3>1, <1>x, Zenon DEF ToRevoke
  <2> QED
    BY <1>1, <2>2, <2>3, Zenon
<1>7. ASSUME NEW s, s \in x.matched \cap Sites
      PROVE  s \in DirectorySites(x.user)'
  <2>1. CASE s \in x.current
    <3>1. PICK i \in DOMAIN grants : GivesFrom(grants, i, x.user) /\ grants[i].site = s
      BY <1>2, <2>1, Zenon
    <3>2. s \notin ToRevoke(x)
      BY <1>7, Zenon DEF ToRevoke
    <3> QED
      BY <1>1, <1>3, <1>4, <1>5, <3>1, <3>2, Zenon
  <2>2. CASE s \notin x.current
    <3>1. s \in ToCreate(x)
      BY <1>7, <2>2, Zenon DEF ToCreate
    <3> QED
      BY <1>1, <1>3, <3>1, Zenon
  <2> QED
    BY <2>1, <2>2, Zenon
<1> QED
  BY <1>6, <1>7, Zenon

\* Only its own transaction ends a login that has its plan.
LEMMA PlanEnds ==
    ASSUME Next, NEW x \in syncs \ syncs', x.pc = "provision"
    PROVE  ProvisionUser(x)
<1>0. syncs' # syncs
  BY Zenon
<1>1. PICK y \in syncs : ResolveUser(y) \/ ReadCurrent(y) \/ ProvisionUser(y) \/ DeprovisionUser(y)
  <2>1. ASSUME NEW h \in Handlers, NEW u \in Users, NEW s \in Sites, NEW start \in InputDates,
               NEW end \in InputDates, NEW sched \in Schedules,
               SubmitRequest(h, u, s, start, end, sched) \/ AdminCreate(h, u, s, start, end, sched)
        PROVE  FALSE
    BY <1>0, <2>1, Zenon DEF SubmitRequest, AdminCreate
  <2>2. ASSUME NEW r \in requests,
               CheckHeld(r) \/ CheckPending(r) \/ CreateAccessRequest(r) \/ CreateGrant(r)
        PROVE  FALSE
    BY <1>0, <2>2, Zenon DEF CheckHeld, CheckPending, CreateAccessRequest, CreateGrant
  <2>3. ASSUME NEW h \in Handlers, NEW g \in GrantIds, NEW u \in Users, WithdrawRead(h, g, u)
        PROVE  FALSE
    BY <1>0, <2>3, Zenon DEF WithdrawRead
  <2>4. ASSUME NEW w \in withdrawals, WithdrawDelete(w) PROVE FALSE
    BY <1>0, <2>4, Zenon DEF WithdrawDelete
  <2>5. ASSUME NEW g \in GrantIds, NEW approve, DecideGrant(g, approve) \/ RevokeGrant(g)
        PROVE  FALSE
    BY <1>0, <2>5, Zenon DEF DecideGrant, RevokeGrant, handlers
  <2>6. ASSUME NEW h \in Handlers, NEW g \in GrantIds, NEW end \in InputDates, EditRead(h, g, end)
        PROVE  FALSE
    BY <1>0, <2>6, Zenon DEF EditRead
  <2>7. ASSUME NEW e \in edits, EditWrite(e) PROVE FALSE
    BY <1>0, <2>7, Zenon DEF EditWrite
  <2>8. ASSUME NEW h \in Handlers, NEW u \in Users, SyncUserAtLogin(h, u) PROVE FALSE
    BY <2>8, Zenon DEF SyncUserAtLogin
  <2>9. ASSUME NEW u \in Users, NEW targets \in SUBSET Targets, NEW status, NEW days, NEW s,
               \/ Tick \/ SetPolicy(days) \/ ChangeGroups(u, targets) \/ SetUserStatus(u, status)
               \/ DeleteUser(u) \/ DeleteSite(s)
        PROVE  FALSE
    BY <1>0, <2>9, Zenon DEF Tick, SetPolicy, ChangeGroups, SetUserStatus, DeleteUser, DeleteSite, handlers
  <2>10. ~Tick /\ ~(\E days \in Policies : SetPolicy(days)) /\ ~(\E s \in Sites : DeleteSite(s))
    BY <1>0, Zenon DEF Tick, SetPolicy, DeleteSite, handlers
  <2> QED
    BY <2>1, <2>2, <2>3, <2>4, <2>5, <2>6, <2>7, <2>8, <2>9, <2>10, Zenon DEF Next
<1>2. x = y
  BY <1>1, Zenon DEF ResolveUser, ReadCurrent, ProvisionUser, DeprovisionUser
<1> QED
  BY <1>1, <1>2, Zenon DEF ResolveUser, ReadCurrent, DeprovisionUser

\* A login whose view of the user's directory grants is still current leaves
\* exactly the mapped sites, whatever duplicates racing logins had left.
THEOREM LoginsReconcile == Spec => SyncExact
<1>1. TypeOK /\ [Next]_vars =>
        [\A x \in syncs \ syncs' :
          /\ x.pc = "provision"
          /\ user[x.user] # "GONE" /\ ToCreate(x) \subseteq sites
          /\ x.current = DirectorySites(x.user)
          => DirectorySites(x.user)' = x.matched \cap Sites]_vars
  BY PlanEnds, ProvisionExact, Zenon
<1> QED
  BY <1>1, GrantTypes, PTL DEF Spec, SyncExact

-----------------------------------------------------------------------------
\* What evaluateAccess answers.

Denials == {"revoked", "denied", "not_yet", "expired", "pending_approval", "off_schedule"}
Answers == Denials \cup {"allow"}

\* The priorities of the reasons to refuse.
LEMMA Priorities ==
    /\ DENY_PRIORITY["pending_approval"] = 5 /\ DENY_PRIORITY["not_yet"] = 4
    /\ DENY_PRIORITY["off_schedule"] = 3 /\ DENY_PRIORITY["expired"] = 2
    /\ DENY_PRIORITY["revoked"] = 1 /\ DENY_PRIORITY["denied"] = 1
    /\ \A d \in Denials : DENY_PRIORITY[d] \in 1..5
BY DEF DENY_PRIORITY, Denials

\* A non-empty set of naturals has a least element.
LEMMA LeastOf ==
    ASSUME NEW S \in SUBSET Nat, S # {}
    PROVE  \E m \in S : \A n \in S : m <= n
<1> DEFINE R == {p \in Nat \X Nat : p[1] < p[2]}
<1>1. IsWellFoundedOn(R, Nat)
  BY NatLessThanWellFounded, Zenon DEF OpToRel
<1> HIDE DEF R
<1>2. PICK m \in S : \A n \in S : ~(<<n, m>> \in R)
  BY <1>1, WFMin, Zenon
<1>3. ASSUME NEW n \in S PROVE m <= n
  <2>1. n < m => <<n, m>> \in R
    BY Zenon DEF R
  <2> QED
    BY <1>2, <2>1
<1> QED
  BY <1>3, Zenon

\* The best answer among the first n of a list of answers.
Scan(f, n, d) ==
    /\ f \in [0..n -> Answers \cup {"none"}]
    /\ f[0] = "none"
    /\ \A i \in 1..n : f[i] = Better(f[i-1], d[i])

\* The loop over any list of answers gets to its end.
LEMMA ScanExists ==
    ASSUME NEW N \in Nat, NEW d \in [1..N -> Answers]
    PROVE  \E f : Scan(f, N, d)
<1> DEFINE Bad == {n \in 0..N : ~\E f : Scan(f, n, d)}
<1> SUFFICES ASSUME Bad # {} PROVE FALSE
  BY SMTT(30)
<1>1. PICK m \in Bad : \A n \in Bad : m <= n
  <2>1. Bad \in SUBSET Nat
    OBVIOUS
  <2> QED
    BY <2>1, LeastOf, Zenon
<1>2. m # 0
  <2>1. Scan([i \in 0..0 |-> "none"], 0, d)
    BY DEF Scan
  <2> QED
    BY <2>1, Zenon
<1>3. m \in 1..N /\ m - 1 \in 0..N /\ m - 1 \notin Bad
  BY <1>1, <1>2
<1>4. PICK f : Scan(f, m - 1, d)
  BY <1>3, Zenon
<1> DEFINE g == [i \in 0..m |-> IF i = m THEN Better(f[m-1], d[m]) ELSE f[i]]
<1>5. m - 1 \in 0..(m - 1) /\ d[m] \in Answers
  BY <1>3
<1>6. Better(f[m-1], d[m]) \in Answers \cup {"none"}
  BY <1>4, <1>5, Zenon DEF Better, Scan
<1>7. g \in [0..m -> Answers \cup {"none"}] /\ g[0] = "none"
  BY <1>3, <1>4, <1>6 DEF Scan
<1>8. ASSUME NEW i \in 1..m PROVE g[i] = Better(g[i-1], d[i])
  BY <1>3, <1>4, <1>8 DEF Scan
<1>9. Scan(g, m, d)
  BY <1>7, <1>8, Zenon DEF Scan
<1> QED
  BY <1>9, Zenon

\* What the loop has found after n answers: an answer that allows, or one of
\* the highest priority.
Found(b, n, d) ==
    /\ b = "none" <=> n = 0
    /\ b = "allow" <=> \E i \in 1..n : d[i] = "allow"
    /\ b \notin {"none", "allow"} =>
         /\ \E i \in 1..n : d[i] = b
         /\ \A i \in 1..n : d[i] \in Denials /\ DENY_PRIORITY[d[i]] <= DENY_PRIORITY[b]

\* One more answer read keeps what the scan has found so far.
LEMMA FoundNext ==
    ASSUME NEW N \in Nat, NEW d \in [1..N -> Answers], NEW m \in 1..N,
           NEW b \in Answers \cup {"none"}, Found(b, m - 1, d)
    PROVE  Found(Better(b, d[m]), m, d)
<1>1. d[m] \in Answers /\ \A i \in 1..m : (i \in 1..(m-1) \/ i = m) /\ d[i] \in Answers
  OBVIOUS
<1>2. \A i \in 1..(m-1) : i \in 1..m
  OBVIOUS
<1>m. m \in 1..m /\ m # 0 /\ m - 1 \in Nat
  OBVIOUS
<1>3. CASE b = "allow"
  <2>1. Better(b, d[m]) = "allow"
    BY <1>3, Zenon DEF Better
  <2> QED
    BY <1>2, <1>3, <1>m, <2>1, Zenon DEF Found
<1>4. CASE b = "none"
  <2>1. m - 1 = 0 /\ Better(b, d[m]) = d[m]
    BY <1>4, Zenon DEF Better, Found
  <2>2. \A i \in 1..m : i = m
    BY <1>1, <2>1
  <2>3. d[m] # "none" /\ (d[m] # "allow" => d[m] \in Denials)
    BY <1>1, Zenon DEF Answers, Denials
  <2>4. d[m] \in Denials => DENY_PRIORITY[d[m]] <= DENY_PRIORITY[d[m]]
    BY Priorities
  <2> QED
    BY <1>m, <2>1, <2>2, <2>3, <2>4, Zenon DEF Found
<1>5. CASE b \in Denials
  <2>0. /\ b # "allow" /\ b # "none" /\ \A i \in 1..(m-1) : d[i] # "allow"
        /\ \E i \in 1..(m-1) : d[i] = b
        /\ \A i \in 1..(m-1) : d[i] \in Denials /\ DENY_PRIORITY[d[i]] <= DENY_PRIORITY[b]
    BY <1>5, Zenon DEF Found, Denials
  <2>p. \A x \in Denials : DENY_PRIORITY[x] \in Int
    BY Priorities
  <2>1. CASE d[m] = "allow"
    <3>1. Better(b, d[m]) = "allow"
      BY <2>0, <2>1, Zenon DEF Better
    <3> QED
      BY <1>m, <2>1, <3>1, Zenon DEF Found
  <2>2. CASE d[m] # "allow" /\ DENY_PRIORITY[d[m]] > DENY_PRIORITY[b]
    <3>1. Better(b, d[m]) = d[m] /\ d[m] \in Denials /\ d[m] # "none"
      BY <1>1, <2>0, <2>2, Zenon DEF Better, Answers, Denials
    <3>2. \A i \in 1..m : d[i] \in Denials /\ DENY_PRIORITY[d[i]] <= DENY_PRIORITY[d[m]]
      BY <1>1, <1>5, <2>0, <2>2, <2>p, <3>1
    <3> QED
      BY <1>1, <1>m, <2>0, <2>2, <3>1, <3>2, Zenon DEF Found
  <2>3. CASE d[m] # "allow" /\ ~(DENY_PRIORITY[d[m]] > DENY_PRIORITY[b])
    <3>1. Better(b, d[m]) = b /\ d[m] \in Denials
      BY <1>1, <2>0, <2>3, Zenon DEF Better, Answers, Denials
    <3>2. \A i \in 1..m : d[i] \in Denials /\ DENY_PRIORITY[d[i]] <= DENY_PRIORITY[b]
      BY <1>1, <1>5, <2>0, <2>3, <2>p, <3>1, SMTT(30)
    <3> QED
      BY <1>1, <1>2, <1>m, <2>0, <2>3, <3>1, <3>2, Zenon DEF Found
  <2> QED
    BY <2>1, <2>2, <2>3, Zenon
<1> QED
  BY <1>3, <1>4, <1>5, Zenon DEF Answers

\* After n answers the scan holds an allow if one was among them, else the denial of the highest priority.
LEMMA ScanFinds ==
    ASSUME NEW N \in Nat, NEW d \in [1..N -> Answers], NEW f, Scan(f, N, d)
    PROVE  Found(f[N], N, d)
<1> DEFINE Bad == {n \in 0..N : ~Found(f[n], n, d)}
<1> SUFFICES ASSUME Bad # {} PROVE FALSE
  OBVIOUS
<1>1. PICK m \in Bad : \A n \in Bad : m <= n
  <2>1. Bad \in SUBSET Nat
    OBVIOUS
  <2> QED
    BY <2>1, LeastOf, Zenon
<1>2. CASE m = 0
  <2>1. f[0] = "none"
    BY Zenon DEF Scan
  <2>2. Found("none", 0, d)
    BY DEF Found
  <2> QED
    BY <1>1, <1>2, <2>1, <2>2, Zenon
<1>3. CASE m # 0
  <2>1. m \in 1..N /\ m - 1 \in 0..N /\ m - 1 \notin Bad
    BY <1>1, <1>3
  <2>2. Found(f[m-1], m - 1, d) /\ f[m-1] \in Answers \cup {"none"} /\ f[m] = Better(f[m-1], d[m])
    BY <2>1, Zenon DEF Scan
  <2>3. Found(f[m], m, d)
    BY <2>1, <2>2, FoundNext, Zenon
  <2> QED
    BY <1>1, <2>3, Zenon
<1> QED
  BY <1>2, <1>3, Zenon

\* The loop of evaluateAccess is such a scan.
LEMMA BestFinds ==
    ASSUME NEW N \in Nat, NEW order \in [1..N -> DOMAIN grants], NEW t
    PROVE  Found(Best(order, t), N, [i \in 1..N |-> ClassifyGrant(grants[order[i]], t)])
<1> DEFINE d == [i \in 1..N |-> ClassifyGrant(grants[order[i]], t)]
           G(f) == [n \in 0..N |-> IF n = 0 THEN "none"
                                   ELSE Better(f[n-1], ClassifyGrant(grants[order[n]], t))]
<1>1. d \in [1..N -> Answers]
  BY Zenon DEF ClassifyGrant, Answers, Denials
<1>2. Len(order) = N
  OBVIOUS
<1>3. Best(order, t) = (CHOOSE f : f = G(f))[N]
  BY <1>2, Zenon DEF Best
<1>4. PICK f : Scan(f, N, d)
  BY <1>1, ScanExists, Zenon
<1>5. f = G(f)
  BY <1>4 DEF Scan
<1> DEFINE best == CHOOSE g : g = G(g)
<1>6. best = G(best)
  BY <1>5, Zenon
<1> HIDE DEF best
<1>7. /\ best[0] = "none" /\ DOMAIN best = 0..N
      /\ \A i \in 1..N : best[i] = Better(best[i-1], d[i])
  BY <1>6
<1>8. Scan(best, N, d)
  <2> DEFINE Odd == {n \in 0..N : best[n] \notin Answers \cup {"none"}}
  <2>1. Odd = {}
    <3> SUFFICES ASSUME Odd # {} PROVE FALSE
      BY Zenon
    <3>1. PICK m \in Odd : \A n \in Odd : m <= n
      <4>1. Odd \in SUBSET Nat
        OBVIOUS
      <4> QED
        BY <4>1, LeastOf, Zenon
    <3>2. m # 0
      BY <1>7, <3>1, Zenon
    <3>3. m \in 1..N /\ m - 1 \in 0..N /\ m - 1 \notin Odd
      BY <3>1, <3>2
    <3>4. best[m] = Better(best[m-1], d[m]) /\ d[m] \in Answers /\ best[m-1] \in Answers \cup {"none"}
      BY <1>1, <1>7, <3>3, Zenon
    <3>5. best[m] \in Answers \cup {"none"}
      BY <3>4, Zenon DEF Better
    <3> QED
      BY <3>1, <3>5, Zenon
  <2>2. \A n \in 0..N : best[n] \in Answers \cup {"none"}
    BY <2>1, Zenon
  <2>3. best \in [0..N -> Answers \cup {"none"}]
    <3>1. best = [n \in 0..N |-> best[n]]
      BY <1>6, Zenon
    <3> QED
      BY <2>2, <3>1, Zenon
  <2> QED
    BY <1>7, <2>3, Zenon DEF Scan
<1> QED
  BY <1>1, <1>3, <1>8, ScanFinds, Zenon DEF best

\* What classifyGrant says of one grant, read off the columns.
LEMMA ClassifyMeans ==
    ASSUME NEW g \in Grant, NEW t \in Nat
    PROVE  LET d == ClassifyGrant(g, t)
               over == g.end # NoDate /\ t > g.end
               begun == g.start = NoDate \/ g.start <= t
           IN /\ d \in Answers
              /\ d = "allow" <=> Entitles(g, t)
              /\ d = "pending_approval" <=> Pending(g) /\ begun /\ ~over
              /\ d \in {"expired", "revoked", "denied"} => (Live(g) => over)
<1>1. /\ g.status \in {"ACTIVE", "REVOKED", "DENIED"} /\ g.needs \in BOOLEAN /\ g.approved \in BOOLEAN
      /\ g.start \in Nat \cup {NoDate} /\ g.end \in Nat \cup {NoDate}
  BY Zenon DEF Grant, Dates
<1>2. ClassifyGrant(g, t) \in Answers
  BY Zenon DEF ClassifyGrant, Answers, Denials
<1>3. ClassifyGrant(g, t) = "allow" <=> Entitles(g, t)
  BY <1>1, DateAssumption DEF ClassifyGrant, Entitles
<1>4. ClassifyGrant(g, t) = "pending_approval" <=>
        Pending(g) /\ (g.start = NoDate \/ g.start <= t) /\ ~(g.end # NoDate /\ t > g.end)
  BY <1>1, DateAssumption DEF ClassifyGrant, Pending, Live
<1>5. ClassifyGrant(g, t) \in {"expired", "revoked", "denied"} =>
        (Live(g) => g.end # NoDate /\ t > g.end)
  BY <1>1, DateAssumption, Zenon DEF ClassifyGrant, Live
<1> QED
  BY <1>2, <1>3, <1>4, <1>5, Zenon

\* Whatever rows there are and in whatever order they come back, the answer is
\* the one the columns justify.
LEMMA AnswerRight ==
    ASSUME TypeOK, NEW u \in Users, NEW s \in Sites,
           NEW order \in Bijection(1..Cardinality(GrantsOf(u, s)), GrantsOf(u, s))
    PROVE  LET answer == EvaluateAccess(u, order, now)
               rows == {grants[g] : g \in GrantsOf(u, s)}
               active == user[u] = "ACTIVE"
               entitled == \E g \in rows : Entitles(g, now)
               begun(g) == g.start = NoDate \/ g.start <= now
               over(g) == g.end # NoDate /\ now > g.end
           IN /\ answer = "allow" <=> active /\ entitled
              /\ answer = "pending_approval" <=>
                    /\ active /\ ~entitled
                    /\ \E g \in rows : Pending(g) /\ begun(g) /\ ~over(g)
              /\ answer \in {"expired", "revoked", "denied"} =>
                    \A g \in rows : Live(g) => over(g)
<1> DEFINE answer == EvaluateAccess(u, order, now)
           rows == {grants[g] : g \in GrantsOf(u, s)}
           active == user[u] = "ACTIVE"
           entitled == \E g \in rows : Entitles(g, now)
           over(g) == g.end # NoDate /\ now > g.end
           due(g) == Pending(g) /\ (g.start = NoDate \/ g.start <= now) /\ ~over(g)
           all == GrantsOf(u, s)
           d(g) == ClassifyGrant(grants[g], now)
<1> SUFFICES /\ answer = "allow" <=> active /\ entitled
             /\ answer = "pending_approval" <=> active /\ ~entitled /\ \E g \in rows : due(g)
             /\ answer \in {"expired", "revoked", "denied"} => \A g \in rows : Live(g) => over(g)
  BY Zenon
<1>1. all \in SUBSET DOMAIN grants /\ \A g \in all : grants[g] \in Grant
  BY Zenon DEF GrantsOf, TypeOK, TableOK
<1>t. now \in Nat
  BY Zenon DEF TypeOK, WorldOK
<1>2. IsFiniteSet(all) /\ Cardinality(all) \in Nat
  <2>1. all \in SUBSET GrantIds
    BY <1>1, Zenon DEF TypeOK, TableOK
  <2> QED
    BY <2>1, DateAssumption, FS_Subset, FS_CardinalityType, Zenon
<1>3. PICK N \in Nat : N = Cardinality(all)
  BY <1>2, Zenon
<1>4. order \in [1..N -> all] /\ \A g \in all : \E i \in 1..N : order[i] = g
  BY <1>3, Zenon DEF Bijection, Injection, Surjection
<1>5. order \in [1..N -> DOMAIN grants]
  BY <1>1, <1>4, Zenon
<1> DEFINE c == [i \in 1..N |-> ClassifyGrant(grants[order[i]], now)]
<1>6. Found(Best(order, now), N, c)
  BY <1>5, BestFinds, Zenon
<1>c. \A i \in 1..N : order[i] \in all /\ c[i] = d(order[i])
  BY <1>4, Zenon
<1>7. \A g \in all : \E i \in 1..N : c[i] = d(g)
  BY <1>4, <1>c, Zenon
<1>8. \A g \in all : /\ d(g) \in Answers
                     /\ d(g) = "allow" <=> Entitles(grants[g], now)
                     /\ d(g) = "pending_approval" <=> due(grants[g])
                     /\ d(g) \in {"expired", "revoked", "denied"} =>
                          (Live(grants[g]) => over(grants[g]))
  BY <1>1, <1>t, ClassifyMeans, Zenon
<1>e. entitled <=> \E g \in all : d(g) = "allow"
  BY <1>8, Zenon
<1>w. (\E g \in rows : due(g)) <=> \E g \in all : d(g) = "pending_approval"
  BY <1>8, Zenon
<1>o. (\A g \in rows : Live(g) => over(g)) <=> \A g \in all : Live(grants[g]) => over(grants[g])
  BY Zenon
<1>a. order = <<>> <=> N = 0
  <2>1. order = <<>> => N = 0
    <3>1. DOMAIN <<>> = 1..0
      OBVIOUS
    <3>2. DOMAIN order = 1..N
      BY <1>4, Zenon
    <3> QED
      BY <3>1, <3>2
  <2>2. ASSUME N = 0 PROVE order = <<>>
    <3>1. 1..N = {}
      BY <2>2
    <3>2. order \in [{} -> all]
      BY <1>4, <3>1, Zenon
    <3> QED
      BY <3>2
  <2> QED
    BY <2>1, <2>2, Zenon
<1> HIDE DEF answer, rows, entitled, over, due, all, d, c
<1>9. CASE user[u] # "ACTIVE"
  <2>1. answer = "user_disabled"
    BY <1>9, Zenon DEF EvaluateAccess, answer
  <2> QED
    BY <1>9, <2>1, Zenon

<1>10. CASE user[u] = "ACTIVE" /\ N = 0
  <2>1. answer = "no_grant"
    BY <1>10, <1>a, Zenon DEF EvaluateAccess, answer
  <2>2. \A g : g \notin all
    BY <1>4, <1>10
  <2> QED
    BY <1>10, <1>e, <1>w, <2>1, <2>2, Zenon
<1>11. CASE user[u] = "ACTIVE" /\ N # 0
  <2>1. PICK b : b = Best(order, now)
    BY Zenon
  <2>2. answer = b /\ Found(b, N, c)
    BY <1>6, <1>11, <1>a, <2>1, Zenon DEF EvaluateAccess, answer
  <2>3. b # "none"
    BY <1>11, <2>2, Zenon DEF Found
  <2>4. b = "allow" <=> entitled
    <3>1. b = "allow" <=> \E i \in 1..N : c[i] = "allow"
      BY <2>2, Zenon DEF Found
    <3>2. (\E i \in 1..N : c[i] = "allow") <=> \E g \in all : d(g) = "allow"
      BY <1>7, <1>c
    <3> QED
      BY <1>e, <3>1, <3>2, Zenon
  <2>5. ASSUME b # "allow"
        PROVE  /\ b \in Denials /\ \E i \in 1..N : c[i] = b
               /\ \A i \in 1..N : c[i] \in Denials /\ DENY_PRIORITY[c[i]] <= DENY_PRIORITY[b]
    BY <2>2, <2>3, <2>5, Zenon DEF Found
  <2>6. b = "pending_approval" <=> ~entitled /\ \E g \in rows : due(g)
    <3>1. ASSUME b = "pending_approval" PROVE ~entitled /\ \E g \in all : d(g) = "pending_approval"
      <4>1. PICK i \in 1..N : c[i] = b
        BY <2>5, <3>1, Zenon
      <4> QED
        BY <1>c, <2>4, <3>1, <4>1, Zenon
    <3>2. ASSUME ~entitled, NEW g \in all, d(g) = "pending_approval" PROVE b = "pending_approval"
      <4>1. PICK i \in 1..N : c[i] = "pending_approval"
        BY <1>7, <3>2, Zenon
      <4>2. b \in Denials /\ 5 <= DENY_PRIORITY[b]
        BY <2>4, <2>5, <3>2, <4>1, Priorities, Zenon
      <4> QED
        BY <4>2, Priorities DEF Denials
    <3> QED
      BY <1>w, <3>1, <3>2, Zenon
  <2>7. ASSUME b \in {"expired", "revoked", "denied"}
        PROVE  \A g \in rows : Live(g) => over(g)
    <3>1. b # "allow" /\ DENY_PRIORITY[b] <= 2
      BY <2>7, Priorities
    <3>2. ASSUME NEW g \in all PROVE d(g) \in {"expired", "revoked", "denied"}
      <4>1. PICK i \in 1..N : c[i] = d(g)
        BY <1>7, Zenon
      <4>2. d(g) \in Denials /\ DENY_PRIORITY[d(g)] <= DENY_PRIORITY[b] /\ b \in Denials
        BY <2>5, <3>1, <4>1, Zenon
      <4>3. DENY_PRIORITY[d(g)] <= 2
        BY <3>1, <4>2, Priorities
      <4> QED
        BY <4>2, <4>3, Priorities DEF Denials
    <3> QED
      BY <1>8, <1>o, <3>2, Zenon
  <2> QED
    BY <1>11, <2>2, <2>4, <2>6, <2>7, Zenon
<1> QED
  BY <1>9, <1>10, <1>11, Zenon

\* evaluateAccess lets a user in exactly when they are active and some grant
\* entitles them, reports a pending request exactly when an approval would help,
\* and calls access over only when no grant is left to wait for, in whatever
\* order the database returns the rows.
THEOREM AccessIsEvaluatedRight == Spec => []EvaluateRight
<1>1. TypeOK => EvaluateRight
  BY AnswerRight, Zenon DEF EvaluateRight
<1> QED
  BY <1>1, GrantTypes, PTL
=============================================================================
