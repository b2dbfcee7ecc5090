---------------------------- MODULE SignInProofs ----------------------------
(***************************************************************************)
(* Proofs about the sign-in (SignIn), for any users, sessions, sign-in     *)
(* requests, edits, membership calls and support links, and about the      *)
(* round trip to an identity provider that precedes it (OidcFlow).  The    *)
(* hard part is the cap on concurrent sessions, which createSession checks *)
(* with a read before its writes: the invariant keeps, for each user, what *)
(* each request last saw of the sessions and how far its eviction reached. *)
(***************************************************************************)
EXTENDS SignIn, OidcFlow, FiniteSetTheorems, WellFoundedInduction, TLAPS

\* A non-empty set of naturals has a least member.
LEMMA LeastMember == ASSUME NEW S, S \subseteq Nat, S # {} PROVE \E m \in S : \A k \in S : m <= k
<1>1. PICK m \in S : \A k \in S : <<k, m>> \notin OpToRel(<, Nat)
  BY NatLessThanWellFounded, WFMin, Zenon
<1>2. ASSUME NEW k \in S PROVE m <= k
  <2>1. ~(k < m)
    BY <1>1, Zenon DEF OpToRel
  <2> QED BY <2>1
<1> QED BY <1>2, Zenon

\* evictionIds leaves one fewer than the cap.
LEMMA EvictionLeaves ==
    ASSUME NEW L, L \subseteq SessionIds
    PROVE  /\ IsFiniteSet(L) /\ EvictionIds(L) \subseteq L
           /\ Cardinality(L \ EvictionIds(L)) <= MaxConcurrent - 1
<1> DEFINE K == L \ EvictionIds(L)
<1>0. IsFiniteSet(L) /\ L \subseteq Nat /\ MaxConcurrent \in Nat /\ MaxConcurrent >= 1
  <2>1. IsFiniteSet(SessionIds)
    BY FS_Interval, SignInAssumption DEF SessionIds
  <2>2. IsFiniteSet(L)
    BY <2>1, FS_Subset, Zenon
  <2> QED BY <2>2, SignInAssumption DEF SessionIds
<1>1. EvictionIds(L) \subseteq L
  BY Zenon DEF EvictionIds
<1>2. CASE K = {}
  BY <1>0, <1>1, <1>2, FS_EmptySet
<1>3. CASE K # {}
  <2>1. PICK m \in K : \A k \in K : m <= k
    BY <1>0, <1>3, LeastMember, Zenon
  <2> DEFINE Above == {r \in L : r > m}
             A == K \ {m}
  <2>2. IsFiniteSet(Above) /\ Cardinality(Above) \in Nat
    BY <1>0, FS_Subset, FS_CardinalityType, Zenon
  <2>3. Cardinality(Above) < MaxConcurrent - 1
    BY <1>0, <2>2 DEF EvictionIds
  <2>4. A \subseteq Above
    <3>1. ASSUME NEW x \in A PROVE x \in L /\ x > m
      <4>1. x \in Nat /\ m \in Nat /\ x # m /\ m <= x /\ x \in L
        BY <1>0, <2>1, Zenon
      <4> QED BY <4>1
    <3> QED BY <3>1, Zenon
  <2>5. IsFiniteSet(A) /\ Cardinality(A) <= Cardinality(Above) /\ Cardinality(A) \in Nat
    BY <2>2, <2>4, FS_Subset, FS_CardinalityType, Zenon
  <2>6. K = A \cup {m} /\ m \notin A
    BY Zenon
  <2>7. Cardinality(K) = Cardinality(A) + 1
    BY <2>5, <2>6, FS_AddElement, Zenon
  <2> QED BY <1>0, <1>1, <2>2, <2>3, <2>5, <2>7
<1> QED BY <1>2, <1>3, Zenon

\* The sign-in requests, the accounts and the requests that edit them.
HandlerSteps == {"idle", "policy", "keep", "gate", "redirected", "reconcile", "list", "evict", "create"}
HandlerRecs == [pc : HandlerSteps, user : Users \cup {"none"}, via : {"none", "passkey", "oidc"},
                amr : SUBSET {"passkey", "mfa", "pwd", "otp"}, stepped : BOOLEAN, redirects : Nat,
                claim : CenterRoles \cup {"none"}, pol : BOOLEAN, evict : SUBSET SessionIds,
                verdict : ConsoleRoles \cup {"unchanged"}]
AccountRecs == [role : ConsoleRoles, center : CenterRoles \cup {"none"}, active : BOOLEAN]
EditRecs == [pc : {"idle", "write"}, user : Users \cup {"none"}, role : {"none", "ADMIN", "status"},
             center : CenterRoles \cup {"none"}]
SessionRecs == [user : Users \cup {"support", "none"}, kind : {"none", "web", "support"}, proven : BOOLEAN]
PushRecs == [user : Users, role : CenterRoles \cup {"none", "signOut"}]

\* Every variable of the sign-in keeps its shape.
SignTypes ==
    /\ account \in [Users -> AccountRecs] /\ orgRole \in [Users -> CenterRoles \cup {"none"}]
    /\ push \subseteq PushRecs
    /\ policy \in BOOLEAN /\ cache \in {"empty", "required", "free"} /\ loadCrossed \in BOOLEAN
    /\ session \in [SessionIds -> SessionRecs]
    /\ handler \in [Handlers -> HandlerRecs]
    /\ editor \in [Editors -> EditRecs]
    /\ created \in 0..MaxSessions

\* What holds of a request by itself: it has a user, it was sent back to the
\* provider at most once, and a role it decided on is one its claim allows.
HandlerFits(k) ==
    /\ k.pc # "idle" => k.user \in Users
    /\ k.pc = "idle" => k.redirects = 0
    /\ k.redirects = 0 \/ (k.redirects = 1 /\ (k.pc = "redirected" \/ k.stepped))
    /\ k.verdict # "unchanged" => k.claim \in CenterRoles /\ k.verdict \in ConsoleRolesFor(k.claim)

\* An edit's role is within the ceiling its row had.
EditorFits(e) ==
    editor[e].pc = "write" =>
        /\ editor[e].user \in Users
        /\ editor[e].center # "none" => editor[e].role \in ConsoleRolesFor(editor[e].center)
        /\ editor[e].role # "none"

\* A load under way read the policy that is saved, unless it was crossed.
LoadsFit == ~loadCrossed => \A h \in Handlers : handler[h].pc = "keep" => handler[h].pol = policy

\* The edits of a request.
Moved(k, p) == [k EXCEPT !.pc = p]
PolicyRead(k, p, b) == [[k EXCEPT !.pc = p] EXCEPT !.pol = b]
SentBack(k) == [[k EXCEPT !.pc = "redirected"] EXCEPT !.redirects = k.redirects + 1]
Decided(k, v) == [[k EXCEPT !.pc = "list"] EXCEPT !.verdict = v]
Listed(k, E) == [[k EXCEPT !.pc = "evict"] EXCEPT !.evict = E]
Evicted(k) == [[k EXCEPT !.pc = "create"] EXCEPT !.evict = {}]

\* What an edited request holds.
LEMMA HandlerEdits ==
    ASSUME NEW k \in HandlerRecs, HandlerFits(k), k.pc # "idle"
    PROVE  /\ \A p \in {"gate", "reconcile", "list"} : k.pc # "redirected" =>
                Moved(k, p) \in HandlerRecs /\ HandlerFits(Moved(k, p)) /\ Moved(k, p).pc = p
           /\ \A p \in {"keep", "gate"}, b \in BOOLEAN : k.pc # "redirected" =>
                /\ PolicyRead(k, p, b) \in HandlerRecs /\ HandlerFits(PolicyRead(k, p, b))
                /\ PolicyRead(k, p, b).pc = p /\ PolicyRead(k, p, b).pol = b
           /\ ~k.stepped /\ k.pc # "redirected" =>
                SentBack(k) \in HandlerRecs /\ HandlerFits(SentBack(k)) /\ SentBack(k).pc = "redirected"
           /\ \A v \in ConsoleRoles \cup {"unchanged"} :
                k.pc # "redirected" /\ (v = "unchanged" \/ (k.claim \in CenterRoles /\ v \in ConsoleRolesFor(k.claim))) =>
                Decided(k, v) \in HandlerRecs /\ HandlerFits(Decided(k, v)) /\ Decided(k, v).pc = "list"
           /\ \A E \in SUBSET SessionIds : k.pc # "redirected" =>
                /\ Listed(k, E) \in HandlerRecs /\ HandlerFits(Listed(k, E))
                /\ Listed(k, E).pc = "evict" /\ Listed(k, E).evict = E /\ Listed(k, E).user = k.user
           /\ k.pc # "redirected" =>
                /\ Evicted(k) \in HandlerRecs /\ HandlerFits(Evicted(k))
                /\ Evicted(k).pc = "create" /\ Evicted(k).user = k.user
<1>1. ASSUME NEW p \in {"gate", "reconcile", "list"}, k.pc # "redirected"
      PROVE  Moved(k, p) \in HandlerRecs /\ HandlerFits(Moved(k, p)) /\ Moved(k, p).pc = p
  BY <1>1, Zenon DEF Moved, HandlerRecs, HandlerSteps, HandlerFits
<1>2. ASSUME NEW p \in {"keep", "gate"}, NEW b \in BOOLEAN, k.pc # "redirected"
      PROVE  /\ PolicyRead(k, p, b) \in HandlerRecs /\ HandlerFits(PolicyRead(k, p, b))
             /\ PolicyRead(k, p, b).pc = p /\ PolicyRead(k, p, b).pol = b
  BY <1>2, Zenon DEF PolicyRead, HandlerRecs, HandlerSteps, HandlerFits
<1>3. ASSUME ~k.stepped, k.pc # "redirected"
      PROVE  SentBack(k) \in HandlerRecs /\ HandlerFits(SentBack(k)) /\ SentBack(k).pc = "redirected"
  <2>1. k.redirects = 0
    BY <1>3, Zenon DEF HandlerFits
  <2>2. SentBack(k) = [[k EXCEPT !.pc = "redirected"] EXCEPT !.redirects = 1]
    BY <2>1 DEF SentBack
  <2>3. SentBack(k) \in HandlerRecs
    <3> DEFINE m == [k EXCEPT !.pc = "redirected"]
    <3>1. m \in HandlerRecs
      BY Zenon DEF HandlerRecs, HandlerSteps
    <3> HIDE DEF m
    <3>2. [m EXCEPT !.redirects = 1] \in HandlerRecs
      BY <3>1, Zenon DEF HandlerRecs
    <3> QED BY <2>2, <3>2, Zenon DEF m
  <2>4. /\ SentBack(k).pc = "redirected" /\ SentBack(k).redirects = 1 /\ SentBack(k).user = k.user
        /\ SentBack(k).claim = k.claim /\ SentBack(k).verdict = k.verdict
    BY <2>2, Zenon DEF HandlerRecs
  <2> QED BY <2>3, <2>4, Zenon DEF HandlerFits
<1>4. ASSUME NEW v \in ConsoleRoles \cup {"unchanged"}, k.pc # "redirected",
             v = "unchanged" \/ (k.claim \in CenterRoles /\ v \in ConsoleRolesFor(k.claim))
      PROVE  Decided(k, v) \in HandlerRecs /\ HandlerFits(Decided(k, v)) /\ Decided(k, v).pc = "list"
  BY <1>4, Zenon DEF Decided, HandlerRecs, HandlerSteps, HandlerFits
<1>5. ASSUME NEW E \in SUBSET SessionIds, k.pc # "redirected"
      PROVE  /\ Listed(k, E) \in HandlerRecs /\ HandlerFits(Listed(k, E))
             /\ Listed(k, E).pc = "evict" /\ Listed(k, E).evict = E /\ Listed(k, E).user = k.user
  BY <1>5, Zenon DEF Listed, HandlerRecs, HandlerSteps, HandlerFits
<1>6. ASSUME k.pc # "redirected"
      PROVE  /\ Evicted(k) \in HandlerRecs /\ HandlerFits(Evicted(k))
             /\ Evicted(k).pc = "create" /\ Evicted(k).user = k.user
  BY <1>6, Zenon DEF Evicted, HandlerRecs, HandlerSteps, HandlerFits
<1> QED BY <1>1, <1>2, <1>3, <1>4, <1>5, <1>6, Zenon

\* How often a request is sent back for a second factor.
StepUps == {0, 1}

\* A request that holds the provider's token.
Arrived(u, A, c, b, n) == [AtRest EXCEPT !.pc = "policy", !.user = u, !.via = "oidc", !.amr = A, !.claim = c,
                                         !.stepped = b, !.redirects = n]

\* A request at rest, and one that begins.
LEMMA HandlersBegin ==
    /\ AtRest \in HandlerRecs /\ HandlerFits(AtRest) /\ AtRest.pc = "idle"
    /\ \A u \in Users, A \in SUBSET {"passkey", "mfa", "pwd", "otp"} :
         LET q == [AtRest EXCEPT !.pc = "policy", !.user = u, !.via = "passkey", !.amr = A, !.stepped = TRUE] IN
         q \in HandlerRecs /\ HandlerFits(q) /\ q.pc = "policy"
    /\ \A u \in Users, A \in SUBSET {"passkey", "mfa", "pwd", "otp"}, c \in CenterRoles \cup {"none"} :
         /\ Arrived(u, A, c, FALSE, 0) \in HandlerRecs /\ HandlerFits(Arrived(u, A, c, FALSE, 0))
         /\ Arrived(u, A, c, FALSE, 0).pc = "policy"
<1>1. AtRest \in HandlerRecs /\ HandlerFits(AtRest) /\ AtRest.pc = "idle"
  BY Zenon DEF AtRest, HandlerRecs, HandlerSteps, HandlerFits
<1>2. ASSUME NEW u \in Users, NEW A \in SUBSET {"passkey", "mfa", "pwd", "otp"}
      PROVE  LET q == [AtRest EXCEPT !.pc = "policy", !.user = u, !.via = "passkey", !.amr = A, !.stepped = TRUE] IN
             q \in HandlerRecs /\ HandlerFits(q) /\ q.pc = "policy"
  BY Zenon DEF AtRest, HandlerRecs, HandlerSteps, HandlerFits
<1>3. ASSUME NEW u \in Users, NEW A \in SUBSET {"passkey", "mfa", "pwd", "otp"}, NEW c \in CenterRoles \cup {"none"}
      PROVE  /\ Arrived(u, A, c, FALSE, 0) \in HandlerRecs /\ HandlerFits(Arrived(u, A, c, FALSE, 0))
             /\ Arrived(u, A, c, FALSE, 0).pc = "policy"
  BY Zenon DEF Arrived, AtRest, HandlerRecs, HandlerSteps, HandlerFits
<1> QED BY <1>1, <1>2, <1>3, Zenon

\* A request that comes back from the second factor holds a token and fits.
LEMMA SteppedUpArrives ==
    ASSUME NEW u \in Users, NEW A \in SUBSET {"passkey", "mfa", "pwd", "otp"}, NEW c \in CenterRoles \cup {"none"}
    PROVE  \A n \in StepUps : /\ Arrived(u, A, c, TRUE, n) \in HandlerRecs /\ HandlerFits(Arrived(u, A, c, TRUE, n))
                              /\ Arrived(u, A, c, TRUE, n).pc = "policy"
<1> SUFFICES ASSUME NEW n \in StepUps
             PROVE  /\ Arrived(u, A, c, TRUE, n) \in HandlerRecs /\ HandlerFits(Arrived(u, A, c, TRUE, n))
                    /\ Arrived(u, A, c, TRUE, n).pc = "policy"
  BY Zenon
<1>1. CASE n = 0
  BY <1>1, Zenon DEF Arrived, AtRest, HandlerRecs, HandlerSteps, HandlerFits
<1>2. CASE n = 1
  BY <1>2, Zenon DEF Arrived, AtRest, HandlerRecs, HandlerSteps, HandlerFits
<1> QED BY <1>1, <1>2, Zenon DEF StepUps

\* reconcileCenterRole keeps an account within its ceiling.
LEMMA ReconcileFits ==
    ASSUME NEW row \in AccountRecs, NEW grant \in CenterRoles \cup {"none"}
    PROVE  /\ Reconcile(row, grant) \in AccountRecs
           /\ grant \in CenterRoles => /\ Reconcile(row, grant).role \in ConsoleRolesFor(grant)
                                       /\ Reconcile(row, grant).center = grant
           /\ grant = "none" => /\ Reconcile(row, grant).role = row.role /\ Reconcile(row, grant).center = row.center
                                /\ row.center = "none" => Reconcile(row, grant) = row
<1>1. CASE grant = "none"
  BY <1>1, Zenon DEF Reconcile, AccountRecs, CenterRoles
<1>2. CASE grant \in CenterRoles
  <2>1. grant # "none"
    BY <1>2, Zenon DEF CenterRoles
  <2>2. AccessRoleForGrant(grant) \in ConsoleRolesFor(grant) /\ ConsoleRolesFor(grant) \subseteq ConsoleRoles
    BY <1>2, Zenon DEF AccessRoleForGrant, ConsoleRolesFor, ConsoleRoles, CenterRoles
  <2>3. PICK x \in ConsoleRolesFor(grant) : x = IF row.center # grant \/ row.role \notin ConsoleRolesFor(grant)
                                                THEN AccessRoleForGrant(grant) ELSE row.role
    BY <2>2, Zenon
  <2>4. Reconcile(row, grant) = [role |-> x, center |-> grant, active |-> TRUE]
    BY <2>1, <2>3, Zenon DEF Reconcile
  <2> QED BY <1>2, <2>1, <2>2, <2>4 DEF AccountRecs
<1> QED BY <1>1, <1>2, Zenon

\* How a request moves, apart from listing and evicting.
LEMMA RequestsMove ==
    ASSUME SignTypes, NEW h \in Handlers, HandlerFits(handler[h]),
           \/ \E u \in Users, ok \in Proofs : PasskeyVerify(h, u, ok)
           \/ \E u \in Users, claim \in AmrClaims : OidcToken(h, u, claim)
           \/ ReadPolicy(h) \/ KeepPolicy(h) \/ GateStep(h) \/ CenterDecide(h) \/ CreateSession(h) \/ SignInFails(h)
    PROVE  \E q \in HandlerRecs : /\ handler' = [handler EXCEPT ![h] = q] /\ HandlerFits(q)
                                  /\ q.pc \notin {"evict", "create"}
                                  /\ q.pc = "keep" => ReadPolicy(h) /\ q.pol = policy
<1> DEFINE k == handler[h]
           Good(q) == /\ q \in HandlerRecs /\ handler' = [handler EXCEPT ![h] = q] /\ HandlerFits(q)
                      /\ q.pc \notin {"evict", "create"} /\ (q.pc = "keep" => ReadPolicy(h) /\ q.pol = policy)
<1> SUFFICES \E q : Good(q)
  BY Zenon
<1>0. k \in HandlerRecs
  BY Zenon DEF SignTypes
<1>rest. ASSUME handler' = [handler EXCEPT ![h] = AtRest] PROVE Good(AtRest)
  BY <1>rest, HandlersBegin, Zenon
<1>1. ASSUME NEW u \in Users, NEW ok \in Proofs, PasskeyVerify(h, u, ok) PROVE \E q : Good(q)
  <2>1. PICK A \in SUBSET {"passkey", "mfa", "pwd", "otp"} : A = PasskeyAmr(ok)
    BY Zenon DEF PasskeyAmr
  <2>2. PICK q \in HandlerRecs : /\ q = [AtRest EXCEPT !.pc = "policy", !.user = u, !.via = "passkey", !.amr = A, !.stepped = TRUE]
                                 /\ HandlerFits(q) /\ q.pc = "policy"
    BY HandlersBegin, Zenon
  <2>3. handler' = [handler EXCEPT ![h] = q]
    BY <1>1, <2>1, <2>2, Zenon DEF PasskeyVerify
  <2> QED BY <2>2, <2>3, Zenon
<1>2. ASSUME NEW u \in Users, NEW claim \in AmrClaims, OidcToken(h, u, claim) PROVE \E q : Good(q)
  <2>1. PICK A \in SUBSET {"passkey", "mfa", "pwd", "otp"} : A = ReadAmr(claim)
    <3>1. claim.methods \in {{"pwd"}, {"pwd", "otp"}}
      BY DEF AmrClaims
    <3>2. ReadAmr(claim) \in {{}, {"pwd"}, {"pwd", "otp"}}
      BY <3>1, Zenon DEF ReadAmr
    <3> QED BY <3>2, Zenon
  <2>2. PICK c \in CenterRoles \cup {"none"} : c = orgRole[u]
    BY Zenon DEF SignTypes
  <2>3. CASE k.pc = "redirected"
    <3>1. PICK n \in StepUps : n = k.redirects
      BY Zenon DEF HandlerFits, StepUps
    <3>2. PICK q \in HandlerRecs : q = Arrived(u, A, c, TRUE, n) /\ HandlerFits(q) /\ q.pc = "policy"
      <4>1. \A m \in StepUps : /\ Arrived(u, A, c, TRUE, m) \in HandlerRecs /\ HandlerFits(Arrived(u, A, c, TRUE, m))
                               /\ Arrived(u, A, c, TRUE, m).pc = "policy"
        BY SteppedUpArrives, Zenon
      <4> QED BY <4>1, Zenon
    <3>3. (k.pc = "redirected") = TRUE
      BY <2>3, Zenon
    <3>4. handler' = [handler EXCEPT ![h] = q]
      BY <1>2, <2>1, <2>2, <3>1, <3>2, <3>3, Zenon DEF OidcToken, Arrived
    <3> QED BY <3>2, <3>4, Zenon
  <2>4. CASE k.pc = "idle"
    <3>1. k.redirects = 0
      BY <2>4, Zenon DEF HandlerFits
    <3>2. PICK q \in HandlerRecs : q = Arrived(u, A, c, FALSE, 0) /\ HandlerFits(q) /\ q.pc = "policy"
      BY HandlersBegin, Zenon
    <3>3. (k.pc = "redirected") = FALSE
      BY <2>4, Zenon
    <3>4. handler' = [handler EXCEPT ![h] = q]
      BY <1>2, <2>1, <2>2, <3>1, <3>2, <3>3, Zenon DEF OidcToken, Arrived
    <3> QED BY <3>2, <3>4, Zenon
  <2> QED BY <1>2, <2>3, <2>4, Zenon DEF OidcToken
<1>3. ASSUME ReadPolicy(h) PROVE \E q : Good(q)
  <2>1. PICK p \in {"keep", "gate"}, b \in BOOLEAN :
          /\ handler' = [handler EXCEPT ![h].pc = p, ![h].pol = b]
          /\ p = "keep" => b = policy
    BY <1>3, Zenon DEF ReadPolicy, SignTypes
  <2>2. PolicyRead(k, p, b) \in HandlerRecs /\ HandlerFits(PolicyRead(k, p, b))
        /\ PolicyRead(k, p, b).pc = p /\ PolicyRead(k, p, b).pol = b
    BY <1>0, <1>3, HandlerEdits DEF ReadPolicy
  <2>3. handler' = [handler EXCEPT ![h] = PolicyRead(k, p, b)]
    BY <2>1, Zenon DEF PolicyRead, SignTypes
  <2>4. Good(PolicyRead(k, p, b))
    BY <1>3, <2>1, <2>2, <2>3, Zenon
  <2> QED BY <2>4, Zenon
<1>4. ASSUME KeepPolicy(h) PROVE \E q : Good(q)
  <2>1. Moved(k, "gate") \in HandlerRecs /\ HandlerFits(Moved(k, "gate")) /\ Moved(k, "gate").pc = "gate"
    BY <1>0, <1>4, HandlerEdits, Zenon DEF KeepPolicy
  <2>2. handler' = [handler EXCEPT ![h] = Moved(k, "gate")]
    BY <1>4, Zenon DEF KeepPolicy, Moved, SignTypes
  <2> QED BY <2>1, <2>2, Zenon
<1>5. ASSUME GateStep(h) PROVE \E q : Good(q)
  <2>0. k.pc = "gate"
    BY <1>5, Zenon DEF GateStep
  <2>1. /\ \A p \in {"reconcile", "list"} : Moved(k, p) \in HandlerRecs /\ HandlerFits(Moved(k, p)) /\ Moved(k, p).pc = p
        /\ ~k.stepped => SentBack(k) \in HandlerRecs /\ HandlerFits(SentBack(k)) /\ SentBack(k).pc = "redirected"
    BY <1>0, <2>0, HandlerEdits
  <2>2. \/ \E p \in {"reconcile", "list"} : handler' = [handler EXCEPT ![h] = Moved(k, p)]
        \/ ~k.stepped /\ handler' = [handler EXCEPT ![h] = SentBack(k)]
        \/ handler' = [handler EXCEPT ![h] = AtRest]
    BY <1>5, Zenon DEF GateStep, SecondFactorGate, Moved, SentBack
  <2> QED BY <1>rest, <2>1, <2>2, Zenon
<1>6. ASSUME CenterDecide(h) PROVE \E q : Good(q)
  <2>0. k.pc = "reconcile" /\ k.user \in Users /\ k.claim \in CenterRoles \cup {"none"}
    BY <1>0, <1>6, Zenon DEF CenterDecide, HandlerFits, HandlerRecs
  <2>1. PICK a \in AccountRecs : a = account[k.user]
    BY <2>0, Zenon DEF SignTypes
  <2>2. PICK row \in AccountRecs : row = Reconcile(a, k.claim)
    BY <2>0, ReconcileFits, Zenon
  <2>3. \/ handler' = [handler EXCEPT ![h] = AtRest]
        \/ /\ ~(k.claim = "none" /\ a.center # "none")
           /\ handler' = [handler EXCEPT ![h] = Decided(k, IF row = a THEN "unchanged" ELSE row.role)]
    BY <1>6, <2>1, <2>2, Zenon DEF CenterDecide, Decided
  <2>4. ASSUME ~(k.claim = "none" /\ a.center # "none"), NEW v, v = IF row = a THEN "unchanged" ELSE row.role
        PROVE  /\ v \in ConsoleRoles \cup {"unchanged"}
               /\ v = "unchanged" \/ (k.claim \in CenterRoles /\ v \in ConsoleRolesFor(k.claim))
    <3>1. row.role \in ConsoleRoles
      BY Zenon DEF AccountRecs
    <3>2. row # a => k.claim \in CenterRoles /\ row.role \in ConsoleRolesFor(k.claim)
      BY <2>0, <2>2, <2>4, ReconcileFits, Zenon
    <3> QED BY <2>4, <3>1, <3>2, Zenon
  <2>5. ASSUME NEW v \in ConsoleRoles \cup {"unchanged"},
               v = "unchanged" \/ (k.claim \in CenterRoles /\ v \in ConsoleRolesFor(k.claim))
        PROVE  Decided(k, v) \in HandlerRecs /\ HandlerFits(Decided(k, v)) /\ Decided(k, v).pc = "list"
    BY <1>0, <2>0, <2>5, HandlerEdits, Zenon
  <2> QED BY <1>rest, <2>3, <2>4, <2>5, Zenon
<1>7. ASSUME CreateSession(h) \/ SignInFails(h) PROVE \E q : Good(q)
  BY <1>7, <1>rest, Zenon DEF CreateSession, SignInFails
<1> HIDE DEF Good
<1> QED BY <1>1, <1>2, <1>3, <1>4, <1>5, <1>6, <1>7, Zenon

\* Every step moves one request at most, and keeps what holds of it.
LEMMA RequestStep ==
    ASSUME SignTypes, \A h \in Handlers : HandlerFits(handler[h]), [SignInNext]_signVars
    PROVE  \/ UNCHANGED handler
           \/ \E h \in Handlers, q \in HandlerRecs :
                /\ handler' = [handler EXCEPT ![h] = q] /\ HandlerFits(q)
                /\ q.pc = "keep" => ReadPolicy(h) /\ q.pol = policy
                /\ q.pc = "evict" => ListSessions(h)
                /\ q.pc = "create" => EvictSessions(h)
<1>1. ASSUME NEW h \in Handlers, ListSessions(h)
      PROVE  \E q \in HandlerRecs : handler' = [handler EXCEPT ![h] = q] /\ HandlerFits(q) /\ q.pc = "evict"
  <2>0. handler[h] \in HandlerRecs /\ HandlerFits(handler[h]) /\ handler[h].pc = "list"
    BY <1>1, Zenon DEF SignTypes, ListSessions
  <2>1. PICK E \in SUBSET SessionIds : E = EvictionIds(WebSessions(handler[h].user))
    BY Zenon DEF EvictionIds, WebSessions, SessionsOf
  <2>2. PICK q \in HandlerRecs : q = Listed(handler[h], E) /\ HandlerFits(q) /\ q.pc = "evict"
    BY <2>0, HandlerEdits
  <2>3. handler' = [handler EXCEPT ![h] = q]
    BY <1>1, <2>1, <2>2, Zenon DEF ListSessions, Listed, SignTypes
  <2> QED BY <2>2, <2>3, Zenon
<1>2. ASSUME NEW h \in Handlers, EvictSessions(h)
      PROVE  \E q \in HandlerRecs : handler' = [handler EXCEPT ![h] = q] /\ HandlerFits(q) /\ q.pc = "create"
  <2>0. handler[h] \in HandlerRecs /\ HandlerFits(handler[h]) /\ handler[h].pc = "evict"
    BY <1>2, Zenon DEF SignTypes, EvictSessions
  <2>2. PICK q \in HandlerRecs : q = Evicted(handler[h]) /\ HandlerFits(q) /\ q.pc = "create"
    BY <2>0, HandlerEdits, Zenon
  <2>3. handler' = [handler EXCEPT ![h] = q]
    BY <1>2, <2>2, Zenon DEF EvictSessions, Evicted, SignTypes
  <2> QED BY <2>2, <2>3, Zenon
<1>3. ASSUME NEW h \in Handlers,
             \/ \E u \in Users, ok \in Proofs : PasskeyVerify(h, u, ok)
             \/ \E u \in Users, claim \in AmrClaims : OidcToken(h, u, claim)
             \/ ReadPolicy(h) \/ KeepPolicy(h) \/ GateStep(h) \/ CenterDecide(h) \/ CreateSession(h) \/ SignInFails(h)
      PROVE  \E q \in HandlerRecs : /\ handler' = [handler EXCEPT ![h] = q] /\ HandlerFits(q)
                                    /\ q.pc \notin {"evict", "create"}
                                    /\ q.pc = "keep" => ReadPolicy(h) /\ q.pol = policy
  BY <1>3, RequestsMove, Zenon
<1>4. \/ UNCHANGED handler
      \/ \E h \in Handlers :
           \/ ListSessions(h) \/ EvictSessions(h)
           \/ \E u \in Users, ok \in Proofs : PasskeyVerify(h, u, ok)
           \/ \E u \in Users, claim \in AmrClaims : OidcToken(h, u, claim)
           \/ ReadPolicy(h) \/ KeepPolicy(h) \/ GateStep(h) \/ CenterDecide(h) \/ CreateSession(h) \/ SignInFails(h)
  BY Zenon DEF SignInNext, signVars, Within, CacheExpires, SavePolicy, CentreSignsOut, CentreChanges, PushLost, Membership,
         EditWrite, EditRead, Logout, IdleTimeout, EndSupportSession, RevokeSession, RevokeSessions, Ends,
         HandoffCommit, HandoffRead
<1> QED BY <1>1, <1>2, <1>3, <1>4, Zenon

\* The edits of an account.
Barred(a) == [a EXCEPT !.active = FALSE]
Flipped(a) == [a EXCEPT !.active = ~@]
Promoted(a, r) == [a EXCEPT !.role = r]
Granted(v, c) == [role |-> v, center |-> c, active |-> TRUE]

\* What an edited account holds.
LEMMA AccountEdits ==
    ASSUME NEW a \in AccountRecs
    PROVE  /\ Barred(a) \in AccountRecs /\ Barred(a).role = a.role /\ Barred(a).center = a.center
           /\ Flipped(a) \in AccountRecs /\ Flipped(a).role = a.role /\ Flipped(a).center = a.center
           /\ \A r \in ConsoleRoles : /\ Promoted(a, r) \in AccountRecs
                                      /\ Promoted(a, r).role = r /\ Promoted(a, r).center = a.center
           /\ \A v \in ConsoleRoles, c \in CenterRoles : /\ Granted(v, c) \in AccountRecs
                                                         /\ Granted(v, c).role = v /\ Granted(v, c).center = c
<1>1. Barred(a) \in AccountRecs /\ Barred(a).role = a.role /\ Barred(a).center = a.center
  BY Zenon DEF Barred, AccountRecs
<1>2. Flipped(a) \in AccountRecs /\ Flipped(a).role = a.role /\ Flipped(a).center = a.center
  <2>1. CASE a.active = TRUE
    <3>1. Flipped(a) = [a EXCEPT !.active = FALSE]
      BY <2>1, Zenon DEF Flipped, AccountRecs
    <3> QED BY <3>1, Zenon DEF AccountRecs
  <2>2. CASE a.active = FALSE
    <3>1. Flipped(a) = [a EXCEPT !.active = TRUE]
      BY <2>2, Zenon DEF Flipped, AccountRecs
    <3> QED BY <3>1, Zenon DEF AccountRecs
  <2> QED BY <2>1, <2>2, Zenon DEF AccountRecs
<1>3. \A r \in ConsoleRoles : /\ Promoted(a, r) \in AccountRecs
                              /\ Promoted(a, r).role = r /\ Promoted(a, r).center = a.center
  BY Zenon DEF Promoted, AccountRecs
<1>4. \A v \in ConsoleRoles, c \in CenterRoles : /\ Granted(v, c) \in AccountRecs
                                               /\ Granted(v, c).role = v /\ Granted(v, c).center = c
  BY Zenon DEF Granted, AccountRecs
<1> QED BY <1>1, <1>2, <1>3, <1>4, Zenon

\* The accounts, the centre's calls and the edits.
AccountsFit ==
    /\ SignTypes
    /\ \A h \in Handlers : HandlerFits(handler[h])
    /\ \A e \in Editors : EditorFits(e)
    /\ CeilingKept

\* One account is written with a row that is within its ceiling, or is marked.
LEMMA AccountWritten ==
    ASSUME SignTypes, CeilingKept, NEW u \in Users, NEW row \in AccountRecs, account' = [account EXCEPT ![u] = row],
           crossed \ {u} = crossed' \ {u},
           row.center # "none" /\ u \notin crossed' => row.role \in ConsoleRolesFor(row.center)
    PROVE  account' \in [Users -> AccountRecs] /\ CeilingKept'
<1>1. account' \in [Users -> AccountRecs] /\ account'[u] = row /\ \A v \in Users \ {u} : account'[v] = account[v]
  BY Zenon DEF SignTypes
<1>2. \A v \in Users \ {u} : v \in crossed' <=> v \in crossed
  BY Zenon
<1> QED BY <1>1, <1>2, Zenon DEF CeilingKept

\* The centre's word and the console's edit, wherever they meet.
LEMMA AccountStep ==
    ASSUME AccountsFit, [SignInNext]_signVars
    PROVE  account' \in [Users -> AccountRecs] /\ CeilingKept'
<1> USE DEF AccountsFit
<1>1. ASSUME NEW h \in Handlers, CenterDecide(h) PROVE account' \in [Users -> AccountRecs] /\ CeilingKept'
  <2>1. handler[h].user \in Users /\ UNCHANGED crossed
    BY <1>1, Zenon DEF HandlerFits, CenterDecide
  <2>2. PICK u \in Users : u = handler[h].user
    BY <2>1, Zenon
  <2>3. CASE UNCHANGED account
    BY <2>1, <2>3, Zenon DEF CeilingKept, SignTypes
  <2>4. CASE account' = [account EXCEPT ![u].active = FALSE]
    <3>1. account[u] \in AccountRecs
      BY Zenon DEF SignTypes
    <3>2. PICK row \in AccountRecs : /\ row = Barred(account[u])
                                     /\ row.role = account[u].role /\ row.center = account[u].center
      BY <3>1, AccountEdits, Zenon
    <3>3. account' = [account EXCEPT ![u] = row]
      BY <2>4, <3>2, Zenon DEF SignTypes, Barred
    <3>4. row.center # "none" /\ u \notin crossed' => row.role \in ConsoleRolesFor(row.center)
      BY <2>1, <3>2, Zenon DEF CeilingKept
    <3> QED BY <2>1, <3>3, <3>4, AccountWritten, Zenon
  <2> QED BY <1>1, <2>2, <2>3, <2>4, Zenon DEF CenterDecide
<1>2. ASSUME NEW m \in push, Membership(m) PROVE account' \in [Users -> AccountRecs] /\ CeilingKept'
  <2>0. m \in PushRecs
    BY Zenon DEF SignTypes
  <2>1. CASE UNCHANGED <<account, crossed>>
    BY <2>1, Zenon DEF CeilingKept, SignTypes
  <2>2. CASE /\ m.role # "signOut" /\ account' = [account EXCEPT ![m.user] = Reconcile(account[m.user], m.role)]
             /\ crossed' = IF m.role = "none" THEN crossed ELSE crossed \ {m.user}
    <3>1. PICK u \in Users, r \in CenterRoles \cup {"none"} : u = m.user /\ r = m.role
      BY <2>0, <2>2, Zenon DEF PushRecs
    <3>2. account[u] \in AccountRecs
      BY Zenon DEF SignTypes
    <3>3. PICK row \in AccountRecs : row = Reconcile(account[u], r)
      BY <3>2, ReconcileFits, Zenon
    <3>4. row.center # "none" /\ u \notin crossed' => row.role \in ConsoleRolesFor(row.center)
      <4>1. CASE r = "none"
        <5>1. row.role = account[u].role /\ row.center = account[u].center
          BY <3>2, <3>3, <4>1, ReconcileFits, Zenon
        <5> QED BY <2>2, <3>1, <4>1, <5>1, Zenon DEF CeilingKept
      <4>2. CASE r \in CenterRoles
        BY <3>2, <3>3, <4>2, ReconcileFits
      <4> QED BY <4>1, <4>2, Zenon
    <3> QED BY <2>2, <3>1, <3>3, <3>4, AccountWritten, Zenon
  <2> QED BY <1>2, <2>1, <2>2, Zenon DEF Membership
<1>3. ASSUME NEW e \in Editors, EditWrite(e) PROVE account' \in [Users -> AccountRecs] /\ CeilingKept'
  <2>1. editor[e] \in EditRecs /\ EditorFits(e) /\ editor[e].pc = "write"
    BY <1>3, Zenon DEF SignTypes, EditWrite
  <2>2. PICK u \in Users : u = editor[e].user
    BY <2>1, Zenon DEF EditorFits
  <2>3. account[u] \in AccountRecs
    BY Zenon DEF SignTypes
  <2>4. CASE account' = [account EXCEPT ![u].active = ~@] /\ UNCHANGED crossed
    <3>1. PICK row \in AccountRecs : /\ row = Flipped(account[u])
                                     /\ row.role = account[u].role /\ row.center = account[u].center
      BY <2>3, AccountEdits, Zenon
    <3>2. account' = [account EXCEPT ![u] = row]
      BY <2>4, <3>1, Zenon DEF SignTypes, Flipped
    <3>3. row.center # "none" /\ u \notin crossed' => row.role \in ConsoleRolesFor(row.center)
      BY <2>4, <3>1, Zenon DEF CeilingKept
    <3> QED BY <2>4, <3>2, <3>3, AccountWritten, Zenon
  <2>5. CASE /\ editor[e].role # "status" /\ account' = [account EXCEPT ![u].role = editor[e].role]
             /\ crossed' = IF editor[e].center # account[u].center THEN crossed \cup {u} ELSE crossed
    <3>0. editor[e].role = "ADMIN" /\ "ADMIN" \in ConsoleRoles
      BY <2>1, <2>5, Zenon DEF EditRecs, EditorFits, ConsoleRoles
    <3>1. PICK row \in AccountRecs : /\ row = Promoted(account[u], editor[e].role)
                                     /\ row.role = editor[e].role /\ row.center = account[u].center
      BY <2>3, <3>0, AccountEdits
    <3>2. account' = [account EXCEPT ![u] = row]
      BY <2>5, <3>1, Zenon DEF SignTypes, Promoted
    <3>3. row.center # "none" /\ u \notin crossed' => row.role \in ConsoleRolesFor(row.center)
      BY <2>1, <2>5, <3>1, Zenon DEF EditorFits
    <3> QED BY <2>5, <3>2, <3>3, AccountWritten, Zenon
  <2> QED BY <1>3, <2>2, <2>4, <2>5, Zenon DEF EditWrite
<1>4. ASSUME NEW h \in Handlers, CreateSession(h) PROVE account' \in [Users -> AccountRecs] /\ CeilingKept'
  <2>1. handler[h] \in HandlerRecs /\ HandlerFits(handler[h]) /\ handler[h].pc = "create"
    BY <1>4, Zenon DEF SignTypes, CreateSession
  <2>2. PICK u \in Users : u = handler[h].user
    BY <2>1, Zenon DEF HandlerFits
  <2>3. CASE UNCHANGED <<account, crossed>>
    BY <2>3, Zenon DEF CeilingKept, SignTypes
  <2>4. CASE /\ handler[h].verdict # "unchanged"
             /\ account' = [account EXCEPT ![u] = [role |-> handler[h].verdict, center |-> handler[h].claim, active |-> TRUE]]
             /\ crossed' = crossed \ {u}
    <3>1. PICK v \in ConsoleRoles, c \in CenterRoles : v = handler[h].verdict /\ c = handler[h].claim /\ v \in ConsoleRolesFor(c)
      BY <2>1, <2>4, Zenon DEF HandlerRecs, HandlerFits
    <3>2. PICK row \in AccountRecs : row = Granted(v, c) /\ row.role = v /\ row.center = c
      <4>1. account[u] \in AccountRecs
        BY Zenon DEF SignTypes
      <4> QED BY <4>1, AccountEdits
    <3>3. account' = [account EXCEPT ![u] = row]
      BY <2>4, <3>1, <3>2, Zenon DEF Granted
    <3>4. crossed \ {u} = crossed' \ {u}
      BY <2>4, Zenon
    <3>5. row.center # "none" /\ u \notin crossed' => row.role \in ConsoleRolesFor(row.center)
      BY <3>1, <3>2, Zenon
    <3> QED BY <3>3, <3>4, <3>5, AccountWritten, Zenon
  <2> QED BY <1>4, <2>2, <2>3, <2>4, Zenon DEF CreateSession
<1>5. ASSUME UNCHANGED <<account, crossed>> PROVE account' \in [Users -> AccountRecs] /\ CeilingKept'
  BY <1>5, Zenon DEF CeilingKept, SignTypes
<1>6. \/ UNCHANGED <<account, crossed>>
      \/ \E h \in Handlers : CenterDecide(h) \/ CreateSession(h)
      \/ \E m \in push : Membership(m)
      \/ \E e \in Editors : EditWrite(e)
  BY ZenonT(60) DEF SignInNext, signVars, Within, AccountsUnchanged, CacheExpires, SavePolicy, CentreSignsOut, CentreChanges, PushLost,
         EditRead, Logout, IdleTimeout, EndSupportSession, RevokeSession, RevokeSessions, Ends, HandoffCommit, HandoffRead,
         PasskeyVerify, OidcToken, ReadPolicy, KeepPolicy, GateStep, ListSessions, EvictSessions, SignInFails
<1> QED BY <1>1, <1>2, <1>3, <1>4, <1>5, <1>6, Zenon

\* The rows of an edit.
Asked(u, r, c) == [pc |-> "write", user |-> u, role |-> r, center |-> c]

\* What they hold.
LEMMA EditForms ==
    /\ NoEdit \in EditRecs /\ NoEdit.pc = "idle"
    /\ \A u \in Users, r \in {"ADMIN", "status"}, c \in CenterRoles \cup {"none"} :
         /\ Asked(u, r, c) \in EditRecs /\ Asked(u, r, c).pc = "write" /\ Asked(u, r, c).user = u
         /\ Asked(u, r, c).role = r /\ Asked(u, r, c).center = c
BY Zenon DEF EditRecs, NoEdit, Asked

\* The console's edits keep to the row they read.
LEMMA EditStep ==
    ASSUME AccountsFit, [SignInNext]_signVars
    PROVE  editor' \in [Editors -> EditRecs] /\ \A e \in Editors : EditorFits(e)'
<1> USE DEF AccountsFit
<1>1. ASSUME NEW e \in Editors, NEW k \in EditRecs, editor' = [editor EXCEPT ![e] = k],
             k.pc = "write" => /\ k.user \in Users /\ k.role # "none"
                               /\ k.center # "none" => k.role \in ConsoleRolesFor(k.center)
      PROVE  editor' \in [Editors -> EditRecs] /\ \A f \in Editors : EditorFits(f)'
  <2>1. editor' \in [Editors -> EditRecs] /\ editor'[e] = k /\ \A f \in Editors \ {e} : editor'[f] = editor[f]
    BY <1>1, Zenon DEF SignTypes
  <2> QED BY <1>1, <2>1, Zenon DEF EditorFits
<1>2. ASSUME NEW e \in Editors, NEW u \in Users, NEW r \in {"ADMIN", "status"}, EditRead(e, u, r)
      PROVE  editor' \in [Editors -> EditRecs] /\ \A f \in Editors : EditorFits(f)'
  <2>1. PICK c \in CenterRoles \cup {"none"} : c = account[u].center
    BY Zenon DEF SignTypes, AccountRecs
  <2>2. PICK k \in EditRecs : /\ k = Asked(u, r, c)
                              /\ k.pc = "write" /\ k.user = u /\ k.role = r /\ k.center = c
    BY EditForms
  <2>3. editor' = [editor EXCEPT ![e] = k] /\ (c # "none" => r \in ConsoleRolesFor(c))
    BY <1>2, <2>1, <2>2, Zenon DEF EditRead, Asked
  <2> QED BY <1>1, <2>2, <2>3, Zenon
<1>3. ASSUME NEW e \in Editors, EditWrite(e)
      PROVE  editor' \in [Editors -> EditRecs] /\ \A f \in Editors : EditorFits(f)'
  <2>1. PICK k \in EditRecs : k = NoEdit /\ k.pc = "idle"
    BY EditForms, Zenon
  <2> QED BY <1>1, <1>3, <2>1, Zenon DEF EditWrite
<1>4. ASSUME UNCHANGED editor PROVE editor' \in [Editors -> EditRecs] /\ \A f \in Editors : EditorFits(f)'
  BY <1>4, Zenon DEF SignTypes, EditorFits
<1>5. \/ UNCHANGED editor
      \/ \E e \in Editors : EditWrite(e) \/ \E u \in Users, r \in {"ADMIN", "status"} : EditRead(e, u, r)
  BY ZenonT(60) DEF SignInNext, signVars, Within, AccountsUnchanged, CacheExpires, SavePolicy, CentreSignsOut, CentreChanges, PushLost,
         Logout, IdleTimeout, EndSupportSession, RevokeSession, RevokeSessions, Ends, HandoffCommit, HandoffRead, Membership,
         PasskeyVerify, OidcToken, ReadPolicy, KeepPolicy, GateStep, ListSessions, EvictSessions, SignInFails, CenterDecide,
         CreateSession
<1> QED BY <1>2, <1>3, <1>4, <1>5, Zenon

\* The centre's roles and the calls that carry them.
LEMMA CentreStep ==
    ASSUME SignTypes, [SignInNext]_signVars
    PROVE  orgRole' \in [Users -> CenterRoles \cup {"none"}] /\ push' \subseteq PushRecs
<1>1. ASSUME NEW u \in Users, NEW r \in CenterRoles \cup {"none"}, CentreChanges(u, r)
      PROVE  orgRole' \in [Users -> CenterRoles \cup {"none"}] /\ push' \subseteq PushRecs
  <2>1. [user |-> u, role |-> r] \in PushRecs
    BY Zenon DEF PushRecs
  <2> QED BY <1>1, <2>1, Zenon DEF SignTypes, CentreChanges
<1>2. ASSUME NEW u \in Users, CentreSignsOut(u)
      PROVE  orgRole' \in [Users -> CenterRoles \cup {"none"}] /\ push' \subseteq PushRecs
  <2>1. [user |-> u, role |-> "signOut"] \in PushRecs
    BY Zenon DEF PushRecs
  <2> QED BY <1>2, <2>1, Zenon DEF SignTypes, CentreSignsOut
<1>3. ASSUME UNCHANGED orgRole, push' \subseteq push
      PROVE  orgRole' \in [Users -> CenterRoles \cup {"none"}] /\ push' \subseteq PushRecs
  BY <1>3, Zenon DEF SignTypes
<1>4. \/ UNCHANGED orgRole /\ push' \subseteq push
      \/ \E u \in Users : CentreSignsOut(u) \/ \E r \in CenterRoles \cup {"none"} : CentreChanges(u, r)
  BY ZenonT(60) DEF SignInNext, signVars, Within, AccountsUnchanged, CacheExpires, SavePolicy, PushLost, EditRead, EditWrite,
         Logout, IdleTimeout, EndSupportSession, RevokeSession, RevokeSessions, Ends, HandoffCommit, HandoffRead, Membership,
         PasskeyVerify, OidcToken, ReadPolicy, KeepPolicy, GateStep, ListSessions, EvictSessions, SignInFails, CenterDecide,
         CreateSession
<1> QED BY <1>1, <1>2, <1>3, <1>4, Zenon

\* What is known of the session policy.
PolicyFits == SignTypes /\ PolicyCacheHonest /\ LoadsFit

\* What touches the policy and its cache.
LEMMA PolicyFrame ==
    ASSUME [SignInNext]_signVars
    PROVE  \/ UNCHANGED <<policy, cache, loadCrossed>>
           \/ CacheExpires \/ \E s \in SessionIds : SavePolicy(s)
           \/ \E h \in Handlers : KeepPolicy(h)
<1> DEFINE Kept == UNCHANGED <<policy, cache, loadCrossed>>
<1>1. ASSUME NEW h \in Handlers, NEW u \in Users,
             (\E ok \in Proofs : PasskeyVerify(h, u, ok)) \/ \E claim \in AmrClaims : OidcToken(h, u, claim)
      PROVE  Kept
  BY <1>1, Zenon DEF PasskeyVerify, OidcToken, PolicyUnchanged
<1>2. ASSUME NEW h \in Handlers,
             \/ ReadPolicy(h) \/ GateStep(h) \/ CenterDecide(h) \/ ListSessions(h)
             \/ EvictSessions(h) \/ CreateSession(h) \/ SignInFails(h)
      PROVE  Kept
  BY <1>2, Zenon DEF ReadPolicy, GateStep, CenterDecide, ListSessions, EvictSessions, CreateSession, SignInFails, PolicyUnchanged
<1>3. ASSUME NEW u \in Users, CentreSignsOut(u) \/ \E r \in CenterRoles \cup {"none"} : CentreChanges(u, r) PROVE Kept
  BY <1>3, Zenon DEF CentreSignsOut, CentreChanges, PolicyUnchanged
<1>4. ASSUME NEW m \in push, PushLost(m) \/ Membership(m) PROVE Kept
  BY <1>4, Zenon DEF PushLost, Membership, PolicyUnchanged
<1>5. ASSUME NEW e \in Editors, EditWrite(e) \/ \E u \in Users, r \in {"ADMIN", "status"} : EditRead(e, u, r) PROVE Kept
  BY <1>5, Zenon DEF EditWrite, EditRead, PolicyUnchanged
<1>6. ASSUME NEW s \in SessionIds, NEW own \in SessionIds, NEW S \in SUBSET SessionIds,
             \/ Logout(s) \/ IdleTimeout(s) \/ EndSupportSession(s) \/ RevokeSession(own, s) \/ RevokeSessions(own, S)
      PROVE  Kept
  BY <1>6, Zenon DEF Logout, IdleTimeout, EndSupportSession, RevokeSession, RevokeSessions, Ends, PolicyUnchanged
<1>7. ASSUME NEW r \in Redeemers, HandoffCommit(r) \/ \E l \in Handoffs : HandoffRead(r, l) PROVE Kept
  BY <1>7, Zenon DEF HandoffCommit, HandoffRead, PolicyUnchanged
<1>8. ASSUME UNCHANGED signVars PROVE Kept
  BY <1>8, Zenon DEF signVars
<1> QED BY <1>1, <1>2, <1>3, <1>4, <1>5, <1>6, <1>7, <1>8, Zenon DEF SignInNext, Within

\* The policy, its cache and the loads under way.
LEMMA PolicyStep ==
    ASSUME PolicyFits, \A h \in Handlers : HandlerFits(handler[h]), handler' \in [Handlers -> HandlerRecs],
           [SignInNext]_signVars
    PROVE  /\ policy' \in BOOLEAN /\ cache' \in {"empty", "required", "free"} /\ loadCrossed' \in BOOLEAN
           /\ PolicyCacheHonest' /\ LoadsFit'
<1> DEFINE Goal == /\ policy' \in BOOLEAN /\ cache' \in {"empty", "required", "free"} /\ loadCrossed' \in BOOLEAN
                   /\ PolicyCacheHonest' /\ LoadsFit'
<1>0. SignTypes
  BY Zenon DEF PolicyFits
<1>1. ASSUME NEW h \in Handlers, KeepPolicy(h) PROVE Goal
  <2>1. handler[h] \in HandlerRecs /\ handler[h].pol \in BOOLEAN /\ policy \in BOOLEAN /\ loadCrossed \in BOOLEAN
    BY <1>0, Zenon DEF SignTypes, HandlerRecs
  <2>2. ~loadCrossed => handler[h].pol = policy
    BY <1>1, Zenon DEF KeepPolicy, PolicyFits, LoadsFit
  <2>3. /\ UNCHANGED <<policy, loadCrossed>> /\ cache' \in {"required", "free"}
        /\ (cache' = "required") = handler[h].pol
    BY <1>1, <2>1, Zenon DEF KeepPolicy
  <2>4. PolicyCacheHonest'
    BY <2>2, <2>3, Zenon DEF PolicyCacheHonest
  <2>5. \A g \in Handlers : handler'[g].pc = "keep" => handler'[g] = handler[g]
    BY <1>0, <1>1, HandlerEdits DEF KeepPolicy, SignTypes, HandlerRecs
  <2>6. LoadsFit'
    BY <2>3, <2>5, Zenon DEF PolicyFits, LoadsFit
  <2> QED BY <2>1, <2>3, <2>4, <2>6, Zenon
<1>2. ASSUME CacheExpires PROVE Goal
  <2>1. PolicyCacheHonest' /\ UNCHANGED <<policy, handler>> /\ cache' = "empty"
    BY <1>2, Zenon DEF CacheExpires, PolicyCacheHonest
  <2>2. loadCrossed' \in BOOLEAN /\ LoadsFit'
    BY <1>2, <2>1, Zenon DEF CacheExpires, LoadsFit
  <2> QED BY <1>0, <2>1, <2>2, Zenon DEF SignTypes
<1>3. ASSUME NEW s \in SessionIds, SavePolicy(s) PROVE Goal
  <2>1. cache' = "empty" /\ UNCHANGED handler /\ policy' = ~policy
        /\ loadCrossed' = (loadCrossed \/ \E h \in Handlers : handler[h].pc = "keep")
    BY <1>3, Zenon DEF SavePolicy, PolicySaved
  <2>2. PolicyCacheHonest'
    BY <2>1, Zenon DEF PolicyCacheHonest
  <2>3. LoadsFit'
    BY <2>1, Zenon DEF LoadsFit
  <2> QED BY <2>1, <2>2, <2>3, Zenon
<1>4. ASSUME UNCHANGED <<policy, cache, loadCrossed>> PROVE Goal
  <2>1. \A g \in Handlers : handler'[g].pc = "keep" => handler'[g].pol = policy \/ handler'[g] = handler[g]
    <3>1. CASE UNCHANGED handler
      BY <3>1, Zenon
    <3>2. ASSUME NEW h \in Handlers, NEW q \in HandlerRecs, handler' = [handler EXCEPT ![h] = q], q.pc = "keep" => q.pol = policy
          PROVE  \A g \in Handlers : handler'[g].pc = "keep" => handler'[g].pol = policy \/ handler'[g] = handler[g]
      BY <1>0, <3>2, Zenon DEF SignTypes
    <3> QED BY <1>0, <3>1, <3>2, RequestStep, Zenon
  <2>2. LoadsFit'
    BY <1>4, <2>1, Zenon DEF PolicyFits, LoadsFit
  <2>3. PolicyCacheHonest'
    BY <1>4, Zenon DEF PolicyFits, PolicyCacheHonest
  <2> QED BY <1>0, <1>4, <2>2, <2>3, Zenon DEF SignTypes
<1> QED BY <1>1, <1>2, <1>3, <1>4, PolicyFrame, Zenon

\* The rows are numbered in order, and none is written beyond the number.
SessionsFit == \A s \in SessionIds : s > created => session[s] = NoSession

\* A row that is written.
Opened(u, kind, amr) == [user |-> u, kind |-> kind, proven |-> HasSecondFactor(amr)]

\* The cap and the session numbers are integers.
LEMMA CapIsInt == MaxConcurrent - 1 \in Int /\ \A s \in SessionIds : s \in Nat
BY SignInAssumption DEF SessionIds

\* A session row is removed, or the next one is written: the request's own
\* console session, or one of a support link.
LEMMA SessionStep ==
    ASSUME SignTypes, SessionsFit, \A h \in Handlers : HandlerFits(handler[h]), [SignInNext]_signVars
    PROVE  /\ session' \in [SessionIds -> SessionRecs] /\ created' \in 0..MaxSessions /\ SessionsFit'
           /\ \/ UNCHANGED created /\ \A s \in SessionIds : session'[s] \in {session[s], NoSession}
              \/ /\ created' = created + 1 /\ created + 1 \in SessionIds
                 /\ \A s \in SessionIds \ {created + 1} : session'[s] = session[s]
                 /\ \/ session'[created + 1].kind = "support"
                    \/ \E h \in Handlers : CreateSession(h) /\ session'[created + 1].user = handler[h].user
<1> DEFINE Shrinks == UNCHANGED created /\ \A s \in SessionIds : session'[s] \in {session[s], NoSession}
           Typed == session' \in [SessionIds -> SessionRecs] /\ created' \in 0..MaxSessions /\ SessionsFit'
<1>0. NoSession \in SessionRecs /\ SessionBound \in Nat /\ SessionBound <= MaxSessions /\ MaxSessions \in Nat /\ created \in Nat
  BY SignInAssumption DEF NoSession, SessionRecs, SessionBound, SignTypes
<1>1. ASSUME NEW S, UNCHANGED created, session' = [s \in SessionIds |-> IF s \in S THEN NoSession ELSE session[s]]
      PROVE  Typed /\ Shrinks
  BY <1>0, <1>1, Zenon DEF SignTypes, SessionsFit
<1>2. ASSUME UNCHANGED <<session, created>> PROVE Typed /\ Shrinks
  BY <1>2, Zenon DEF SignTypes, SessionsFit
<1>3. ASSUME NEW u \in Users \cup {"support"}, NEW kind \in {"web", "support"}, NEW amr, WriteSession(u, kind, amr)
      PROVE  /\ Typed /\ created' = created + 1 /\ created + 1 \in SessionIds
             /\ \A s \in SessionIds \ {created + 1} : session'[s] = session[s]
             /\ session'[created + 1].kind = kind /\ session'[created + 1].user = u
  <2>1. created' = created + 1 /\ created + 1 \in SessionIds /\ session' = [session EXCEPT ![created + 1] = Opened(u, kind, amr)]
    BY <1>0, <1>3 DEF WriteSession, SessionIds, Opened
  <2>2. Opened(u, kind, amr) \in SessionRecs /\ Opened(u, kind, amr).kind = kind /\ Opened(u, kind, amr).user = u
    BY Zenon DEF Opened, SessionRecs, HasSecondFactor
  <2>3. /\ session' \in [SessionIds -> SessionRecs] /\ session'[created + 1] = Opened(u, kind, amr)
        /\ \A s \in SessionIds \ {created + 1} : session'[s] = session[s]
    BY <2>1, <2>2, Zenon DEF SignTypes
  <2>4. created' \in 0..MaxSessions
    BY <1>0, <2>1 DEF SessionIds
  <2>5. SessionsFit'
    BY <1>0, <2>1, <2>3 DEF SessionsFit, SessionIds
  <2> QED BY <2>1, <2>2, <2>3, <2>4, <2>5, Zenon
<1>4. ASSUME NEW h \in Handlers, CreateSession(h)
      PROVE  /\ Typed /\ created' = created + 1 /\ created + 1 \in SessionIds
             /\ \A s \in SessionIds \ {created + 1} : session'[s] = session[s]
             /\ session'[created + 1].user = handler[h].user
  <2>1. handler[h].user \in Users /\ WriteSession(handler[h].user, "web", handler[h].amr)
    BY <1>4, Zenon DEF CreateSession, HandlerFits
  <2> QED BY <1>3, <2>1
<1>5. ASSUME NEW r \in Redeemers, HandoffCommit(r), ~UNCHANGED <<session, created>>
      PROVE  /\ Typed /\ created' = created + 1 /\ created + 1 \in SessionIds
             /\ \A s \in SessionIds \ {created + 1} : session'[s] = session[s]
             /\ session'[created + 1].kind = "support"
  <2>1. WriteSession("support", "support", {})
    BY <1>5, Zenon DEF HandoffCommit
  <2> QED BY <1>3, <2>1, Zenon
<1>6. ASSUME NEW m \in push, Membership(m), ~UNCHANGED session PROVE Typed /\ Shrinks
  <2>1. UNCHANGED created /\ session' = [s \in SessionIds |-> IF s \in {r \in SessionIds : session[r].user = m.user} THEN NoSession ELSE session[s]]
    BY <1>6, Zenon DEF Membership, EndSessionsOf
  <2> QED BY <1>1, <2>1, Zenon
<1>7. ASSUME NEW h \in Handlers, EvictSessions(h) PROVE Typed /\ Shrinks
  BY <1>1, <1>7, Zenon DEF EvictSessions
<1>8. ASSUME NEW S, Ends(S) PROVE Typed /\ Shrinks
  BY <1>1, <1>8, Zenon DEF Ends
<1>9. \/ UNCHANGED <<session, created>>
      \/ \E r \in Redeemers : HandoffCommit(r)
      \/ \E h \in Handlers : CreateSession(h) \/ EvictSessions(h)
      \/ \E m \in push : Membership(m)
      \/ \E S \in SUBSET SessionIds : Ends(S)
  <2>1. ASSUME NEW s \in SessionIds, Logout(s) \/ IdleTimeout(s) \/ EndSupportSession(s) \/ \E own \in SessionIds : RevokeSession(own, s)
        PROVE  \E S \in SUBSET SessionIds : Ends(S)
    BY <2>1, Zenon DEF Logout, IdleTimeout, EndSupportSession, RevokeSession
  <2>2. ASSUME NEW own \in SessionIds, NEW S \in SUBSET SessionIds, RevokeSessions(own, S)
        PROVE  \E R \in SUBSET SessionIds : Ends(R)
    <3>1. Ends(S \ {own}) /\ S \ {own} \in SUBSET SessionIds
      BY <2>2, Zenon DEF RevokeSessions
    <3> QED BY <3>1, Zenon
  <2> QED BY <2>1, <2>2, ZenonT(60) DEF SignInNext, signVars, Within, SessionsUnchanged, CacheExpires, SavePolicy, CentreSignsOut,
         CentreChanges, PushLost, EditRead, EditWrite, HandoffRead, PasskeyVerify, OidcToken, ReadPolicy, KeepPolicy,
         GateStep, ListSessions, SignInFails, CenterDecide
<1> QED BY <1>2, <1>4, <1>5, <1>6, <1>7, <1>8, <1>9, Zenon DEF Membership

\* A support link's session is counted once.
LinkRecs == [used : BOOLEAN, made : Nat]
LinksFit ==
    /\ handoff \in [Handoffs -> LinkRecs] /\ redeemer \in [Redeemers -> Handoffs \cup {"none"}]
    /\ \A l \in Handoffs : handoff[l].made = IF handoff[l].used THEN 1 ELSE 0

\* A request redeems a link.
LEMMA LinkStep == ASSUME LinksFit, [SignInNext]_signVars PROVE LinksFit'
<1>1. ASSUME NEW r \in Redeemers, NEW l \in Handoffs, HandoffRead(r, l) PROVE LinksFit'
  BY <1>1, Zenon DEF LinksFit, HandoffRead
<1>2. ASSUME NEW r \in Redeemers, HandoffCommit(r) PROVE LinksFit'
  <2>1. PICK l \in Handoffs : l = redeemer[r]
    BY <1>2, Zenon DEF LinksFit, HandoffCommit
  <2>2. redeemer' \in [Redeemers -> Handoffs \cup {"none"}]
    BY <1>2, Zenon DEF LinksFit, HandoffCommit
  <2>3. CASE handoff[l].used
    BY <1>2, <2>1, <2>2, <2>3, Zenon DEF LinksFit, HandoffCommit
  <2>4. CASE ~handoff[l].used
    <3>1. handoff[l].made = 0
      BY <2>4, Zenon DEF LinksFit
    <3>2. handoff' = [handoff EXCEPT ![l] = [used |-> TRUE, made |-> 1]]
      BY <1>2, <2>1, <2>4, <3>1 DEF HandoffCommit
    <3>3. PICK k \in LinkRecs : k = [used |-> TRUE, made |-> 1] /\ k.used /\ k.made = 1
      <4>1. [used |-> TRUE, made |-> 1] \in LinkRecs
        BY Zenon DEF LinkRecs
      <4> QED BY <4>1, Zenon
    <3>4. handoff' \in [Handoffs -> LinkRecs] /\ handoff'[l] = k /\ \A m \in Handoffs \ {l} : handoff'[m] = handoff[m]
      BY <3>2, <3>3, Zenon DEF LinksFit
    <3> QED BY <2>2, <3>3, <3>4, Zenon DEF LinksFit
  <2> QED BY <2>3, <2>4, Zenon
<1>3. CASE UNCHANGED <<handoff, redeemer>>
  BY <1>3, ZenonT(60) DEF LinksFit
<1>4. \/ UNCHANGED <<handoff, redeemer>>
      \/ \E r \in Redeemers : HandoffCommit(r) \/ \E l \in Handoffs : HandoffRead(r, l)
  BY ZenonT(60) DEF SignInNext, signVars, Within, SessionsUnchanged, LinksUnchanged, CacheExpires, SavePolicy, CentreSignsOut,
         CentreChanges, PushLost, EditRead, EditWrite, PasskeyVerify, OidcToken, ReadPolicy, KeepPolicy, Logout, IdleTimeout,
         EndSupportSession, RevokeSession, RevokeSessions, Ends, Membership, EvictSessions, CreateSession,
         GateStep, ListSessions, SignInFails, CenterDecide
<1> QED BY <1>1, <1>2, <1>3, <1>4, Zenon

\* Sessions of a user up to a number.
UpTo(u, t) == {s \in WebSessions(u) : s <= t}

\* T: the last number each request's eviction looked at; P: the last number
\* its list saw; f: the request that wrote a row.  Up to T[h] there are fewer
\* sessions than the cap, and beyond it each request wrote at most one.
Capped(u, T, P, f) ==
    /\ \A h \in Handlers : Cardinality(UpTo(u, T[h])) <= MaxConcurrent - 1
    /\ \A h \in Handlers : handler[h].pc = "evict" /\ handler[h].user = u =>
         /\ Cardinality(UpTo(u, P[h]) \ handler[h].evict) <= MaxConcurrent - 1
         /\ \A s \in WebSessions(u) : f[s] = h => s <= P[h]
    /\ \A h \in Handlers : handler[h].pc = "create" /\ handler[h].user = u =>
         \A s \in WebSessions(u) : f[s] = h => s <= T[h]
    /\ \A s, r \in WebSessions(u) : f[s] = f[r] /\ s > T[f[s]] /\ r > T[f[r]] => s = r

CapInv == \A u \in Users :
    \E T \in [Handlers -> 0..created], P \in [Handlers -> 0..created], f \in [SessionIds -> Handlers] : Capped(u, T, P, f)

\* Fewer sessions are no more than the bound.
LEMMA FewerSessions ==
    ASSUME NEW A, NEW B, A \subseteq B, B \subseteq SessionIds, NEW n \in Int, Cardinality(B) <= n
    PROVE  Cardinality(A) <= n
<1>1. IsFiniteSet(SessionIds)
  BY FS_Interval, SignInAssumption DEF SessionIds
<1>2. IsFiniteSet(B)
  BY <1>1, FS_Subset, Zenon
<1>3. Cardinality(A) <= Cardinality(B) /\ Cardinality(A) \in Nat /\ Cardinality(B) \in Nat
  BY <1>2, FS_Subset, FS_CardinalityType, Zenon
<1> QED BY <1>3

\* The cap holds wherever each request's witnesses do.
LEMMA CapsSuffice == ASSUME SignTypes, CapInv PROVE SessionCapBound
<1> SUFFICES ASSUME NEW u \in Users PROVE Cardinality(WebSessions(u)) <= MaxConcurrent - 1 + Cardinality(Handlers)
  BY Zenon DEF SessionCapBound
<1>1. PICK T \in [Handlers -> 0..created], P \in [Handlers -> 0..created], f \in [SessionIds -> Handlers] : Capped(u, T, P, f)
  BY Zenon DEF CapInv
<1>2. created \in Nat /\ MaxConcurrent \in Nat /\ IsFiniteSet(Handlers) /\ Handlers # {}
  BY SignInAssumption DEF SignTypes
<1>3. PICK h \in Handlers : \A g \in Handlers : T[g] <= T[h]
  <2> DEFINE D == {created - T[g] : g \in Handlers}
  <2>1. D \subseteq Nat /\ D # {}
    BY <1>2
  <2>2. PICK m \in D : \A k \in D : m <= k
    BY <2>1, LeastMember, Zenon
  <2>3. PICK h \in Handlers : m = created - T[h]
    BY <2>2, Zenon
  <2>4. ASSUME NEW g \in Handlers PROVE T[g] <= T[h]
    <3>1. created - T[h] <= created - T[g] /\ T[g] \in Nat /\ T[h] \in Nat
      BY <1>2, <2>2, <2>3
    <3> QED BY <1>2, <3>1
  <2> QED BY <2>4, Zenon
<1> DEFINE W == WebSessions(u)
           Low == UpTo(u, T[h])
           High == {s \in W : s > T[h]}
<1>4. W \subseteq SessionIds /\ IsFiniteSet(W)
  <2>1. W \subseteq SessionIds
    BY Zenon DEF WebSessions, SessionsOf
  <2> QED BY <2>1, EvictionLeaves, Zenon
<1>5. IsFiniteSet(Low) /\ IsFiniteSet(High) /\ W = Low \cup High /\ Low \cap High = {}
  <2>1. T[h] \in Nat /\ \A s \in W : s \in Nat
    BY <1>4, SignInAssumption DEF SessionIds
  <2>2. Low \subseteq W /\ High \subseteq W /\ W = Low \cup High /\ Low \cap High = {}
    BY <2>1 DEF UpTo
  <2> QED BY <1>4, <2>2, FS_Subset, Zenon
<1>6. Cardinality(High) <= Cardinality(Handlers)
  <2> DEFINE F == [s \in High |-> f[s]]
  <2>1. F \in [High -> Handlers]
    BY <1>4, Zenon
  <2>2. ASSUME NEW s \in High, NEW r \in High, F[s] = F[r] PROVE s = r
    <3>1. s \in W /\ r \in W /\ f[s] = f[r] /\ s \in Nat /\ r \in Nat /\ f[s] \in Handlers
      BY <1>4, <2>2, SignInAssumption, SMTT(30) DEF SessionIds
    <3>2. s > T[f[s]] /\ r > T[f[r]]
      BY <1>3, <3>1
    <3> QED BY <1>1, <3>1, <3>2, Zenon DEF Capped
  <2>3. F \in Injection(High, Handlers)
    BY <2>1, <2>2, Zenon DEF Injection, IsInjective
  <2> HIDE DEF F, High
  <2> QED BY <1>2, <2>3, FS_Injection, Zenon
<1>7. Cardinality(Low) <= MaxConcurrent - 1
  BY <1>1, Zenon DEF Capped
<1>8. Cardinality(W) = Cardinality(Low) + Cardinality(High)
  <2>1. Cardinality(W) = Cardinality(Low) + Cardinality(High) - Cardinality(Low \cap High)
    BY <1>5, FS_Union, Zenon
  <2>2. Cardinality(Low \cap High) = 0
    BY <1>5, FS_EmptySet, Zenon
  <2>3. Cardinality(Low) \in Nat /\ Cardinality(High) \in Nat
    BY <1>5, FS_CardinalityType, Zenon
  <2> QED BY <2>1, <2>2, <2>3
<1>9. Cardinality(Low) \in Nat /\ Cardinality(High) \in Nat /\ Cardinality(Handlers) \in Nat
  BY <1>2, <1>5, FS_CardinalityType, Zenon
<1> QED BY <1>2, <1>6, <1>7, <1>8, <1>9

\* A step that only removes sessions of a user keeps what is known of them.
LEMMA CapShrinks ==
    ASSUME NEW u, NEW T, NEW P, NEW f, Capped(u, T, P, f), WebSessions(u)' \subseteq WebSessions(u),
           \A g \in Handlers : handler'[g].pc \in {"evict", "create"} /\ handler'[g].user = u => handler'[g] = handler[g]
    PROVE  Capped(u, T, P, f)'
<1>0. WebSessions(u) \subseteq SessionIds /\ MaxConcurrent - 1 \in Int
  BY SignInAssumption DEF WebSessions, SessionsOf
<1>1. \A t : UpTo(u, t)' \subseteq UpTo(u, t) /\ UpTo(u, t) \subseteq SessionIds
  BY <1>0, Zenon DEF UpTo
<1>2. ASSUME NEW g \in Handlers PROVE Cardinality(UpTo(u, T[g])') <= MaxConcurrent - 1
  BY <1>0, <1>1, FewerSessions, Zenon DEF Capped
<1>3. ASSUME NEW g \in Handlers, handler'[g].pc = "evict", handler'[g].user = u
      PROVE  /\ Cardinality(UpTo(u, P[g])' \ handler'[g].evict) <= MaxConcurrent - 1
             /\ \A s \in WebSessions(u)' : f[s] = g => s <= P[g]
  <2>1. handler'[g] = handler[g]
    BY <1>3, Zenon
  <2>2. /\ Cardinality(UpTo(u, P[g]) \ handler[g].evict) <= MaxConcurrent - 1
        /\ \A s \in WebSessions(u) : f[s] = g => s <= P[g]
    BY <1>3, <2>1, Zenon DEF Capped
  <2>3. /\ UpTo(u, P[g])' \ handler'[g].evict \subseteq UpTo(u, P[g]) \ handler[g].evict
        /\ UpTo(u, P[g]) \ handler[g].evict \subseteq SessionIds
    BY <1>1, <2>1, Zenon
  <2> QED BY <1>0, <2>2, <2>3, FewerSessions, Zenon
<1>4. ASSUME NEW g \in Handlers, handler'[g].pc = "create", handler'[g].user = u
      PROVE  \A s \in WebSessions(u)' : f[s] = g => s <= T[g]
  BY <1>4, Zenon DEF Capped
<1>5. \A s, r \in WebSessions(u)' : f[s] = f[r] /\ s > T[f[s]] /\ r > T[f[r]] => s = r
  BY Zenon DEF Capped
<1> QED BY <1>2, <1>3, <1>4, <1>5, Zenon DEF Capped

\* The list sees every session there is, and leaves fewer than the cap.
LEMMA CapLists ==
    ASSUME SignTypes, SessionsFit, NEW u \in Users, NEW h \in Handlers, ListSessions(h), handler[h].user = u,
           NEW T \in [Handlers -> 0..created], NEW P \in [Handlers -> 0..created], NEW f \in [SessionIds -> Handlers],
           Capped(u, T, P, f), NEW Q, Q = [P EXCEPT ![h] = created]
    PROVE  Capped(u, T, Q, f)'
<1>w. PICK W : W = WebSessions(u)
  BY Zenon
<1> USE <1>w
<1>0. /\ W \subseteq SessionIds /\ MaxConcurrent - 1 \in Int /\ created \in Nat /\ \A s \in W : s <= created
      /\ WebSessions(u)' = W /\ \A t : UpTo(u, t)' = UpTo(u, t)
  <2>1. W \subseteq SessionIds /\ \A s \in W : session[s].kind = "web"
    BY Zenon DEF WebSessions, SessionsOf, Kind
  <2>2. MaxConcurrent - 1 \in Int /\ created \in Nat /\ \A s \in SessionIds : s \in Nat
    BY SignInAssumption DEF SignTypes, SessionIds
  <2>3. ASSUME NEW s \in W PROVE s <= created
    <3>1. session[s] # NoSession
      BY <2>1 DEF NoSession
    <3> QED BY <2>1, <2>2, <3>1 DEF SessionsFit
  <2>4. UNCHANGED session
    BY Zenon DEF ListSessions, SessionsUnchanged
  <2>5. WebSessions(u)' = W
    BY <2>4, Zenon DEF WebSessions, SessionsOf, Kind
  <2>6. \A t : UpTo(u, t)' = UpTo(u, t)
    BY <2>5, Zenon DEF UpTo
  <2> QED BY <2>1, <2>2, <2>3, <2>5, <2>6, Zenon
<1>1. /\ handler'[h].pc = "evict" /\ handler'[h].evict = EvictionIds(W)
      /\ \A g \in Handlers \ {h} : handler'[g] = handler[g]
  BY DEF ListSessions, SignTypes, HandlerRecs
<1>2. Q[h] = created /\ \A g \in Handlers \ {h} : Q[g] = P[g]
  BY Zenon
<1>3. ASSUME NEW g \in Handlers, handler'[g].pc = "evict", handler'[g].user = u
      PROVE  /\ Cardinality(UpTo(u, Q[g])' \ handler'[g].evict) <= MaxConcurrent - 1
             /\ \A s \in W : f[s] = g => s <= Q[g]
  <2>1. CASE g = h
    <3>1. UpTo(u, created) = W
      BY <1>0, Zenon DEF UpTo
    <3>2. UpTo(u, Q[g])' \ handler'[g].evict = W \ EvictionIds(W)
      BY <1>0, <1>1, <1>2, <2>1, <3>1, Zenon
    <3>3. Cardinality(W \ EvictionIds(W)) <= MaxConcurrent - 1
      BY <1>0, EvictionLeaves, Zenon
    <3> QED BY <1>0, <1>2, <2>1, <3>2, <3>3, ZenonT(60)
  <2>2. CASE g # h
    BY <1>0, <1>1, <1>2, <1>3, <2>2, Zenon DEF Capped
  <2> QED BY <2>1, <2>2, Zenon
<1>4. ASSUME NEW g \in Handlers, handler'[g].pc = "create", handler'[g].user = u
      PROVE  \A s \in W : f[s] = g => s <= T[g]
  BY <1>1, <1>4, Zenon DEF Capped
<1>5. /\ \A g \in Handlers : Cardinality(UpTo(u, T[g])') <= MaxConcurrent - 1
      /\ \A s, r \in W : f[s] = f[r] /\ s > T[f[s]] /\ r > T[f[r]] => s = r
  BY <1>0, Zenon DEF Capped
<1>6. \A s \in WebSessions(u)' : s \in W
  BY <1>0, Zenon
<1> QED BY <1>3, <1>4, <1>5, <1>6, Zenon DEF Capped

\* The eviction leaves fewer than the cap of the sessions its list saw.
LEMMA CapEvicts ==
    ASSUME SignTypes, NEW u \in Users, NEW h \in Handlers, EvictSessions(h), handler[h].user = u,
           NEW T \in [Handlers -> 0..created], NEW P \in [Handlers -> 0..created], NEW f \in [SessionIds -> Handlers],
           Capped(u, T, P, f), NEW Q, Q = [T EXCEPT ![h] = P[h]]
    PROVE  Capped(u, Q, P, f)'
<1>w. PICK W, E : W = WebSessions(u) /\ E = handler[h].evict
  BY Zenon
<1>0. W \subseteq SessionIds /\ MaxConcurrent - 1 \in Int /\ \A s \in SessionIds : s \in Nat
  <2>1. W \subseteq SessionIds
    BY <1>w, Zenon DEF WebSessions, SessionsOf
  <2> QED BY <2>1, CapIsInt, Zenon
<1>1. WebSessions(u)' \subseteq W \ E
  <2>1. \A s \in SessionIds : session'[s] = IF s \in E THEN NoSession ELSE session[s]
    BY <1>w, Zenon DEF EvictSessions
  <2>2. NoSession.kind = "none"
    BY Zenon DEF NoSession
  <2> QED BY <1>w, <2>1, <2>2, Zenon DEF WebSessions, SessionsOf, Kind
<1>2. \A t : UpTo(u, t)' \subseteq UpTo(u, t) \ E /\ UpTo(u, t) \subseteq SessionIds
  BY <1>w, <1>0, <1>1, Zenon DEF UpTo
<1>3. handler[h].pc = "evict" /\ handler'[h].pc = "create" /\ \A g \in Handlers \ {h} : handler'[g] = handler[g]
  BY DEF EvictSessions, SignTypes, HandlerRecs
<1>4. Q[h] = P[h] /\ \A g \in Handlers \ {h} : Q[g] = T[g]
  BY Zenon
<1>5. Cardinality(UpTo(u, P[h]) \ E) <= MaxConcurrent - 1 /\ \A s \in W : f[s] = h => s <= P[h]
  BY <1>w, <1>3, Zenon DEF Capped
<1>6. ASSUME NEW g \in Handlers PROVE Cardinality(UpTo(u, Q[g])') <= MaxConcurrent - 1
  <2>1. CASE g = h
    <3>1. UpTo(u, P[h])' \subseteq UpTo(u, P[h]) \ E /\ UpTo(u, P[h]) \ E \subseteq SessionIds
      BY <1>2, Zenon
    <3>2. Cardinality(UpTo(u, P[h])') <= MaxConcurrent - 1
      BY <1>0, <1>5, <3>1, FewerSessions
    <3> QED BY <1>4, <2>1, <3>2, Zenon
  <2>2. CASE g # h
    <3>1. UpTo(u, T[g])' \subseteq UpTo(u, T[g]) /\ UpTo(u, T[g]) \subseteq SessionIds
      BY <1>2, Zenon
    <3>2. Cardinality(UpTo(u, T[g])) <= MaxConcurrent - 1
      BY Zenon DEF Capped
    <3>3. Cardinality(UpTo(u, T[g])') <= MaxConcurrent - 1
      BY <1>0, <3>1, <3>2, FewerSessions, Zenon
    <3> QED BY <1>4, <2>2, <3>3, Zenon
  <2> QED BY <2>1, <2>2, Zenon
<1>7. ASSUME NEW g \in Handlers, handler'[g].pc = "evict", handler'[g].user = u
      PROVE  /\ Cardinality(UpTo(u, P[g])' \ handler'[g].evict) <= MaxConcurrent - 1
             /\ \A s \in WebSessions(u)' : f[s] = g => s <= P[g]
  <2>1. g # h /\ handler'[g] = handler[g]
    BY <1>3, <1>7, Zenon
  <2>2. /\ Cardinality(UpTo(u, P[g]) \ handler[g].evict) <= MaxConcurrent - 1
        /\ \A s \in W : f[s] = g => s <= P[g]
    BY <1>w, <1>7, <2>1, Zenon DEF Capped
  <2>3. /\ UpTo(u, P[g])' \ handler'[g].evict \subseteq UpTo(u, P[g]) \ handler[g].evict
        /\ UpTo(u, P[g]) \ handler[g].evict \subseteq SessionIds
    BY <1>2, <2>1, Zenon
  <2>4. Cardinality(UpTo(u, P[g])' \ handler'[g].evict) <= MaxConcurrent - 1
    BY <1>0, <2>2, <2>3, FewerSessions
  <2> QED BY <1>1, <2>2, <2>4, Zenon
<1>8. ASSUME NEW g \in Handlers, handler'[g].pc = "create", handler'[g].user = u
      PROVE  \A s \in WebSessions(u)' : f[s] = g => s <= Q[g]
  <2>1. CASE g = h
    BY <1>1, <1>4, <1>5, <2>1, Zenon
  <2>2. CASE g # h
    BY <1>w, <1>1, <1>3, <1>4, <1>8, <2>2, Zenon DEF Capped
  <2> QED BY <2>1, <2>2, Zenon
<1>9. ASSUME NEW s \in WebSessions(u)', NEW r \in WebSessions(u)', f[s] = f[r], s > Q[f[s]], r > Q[f[r]] PROVE s = r
  <2>1. s \in W /\ r \in W /\ f[s] \in Handlers /\ s \in Nat
    BY <1>0, <1>1, Zenon
  <2>2. f[s] # h
    <3>1. SUFFICES ASSUME f[s] = h PROVE FALSE
      BY Zenon
    <3>2. s <= P[h] /\ s > P[h] /\ P[h] \in Nat
      BY <1>4, <1>5, <1>9, <2>1, <3>1 DEF SignTypes
    <3> QED BY <2>1, <3>2
  <2> QED BY <1>w, <1>4, <1>9, <2>1, <2>2, Zenon DEF Capped
<1> QED BY <1>6, <1>7, <1>8, <1>9, Zenon DEF Capped

\* The request writes its own session, its first since its eviction.
LEMMA CapCreates ==
    ASSUME SignTypes, NEW u \in Users, NEW h \in Handlers, CreateSession(h), handler[h].user = u,
           created + 1 \in SessionIds, \A s \in SessionIds \ {created + 1} : session'[s] = session[s],
           NEW T \in [Handlers -> 0..created], NEW P \in [Handlers -> 0..created], NEW f \in [SessionIds -> Handlers],
           Capped(u, T, P, f), NEW n, n = created + 1, NEW e, e = [f EXCEPT ![n] = h]
    PROVE  Capped(u, T, P, e)'
<1>w. PICK W : W = WebSessions(u)
  BY Zenon
<1>0. W \subseteq SessionIds /\ \A s \in SessionIds : s \in Nat
  BY <1>w, SignInAssumption DEF WebSessions, SessionsOf, SessionIds
<1>1. WebSessions(u)' \subseteq W \cup {n} /\ n \in SessionIds
  BY <1>w, Zenon DEF WebSessions, SessionsOf, Kind
<1>2. ASSUME NEW t \in 0..created PROVE UpTo(u, t)' \subseteq UpTo(u, t) /\ UpTo(u, t) \subseteq SessionIds
  <2>1. ~(n <= t)
    BY DEF SignTypes
  <2> QED BY <1>w, <1>0, <1>1, <2>1, Zenon DEF UpTo
<1>3. handler[h].pc = "create" /\ handler'[h].pc = "idle" /\ \A g \in Handlers \ {h} : handler'[g] = handler[g]
  BY Zenon DEF CreateSession, SignTypes, HandlerRecs, AtRest
<1>4. e[n] = h /\ \A s \in SessionIds \ {n} : e[s] = f[s]
  BY <1>1, Zenon
<1>5. \A s \in W : f[s] = h => s <= T[h]
  BY <1>w, <1>3, Zenon DEF Capped
<1>m. MaxConcurrent - 1 \in Int
  BY CapIsInt, Zenon
<1>6. ASSUME NEW g \in Handlers PROVE Cardinality(UpTo(u, T[g])') <= MaxConcurrent - 1
  <2>1. UpTo(u, T[g])' \subseteq UpTo(u, T[g]) /\ UpTo(u, T[g]) \subseteq SessionIds
    BY <1>2, Zenon
  <2>2. Cardinality(UpTo(u, T[g])) <= MaxConcurrent - 1
    BY Zenon DEF Capped
  <2> QED BY <1>m, <2>1, <2>2, FewerSessions, Zenon
<1>7. ASSUME NEW g \in Handlers, handler'[g].pc = "evict", handler'[g].user = u
      PROVE  /\ Cardinality(UpTo(u, P[g])' \ handler'[g].evict) <= MaxConcurrent - 1
             /\ \A s \in WebSessions(u)' : e[s] = g => s <= P[g]
  <2>1. g # h /\ handler'[g] = handler[g]
    BY <1>3, <1>7, Zenon
  <2>2. /\ Cardinality(UpTo(u, P[g]) \ handler[g].evict) <= MaxConcurrent - 1
        /\ \A s \in W : f[s] = g => s <= P[g]
    BY <1>w, <1>7, <2>1, Zenon DEF Capped
  <2>3. /\ UpTo(u, P[g])' \ handler'[g].evict \subseteq UpTo(u, P[g]) \ handler[g].evict
        /\ UpTo(u, P[g]) \ handler[g].evict \subseteq SessionIds
    BY <1>2, <2>1, Zenon
  <2>4. Cardinality(UpTo(u, P[g])' \ handler'[g].evict) <= MaxConcurrent - 1
    BY <1>m, <2>2, <2>3, FewerSessions
  <2>5. \A s \in WebSessions(u)' : e[s] = g => s <= P[g]
    BY <1>0, <1>1, <1>4, <2>1, <2>2, Zenon
  <2> QED BY <2>4, <2>5, Zenon
<1>8. ASSUME NEW g \in Handlers, handler'[g].pc = "create", handler'[g].user = u
      PROVE  \A s \in WebSessions(u)' : e[s] = g => s <= T[g]
  <2>1. g # h /\ handler'[g] = handler[g]
    BY <1>3, <1>8, Zenon
  <2>2. \A s \in W : f[s] = g => s <= T[g]
    BY <1>w, <1>8, <2>1, Zenon DEF Capped
  <2> QED BY <1>0, <1>1, <1>4, <2>1, <2>2, Zenon
<1>9. ASSUME NEW s \in WebSessions(u)', NEW r \in WebSessions(u)', e[s] = e[r], s > T[e[s]], r > T[e[r]] PROVE s = r
  <2>1. ASSUME NEW x \in W, x # n, e[x] = h PROVE ~(x > T[h])
    <3>1. x <= T[h] /\ T[h] \in Nat /\ x \in Nat
      BY <1>0, <1>4, <1>5, <2>1 DEF SignTypes
    <3> QED BY <3>1
  <2>2. CASE s = n
    BY <1>1, <1>4, <1>9, <2>1, <2>2, Zenon
  <2>3. CASE r = n
    BY <1>1, <1>4, <1>9, <2>1, <2>3, Zenon
  <2>4. CASE s # n /\ r # n
    <3>1. s \in W /\ r \in W /\ e[s] = f[s] /\ e[r] = f[r]
      BY <1>0, <1>1, <1>4, <2>4, Zenon
    <3> QED BY <1>w, <1>9, <3>1, Zenon DEF Capped
  <2> QED BY <2>2, <2>3, <2>4, Zenon
<1> QED BY <1>6, <1>7, <1>8, <1>9, Zenon DEF Capped

\* Every step keeps the witnesses of the cap.
LEMMA CapStep ==
    ASSUME SignTypes, SessionsFit, \A h \in Handlers : HandlerFits(handler[h]), CapInv, [SignInNext]_signVars
    PROVE  CapInv'
<1> SUFFICES ASSUME NEW u \in Users
             PROVE  \E T \in [Handlers -> 0..created'], P \in [Handlers -> 0..created'], f \in [SessionIds -> Handlers] :
                      Capped(u, T, P, f)'
  BY Zenon DEF CapInv
<1>1. PICK T \in [Handlers -> 0..created], P \in [Handlers -> 0..created], f \in [SessionIds -> Handlers] : Capped(u, T, P, f)
  BY Zenon DEF CapInv
<1>2. created \in Nat /\ (created' = created \/ created' = created + 1)
  <2>1. created \in Nat
    BY DEF SignTypes
  <2>2. UNCHANGED created \/ created' = created + 1
    BY SessionStep, Zenon
  <2> QED BY <2>1, <2>2, Zenon
<1>3. T \in [Handlers -> 0..created'] /\ P \in [Handlers -> 0..created']
  BY <1>2
<1>4. CASE \E h \in Handlers : ListSessions(h) /\ handler[h].user = u
  <2>1. PICK h \in Handlers : ListSessions(h) /\ handler[h].user = u
    BY <1>4, Zenon
  <2>2. PICK Q : Q = [P EXCEPT ![h] = created]
    BY Zenon
  <2>3. Capped(u, T, Q, f)'
    BY <1>1, <2>1, <2>2, CapLists, Zenon
  <2>4. Q \in [Handlers -> 0..created']
    BY <1>2, <1>3, <2>2
  <2> QED BY <1>3, <2>3, <2>4, Zenon
<1>5. CASE \E h \in Handlers : EvictSessions(h) /\ handler[h].user = u
  <2>1. PICK h \in Handlers : EvictSessions(h) /\ handler[h].user = u
    BY <1>5, Zenon
  <2>2. PICK Q : Q = [T EXCEPT ![h] = P[h]]
    BY Zenon
  <2>3. Capped(u, Q, P, f)'
    BY <1>1, <2>1, <2>2, CapEvicts, Zenon
  <2>4. Q \in [Handlers -> 0..created']
    BY <1>3, <2>2, Zenon
  <2> QED BY <1>3, <2>3, <2>4, Zenon
<1>6. CASE \E h \in Handlers : CreateSession(h) /\ handler[h].user = u
  <2>1. PICK h \in Handlers : CreateSession(h) /\ handler[h].user = u
    BY <1>6, Zenon
  <2>2. created' = created + 1
    BY <2>1, Zenon DEF CreateSession, WriteSession
  <2>3. created + 1 \in SessionIds /\ \A s \in SessionIds \ {created + 1} : session'[s] = session[s]
    BY <1>2, <2>2, SessionStep
  <2>4. PICK n, e : n = created + 1 /\ e = [f EXCEPT ![n] = h]
    BY Zenon
  <2>5. Capped(u, T, P, e)'
    BY <1>1, <2>1, <2>3, <2>4, CapCreates, Zenon
  <2>6. e \in [SessionIds -> Handlers]
    BY <2>4, Zenon
  <2> QED BY <1>3, <2>5, <2>6, Zenon
<1>7. CASE \A h \in Handlers : (ListSessions(h) \/ EvictSessions(h) \/ CreateSession(h)) => handler[h].user # u
  <2>1. WebSessions(u)' \subseteq WebSessions(u)
    <3>1. NoSession.kind = "none"
      BY Zenon DEF NoSession
    <3>2. CASE \A s \in SessionIds : session'[s] \in {session[s], NoSession}
      BY <3>1, <3>2, Zenon DEF WebSessions, SessionsOf, Kind
    <3>3. CASE /\ \A s \in SessionIds \ {created + 1} : session'[s] = session[s]
               /\ session'[created + 1].kind = "support" \/ session'[created + 1].user # u
      BY <3>3, Zenon DEF WebSessions, SessionsOf, Kind
    <3> QED BY <1>7, <3>2, <3>3, SessionStep, Zenon
  <2>2. ASSUME NEW g \in Handlers, handler'[g].pc \in {"evict", "create"}, handler'[g].user = u
        PROVE  handler'[g] = handler[g]
    <3>1. ASSUME NEW h \in Handlers, ListSessions(h) \/ EvictSessions(h) PROVE handler'[h].user = handler[h].user
      BY <3>1 DEF ListSessions, EvictSessions, SignTypes, HandlerRecs
    <3>2. ASSUME NEW h \in Handlers, NEW q \in HandlerRecs, handler' = [handler EXCEPT ![h] = q],
                 q.pc = "evict" => ListSessions(h), q.pc = "create" => EvictSessions(h)
          PROVE  handler'[g] = handler[g]
      <4>1. CASE g = h
        <5>1. handler'[g] = q
          BY <3>2, <4>1, Zenon DEF SignTypes
        <5> QED BY <1>7, <2>2, <3>1, <3>2, <4>1, <5>1
      <4>2. CASE g # h
        BY <3>2, <4>2, Zenon DEF SignTypes
      <4> QED BY <4>1, <4>2, Zenon
    <3> QED BY <3>2, RequestStep, Zenon
  <2> QED BY <1>1, <1>3, <2>1, <2>2, CapShrinks, Zenon
<1> QED BY <1>4, <1>5, <1>6, <1>7, Zenon

\* What holds of sign-in in every state.
SignInv == AccountsFit /\ PolicyFits /\ SessionsFit /\ LinksFit /\ CapInv

\* It holds at first.
LEMMA SignInvInit == SignInInit => SignInv
<1> SUFFICES ASSUME SignInInit PROVE SignInv
  BY Zenon
<1>1. /\ \A u \in Users : [role |-> "STAFF", center |-> "none", active |-> TRUE] \in AccountRecs
      /\ NoSession \in SessionRecs /\ AtRest \in HandlerRecs /\ NoEdit \in EditRecs /\ [used |-> FALSE, made |-> 0] \in LinkRecs
      /\ HandlerFits(AtRest) /\ AtRest.pc = "idle" /\ NoEdit.pc = "idle"
  BY HandlersBegin, EditForms, Zenon DEF AccountRecs, ConsoleRoles, CenterRoles, NoSession, SessionRecs, LinkRecs
<1>2. SignTypes
  <2>1. account \in [Users -> AccountRecs]
    BY <1>1, Zenon DEF SignInInit
  <2>2. session \in [SessionIds -> SessionRecs]
    BY <1>1, Zenon DEF SignInInit
  <2>3. handler \in [Handlers -> HandlerRecs] /\ editor \in [Editors -> EditRecs]
    BY <1>1, Zenon DEF SignInInit
  <2>4. orgRole \in [Users -> CenterRoles \cup {"none"}] /\ push \subseteq PushRecs /\ created \in 0..MaxSessions
    BY SignInAssumption DEF SignInInit, CenterRoles
  <2>5. policy \in BOOLEAN /\ cache \in {"empty", "required", "free"} /\ loadCrossed \in BOOLEAN
    BY Zenon DEF SignInInit
  <2> QED BY <2>1, <2>2, <2>3, <2>4, <2>5, Zenon DEF SignTypes
<1>3. AccountsFit
  BY <1>1, <1>2, Zenon DEF AccountsFit, SignInInit, EditorFits, CeilingKept
<1>4. PolicyFits
  BY <1>1, <1>2, Zenon DEF PolicyFits, SignInInit, PolicyCacheHonest, LoadsFit
<1>5. SessionsFit
  BY Zenon DEF SessionsFit, SignInInit
<1>6. LinksFit
  BY <1>1, Zenon DEF LinksFit, SignInInit
<1>7. CapInv
  <2> SUFFICES ASSUME NEW u \in Users
               PROVE  \E T \in [Handlers -> 0..created], P \in [Handlers -> 0..created], f \in [SessionIds -> Handlers] :
                        Capped(u, T, P, f)
    BY Zenon DEF CapInv
  <2>1. PICK h0 \in Handlers : TRUE
    BY SignInAssumption, Zenon
  <2>2. WebSessions(u) = {}
    BY Zenon DEF WebSessions, SessionsOf, Kind, SignInInit, NoSession
  <2>3. \A t : UpTo(u, t) = {}
    BY <2>2, Zenon DEF UpTo
  <2>4. Cardinality({}) <= MaxConcurrent - 1
    BY FS_EmptySet, SignInAssumption
  <2>5. \A h \in Handlers : handler[h].pc = "idle"
    BY <1>1, Zenon DEF SignInInit
  <2>6. PICK T, f : T = [h \in Handlers |-> 0] /\ f = [s \in SessionIds |-> h0]
    BY Zenon
  <2>7. Capped(u, T, T, f)
    BY <2>2, <2>3, <2>4, <2>5, Zenon DEF Capped
  <2>8. T \in [Handlers -> 0..created] /\ f \in [SessionIds -> Handlers]
    BY <2>6 DEF SignInInit
  <2> QED BY <2>7, <2>8, Zenon
<1> QED BY <1>3, <1>4, <1>5, <1>6, <1>7, Zenon DEF SignInv

\* And every step keeps it.
LEMMA SignInvStep == SignInv /\ [SignInNext]_signVars => SignInv'
<1> SUFFICES ASSUME SignInv, [SignInNext]_signVars PROVE SignInv'
  BY Zenon
<1>0. SignTypes /\ \A h \in Handlers : HandlerFits(handler[h])
  BY Zenon DEF SignInv, AccountsFit
<1>1. handler' \in [Handlers -> HandlerRecs] /\ \A h \in Handlers : HandlerFits(handler'[h])
  <2>1. CASE UNCHANGED handler
    BY <1>0, <2>1, Zenon DEF SignTypes
  <2>2. ASSUME NEW h \in Handlers, NEW q \in HandlerRecs, handler' = [handler EXCEPT ![h] = q], HandlerFits(q)
        PROVE  handler' \in [Handlers -> HandlerRecs] /\ \A g \in Handlers : HandlerFits(handler'[g])
    BY <1>0, <2>2, Zenon DEF SignTypes
  <2> QED BY <1>0, <2>1, <2>2, RequestStep, Zenon
<1>2. account' \in [Users -> AccountRecs] /\ CeilingKept'
  BY AccountStep, Zenon DEF SignInv
<1>3. editor' \in [Editors -> EditRecs] /\ \A e \in Editors : EditorFits(e)'
  BY EditStep, Zenon DEF SignInv
<1>4. orgRole' \in [Users -> CenterRoles \cup {"none"}] /\ push' \subseteq PushRecs
  BY <1>0, CentreStep, Zenon
<1>5. /\ policy' \in BOOLEAN /\ cache' \in {"empty", "required", "free"} /\ loadCrossed' \in BOOLEAN
      /\ PolicyCacheHonest' /\ LoadsFit'
  BY <1>0, <1>1, PolicyStep, Zenon DEF SignInv
<1>6. session' \in [SessionIds -> SessionRecs] /\ created' \in 0..MaxSessions /\ SessionsFit'
  BY <1>0, SessionStep, Zenon DEF SignInv
<1>7. LinksFit'
  BY LinkStep, Zenon DEF SignInv
<1>8. CapInv'
  BY <1>0, CapStep, Zenon DEF SignInv
<1>9. SignTypes'
  BY <1>1, <1>2, <1>3, <1>4, <1>5, <1>6, Zenon DEF SignTypes
<1>10. AccountsFit'
  BY <1>1, <1>2, <1>3, <1>9, Zenon DEF AccountsFit
<1> QED BY <1>5, <1>6, <1>7, <1>8, <1>9, <1>10, Zenon DEF SignInv, PolicyFits

\* However many sign-ins run together, a user holds at most one console
\* session fewer than the cap plus one for each request (createSession).
THEOREM SessionsCapped == SignInSpec => []SessionCapBound
<1>1. SignInv => SessionCapBound
  BY CapsSuffice, Zenon DEF SignInv, AccountsFit
<1> QED BY <1>1, SignInvInit, SignInvStep, PTL DEF SignInSpec

\* No console role outgrows the centre's ceiling unless an edit crossed the
\* centre's word (reconcileCenterRole, PATCH /api/admin/users/[id]).
THEOREM CeilingsKept == SignInSpec => []CeilingKept
<1>1. SignInv => CeilingKept
  BY Zenon DEF SignInv, AccountsFit
<1> QED BY <1>1, SignInvInit, SignInvStep, PTL DEF SignInSpec

\* The cached session policy is the saved one unless a load was crossed
\* (getSessionPolicy, saveSessionPolicy).
THEOREM CachedPolicyHonest == SignInSpec => []PolicyCacheHonest
<1>1. SignInv => PolicyCacheHonest
  BY Zenon DEF SignInv, PolicyFits
<1> QED BY <1>1, SignInvInit, SignInvStep, PTL DEF SignInSpec

\* Nobody is sent round in a circle for a second factor (secondFactorGate).
THEOREM SteppedUpOnce == SignInSpec => []StepUpOnce
<1>1. SignInv => StepUpOnce
  BY DEF SignInv, AccountsFit, HandlerFits, StepUpOnce
<1> QED BY <1>1, SignInvInit, SignInvStep, PTL DEF SignInSpec

\* A support link yields one session (startSupportSession).
THEOREM SupportLinksUsedOnce == SignInSpec => []SingleUse
<1>1. SignInv => SingleUse
  BY DEF SignInv, LinksFit, SingleUse
<1> QED BY <1>1, SignInvInit, SignInvStep, PTL DEF SignInSpec

-----------------------------------------------------------------------------
(* The round trip to the identity provider *)

\* The shapes of the settings row, the cookie, a token and a tab's round trip.
Issuers == Providers \cup {"none", Captivo}
RowRecs == [has : BOOLEAN, enabled : BOOLEAN, issuer : Providers \cup {"none"}, secret : Providers \cup {"none"}]
CookieRecs == [id : Nat, returnTo : Nat]
TokenRecs == {[ok |-> FALSE]} \cup [ok : {TRUE}, iss : Issuers, aud : {{"us", "them"}}, azp : {"us", "them"},
                                    nonce : Nat, verified : BOOLEAN, grant : {"none", "own", "other"}]
TripSteps == {"none", "provider", "callback", "exchange", "claims"}
TripRecs == [pc : TripSteps, id : Nat, issuer : Issuers, sent : CookieRecs, cfg : Issuers, saves : Nat, token : TokenRecs]

\* What holds of a round trip by itself: past the check of its state the
\* cookie it was sent with is its own.
TripFits(k) ==
    /\ k.pc # "none" => k.id \in Ids /\ k.issuer # "none"
    /\ k.sent.returnTo = k.sent.id
    /\ k.pc \in {"exchange", "claims"} => k.sent.id = k.id

\* A round trip under the settings it started with goes to the provider in use.
SettingsFit(k) ==
    /\ k.saves <= saves
    /\ k.pc # "none" /\ k.saves = saves =>
         k.issuer = GetOidcConfig(ssoRow).issuer /\ (k.pc = "exchange" => k.cfg = k.issuer)

\* The edits of a round trip.
Begun(i, p, n) == [NoTrip EXCEPT !.pc = "provider", !.id = i, !.issuer = p, !.saves = n]
SentHome(k, c) == [[k EXCEPT !.pc = "callback"] EXCEPT !.sent = c]
Reloaded(k, c) == [[[k EXCEPT !.pc = "callback"] EXCEPT !.sent = c] EXCEPT !.cfg = "none"]
Matched(k, p) == [[k EXCEPT !.pc = "exchange"] EXCEPT !.cfg = p]
Claimed(k, x) == [[k EXCEPT !.pc = "claims"] EXCEPT !.token = x]

\* What an edited round trip holds.
LEMMA TripEdits ==
    ASSUME NEW k \in TripRecs
    PROVE  /\ \A c \in CookieRecs : LET q == SentHome(k, c) IN
                q \in TripRecs /\ q.pc = "callback" /\ q.id = k.id /\ q.issuer = k.issuer /\ q.sent = c /\ q.saves = k.saves
           /\ \A c \in CookieRecs : LET q == Reloaded(k, c) IN
                q \in TripRecs /\ q.pc = "callback" /\ q.id = k.id /\ q.issuer = k.issuer /\ q.sent = c /\ q.saves = k.saves
           /\ \A p \in Issuers : LET q == Matched(k, p) IN
                /\ q \in TripRecs /\ q.pc = "exchange" /\ q.id = k.id /\ q.issuer = k.issuer /\ q.sent = k.sent
                /\ q.saves = k.saves /\ q.cfg = p
           /\ \A x \in TokenRecs : LET q == Claimed(k, x) IN
                /\ q \in TripRecs /\ q.pc = "claims" /\ q.id = k.id /\ q.issuer = k.issuer /\ q.sent = k.sent
                /\ q.saves = k.saves
<1>1. ASSUME NEW c \in CookieRecs
      PROVE  LET q == SentHome(k, c) IN
             q \in TripRecs /\ q.pc = "callback" /\ q.id = k.id /\ q.issuer = k.issuer /\ q.sent = c /\ q.saves = k.saves
  BY Zenon DEF SentHome, TripRecs, TripSteps
<1>2. ASSUME NEW c \in CookieRecs
      PROVE  LET q == Reloaded(k, c) IN
             q \in TripRecs /\ q.pc = "callback" /\ q.id = k.id /\ q.issuer = k.issuer /\ q.sent = c /\ q.saves = k.saves
  BY Zenon DEF Reloaded, TripRecs, TripSteps, Issuers
<1>3. ASSUME NEW p \in Issuers
      PROVE  LET q == Matched(k, p) IN
             /\ q \in TripRecs /\ q.pc = "exchange" /\ q.id = k.id /\ q.issuer = k.issuer /\ q.sent = k.sent
             /\ q.saves = k.saves /\ q.cfg = p
  BY Zenon DEF Matched, TripRecs, TripSteps
<1>4. ASSUME NEW x \in TokenRecs
      PROVE  LET q == Claimed(k, x) IN
             /\ q \in TripRecs /\ q.pc = "claims" /\ q.id = k.id /\ q.issuer = k.issuer /\ q.sent = k.sent
             /\ q.saves = k.saves
  BY Zenon DEF Claimed, TripRecs, TripSteps
<1> QED BY <1>1, <1>2, <1>3, <1>4, Zenon

\* A round trip that has not begun, and one that begins.
LEMMA TripsBegin ==
    /\ NoCookie \in CookieRecs /\ NoCookie.returnTo = NoCookie.id
    /\ NoTrip \in TripRecs /\ TripFits(NoTrip) /\ NoTrip.pc = "none" /\ NoTrip.saves = 0
    /\ \A i \in Ids, p \in Issuers \ {"none"}, n \in Nat : LET q == Begun(i, p, n) IN
         q \in TripRecs /\ TripFits(q) /\ q.pc = "provider" /\ q.id = i /\ q.issuer = p /\ q.saves = n
<1>1. NoCookie \in CookieRecs /\ NoCookie.returnTo = NoCookie.id
  BY Zenon DEF NoCookie, CookieRecs
<1>2. [ok |-> FALSE] \in TokenRecs
  BY Zenon DEF TokenRecs
<1>3. /\ NoTrip \in TripRecs /\ NoTrip.pc = "none" /\ NoTrip.sent = NoCookie /\ NoTrip.saves = 0
  BY <1>1, <1>2, Zenon DEF NoTrip, TripRecs, TripSteps, Issuers
<1>4. ASSUME NEW i \in Ids, NEW p \in Issuers \ {"none"}, NEW n \in Nat
      PROVE  LET q == Begun(i, p, n) IN
             q \in TripRecs /\ q.sent = NoCookie /\ q.pc = "provider" /\ q.id = i /\ q.issuer = p /\ q.saves = n
  <2>1. i \in Nat
    BY FlowAssumption DEF Ids
  <2>2. Begun(i, p, n) \in TripRecs
    BY <1>3, <2>1, Zenon DEF Begun, TripRecs, TripSteps
  <2>3. /\ Begun(i, p, n).sent = NoCookie /\ Begun(i, p, n).pc = "provider" /\ Begun(i, p, n).id = i
        /\ Begun(i, p, n).issuer = p /\ Begun(i, p, n).saves = n
    BY <1>3, Zenon DEF Begun, TripRecs
  <2> QED BY <2>2, <2>3, Zenon
<1> QED BY <1>1, <1>3, <1>4 DEF TripFits

\* Which provider is in use: the tenant's own, or the platform's, with its secret.
LEMMA ConfigIs ==
    ASSUME ssoRow \in RowRecs
    PROVE  /\ GetOidcConfig(ssoRow).issuer \in Issuers
           /\ GetOidcConfig(ssoRow).issuer \in {"none", Captivo, ssoRow.issuer}
           /\ GetOidcConfig(ssoRow).issuer = Captivo =>
                ~ssoRow.has /\ flowHost # "self" /\ GetOidcSecret(ssoRow) = Captivo
           /\ GetOidcConfig(ssoRow).issuer # "none" /\ GetOidcConfig(ssoRow).issuer # Captivo =>
                GetOidcConfig(ssoRow).issuer = ssoRow.issuer /\ GetOidcSecret(ssoRow) = ssoRow.secret
<1>0. Captivo # "none" /\ ssoRow.issuer \in Providers \cup {"none"} /\ Captivo \notin Providers
  BY FlowAssumption, Zenon DEF RowRecs, Captivo
<1>1. CASE PickOidcSource(ssoRow) = "tenant"
  <2>1. GetOidcConfig(ssoRow).issuer = ssoRow.issuer /\ GetOidcSecret(ssoRow) = ssoRow.secret
    BY <1>1, Zenon DEF GetOidcConfig, GetOidcSecret
  <2> QED BY <1>0, <2>1, Zenon DEF Issuers
<1>2. CASE PickOidcSource(ssoRow) = "platform"
  <2>1. GetOidcConfig(ssoRow).issuer = Captivo /\ GetOidcSecret(ssoRow) = Captivo
    BY <1>2, Zenon DEF GetOidcConfig, GetOidcSecret
  <2>2. ~ssoRow.has /\ ReadPlatformOidc # "none"
    BY <1>2, Zenon DEF PickOidcSource
  <2>3. flowHost # "self"
    BY <2>2, Zenon DEF ReadPlatformOidc
  <2> QED BY <1>0, <2>1, <2>2, <2>3, Zenon DEF Issuers
<1>3. CASE PickOidcSource(ssoRow) = "none"
  <2>1. GetOidcConfig(ssoRow).issuer = "none"
    BY <1>3, Zenon DEF GetOidcConfig
  <2> QED BY <1>0, <2>1, Zenon DEF Issuers
<1> QED BY <1>1, <1>2, <1>3, Zenon DEF PickOidcSource

\* The variables keep their shapes.
FlowTypes ==
    /\ ssoRow \in RowRecs /\ saves \in Nat /\ starts \in Nat
    /\ stateCookie \in CookieRecs /\ stateCookie.returnTo = stateCookie.id
    /\ trip \in [FlowTabs -> TripRecs] /\ landed \in [Ids -> Nat]

\* A redeemed code is held by one tab at most, and by none once it landed.
ClaimsFit ==
    /\ \A t \in FlowTabs : trip[t].pc = "claims" => trip[t].id \in redeemed
    /\ \A t, u \in FlowTabs : trip[t].pc = "claims" /\ trip[u].pc = "claims" /\ trip[t].id = trip[u].id => t = u
    /\ \A i \in Ids : \/ landed[i] = 0
                      \/ landed[i] = 1 /\ i \in redeemed /\ \A t \in FlowTabs : trip[t].pc = "claims" => trip[t].id # i

FlowInv ==
    /\ FlowTypes /\ ClaimsFit
    /\ \A t \in FlowTabs : TripFits(trip[t]) /\ SettingsFit(trip[t])

\* One tab's round trip moves on, comes to its end, or redeems a code.
TripMoves(t, q) ==
    /\ q \in TripRecs /\ TripFits(q) /\ trip' = [trip EXCEPT ![t] = q] /\ SettingsFit(q)
    /\ q.pc = "provider" => q.issuer = GetOidcConfig(ssoRow).issuer
    /\ UNCHANGED <<flowHost, envOidc, ssoRow, saves>>
    /\ stateCookie' \in CookieRecs /\ stateCookie'.returnTo = stateCookie'.id /\ starts' \in Nat
    /\ \/ q.pc = "none" /\ UNCHANGED <<redeemed, landed>>
       \/ /\ q.pc = "none" /\ trip[t].pc = "claims" /\ UNCHANGED redeemed
          /\ landed' = [landed EXCEPT ![trip[t].id] = @ + 1]
       \/ q.pc \in {"provider", "callback", "exchange"} /\ UNCHANGED <<redeemed, landed>>
       \/ q.pc = "claims" /\ q.id \notin redeemed /\ redeemed' = redeemed \cup {q.id} /\ UNCHANGED landed

\* Every step saves the settings, drops the cookie or moves one tab.
LEMMA TripStep ==
    ASSUME FlowInv, FlowNext
    PROVE  \/ \E enabled, given \in BOOLEAN, p \in Providers : SaveSso(enabled, p, given)
           \/ CookieExpiresInBrowser
           \/ \E t \in FlowTabs, q \in TripRecs : TripMoves(t, q)
<1> USE DEF FlowInv
<1>0. ASSUME NEW t \in FlowTabs
      PROVE  trip[t] \in TripRecs /\ TripFits(trip[t]) /\ SettingsFit(trip[t]) /\ trip[t].sent \in CookieRecs
             /\ trip[t].saves \in Nat
  BY Zenon DEF FlowTypes, TripRecs
<1>n. /\ NoTrip \in TripRecs /\ TripFits(NoTrip) /\ NoTrip.pc = "none" /\ SettingsFit(NoTrip)
      /\ NoCookie \in CookieRecs /\ NoCookie.returnTo = NoCookie.id
  BY TripsBegin DEF FlowTypes, SettingsFit
<1>1. ASSUME NEW t \in FlowTabs, Start(t) PROVE \E q \in TripRecs : TripMoves(t, q)
  <2>1. PICK p \in Issuers \ {"none"}, i \in Ids : p = GetOidcConfig(ssoRow).issuer /\ i = starts + 1
    <3>1. starts + 1 \in Ids
      BY <1>1, FlowAssumption, SMTT(30) DEF Start, FlowTypes, Ids
    <3> QED BY <1>1, <3>1, ConfigIs, Zenon DEF FlowTypes, Start
  <2>2. PICK q \in TripRecs : /\ q = Begun(i, p, saves) /\ TripFits(q)
                              /\ q.pc = "provider" /\ q.id = i /\ q.issuer = p /\ q.saves = saves
    BY TripsBegin DEF FlowTypes
  <2>3. trip' = [trip EXCEPT ![t] = q] /\ UNCHANGED <<flowHost, envOidc, ssoRow, saves, redeemed, landed>> /\ starts' \in Nat
    BY <1>1, <2>1, <2>2, SMTT(30) DEF Start, Begun, FlowTypes
  <2>4. SettingsFit(q)
    BY <2>1, <2>2 DEF SettingsFit, FlowTypes
  <2>5. stateCookie' \in CookieRecs /\ stateCookie'.returnTo = stateCookie'.id
    BY <1>1 DEF Start, SetOidcState, CookieRecs, FlowTypes
  <2> QED BY <2>1, <2>2, <2>3, <2>4, <2>5, Zenon DEF TripMoves
<1>2. ASSUME NEW t \in FlowTabs, Return(t) PROVE \E q \in TripRecs : TripMoves(t, q)
  <2>1. PICK q \in TripRecs : /\ q = SentHome(trip[t], stateCookie) /\ q.pc = "callback" /\ q.id = trip[t].id
                              /\ q.issuer = trip[t].issuer /\ q.sent = stateCookie /\ q.saves = trip[t].saves
    BY <1>0, TripEdits DEF FlowTypes
  <2>2. trip' = [trip EXCEPT ![t] = q] /\ trip[t].pc = "provider"
        /\ UNCHANGED <<flowHost, envOidc, ssoRow, saves, starts, stateCookie, redeemed, landed>>
    BY <1>2, <2>1, Zenon DEF Return, SentHome, FlowTypes
  <2>3. TripFits(q) /\ SettingsFit(q)
    BY <1>0, <2>1, <2>2, Zenon DEF TripFits, SettingsFit, FlowTypes
  <2> QED BY <2>1, <2>2, <2>3, ZenonT(60) DEF TripMoves, FlowTypes
<1>3. ASSUME NEW t \in FlowTabs, NEW u \in FlowTabs, Reload(t, u) PROVE \E q \in TripRecs : TripMoves(u, q)
  <2>1. PICK q \in TripRecs : /\ q = Reloaded(trip[t], stateCookie) /\ q.pc = "callback" /\ q.id = trip[t].id
                              /\ q.issuer = trip[t].issuer /\ q.sent = stateCookie /\ q.saves = trip[t].saves
    BY <1>0, TripEdits DEF FlowTypes
  <2>2. trip' = [trip EXCEPT ![u] = q] /\ trip[t].pc \in {"callback", "exchange"}
        /\ UNCHANGED <<flowHost, envOidc, ssoRow, saves, starts, stateCookie, redeemed, landed>>
    BY <1>3, <2>1, Zenon DEF Reload, Reloaded
  <2>3. TripFits(q) /\ SettingsFit(q)
    BY <1>0, <2>1, <2>2, Zenon DEF TripFits, SettingsFit, FlowTypes
  <2> QED BY <2>1, <2>2, <2>3, Zenon DEF TripMoves, FlowTypes
<1>4. ASSUME NEW t \in FlowTabs, CallbackCheck(t) PROVE \E q \in TripRecs : TripMoves(t, q)
  <2>0. UNCHANGED <<flowHost, envOidc, ssoRow, saves, starts, redeemed, landed>> /\ trip[t].pc = "callback"
    BY <1>4, Zenon DEF CallbackCheck
  <2>1. CASE Answer(t)
    BY <1>n, <2>0, <2>1, Zenon DEF Answer, TripMoves, FlowTypes
  <2>2. CASE ~Answer(t)
    <3>1. PICK p \in Issuers : p = GetOidcConfig(ssoRow).issuer
      BY ConfigIs, Zenon DEF FlowTypes
    <3>2. PICK q \in TripRecs : /\ q = Matched(trip[t], p) /\ q.pc = "exchange" /\ q.id = trip[t].id
                                /\ q.issuer = trip[t].issuer /\ q.sent = trip[t].sent /\ q.saves = trip[t].saves /\ q.cfg = p
      BY <1>0, TripEdits, Zenon
    <3>3. trip' = [trip EXCEPT ![t] = q] /\ UNCHANGED stateCookie /\ trip[t].sent.id = trip[t].id
      BY <1>4, <2>2, <3>1, <3>2, Zenon DEF CallbackCheck, Matched, StateMatches, FlowTypes
    <3>4. TripFits(q) /\ SettingsFit(q)
      BY <1>0, <2>0, <3>1, <3>2, <3>3, Zenon DEF TripFits, SettingsFit, FlowTypes
    <3> QED BY <2>0, <3>2, <3>3, <3>4, Zenon DEF TripMoves, FlowTypes
  <2> QED BY <2>1, <2>2, Zenon
<1>5. ASSUME NEW t \in FlowTabs, NEW x \in Tokens(t), Exchange(t, x) PROVE \E q \in TripRecs : TripMoves(t, q)
  <2>0. UNCHANGED <<flowHost, envOidc, ssoRow, saves, starts, landed>> /\ trip[t].pc = "exchange"
    BY <1>5, Zenon DEF Exchange
  <2>1. CASE ~RedeemsCode(t)
    BY <1>5, <1>n, <2>0, <2>1, Zenon DEF Exchange, Answer, TripMoves, FlowTypes
  <2>2. CASE RedeemsCode(t)
    <3>1. x \in TokenRecs
      <4>1. trip[t].issuer \in Issuers /\ trip[t].id \in Nat
        BY <1>0, Zenon DEF TripRecs
      <4>2. \A g \in {"none", "own", "other"}, z \in {"us", "them"}, v \in BOOLEAN : Token(t, g, z, v) \in TokenRecs
        BY <4>1, Zenon DEF Token, TokenRecs
      <4> QED BY <4>2, Zenon DEF Tokens
    <3>y. PICK y \in TokenRecs : y = x
      BY <3>1, Zenon
    <3>k. PICK k \in TripRecs : k = trip[t]
      BY <1>0, Zenon
    <3>2. PICK q \in TripRecs : /\ q = Claimed(k, y) /\ q.pc = "claims" /\ q.id = trip[t].id
                                /\ q.issuer = trip[t].issuer /\ q.sent = trip[t].sent /\ q.saves = trip[t].saves
      BY <3>k, TripEdits
    <3>3. trip' = [trip EXCEPT ![t] = q] /\ UNCHANGED stateCookie /\ q.id \notin redeemed /\ redeemed' = redeemed \cup {q.id}
      BY <1>5, <2>2, <3>y, <3>k, <3>2, Zenon DEF Exchange, RedeemsCode, Claimed, FlowTypes
    <3>4. TripFits(q) /\ SettingsFit(q)
      BY <1>0, <2>0, <3>2, Zenon DEF TripFits, SettingsFit, FlowTypes
    <3> QED BY <2>0, <3>2, <3>3, <3>4, Zenon DEF TripMoves, FlowTypes
  <2> QED BY <2>1, <2>2, Zenon
<1>6. ASSUME NEW t \in FlowTabs, NEW person, Callback(t, person) PROVE \E q \in TripRecs : TripMoves(t, q)
  <2>0. /\ UNCHANGED <<flowHost, envOidc, ssoRow, saves, starts, redeemed>> /\ trip[t].pc = "claims"
        /\ trip' = [trip EXCEPT ![t] = NoTrip] /\ stateCookie' = NoCookie
    BY <1>6, Zenon DEF Callback, Answer
  <2>1. trip[t].sent.returnTo = trip[t].id
    BY <1>0, <2>0, Zenon DEF TripFits
  <2>2. landed' = landed \/ landed' = [landed EXCEPT ![trip[t].id] = @ + 1]
    BY <1>6, <2>1, Zenon DEF Callback
  <2> QED BY <1>n, <2>0, <2>2, Zenon DEF TripMoves, FlowTypes
<1>7. ASSUME NEW t \in FlowTabs, LeaveTrip(t) PROVE \E q \in TripRecs : TripMoves(t, q)
  <2>0. /\ UNCHANGED <<flowHost, envOidc, ssoRow, saves, starts, redeemed, landed>>
        /\ trip' = [trip EXCEPT ![t] = NoTrip] /\ (stateCookie' = NoCookie \/ UNCHANGED stateCookie)
    BY <1>7, Zenon DEF LeaveTrip, Answer
  <2> QED BY <1>n, <2>0, Zenon DEF TripMoves, FlowTypes
<1> QED BY <1>1, <1>2, <1>3, <1>4, <1>5, <1>6, <1>7, Zenon DEF FlowNext

\* The invariant holds at first.
LEMMA FlowInvInit == FlowInit => FlowInv
<1> SUFFICES ASSUME FlowInit PROVE FlowInv
  BY Zenon
<1>1. NoRow \in RowRecs /\ landed \in [Ids -> Nat]
  BY Zenon DEF NoRow, RowRecs, FlowInit
<1>2. \A t \in FlowTabs : trip[t] = NoTrip
  BY Zenon DEF FlowInit
<1>3. trip \in [FlowTabs -> TripRecs]
  BY TripsBegin, Zenon DEF FlowInit
<1>4. FlowTypes
  BY <1>1, <1>3, TripsBegin, Zenon DEF FlowTypes, FlowInit
<1>5. ClaimsFit
  BY <1>2, TripsBegin, ZenonT(60) DEF ClaimsFit, FlowInit
<1>6. \A t \in FlowTabs : TripFits(trip[t]) /\ SettingsFit(trip[t])
  BY <1>2, TripsBegin DEF SettingsFit, FlowInit
<1> QED BY <1>4, <1>5, <1>6, Zenon DEF FlowInv

\* Moving one tab keeps it.
LEMMA MoveKeeps == ASSUME FlowInv, NEW t \in FlowTabs, NEW q \in TripRecs, TripMoves(t, q) PROVE FlowInv'
<1>1. trip' \in [FlowTabs -> TripRecs] /\ trip'[t] = q /\ \A u \in FlowTabs \ {t} : trip'[u] = trip[u]
  BY Zenon DEF FlowInv, FlowTypes, TripMoves
<1>2. UNCHANGED <<flowHost, envOidc, ssoRow, saves>>
  BY Zenon DEF TripMoves
<1>3. \A u \in FlowTabs : TripFits(trip'[u])
  BY <1>1, Zenon DEF FlowInv, TripMoves
<1>5. ASSUME NEW k, SettingsFit(k) PROVE (k.saves <= saves)' /\ (k.pc # "none" /\ k.saves = saves' =>
             k.issuer = GetOidcConfig(ssoRow)'.issuer /\ (k.pc = "exchange" => k.cfg = k.issuer))
  BY <1>2, <1>5, Zenon DEF SettingsFit, GetOidcConfig, PickOidcSource, ReadPlatformOidc
<1>6. \A u \in FlowTabs : SettingsFit(trip[u])'
  <2> SUFFICES ASSUME NEW u \in FlowTabs PROVE SettingsFit(trip[u])'
    BY Zenon
  <2>1. PICK k : k = trip'[u] /\ SettingsFit(k)
    BY <1>1, ZenonT(60) DEF FlowInv, TripMoves
  <2> QED BY <1>5, <2>1, Zenon DEF SettingsFit
<1>7. landed' \in [Ids -> Nat]
  BY DEF FlowInv, FlowTypes, TripMoves
<1>8. FlowTypes'
  BY <1>1, <1>2, <1>7, Zenon DEF FlowInv, FlowTypes, TripMoves
<1>9. ClaimsFit'
  <2>1. CASE q.pc # "claims" /\ UNCHANGED <<redeemed, landed>>
    BY <1>1, <2>1, SMTT(30) DEF FlowInv, ClaimsFit
  <2>2. CASE /\ q.pc = "none" /\ trip[t].pc = "claims" /\ UNCHANGED redeemed
             /\ landed' = [landed EXCEPT ![trip[t].id] = @ + 1]
    <3>1. PICK i \in Ids : i = trip[t].id
      BY <2>2, Zenon DEF FlowInv, TripFits
    <3>2. i \in redeemed /\ landed[i] = 0 /\ \A u \in FlowTabs \ {t} : trip[u].pc = "claims" => trip[u].id # i
      BY <2>2, <3>1, Zenon DEF FlowInv, ClaimsFit
    <3>3. landed'[i] = 1 /\ \A j \in Ids \ {i} : landed'[j] = landed[j]
      BY <2>2, <3>1, <3>2, SMTT(30) DEF FlowInv, FlowTypes
    <3> QED BY <1>1, <2>2, <3>2, <3>3, SMTT(30) DEF FlowInv, ClaimsFit
  <2>3. CASE q.pc = "claims" /\ q.id \notin redeemed /\ redeemed' = redeemed \cup {q.id} /\ UNCHANGED landed
    BY <1>1, <2>3 DEF FlowInv, ClaimsFit
  <2> QED BY <2>1, <2>2, <2>3, ZenonT(60) DEF TripMoves
<1> QED BY <1>3, <1>6, <1>8, <1>9, Zenon DEF FlowInv

\* And so does every other step.
LEMMA FlowInvStep == FlowInv /\ [FlowNext]_flowVars => FlowInv'
<1> SUFFICES ASSUME FlowInv, [FlowNext]_flowVars PROVE FlowInv'
  BY Zenon
<1>1. ASSUME NEW enabled \in BOOLEAN, NEW given \in BOOLEAN, NEW p \in Providers, SaveSso(enabled, p, given) PROVE FlowInv'
  <2>1. UNCHANGED <<stateCookie, starts, trip, redeemed, landed>> /\ saves' = saves + 1
    BY <1>1, Zenon DEF SaveSso
  <2>2. ssoRow' \in RowRecs
    BY <1>1, Zenon DEF SaveSso, Upserted, RowRecs, FlowInv, FlowTypes
  <2>3. FlowTypes'
    BY <2>1, <2>2 DEF FlowInv, FlowTypes
  <2>4. ClaimsFit'
    BY <2>1, Zenon DEF FlowInv, ClaimsFit
  <2>5. \A t \in FlowTabs : TripFits(trip[t])'
    BY <2>1, Zenon DEF FlowInv, TripFits
  <2>6. \A t \in FlowTabs : SettingsFit(trip[t])'
    <3> SUFFICES ASSUME NEW t \in FlowTabs PROVE SettingsFit(trip[t])'
      BY Zenon
    <3>1. trip'[t].saves \in Nat /\ trip'[t].saves <= saves /\ saves \in Nat
      BY <2>1, Zenon DEF FlowInv, FlowTypes, TripRecs, SettingsFit
    <3> QED BY <2>1, <3>1 DEF SettingsFit
  <2> QED BY <2>3, <2>4, <2>5, <2>6, Zenon DEF FlowInv
<1>2. ASSUME UNCHANGED <<flowHost, envOidc, ssoRow, saves, starts, trip, redeemed, landed>>,
             stateCookie' \in CookieRecs, stateCookie'.returnTo = stateCookie'.id
      PROVE  FlowInv'
  <2>1. FlowTypes' /\ ClaimsFit' /\ \A t \in FlowTabs : TripFits(trip[t])'
    BY <1>2, Zenon DEF FlowInv, FlowTypes, ClaimsFit, TripFits
  <2>2. \A t \in FlowTabs : SettingsFit(trip[t])'
    BY <1>2, Zenon DEF FlowInv, SettingsFit, GetOidcConfig, PickOidcSource, ReadPlatformOidc
  <2> QED BY <2>1, <2>2, Zenon DEF FlowInv
<1>3. CookieExpiresInBrowser => FlowInv'
  BY <1>2, TripsBegin, Zenon DEF CookieExpiresInBrowser
<1>4. UNCHANGED flowVars => FlowInv'
  BY <1>2, Zenon DEF flowVars, FlowInv, FlowTypes
<1> QED BY <1>1, <1>3, <1>4, TripStep, MoveKeeps, Zenon

\* One tab never lands where another was going, and no round trip signs in
\* twice (GET /api/auth/oidc/callback).
THEOREM TripsLandAtHome == FlowSpec => []LandsWhereItStarted
<1>1. FlowInv => LandsWhereItStarted
  BY DEF FlowInv, ClaimsFit, TripFits, LandsWhereItStarted
<1> QED BY <1>1, FlowInvInit, FlowInvStep, PTL DEF FlowSpec

\* A code goes back to the provider that issued it with that provider's secret
\* while the settings stay (getOidcConfig, getOidcSecret).
THEOREM SecretsFit == FlowSpec => []SecretFitsProvider
<1>1. FlowInv => SecretFitsProvider
  <2> SUFFICES ASSUME FlowInv, NEW t \in FlowTabs, trip[t].pc = "exchange", trip[t].saves = saves,
                      trip[t].issuer = Captivo \/ ssoRow.secret = ssoRow.issuer
               PROVE  trip[t].cfg = trip[t].issuer /\ GetOidcSecret(ssoRow) = trip[t].issuer
    BY Zenon DEF SecretFitsProvider
  <2>1. trip[t].cfg = trip[t].issuer /\ trip[t].issuer = GetOidcConfig(ssoRow).issuer
    BY Zenon DEF FlowInv, SettingsFit
  <2>2. trip[t].issuer # "none" /\ ssoRow \in RowRecs
    BY Zenon DEF FlowInv, FlowTypes, TripFits
  <2>3. GetOidcSecret(ssoRow) = trip[t].issuer
    <3>1. CASE trip[t].issuer = Captivo
      BY <2>1, <2>2, <3>1, ConfigIs, Zenon
    <3>2. CASE trip[t].issuer # Captivo
      BY <2>1, <2>2, <3>2, ConfigIs, Zenon
    <3> QED BY <3>1, <3>2, Zenon
  <2> QED BY <2>1, <2>3, Zenon
<1> QED BY <1>1, FlowInvInit, FlowInvStep, PTL DEF FlowSpec

\* A tenant whose own federation is off is not moved onto the platform's
\* provider (pickOidcSource, readPlatformOidc).
THEOREM OffStaysOff == FlowSpec => FederationOffStaysOff
<1>1. FlowInv /\ [FlowNext]_flowVars =>
        [\A t \in FlowTabs : trip[t].pc = "none" /\ trip'[t].pc = "provider" /\ trip'[t].issuer = Captivo
           => ~ssoRow.has /\ flowHost # "self"]_flowVars
  <2> SUFFICES ASSUME FlowInv, FlowNext, NEW t \in FlowTabs, trip[t].pc = "none", trip'[t].pc = "provider",
                      trip'[t].issuer = Captivo
               PROVE  ~ssoRow.has /\ flowHost # "self"
    BY Zenon
  <2>1. ASSUME NEW u \in FlowTabs, NEW q \in TripRecs, TripMoves(u, q) PROVE GetOidcConfig(ssoRow).issuer = Captivo
    BY <2>1, Zenon DEF TripMoves, FlowInv, FlowTypes
  <2>2. UNCHANGED trip => FALSE
    BY Zenon
  <2>3. GetOidcConfig(ssoRow).issuer = Captivo
    BY <2>1, <2>2, TripStep, Zenon DEF SaveSso, CookieExpiresInBrowser
  <2> QED BY <2>3, ConfigIs, Zenon DEF FlowInv, FlowTypes
<1> QED BY <1>1, FlowInvInit, FlowInvStep, PTL DEF FlowSpec, FederationOffStaysOff

=============================================================================
