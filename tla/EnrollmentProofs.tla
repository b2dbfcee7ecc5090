-------------------------- MODULE EnrollmentProofs --------------------------
(***************************************************************************)
(* Proofs about how accounts and passkeys come to be (Enrollment), for any *)
(* invitations, tabs, browsers, administrators and deployments, and how    *)
(* the mobile app gets a token of its own (MobileApp).  The invariant of   *)
(* the first says what a ceremony holds at each of its steps, ties the     *)
(* challenge cookie of a browser to the ceremony it was set for, and says  *)
(* who holds a used invitation before it is an account's.                  *)
(***************************************************************************)
EXTENDS Enrollment, MobileApp, FiniteSetTheorems, TLAPS

\* The shapes of the rows, the cookies and the requests.
EnrolSteps == {"idle", "prompt", "create", "recovered", "counted", "consume", "consumed"}
Ceremonies == {"none", "refused", "setup", "invite", "add", "recover", "oidc"}
Addresses == Emails \cup {"none"}
TabRecs == [pc : EnrolSteps, mode : Ceremonies, inv : Invites \cup {"none"}, email : Addresses,
            ch : Nat, handle : Nat, uid : Nat]
ChallengeRecs == [ch : Nat, uid : Nat]
JarRecs == [challenge : ChallengeRecs, recover : Nat, session : Nat]
GrantedRoles == InviteRoles \cup {"ADMIN", "PLATFORM", "refused", "none"}
InviteRecs == [st : {"none", "pending", "used", "gone"}, email : Addresses, role : GrantedRoles, expired : BOOLEAN]
UserRecs == [email : Addresses, role : GrantedRoles, active : BOOLEAN, via : Invites \cup {"setup", "none"}]
KeyRecs == [owner : Nat, handle : Nat, born : Ceremonies]
RequestRecs == [pc : {"idle", "write", "revoke", "resend", "mint"}, inv : Invites \cup {"none"}, email : Addresses,
                role : GrantedRoles]

\* What holds of a ceremony by itself: it names its invitation, and creates the
\* account whose handle its passkey embeds.
TabFits(k) ==
    /\ k.pc \in {"consume", "consumed"} => k.inv \in Invites /\ k.mode = "oidc"
    /\ k.pc \in {"prompt", "create"} /\ k.mode = "invite" => k.inv \in Invites
    /\ k.mode = "refused" => k.pc = "idle"
    /\ k.pc = "create" => k.mode \in {"setup", "invite"} /\ k.uid = k.handle
    /\ k.pc = "prompt" => k.ch # None

\* Every variable of the enrolment keeps its shape.
EnrolTypes ==
    /\ jarOf \in [Tabs -> Browsers] /\ next \in Nat \ {0}
    /\ user \in [AccountIds -> UserRecs] /\ key \in [AccountIds -> KeyRecs]
    /\ invite \in [Invites -> InviteRecs] /\ made \in [Invites -> SUBSET Nat]
    /\ jar \in [Browsers -> JarRecs]
    /\ tab \in [Tabs -> TabRecs]
    /\ adm \in [Admins -> RequestRecs] /\ \A a \in Admins : adm[a].pc # "idle" => adm[a].inv \in Invites

\* A challenge cookie belongs to one ceremony: its account is the one the
\* ceremony's passkey is created for.
ChallengesFit ==
    /\ \A b \in Browsers : jar[b].challenge.ch < next
    /\ \A t \in Tabs : tab[t].pc = "prompt" => tab[t].ch < next
    /\ \A t \in Tabs : /\ tab[t].pc = "prompt" /\ tab[t].mode \in {"setup", "invite"}
                       /\ jar[jarOf[t]].challenge.ch = tab[t].ch
                       => jar[jarOf[t]].challenge.uid = tab[t].handle

\* On a self-hosted install an invitation is used before it is an account's,
\* and one request holds it in between.
SpentFits ==
    deployment = "self" =>
        /\ \A i \in Invites : made[i] = {} \/ (invite[i].st = "used" /\ \E x \in Nat : made[i] = {x})
        /\ \A t \in Tabs : tab[t].pc = "consumed" => invite[tab[t].inv].st = "used" /\ made[tab[t].inv] = {}
        /\ \A t, u \in Tabs : tab[t].pc = "consumed" /\ tab[u].pc = "consumed" /\ tab[t].inv = tab[u].inv => t = u

EnrolInv ==
    /\ EnrolTypes /\ ChallengesFit /\ SpentFits /\ HandleIsUser
    /\ \A t \in Tabs : TabFits(tab[t])

\* The edits of a ceremony.
AtPrompt(mode, i, e, c, hd) ==
    [pc |-> "prompt", mode |-> mode, inv |-> i, email |-> e, ch |-> c, handle |-> hd, uid |-> None]
Creating(k, u) == [[k EXCEPT !.pc = "create"] EXCEPT !.uid = u]
TurnedAway == [Idle EXCEPT !.mode = "refused"]
Consuming(i, e) == [Idle EXCEPT !.pc = "consume", !.mode = "oidc", !.inv = i, !.email = e]
AtStep(k, p) == [k EXCEPT !.pc = p]
Counting(k, c) == [[k EXCEPT !.pc = "counted"] EXCEPT !.ch = c]

\* What they hold.
LEMMA TabForms ==
    /\ Idle \in TabRecs /\ TabFits(Idle) /\ Idle.pc = "idle" /\ Idle.mode = "none"
    /\ TurnedAway \in TabRecs /\ TabFits(TurnedAway) /\ TurnedAway.pc = "idle" /\ TurnedAway.mode = "refused"
    /\ \A i \in Invites, e \in Emails :
         Consuming(i, e) \in TabRecs /\ TabFits(Consuming(i, e)) /\ Consuming(i, e).pc = "consume" /\ Consuming(i, e).mode = "oidc"
    /\ \A m \in {"setup", "invite", "add", "recover"}, i \in Invites \cup {"none"}, e \in Addresses, c \in Nat \ {0}, hd \in Nat :
         (m = "invite" => i \in Invites) =>
         /\ AtPrompt(m, i, e, c, hd) \in TabRecs /\ TabFits(AtPrompt(m, i, e, c, hd))
         /\ AtPrompt(m, i, e, c, hd).pc = "prompt" /\ AtPrompt(m, i, e, c, hd).mode = m
         /\ AtPrompt(m, i, e, c, hd).ch = c /\ AtPrompt(m, i, e, c, hd).handle = hd
<1>1. Idle \in TabRecs /\ TabFits(Idle) /\ Idle.pc = "idle" /\ Idle.mode = "none"
  BY Zenon DEF Idle, TabRecs, TabFits, EnrolSteps, Ceremonies, Addresses, None
<1>2. TurnedAway = [pc |-> "idle", mode |-> "refused", inv |-> "none", email |-> "none", ch |-> None, handle |-> None, uid |-> None]
  BY DEF TurnedAway, Idle
<1>3. TurnedAway \in TabRecs /\ TabFits(TurnedAway) /\ TurnedAway.pc = "idle" /\ TurnedAway.mode = "refused"
  BY <1>2, Zenon DEF TabRecs, TabFits, EnrolSteps, Ceremonies, Addresses, None
<1>4. ASSUME NEW i \in Invites, NEW e \in Emails
      PROVE  Consuming(i, e) \in TabRecs /\ TabFits(Consuming(i, e)) /\ Consuming(i, e).pc = "consume" /\ Consuming(i, e).mode = "oidc"
  <2>1. Consuming(i, e) \in TabRecs
    BY <1>1, Zenon DEF Consuming, TabRecs, EnrolSteps, Ceremonies, Addresses
  <2>2. Consuming(i, e).pc = "consume" /\ Consuming(i, e).mode = "oidc" /\ Consuming(i, e).inv = i
    BY <1>1, Zenon DEF Consuming, TabRecs
  <2> QED BY <2>1, <2>2, Zenon DEF TabFits
<1>5. ASSUME NEW m \in {"setup", "invite", "add", "recover"}, NEW i \in Invites \cup {"none"}, NEW e \in Addresses,
             NEW c \in Nat \ {0}, NEW hd \in Nat, m = "invite" => i \in Invites
      PROVE  /\ AtPrompt(m, i, e, c, hd) \in TabRecs /\ TabFits(AtPrompt(m, i, e, c, hd))
             /\ AtPrompt(m, i, e, c, hd).pc = "prompt" /\ AtPrompt(m, i, e, c, hd).mode = m
             /\ AtPrompt(m, i, e, c, hd).ch = c /\ AtPrompt(m, i, e, c, hd).handle = hd
  BY <1>5, Zenon DEF AtPrompt, TabRecs, TabFits, EnrolSteps, Ceremonies, None
<1> QED BY <1>1, <1>3, <1>4, <1>5, Zenon

\* What an edited ceremony holds.
LEMMA TabEdits ==
    ASSUME NEW k \in TabRecs, TabFits(k)
    PROVE  /\ k.pc = "prompt" /\ k.mode \in {"setup", "invite"} =>
                /\ Creating(k, k.handle) \in TabRecs /\ TabFits(Creating(k, k.handle))
                /\ Creating(k, k.handle).pc = "create" /\ Creating(k, k.handle).mode = k.mode
           /\ k.pc = "consume" =>
                /\ AtStep(k, "consumed") \in TabRecs /\ TabFits(AtStep(k, "consumed")) /\ AtStep(k, "consumed").pc = "consumed"
                /\ AtStep(k, "consumed").inv = k.inv /\ AtStep(k, "consumed").mode = "oidc"
           /\ k = Idle =>
                /\ AtStep(k, "recovered") \in TabRecs /\ TabFits(AtStep(k, "recovered"))
                /\ AtStep(k, "recovered").pc = "recovered" /\ AtStep(k, "recovered").mode = "none"
           /\ \A c \in Nat : k = Idle =>
                /\ Counting(k, c) \in TabRecs /\ TabFits(Counting(k, c))
                /\ Counting(k, c).pc = "counted" /\ Counting(k, c).mode = "none"
<1>1. ASSUME k.pc = "prompt", k.mode \in {"setup", "invite"}
      PROVE  /\ Creating(k, k.handle) \in TabRecs /\ TabFits(Creating(k, k.handle))
             /\ Creating(k, k.handle).pc = "create" /\ Creating(k, k.handle).mode = k.mode
  BY <1>1, Zenon DEF Creating, TabRecs, TabFits, EnrolSteps
<1>2. ASSUME k.pc = "consume"
      PROVE  /\ AtStep(k, "consumed") \in TabRecs /\ TabFits(AtStep(k, "consumed")) /\ AtStep(k, "consumed").pc = "consumed"
             /\ AtStep(k, "consumed").inv = k.inv /\ AtStep(k, "consumed").mode = "oidc"
  BY <1>2, Zenon DEF AtStep, TabRecs, TabFits, EnrolSteps
<1>3. ASSUME k = Idle
      PROVE  /\ AtStep(k, "recovered") \in TabRecs /\ TabFits(AtStep(k, "recovered"))
             /\ AtStep(k, "recovered").pc = "recovered" /\ AtStep(k, "recovered").mode = "none"
  <2>1. k.mode = "none"
    BY <1>3, TabForms, Zenon
  <2> QED BY <2>1, Zenon DEF AtStep, TabRecs, TabFits, EnrolSteps
<1>4. ASSUME NEW c \in Nat, k = Idle
      PROVE  /\ Counting(k, c) \in TabRecs /\ TabFits(Counting(k, c))
             /\ Counting(k, c).pc = "counted" /\ Counting(k, c).mode = "none"
  <2>1. k.mode = "none"
    BY <1>4, TabForms, Zenon
  <2> QED BY <2>1, Zenon DEF Counting, TabRecs, TabFits, EnrolSteps
<1> QED BY <1>1, <1>2, <1>3, <1>4, Zenon

\* The edits of a cookie jar.
WithChallenge(j, c) == [j EXCEPT !.challenge = c]
Entered(j, u) == [[j EXCEPT !.session = u] EXCEPT !.challenge = NoChallenge]
WithSession(j, u) == [j EXCEPT !.session = u]
WithRecover(j, u) == [j EXCEPT !.recover = u]
Recovered(u) == [challenge |-> NoChallenge, recover |-> None, session |-> u]

\* What an edited jar holds.
LEMMA JarEdits ==
    ASSUME NEW j \in JarRecs
    PROVE  /\ NoChallenge \in ChallengeRecs /\ NoChallenge.ch = 0
           /\ \A c \in ChallengeRecs : WithChallenge(j, c) \in JarRecs /\ WithChallenge(j, c).challenge = c
           /\ \A u \in Nat : Entered(j, u) \in JarRecs /\ Entered(j, u).challenge = NoChallenge
           /\ \A u \in Nat : WithSession(j, u) \in JarRecs /\ WithSession(j, u).challenge = j.challenge
           /\ \A u \in Nat : WithRecover(j, u) \in JarRecs /\ WithRecover(j, u).challenge = j.challenge
           /\ \A u \in Nat : Recovered(u) \in JarRecs /\ Recovered(u).challenge = NoChallenge
<1>1. NoChallenge \in ChallengeRecs /\ NoChallenge.ch = 0
  BY Zenon DEF NoChallenge, ChallengeRecs, None
<1>2. \A c \in ChallengeRecs : WithChallenge(j, c) \in JarRecs /\ WithChallenge(j, c).challenge = c
  BY Zenon DEF WithChallenge, JarRecs
<1>3. \A u \in Nat : Entered(j, u) \in JarRecs /\ Entered(j, u).challenge = NoChallenge
  BY <1>1, Zenon DEF Entered, JarRecs
<1>4. \A u \in Nat : WithSession(j, u) \in JarRecs /\ WithSession(j, u).challenge = j.challenge
  BY Zenon DEF WithSession, JarRecs
<1>5. \A u \in Nat : WithRecover(j, u) \in JarRecs /\ WithRecover(j, u).challenge = j.challenge
  BY Zenon DEF WithRecover, JarRecs
<1>6. \A u \in Nat : Recovered(u) \in JarRecs /\ Recovered(u).challenge = NoChallenge
  BY <1>1, Zenon DEF Recovered, JarRecs, None
<1> QED BY <1>1, <1>2, <1>3, <1>4, <1>5, <1>6, Zenon

\* The cookies change without a new challenge.
JarQuiet == jar' \in [Browsers -> JarRecs] /\ \A b \in Browsers : jar'[b].challenge \in {jar[b].challenge, NoChallenge}

\* One browser's jar is written.
LEMMA JarWritten ==
    ASSUME EnrolTypes, NEW b \in Browsers, NEW j \in JarRecs, j.challenge \in {jar[b].challenge, NoChallenge},
           jar' = [jar EXCEPT ![b] = j]
    PROVE  JarQuiet
BY Zenon DEF EnrolTypes, JarQuiet

\* The ways a step writes the cookies of a tab's browser.
LEMMA JarForms ==
    ASSUME EnrolTypes, NEW t \in Tabs
    PROVE  /\ jar' = jar => JarQuiet
           /\ \A u \in Nat : jar' = [jar EXCEPT ![jarOf[t]].session = u, ![jarOf[t]].challenge = NoChallenge] => JarQuiet
           /\ \A u \in Nat : jar' = [jar EXCEPT ![jarOf[t]].session = u] => JarQuiet
           /\ \A u \in Nat : jar' = [jar EXCEPT ![jarOf[t]].recover = u] => JarQuiet
           /\ jar' = [jar EXCEPT ![jarOf[t]].challenge = NoChallenge] => JarQuiet
           /\ \A u \in Nat : jar' = [jar EXCEPT ![jarOf[t]] = [challenge |-> NoChallenge, recover |-> None, session |-> u]] => JarQuiet
<1>1. PICK b \in Browsers : b = jarOf[t]
  BY Zenon DEF EnrolTypes
<1>2. jar[b] \in JarRecs
  BY Zenon DEF EnrolTypes
<1>3. jar' = jar => JarQuiet
  BY Zenon DEF EnrolTypes, JarQuiet
<1>4. ASSUME NEW u \in Nat, jar' = [jar EXCEPT ![b].session = u, ![b].challenge = NoChallenge] PROVE JarQuiet
  <2>1. jar' = [jar EXCEPT ![b] = Entered(jar[b], u)]
    BY <1>4, Zenon DEF Entered, EnrolTypes
  <2> QED BY <1>2, <2>1, JarEdits, JarWritten, Zenon
<1>5. ASSUME NEW u \in Nat, jar' = [jar EXCEPT ![b].session = u] PROVE JarQuiet
  <2>1. jar' = [jar EXCEPT ![b] = WithSession(jar[b], u)]
    BY <1>5, Zenon DEF WithSession, EnrolTypes
  <2> QED BY <1>2, <2>1, JarEdits, JarWritten, Zenon
<1>6. ASSUME NEW u \in Nat, jar' = [jar EXCEPT ![b].recover = u] PROVE JarQuiet
  <2>1. jar' = [jar EXCEPT ![b] = WithRecover(jar[b], u)]
    BY <1>6, Zenon DEF WithRecover, EnrolTypes
  <2> QED BY <1>2, <2>1, JarEdits, JarWritten, Zenon
<1>7. ASSUME jar' = [jar EXCEPT ![b].challenge = NoChallenge] PROVE JarQuiet
  <2>1. jar' = [jar EXCEPT ![b] = WithChallenge(jar[b], NoChallenge)]
    BY <1>7, Zenon DEF WithChallenge, EnrolTypes
  <2> QED BY <1>2, <2>1, JarEdits, JarWritten, Zenon
<1>8. ASSUME NEW u \in Nat, jar' = [jar EXCEPT ![b] = [challenge |-> NoChallenge, recover |-> None, session |-> u]] PROVE JarQuiet
  <2>1. jar' = [jar EXCEPT ![b] = Recovered(u)]
    BY <1>8, Zenon DEF Recovered
  <2> QED BY <1>2, <2>1, JarEdits, JarWritten, Zenon
<1> QED BY <1>1, <1>3, <1>4, <1>5, <1>6, <1>7, <1>8, Zenon

\* One tab's ceremony moves, with no new challenge.
TabMoves(t, q) ==
    /\ q \in TabRecs /\ TabFits(q) /\ tab' = [tab EXCEPT ![t] = q]
    /\ JarQuiet /\ next' \in {next, next + 1}
    /\ q.pc # "prompt"
    /\ q.pc = "create" => UNCHANGED <<user, key, invite, made>> /\ (q.mode = "setup" => Rows = {})
    /\ q.pc = "consumed" => OidcConsume(t) /\ q.inv = tab[t].inv
    /\ q.mode = "refused" => Cloud \/ UNCHANGED <<user, key, invite, made>>

\* A form is submitted and the browser prompts.
TabPrompts(t, q) ==
    /\ q \in TabRecs /\ TabFits(q) /\ tab' = [tab EXCEPT ![t] = q]
    /\ q.pc = "prompt" /\ q.ch = next /\ next' = next + 1
    /\ q.mode \notin {"refused"}
    /\ UNCHANGED <<user, key, invite, made>>
    /\ \E j \in JarRecs : /\ jar' = [jar EXCEPT ![jarOf[t]] = j] /\ j.challenge.ch = next
                          /\ q.mode \in {"setup", "invite"} => j.challenge.uid = q.handle

\* An options call prompts.
LEMMA PromptedIs ==
    ASSUME EnrolTypes, NEW t \in Tabs, NEW m \in {"setup", "invite", "add", "recover"}, NEW i \in Invites \cup {"none"},
           NEW e \in Addresses, NEW hd \in Nat, NEW uid \in Nat, m = "invite" => i \in Invites,
           m \in {"setup", "invite"} => uid = hd, Prompted(t, m, i, e, hd, uid)
    PROVE  \E q \in TabRecs : TabPrompts(t, q)
<1>0. next \in Nat \ {0} /\ jarOf[t] \in Browsers /\ jar[jarOf[t]] \in JarRecs
  BY Zenon DEF EnrolTypes
<1>1. PICK q \in TabRecs : /\ q = AtPrompt(m, i, e, next, hd) /\ TabFits(q) /\ q.pc = "prompt" /\ q.mode = m
                           /\ q.ch = next /\ q.handle = hd
  BY <1>0, TabForms
<1>2. tab' = [tab EXCEPT ![t] = q] /\ next' = next + 1 /\ UNCHANGED <<user, key, invite, made>>
  BY <1>1, Zenon DEF Prompted, AtPrompt
<1>3. PICK c \in ChallengeRecs : c = [ch |-> next, uid |-> uid] /\ c.ch = next /\ c.uid = uid
  <2>1. [ch |-> next, uid |-> uid] \in ChallengeRecs
    BY <1>0, Zenon DEF ChallengeRecs
  <2> QED BY <2>1, Zenon
<1>k. PICK k \in JarRecs : k = jar[jarOf[t]]
  BY <1>0, Zenon
<1>4. PICK j \in JarRecs : j = WithChallenge(k, c) /\ j.challenge = c
  BY JarEdits
<1>5. jar' = [jar EXCEPT ![jarOf[t]] = j]
  BY <1>0, <1>k, <1>3, <1>4, Zenon DEF Prompted, SetChallenge, WithChallenge, EnrolTypes
<1> QED BY <1>1, <1>2, <1>3, <1>4, <1>5, Zenon DEF TabPrompts

\* The tab goes back to its form, or shows a refusal.
LEMMA TabRests ==
    ASSUME EnrolTypes, NEW t \in Tabs, JarQuiet, next' \in {next, next + 1},
           \/ tab' = [tab EXCEPT ![t] = Idle]
           \/ tab' = [tab EXCEPT ![t] = [Idle EXCEPT !.mode = "refused"]] /\ (Cloud \/ UNCHANGED <<user, key, invite, made>>)
    PROVE  \E q \in TabRecs : TabMoves(t, q)
<1>1. CASE tab' = [tab EXCEPT ![t] = Idle]
  BY <1>1, TabForms, Zenon DEF TabMoves
<1>2. CASE tab' = [tab EXCEPT ![t] = TurnedAway] /\ (Cloud \/ UNCHANGED <<user, key, invite, made>>)
  BY <1>2, TabForms, Zenon DEF TabMoves
<1> QED BY <1>1, <1>2, Zenon DEF TurnedAway

\* A refused call.
LEMMA RefusedIs == ASSUME EnrolTypes, NEW t \in Tabs, Refused(t) PROVE \E q \in TabRecs : TabMoves(t, q)
<1>1. JarQuiet
  BY JarForms, Zenon DEF Refused
<1> QED BY <1>1, TabRests, Zenon DEF Refused

\* The account a tab's browser is signed in to.
LEMMA CurrentIs == ASSUME NEW t PROVE CurrentUser(t) \in Nat /\ (CurrentUser(t) # None => CurrentUser(t) \in AccountIds)
<1>1. AccountIds \subseteq Nat /\ Rows \subseteq AccountIds
  BY EnrollmentAssumption DEF AccountIds, Rows
<1> QED BY <1>1, Zenon DEF CurrentUser, None

\* The verify call of a new account passed its checks.
LEMMA CheckedIs ==
    ASSUME EnrolInv, NEW t \in Tabs, tab[t].pc = "prompt", tab[t].mode \in {"setup", "invite"}, ChallengeAnswered(t), Checked(t),
           tab[t].mode = "setup" => Rows = {}
    PROVE  \E q \in TabRecs : TabMoves(t, q)
<1>1. EnrolTypes /\ tab[t] \in TabRecs /\ TabFits(tab[t])
  BY Zenon DEF EnrolInv, EnrolTypes
<1>2. jar[jarOf[t]].challenge.uid = tab[t].handle
  BY Zenon DEF EnrolInv, ChallengesFit, ChallengeAnswered
<1>3. PICK k \in TabRecs : k = tab[t]
  BY <1>1, Zenon
<1>4. PICK q \in TabRecs : q = Creating(k, k.handle) /\ TabFits(q) /\ q.pc = "create" /\ q.mode = k.mode
  BY <1>1, <1>3, TabEdits, Zenon
<1>5. tab' = [tab EXCEPT ![t] = q] /\ UNCHANGED <<next, user, key, invite, made, jar>>
  BY <1>1, <1>2, <1>3, <1>4, Zenon DEF Checked, Creating, EnrolTypes
<1>6. JarQuiet
  BY <1>1, <1>5, JarForms, Zenon
<1> QED BY <1>3, <1>4, <1>5, <1>6, Zenon DEF TabMoves

\* The steps of first-run setup and of an invitation's passkey.
LEMMA CeremonyStep ==
    ASSUME EnrolInv, NEW t \in Tabs, SetupStep(t) \/ InviteStep(t)
    PROVE  \E q \in TabRecs : TabMoves(t, q) \/ TabPrompts(t, q)
<1>0. EnrolTypes /\ tab[t] \in TabRecs /\ TabFits(tab[t]) /\ next \in Nat /\ tab[t].uid \in Nat
  BY Zenon DEF EnrolInv, EnrolTypes, TabRecs
<1>1. ASSUME NEW e \in Emails, SetupOptions(t, e) PROVE \E q \in TabRecs : TabMoves(t, q) \/ TabPrompts(t, q)
  <2>1. Prompted(t, "setup", "none", e, next, next) /\ e \in Addresses
    BY <1>1, Zenon DEF SetupOptions, Addresses
  <2> QED BY <1>0, <2>1, PromptedIs, Zenon
<1>2. ASSUME NEW i \in Invites, InviteOptions(t, i) PROVE \E q \in TabRecs : TabMoves(t, q) \/ TabPrompts(t, q)
  <2>1. Prompted(t, "invite", i, invite[i].email, next, next) /\ invite[i].email \in Addresses
    BY <1>0, <1>2, Zenon DEF InviteOptions, EnrolTypes, InviteRecs
  <2> QED BY <1>0, <2>1, PromptedIs, Zenon
<1>3. ASSUME SetupVerify(t) PROVE \E q \in TabRecs : TabMoves(t, q) \/ TabPrompts(t, q)
  BY <1>0, <1>3, CheckedIs, RefusedIs, Zenon DEF SetupVerify
<1>4. ASSUME InviteVerify(t) PROVE \E q \in TabRecs : TabMoves(t, q) \/ TabPrompts(t, q)
  BY <1>0, <1>4, CheckedIs, RefusedIs, Zenon DEF InviteVerify
<1>5. ASSUME SetupCreate(t) PROVE \E q \in TabRecs : TabMoves(t, q) \/ TabPrompts(t, q)
  <2>1. CASE Refused(t)
    BY <1>0, <2>1, RefusedIs, Zenon
  <2>2. CASE ~Refused(t)
    <3>1. SignedIn(t, tab[t].uid) /\ tab' = [tab EXCEPT ![t] = Idle] /\ UNCHANGED next
      BY <1>5, <2>2, Zenon DEF SetupCreate
    <3>2. JarQuiet
      BY <1>0, <3>1, JarForms, Zenon DEF SignedIn
    <3> QED BY <1>0, <3>1, <3>2, TabRests, Zenon
  <2> QED BY <2>1, <2>2, Zenon
<1>6. ASSUME Enrol(t) PROVE \E q \in TabRecs : TabMoves(t, q) \/ TabPrompts(t, q)
  <2>1. CASE Refused(t)
    BY <1>0, <2>1, RefusedIs, Zenon
  <2>2. CASE ~Refused(t)
    <3>1. UNCHANGED next /\ (invite[tab[t].inv].st = "pending" \/ Cloud)
      BY <1>6, <2>2, Zenon DEF Enrol
    <3>2. CASE invite[tab[t].inv].st = "pending"
      <4>1. SignedIn(t, tab[t].uid) /\ tab' = [tab EXCEPT ![t] = Idle]
        BY <1>6, <2>2, <3>2, Zenon DEF Enrol
      <4>2. JarQuiet
        BY <1>0, <4>1, JarForms, Zenon DEF SignedIn
      <4> QED BY <1>0, <3>1, <4>1, <4>2, TabRests, Zenon
    <3>3. CASE invite[tab[t].inv].st # "pending"
      <4>1. UNCHANGED jar /\ tab' = [tab EXCEPT ![t] = [Idle EXCEPT !.mode = "refused"]]
        BY <1>6, <2>2, <3>3, Zenon DEF Enrol
      <4>2. JarQuiet
        BY <1>0, <4>1, JarForms, Zenon
      <4> QED BY <1>0, <3>1, <3>3, <4>1, <4>2, TabRests, Zenon
    <3> QED BY <3>2, <3>3, Zenon
  <2> QED BY <2>1, <2>2, Zenon
<1> QED BY <1>1, <1>2, <1>3, <1>4, <1>5, <1>6, Zenon DEF SetupStep, InviteStep

\* The steps of a signed-in or recovering person.
LEMMA KeysStep ==
    ASSUME EnrolInv, NEW t \in Tabs, KeyStep(t)
    PROVE  \/ UNCHANGED <<tab, jar, next>>
           \/ \E q \in TabRecs : TabMoves(t, q) \/ TabPrompts(t, q)
<1>0. EnrolTypes /\ tab[t] \in TabRecs /\ TabFits(tab[t]) /\ AccountIds \subseteq Nat /\ Rows \subseteq AccountIds
  BY EnrollmentAssumption DEF EnrolInv, EnrolTypes, AccountIds, Rows
<1>r. jar[jarOf[t]].recover \in Nat
  <2>1. jar[jarOf[t]] \in JarRecs
    BY <1>0, Zenon DEF EnrolTypes
  <2> QED BY <2>1, Zenon DEF JarRecs
<1>1. ASSUME AddOptions(t) PROVE \E q \in TabRecs : TabPrompts(t, q)
  <2>1. Prompted(t, "add", "none", "none", CurrentUser(t), None) /\ CurrentUser(t) \in Nat /\ None \in Nat /\ "none" \in Addresses
    BY <1>1, CurrentIs, Zenon DEF AddOptions, Addresses, None
  <2> QED BY <1>0, <2>1, PromptedIs, Zenon
<1>2. ASSUME RecoverOptions(t) PROVE \E q \in TabRecs : TabPrompts(t, q)
  <2>1. Prompted(t, "recover", "none", "none", jar[jarOf[t]].recover, None) /\ None \in Nat /\ "none" \in Addresses
    BY <1>2, Zenon DEF RecoverOptions, Addresses, None
  <2> QED BY <1>0, <1>r, <2>1, PromptedIs, Zenon
<1>3. ASSUME AddVerify(t) PROVE \E q \in TabRecs : TabMoves(t, q)
  <2>1. CASE Refused(t)
    BY <1>0, <2>1, RefusedIs, Zenon
  <2>2. CASE ~Refused(t)
    <3>1. /\ jar' = [jar EXCEPT ![jarOf[t]].challenge = NoChallenge] /\ tab' = [tab EXCEPT ![t] = Idle] /\ UNCHANGED next
      BY <1>3, <2>2, Zenon DEF AddVerify, KeyAdded
    <3>2. JarQuiet
      BY <1>0, <3>1, JarForms, Zenon
    <3> QED BY <1>0, <3>1, <3>2, TabRests, Zenon
  <2> QED BY <2>1, <2>2, Zenon
<1>4. ASSUME RecoverVerify(t) PROVE \E q \in TabRecs : TabMoves(t, q)
  <2>1. CASE Refused(t)
    BY <1>0, <2>1, RefusedIs, Zenon
  <2>2. CASE ~Refused(t)
    <3>1. /\ jar' = [jar EXCEPT ![jarOf[t]] = [challenge |-> NoChallenge, recover |-> None, session |-> jar[jarOf[t]].recover]]
          /\ tab' = [tab EXCEPT ![t] = Idle] /\ UNCHANGED next
      BY <1>4, <2>2, Zenon DEF RecoverVerify, KeyAdded
    <3>2. JarQuiet
      BY <1>0, <1>r, <3>1, JarForms, Zenon
    <3> QED BY <1>0, <3>1, <3>2, TabRests, Zenon
  <2> QED BY <2>1, <2>2, Zenon
<1>5. ASSUME SaveTotp(t) \/ DropTotp(t) PROVE UNCHANGED <<tab, jar, next>>
  BY <1>5, Zenon DEF SaveTotp, DropTotp
<1>6. ASSUME DeleteKey(t) PROVE \E q \in TabRecs : TabMoves(t, q)
  <2>1. UNCHANGED <<jar, next>> /\ tab' = [tab EXCEPT ![t] = Idle]
    BY <1>6, Zenon DEF DeleteKey
  <2>2. JarQuiet
    BY <1>0, <2>1, JarForms, Zenon
  <2> QED BY <1>0, <2>1, <2>2, TabRests, Zenon
<1>7. ASSUME NEW u \in AccountIds, Recover(t, u) PROVE \E q \in TabRecs : TabMoves(t, q)
  <2>1. PICK k \in TabRecs : k = tab[t] /\ k = Idle /\ TabFits(k)
    BY <1>0, <1>7, Zenon DEF Recover
  <2>2. PICK q \in TabRecs : q = AtStep(k, "recovered") /\ TabFits(q) /\ q.pc = "recovered" /\ q.mode = "none"
    BY <2>1, TabEdits, Zenon
  <2>3. tab' = [tab EXCEPT ![t] = q] /\ UNCHANGED next /\ jar' = [jar EXCEPT ![jarOf[t]].recover = u]
    BY <1>0, <1>7, <2>1, <2>2, Zenon DEF Recover, AtStep, EnrolTypes
  <2>4. JarQuiet
    BY <1>0, <2>3, JarForms, Zenon
  <2> QED BY <2>2, <2>3, <2>4, Zenon DEF TabMoves
<1>8. ASSUME NEW c \in AccountIds, CountKeys(t, c) PROVE \E q \in TabRecs : TabMoves(t, q)
  <2>1. PICK k \in TabRecs : k = tab[t] /\ k = Idle /\ TabFits(k)
    BY <1>0, <1>8, Zenon DEF CountKeys
  <2>2. PICK q \in TabRecs : q = Counting(k, c) /\ TabFits(q) /\ q.pc = "counted" /\ q.mode = "none"
    BY <1>0, <2>1, TabEdits
  <2>3. tab' = [tab EXCEPT ![t] = q] /\ UNCHANGED <<next, jar>>
    BY <1>0, <1>8, <2>1, <2>2, Zenon DEF CountKeys, Counting, EnrolTypes
  <2>4. JarQuiet
    BY <1>0, <2>3, JarForms, Zenon
  <2> QED BY <2>2, <2>3, <2>4, Zenon DEF TabMoves
<1> QED BY <1>1, <1>2, <1>3, <1>4, <1>5, <1>6, <1>7, <1>8, Zenon DEF KeyStep

\* The steps of a person who arrives from the identity provider.
LEMMA ArrivalStep ==
    ASSUME EnrolInv, NEW t \in Tabs, ProviderStep(t)
    PROVE  \/ UNCHANGED <<tab, next>> /\ JarQuiet
           \/ \E q \in TabRecs : TabMoves(t, q)
<1>0. EnrolTypes /\ tab[t] \in TabRecs /\ TabFits(tab[t]) /\ AccountIds \subseteq Nat /\ Rows \subseteq AccountIds /\ next \in Nat
  BY EnrollmentAssumption DEF EnrolInv, EnrolTypes, AccountIds, Rows
<1>1. ASSUME NEW u \in AccountIds, OidcKnown(t, u) PROVE UNCHANGED <<tab, next>> /\ JarQuiet
  <2>1. UNCHANGED <<tab, next>> /\ jar' = [jar EXCEPT ![jarOf[t]].session = u] /\ u \in Nat
    BY <1>0, <1>1, Zenon DEF OidcKnown
  <2> QED BY <1>0, <2>1, JarForms, Zenon
<1>2. ASSUME NEW e \in Emails, OidcLookup(t, e) PROVE \E q \in TabRecs : TabMoves(t, q)
  <2>1. PICK i \in Invites : tab' = [tab EXCEPT ![t] = Consuming(i, e)]
    BY <1>2, Zenon DEF OidcLookup, Consuming
  <2>2. UNCHANGED <<next, jar>>
    BY <1>2, Zenon DEF OidcLookup
  <2>3. JarQuiet
    BY <1>0, <2>2, JarForms, Zenon
  <2> QED BY <2>1, <2>2, <2>3, TabForms, ZenonT(60) DEF TabMoves
<1>3. ASSUME OidcAccount(t) PROVE \E q \in TabRecs : TabMoves(t, q)
  <2>1. jar' = [jar EXCEPT ![jarOf[t]].session = next] /\ next' = next + 1 /\ tab' = [tab EXCEPT ![t] = Idle]
    BY <1>3, Zenon DEF OidcAccount
  <2>2. JarQuiet
    BY <1>0, <2>1, JarForms, Zenon
  <2> QED BY <1>0, <2>1, <2>2, TabRests, Zenon
<1>4. ASSUME OidcConsume(t), ~Refused(t), ~OidcAccount(t) PROVE \E q \in TabRecs : TabMoves(t, q)
  <2>1. PICK k \in TabRecs : k = tab[t] /\ TabFits(k) /\ k.pc = "consume"
    BY <1>0, <1>4, Zenon DEF OidcConsume
  <2>2. PICK q \in TabRecs : q = AtStep(k, "consumed") /\ TabFits(q) /\ q.pc = "consumed" /\ q.inv = k.inv /\ q.mode = "oidc"
    BY <2>1, TabEdits
  <2>3. tab' = [tab EXCEPT ![t] = q] /\ UNCHANGED <<next, jar>>
    BY <1>0, <1>4, <2>1, <2>2, Zenon DEF OidcConsume, AtStep, EnrolTypes
  <2>4. JarQuiet
    BY <1>0, <2>3, JarForms, Zenon
  <2> QED BY <1>4, <2>1, <2>2, <2>3, <2>4, Zenon DEF TabMoves
<1>5. OidcCreate(t) => Refused(t) \/ OidcAccount(t)
  BY Zenon DEF OidcCreate
<1> QED BY <1>0, <1>1, <1>2, <1>3, <1>4, <1>5, RefusedIs, Zenon DEF ProviderStep

\* Every step leaves the tabs alone, or moves one.
LEMMA TabStep ==
    ASSUME EnrolInv, [EnrolNext]_enrolVars
    PROVE  \/ UNCHANGED <<tab, next>> /\ JarQuiet
           \/ \E t \in Tabs, q \in TabRecs : TabMoves(t, q) \/ TabPrompts(t, q)
<1>0. EnrolTypes
  BY Zenon DEF EnrolInv
<1>1. ASSUME NEW t \in Tabs, Abandon(t) PROVE \E q \in TabRecs : TabMoves(t, q)
  <2>1. UNCHANGED <<jar, next>> /\ tab' = [tab EXCEPT ![t] = Idle]
    BY <1>1, Zenon DEF Abandon
  <2>2. JarQuiet
    BY <1>0, <2>1, JarForms, Zenon
  <2> QED BY <1>0, <2>1, <2>2, TabRests, Zenon
<1>2. UNCHANGED jar => JarQuiet
  BY <1>0, Zenon DEF EnrolTypes, JarQuiet
<1>3. ASSUME NEW a \in Admins, AdminStep(a) PROVE UNCHANGED <<tab, jar, next>>
  BY <1>3, Zenon DEF AdminStep, InviteCheck, RevokeRead, InviteWrite, RevokeDelete, ResendDelete, ResendMint
<1>4. ASSUME NEW b \in Browsers, CookieExpires(b) PROVE UNCHANGED <<tab, next>> /\ JarQuiet
  <2>0. UNCHANGED <<tab, next>> /\ None \in Nat
    BY <1>4, Zenon DEF CookieExpires, None
  <2>1. PICK k \in JarRecs : k = jar[b]
    BY <1>0, Zenon DEF EnrolTypes
  <2>2. CASE jar' = [jar EXCEPT ![b].challenge = NoChallenge]
    <3>1. jar' = [jar EXCEPT ![b] = WithChallenge(k, NoChallenge)]
      BY <1>0, <2>1, <2>2, Zenon DEF WithChallenge, EnrolTypes
    <3> QED BY <1>0, <2>0, <2>1, <3>1, JarEdits, JarWritten, Zenon
  <2>3. CASE jar' = [jar EXCEPT ![b].recover = None]
    <3>1. jar' = [jar EXCEPT ![b] = WithRecover(k, None)]
      BY <1>0, <2>1, <2>3, Zenon DEF WithRecover, EnrolTypes
    <3> QED BY <1>0, <2>0, <2>1, <3>1, JarEdits, JarWritten, Zenon
  <2> QED BY <1>4, <2>2, <2>3, Zenon DEF CookieExpires
<1>5. ASSUME \/ \E i \in Invites : InviteExpires(i)
             \/ \E u \in AccountIds : DeleteUser(u) \/ SetActive(u, TRUE) \/ SetActive(u, FALSE)
             \/ UNCHANGED enrolVars
      PROVE  UNCHANGED <<tab, jar, next>>
  BY <1>5, Zenon DEF InviteExpires, DeleteUser, SetActive, enrolVars
<1> QED BY <1>1, <1>2, <1>3, <1>4, <1>5, CeremonyStep, KeysStep, ArrivalStep, Zenon DEF EnrolNext

\* The tabs, the cookies and the numbers keep their shapes, and a challenge
\* goes on belonging to one ceremony.
LEMMA ChallengeStep ==
    ASSUME EnrolInv, [EnrolNext]_enrolVars
    PROVE  /\ tab' \in [Tabs -> TabRecs] /\ jar' \in [Browsers -> JarRecs] /\ next' \in Nat \ {0}
           /\ \A t \in Tabs : TabFits(tab'[t])
           /\ jarOf' = jarOf /\ ChallengesFit'
<1> DEFINE Goal == /\ tab' \in [Tabs -> TabRecs] /\ jar' \in [Browsers -> JarRecs] /\ next' \in Nat \ {0}
                   /\ \A t \in Tabs : TabFits(tab'[t])
                   /\ jarOf' = jarOf /\ ChallengesFit'
<1>0. EnrolTypes /\ ChallengesFit /\ \A t \in Tabs : TabFits(tab[t])
  BY Zenon DEF EnrolInv
<1>1. jarOf' = jarOf
  BY ZenonT(60) DEF EnrolNext, enrolVars, SetupStep, InviteStep, ProviderStep, KeyStep, AdminStep, SetupVerify, SetupCreate, SetupOptions,
         InviteVerify, Enrol, InviteOptions, OidcConsume, OidcCreate, OidcLookup, OidcKnown, OidcAccount, AddOptions, AddVerify,
         RecoverOptions, RecoverVerify, SaveTotp, DropTotp, DeleteKey, Recover, CountKeys, KeyAdded, Checked, Refused, Prompted,
         InviteCheck, RevokeRead, InviteWrite, RevokeDelete, ResendDelete, ResendMint, Abandon, CookieExpires, InviteExpires,
         DeleteUser, SetActive
<1>2. next \in Nat \ {0} /\ \A b \in Browsers : jar[b].challenge.ch \in Nat
  BY <1>0, Zenon DEF EnrolTypes, JarRecs, ChallengeRecs
<1>3. NoChallenge.ch = 0
  BY Zenon DEF NoChallenge, None
<1>4. ASSUME JarQuiet, next' \in {next, next + 1}, tab' \in [Tabs -> TabRecs],
             \A t \in Tabs : TabFits(tab'[t]) /\ (tab'[t].pc = "prompt" => tab'[t] = tab[t])
      PROVE  Goal
  <2>1. next' \in Nat \ {0} /\ next <= next'
    BY <1>2, <1>4
  <2>2. \A b \in Browsers : jar'[b].challenge.ch < next'
    BY <1>0, <1>2, <1>3, <1>4, <2>1 DEF ChallengesFit, JarQuiet
  <2>3. \A t \in Tabs : tab'[t].pc = "prompt" => tab'[t].ch < next'
    <3>1. \A t \in Tabs : tab[t].ch \in Nat
      BY <1>0, Zenon DEF EnrolTypes, TabRecs
    <3> QED BY <1>0, <1>2, <1>4, <2>1, <3>1 DEF ChallengesFit
  <2>4. ASSUME NEW t \in Tabs, tab'[t].pc = "prompt", tab'[t].mode \in {"setup", "invite"},
               jar'[jarOf[t]].challenge.ch = tab'[t].ch
        PROVE  jar'[jarOf[t]].challenge.uid = tab'[t].handle
    <3>1. jarOf[t] \in Browsers /\ tab'[t] = tab[t] /\ tab[t].ch # 0
      BY <1>0, <1>4, <2>4, Zenon DEF EnrolTypes, TabFits, None
    <3>2. jar'[jarOf[t]].challenge = jar[jarOf[t]].challenge
      BY <1>3, <1>4, <2>4, <3>1, Zenon DEF JarQuiet
    <3> QED BY <1>0, <2>4, <3>1, <3>2, Zenon DEF ChallengesFit
  <2>5. ChallengesFit'
    BY <1>1, <2>2, <2>3, <2>4, Zenon DEF ChallengesFit
  <2> QED BY <1>1, <1>4, <2>1, <2>5, Zenon DEF JarQuiet
<1>5. ASSUME NEW t \in Tabs, NEW q \in TabRecs, TabPrompts(t, q) PROVE Goal
  <2>1. PICK j \in JarRecs : /\ jar' = [jar EXCEPT ![jarOf[t]] = j] /\ j.challenge.ch = next
                             /\ q.mode \in {"setup", "invite"} => j.challenge.uid = q.handle
    BY <1>5, Zenon DEF TabPrompts
  <2>2. /\ next' = next + 1 /\ q.ch = next /\ TabFits(q)
        /\ tab' \in [Tabs -> TabRecs] /\ tab'[t] = q /\ \A u \in Tabs \ {t} : tab'[u] = tab[u]
    BY <1>0, <1>5 DEF TabPrompts, EnrolTypes
  <2>3. /\ jar' \in [Browsers -> JarRecs] /\ jar'[jarOf[t]] = j
        /\ \A b \in Browsers \ {jarOf[t]} : jar'[b] = jar[b]
    BY <1>0, <2>1, Zenon DEF EnrolTypes
  <2>4. \A b \in Browsers : jar'[b].challenge.ch < next'
    BY <1>0, <1>2, <2>1, <2>2, <2>3 DEF ChallengesFit
  <2>5. \A u \in Tabs : tab[u].ch \in Nat
    BY <1>0, Zenon DEF EnrolTypes, TabRecs
  <2>6. \A u \in Tabs : tab'[u].pc = "prompt" => tab'[u].ch < next'
    BY <1>0, <1>2, <2>2, <2>5 DEF ChallengesFit
  <2>7. ASSUME NEW u \in Tabs, tab'[u].pc = "prompt", tab'[u].mode \in {"setup", "invite"},
               jar'[jarOf[u]].challenge.ch = tab'[u].ch
        PROVE  jar'[jarOf[u]].challenge.uid = tab'[u].handle
    <3>0. jarOf[u] \in Browsers /\ jarOf[t] \in Browsers
      BY <1>0, Zenon DEF EnrolTypes
    <3>1. CASE u = t
      BY <2>1, <2>2, <2>3, <2>7, <3>1, Zenon
    <3>2. CASE u # t /\ jarOf[u] = jarOf[t]
      <4>1. tab[u].ch = next /\ tab[u].ch < next
        BY <1>0, <2>1, <2>2, <2>3, <2>7, <3>2, SMTT(30) DEF ChallengesFit
      <4> QED BY <1>2, <4>1
    <3>3. CASE u # t /\ jarOf[u] # jarOf[t]
      BY <1>0, <2>2, <2>3, <2>7, <3>0, <3>3 DEF ChallengesFit
    <3> QED BY <3>1, <3>2, <3>3, Zenon
  <2>8. ChallengesFit'
    BY <1>1, <2>4, <2>6, <2>7, Zenon DEF ChallengesFit
  <2> QED BY <1>0, <1>1, <1>2, <2>2, <2>3, <2>8
<1>6. ASSUME NEW t \in Tabs, NEW q \in TabRecs, TabMoves(t, q) PROVE Goal
  <2>1. /\ tab' \in [Tabs -> TabRecs] /\ tab'[t] = q /\ \A u \in Tabs \ {t} : tab'[u] = tab[u]
        /\ TabFits(q) /\ q.pc # "prompt" /\ JarQuiet /\ next' \in {next, next + 1}
    BY <1>0, <1>6, Zenon DEF TabMoves, EnrolTypes
  <2> QED BY <1>0, <1>4, <2>1, Zenon
<1>7. ASSUME UNCHANGED <<tab, next>>, JarQuiet PROVE Goal
  BY <1>0, <1>4, <1>7, Zenon DEF EnrolTypes
<1> QED BY <1>5, <1>6, <1>7, TabStep, Zenon

\* The edits of an invitation.
WithState(r, s) == [r EXCEPT !.st = s]
Lapsed(r) == [r EXCEPT !.expired = TRUE]
Renewed(r) == [r EXCEPT !.expired = FALSE]

\* What they hold.
LEMMA InviteEdits ==
    ASSUME NEW r \in InviteRecs
    PROVE  /\ \A s \in {"used", "gone"} : WithState(r, s) \in InviteRecs /\ WithState(r, s).st = s
           /\ Lapsed(r) \in InviteRecs /\ Lapsed(r).st = r.st
           /\ Renewed(r) \in InviteRecs /\ Renewed(r).st = r.st
<1>1. \A s \in {"used", "gone"} : WithState(r, s) \in InviteRecs /\ WithState(r, s).st = s
  BY Zenon DEF WithState, InviteRecs
<1>2. Lapsed(r) \in InviteRecs /\ Lapsed(r).st = r.st
  BY Zenon DEF Lapsed, InviteRecs
<1>3. Renewed(r) \in InviteRecs /\ Renewed(r).st = r.st
  BY Zenon DEF Renewed, InviteRecs
<1> QED BY <1>1, <1>2, <1>3, Zenon

\* A used invitation stays used.
InvitesKept == invite' \in [Invites -> InviteRecs] /\ \A i \in Invites : invite[i].st = "used" => invite'[i].st = "used"

\* One invitation is written.
LEMMA InviteWritten ==
    ASSUME EnrolTypes, NEW i \in Invites, NEW r \in InviteRecs, invite' = [invite EXCEPT ![i] = r],
           invite[i].st # "used" \/ r.st = "used"
    PROVE  InvitesKept
BY Zenon DEF EnrolTypes, InvitesKept

\* The administrators' requests.
Requested(p, i, e, r) == [pc |-> p, inv |-> i, email |-> e, role |-> r]
Minting(k) == [k EXCEPT !.pc = "mint"]
RequestsFit == adm \in [Admins -> RequestRecs] /\ \A a \in Admins : adm[a].pc # "idle" => adm[a].inv \in Invites

\* What they hold.
LEMMA RequestForms ==
    /\ NoRequest \in RequestRecs /\ NoRequest.pc = "idle"
    /\ \A p \in {"write", "revoke", "resend"}, i \in Invites, e \in Addresses, r \in GrantedRoles :
         Requested(p, i, e, r) \in RequestRecs /\ Requested(p, i, e, r).inv = i
    /\ \A k \in RequestRecs : Minting(k) \in RequestRecs /\ Minting(k).inv = k.inv
<1>1. NoRequest \in RequestRecs /\ NoRequest.pc = "idle"
  BY Zenon DEF NoRequest, RequestRecs, Addresses, GrantedRoles
<1>2. \A p \in {"write", "revoke", "resend"}, i \in Invites, e \in Addresses, r \in GrantedRoles :
        Requested(p, i, e, r) \in RequestRecs /\ Requested(p, i, e, r).inv = i
  BY Zenon DEF Requested, RequestRecs
<1>3. \A k \in RequestRecs : Minting(k) \in RequestRecs /\ Minting(k).inv = k.inv
  BY Zenon DEF Minting, RequestRecs
<1> QED BY <1>1, <1>2, <1>3, Zenon

\* One administrator's request is written.
LEMMA RequestWritten ==
    ASSUME EnrolTypes, NEW a \in Admins, NEW k \in RequestRecs, k.pc = "idle" \/ k.inv \in Invites, adm' = [adm EXCEPT ![a] = k]
    PROVE  RequestsFit'
BY Zenon DEF EnrolTypes, RequestsFit

\* The invitations and the requests about them.
LEMMA InvitationStep ==
    ASSUME EnrolInv, [EnrolNext]_enrolVars
    PROVE  InvitesKept /\ RequestsFit'
<1> DEFINE Goal == InvitesKept /\ RequestsFit'
<1>0. EnrolTypes /\ \A i \in Invites : invite[i] \in InviteRecs
  BY Zenon DEF EnrolInv, EnrolTypes
<1>i. UNCHANGED invite => InvitesKept
  BY <1>0, Zenon DEF EnrolTypes, InvitesKept
<1>n. NoInvite.st = "none"
  BY Zenon DEF NoInvite
<1>1. ASSUME NEW a \in Admins, NEW i \in Invites, NEW e \in Emails, NEW r \in InviteRoles, InviteCheck(a, i, e, r) PROVE Goal
  <2>1. PICK k \in RequestRecs : k = Requested("write", i, e, r) /\ k.inv = i
    BY RequestForms DEF Addresses, GrantedRoles
  <2> QED BY <1>0, <1>i, <1>1, <2>1, RequestWritten, Zenon DEF InviteCheck, Requested
<1>2. ASSUME NEW a \in Admins, NEW i \in Invites, NEW op \in {"revoke", "resend"}, RevokeRead(a, i, op) PROVE Goal
  <2>0. PICK e \in Addresses, r \in GrantedRoles : e = invite[i].email /\ r = invite[i].role
    BY <1>0, Zenon DEF InviteRecs
  <2>1. PICK k \in RequestRecs : k = Requested(op, i, e, r) /\ k.inv = i
    BY RequestForms
  <2> QED BY <1>0, <1>i, <1>2, <2>0, <2>1, RequestWritten, Zenon DEF RevokeRead, Requested
<1>3. ASSUME NEW a \in Admins, NEW j, CreateInvite(a, j), invite[j] = NoInvite PROVE InvitesKept
  <2>1. PICK r \in InviteRecs : r = [st |-> "pending", email |-> adm[a].email, role |-> adm[a].role, expired |-> FALSE]
    <3>1. adm[a].email \in Addresses /\ adm[a].role \in GrantedRoles
      BY <1>0, Zenon DEF EnrolTypes, RequestRecs
    <3>2. [st |-> "pending", email |-> adm[a].email, role |-> adm[a].role, expired |-> FALSE] \in InviteRecs
      BY <3>1, Zenon DEF InviteRecs
    <3> QED BY <3>2, Zenon
  <2>2. invite' = [invite EXCEPT ![j] = r]
    BY <1>3, <2>1, Zenon DEF CreateInvite
  <2>3. CASE j \in Invites
    BY <1>0, <1>3, <1>n, <2>2, <2>3, InviteWritten, Zenon
  <2>4. CASE j \notin Invites
    BY <1>0, <1>i, <2>2, <2>4 DEF EnrolTypes
  <2> QED BY <2>3, <2>4, Zenon
<1>4. ASSUME NEW a \in Admins, adm' = [adm EXCEPT ![a] = NoRequest] PROVE RequestsFit'
  BY <1>0, <1>4, RequestForms, RequestWritten, Zenon
<1>5. ASSUME NEW a \in Admins, InviteWrite(a) PROVE Goal
  BY <1>i, <1>3, <1>4, <1>5, Zenon DEF InviteWrite
<1>6. ASSUME NEW a \in Admins, ResendMint(a) PROVE Goal
  BY <1>3, <1>4, <1>6, Zenon DEF ResendMint
<1>7. ASSUME NEW i, NEW s \in {"used", "gone"}, invite' = [invite EXCEPT ![i].st = s], s = "used" \/ invite[i].st = "pending"
      PROVE  InvitesKept
  <2>1. CASE i \in Invites
    <3>1. invite' = [invite EXCEPT ![i] = WithState(invite[i], s)]
      BY <1>0, <1>7, <2>1, Zenon DEF WithState, EnrolTypes
    <3>2. WithState(invite[i], s) \in InviteRecs /\ WithState(invite[i], s).st = s
      BY <1>0, <2>1, InviteEdits
    <3> QED BY <1>0, <1>7, <2>1, <3>1, <3>2, InviteWritten, Zenon
  <2>2. CASE i \notin Invites
    BY <1>0, <1>i, <1>7, <2>2 DEF EnrolTypes
  <2> QED BY <2>1, <2>2, Zenon
<1>8. ASSUME NEW a \in Admins, RevokeDelete(a) PROVE Goal
  <2>1. CASE adm[a].inv \in Invites /\ invite[adm[a].inv].st = "pending"
    <3>1. invite' = [invite EXCEPT ![adm[a].inv].st = "gone"]
      BY <1>0, <1>8, <2>1, Zenon DEF RevokeDelete, EnrolTypes
    <3> QED BY <1>4, <1>7, <1>8, <2>1, <3>1, Zenon DEF RevokeDelete
  <2>2. CASE ~(adm[a].inv \in Invites /\ invite[adm[a].inv].st = "pending")
    <3>1. invite' = invite
      BY <1>0, <1>8, <2>2, Zenon DEF RevokeDelete, EnrolTypes, InviteRecs
    <3> QED BY <1>i, <1>4, <1>8, <3>1, Zenon DEF RevokeDelete
  <2> QED BY <2>1, <2>2, Zenon
<1>9. ASSUME NEW a \in Admins, ResendDelete(a) PROVE Goal
  <2>1. CASE UNCHANGED invite /\ adm' = [adm EXCEPT ![a] = NoRequest]
    BY <1>i, <1>4, <2>1, Zenon
  <2>2. CASE invite[adm[a].inv].st = "pending" /\ invite' = [invite EXCEPT ![adm[a].inv].st = "gone"] /\ adm' = [adm EXCEPT ![a].pc = "mint"]
    <3>1. adm[a] \in RequestRecs
      BY <1>0, Zenon DEF EnrolTypes
    <3>2. PICK k \in RequestRecs : k = Minting(adm[a]) /\ k.inv = adm[a].inv
      BY <3>1, RequestForms, Zenon
    <3>3. adm' = [adm EXCEPT ![a] = k] /\ k.inv \in Invites
      BY <1>0, <1>9, <2>2, <3>2, Zenon DEF EnrolTypes, Minting, ResendDelete
    <3>4. RequestsFit'
      BY <1>0, <3>3, RequestWritten, Zenon
    <3> QED BY <1>7, <2>2, <3>4, Zenon
  <2>3. ASSUME NEW j \in Invites, invite[adm[a].inv].st = "pending", invite[j] = NoInvite, adm' = [adm EXCEPT ![a] = NoRequest],
               invite' = [invite EXCEPT ![adm[a].inv].st = "gone", ![j] = [invite[adm[a].inv] EXCEPT !.expired = FALSE]]
        PROVE  Goal
    <3>1. PICK old : old = adm[a].inv
      BY Zenon
    <3>2. CASE old \in Invites
      <4>1. old # j
        BY <1>n, <2>3, <3>1, Zenon
      <4>2. PICK x \in InviteRecs, y \in InviteRecs : x = WithState(invite[old], "gone") /\ y = Renewed(invite[old])
        BY <1>0, <3>2, InviteEdits, Zenon
      <4>3. invite' = [[invite EXCEPT ![old] = x] EXCEPT ![j] = y]
        BY <1>0, <2>3, <3>1, <3>2, <4>1, <4>2, Zenon DEF WithState, Renewed, EnrolTypes
      <4>4. invite' \in [Invites -> InviteRecs] /\ \A i \in Invites \ {old, j} : invite'[i] = invite[i]
        BY <1>0, <3>2, <4>2, <4>3, Zenon DEF EnrolTypes
      <4>5. InvitesKept
        BY <1>n, <2>3, <3>1, <4>4, Zenon DEF InvitesKept
      <4> QED BY <1>4, <2>3, <4>5, Zenon
    <3>3. old \in Invites
      BY <1>0, <1>9, <3>1, Zenon DEF EnrolTypes, ResendDelete
    <3> QED BY <3>2, <3>3, Zenon
  <2> QED BY <1>9, <2>1, <2>2, <2>3, Zenon DEF ResendDelete
<1>10. ASSUME NEW i \in Invites, InviteExpires(i) PROVE Goal
  <2>1. invite' = [invite EXCEPT ![i] = Lapsed(invite[i])] /\ UNCHANGED adm
    BY <1>0, <1>10, Zenon DEF InviteExpires, Lapsed, EnrolTypes
  <2>2. Lapsed(invite[i]) \in InviteRecs /\ Lapsed(invite[i]).st = invite[i].st
    BY <1>0, InviteEdits, Zenon
  <2> QED BY <1>0, <2>1, <2>2, InviteWritten, Zenon DEF EnrolTypes, RequestsFit
<1>11. ASSUME NEW t \in Tabs, UNCHANGED adm, invite' = [invite EXCEPT ![tab[t].inv].st = "used"] PROVE Goal
  BY <1>0, <1>7, <1>11, Zenon DEF EnrolTypes, RequestsFit
<1>12. ASSUME UNCHANGED <<invite, adm>> PROVE Goal
  BY <1>0, <1>i, <1>12, Zenon DEF EnrolTypes, RequestsFit
<1>13. ASSUME NEW t \in Tabs, Enrol(t) \/ OidcConsume(t) \/ OidcCreate(t)
       PROVE  UNCHANGED adm /\ (UNCHANGED invite \/ invite' = [invite EXCEPT ![tab[t].inv].st = "used"])
  BY <1>13, Zenon DEF Enrol, OidcConsume, OidcCreate, OidcAccount, Refused
<1>14. \/ UNCHANGED <<invite, adm>>
       \/ \E t \in Tabs : Enrol(t) \/ OidcConsume(t) \/ OidcCreate(t)
       \/ \E i \in Invites : InviteExpires(i)
       \/ \E a \in Admins : AdminStep(a)
  BY ZenonT(60) DEF EnrolNext, enrolVars, SetupStep, InviteStep, ProviderStep, KeyStep, SetupVerify, SetupCreate, SetupOptions,
         InviteVerify, InviteOptions, OidcLookup, OidcKnown, AddOptions, AddVerify,
         RecoverOptions, RecoverVerify, SaveTotp, DropTotp, DeleteKey, Recover, CountKeys, KeyAdded, Checked, Refused, Prompted,
         Abandon, CookieExpires, DeleteUser, SetActive
<1> QED BY <1>1, <1>2, <1>5, <1>6, <1>8, <1>9, <1>10, <1>11, <1>12, <1>13, <1>14, Zenon DEF AdminStep

\* On a self-hosted install a used invitation is one account's.
LEMMA SpentStep ==
    ASSUME EnrolInv, [EnrolNext]_enrolVars
    PROVE  SpentFits' /\ made' \in [Invites -> SUBSET Nat]
<1>0. /\ EnrolTypes /\ SpentFits /\ AccountIds \subseteq Nat
      /\ \A t \in Tabs : tab[t] \in TabRecs /\ TabFits(tab[t]) /\ tab[t].uid \in Nat
  BY EnrollmentAssumption DEF EnrolInv, EnrolTypes, AccountIds, TabRecs
<1>k. InvitesKept
  BY InvitationStep, Zenon
<1>d. deployment' = deployment
  BY ZenonT(60) DEF EnrolNext, enrolVars, SetupStep, InviteStep, ProviderStep, KeyStep, AdminStep, SetupVerify, SetupCreate, SetupOptions,
         InviteVerify, Enrol, InviteOptions, OidcConsume, OidcCreate, OidcLookup, OidcKnown, OidcAccount, AddOptions, AddVerify,
         RecoverOptions, RecoverVerify, SaveTotp, DropTotp, DeleteKey, Recover, CountKeys, KeyAdded, Checked, Refused, Prompted,
         InviteCheck, RevokeRead, InviteWrite, RevokeDelete, ResendDelete, ResendMint, Abandon, CookieExpires, InviteExpires,
         DeleteUser, SetActive
<1>1. ASSUME NEW t \in Tabs, NEW x \in Nat, made' = [made EXCEPT ![tab[t].inv] = @ \cup {x}]
      PROVE  made' \in [Invites -> SUBSET Nat]
  <2>1. CASE tab[t].inv \in Invites
    <3>1. made[tab[t].inv] \cup {x} \in SUBSET Nat
      BY <1>0, <2>1, Zenon DEF EnrolTypes
    <3>2. made' = [made EXCEPT ![tab[t].inv] = made[tab[t].inv] \cup {x}]
      BY <1>1, Zenon
    <3> QED BY <1>0, <3>1, <3>2, Zenon DEF EnrolTypes
  <2>2. CASE tab[t].inv \notin Invites
    BY <1>0, <1>1, <2>2, Zenon DEF EnrolTypes
  <2> QED BY <2>1, <2>2, Zenon
<1>2. ASSUME NEW t \in Tabs, Enrol(t), ~UNCHANGED made PROVE SpentFits' /\ made' \in [Invites -> SUBSET Nat]
  <2>1. PICK i \in Invites : i = tab[t].inv
    BY <1>0, <1>2, Zenon DEF Enrol, TabFits
  <2>2. PICK x \in Nat : x = tab[t].uid
    BY <1>0, Zenon
  <2>3. made' = [made EXCEPT ![i] = @ \cup {x}] /\ (invite[i].st = "pending" \/ Cloud)
    BY <1>2, <2>1, <2>2, Zenon DEF Enrol, Refused
  <2>4. made' \in [Invites -> SUBSET Nat]
    BY <1>1, <2>1, <2>3, Zenon
  <2>5. ASSUME deployment = "self" PROVE SpentFits'
    <3>1. /\ invite[i].st = "pending" /\ invite' = [invite EXCEPT ![i].st = "used"] /\ tab' = [tab EXCEPT ![t] = Idle]
      BY <1>2, <2>1, <2>3, <2>5, Zenon DEF Enrol, Refused, Cloud
    <3>2. made[i] = {} /\ \A u \in Tabs : tab[u].pc = "consumed" => tab[u].inv # i
      BY <1>0, <2>5, <3>1, Zenon DEF SpentFits
    <3>3. made'[i] = {x} /\ (\A j \in Invites \ {i} : made'[j] = made[j]) /\ invite'[i].st = "used"
      BY <1>0, <2>3, <3>1, <3>2, Zenon DEF EnrolTypes, InviteRecs
    <3>4. \A u \in Tabs : tab'[u].pc = "consumed" => tab'[u] = tab[u]
      BY <1>0, <3>1, TabForms DEF EnrolTypes
    <3>5. \A u \in Tabs : tab[u].pc = "consumed" => tab[u].inv \in Invites
      BY <1>0, Zenon DEF TabFits
    <3>a. \A j \in Invites : made[j] = {} \/ (invite[j].st = "used" /\ \E y \in Nat : made[j] = {y})
      BY <1>0, <2>5, Zenon DEF SpentFits
    <3>b. \A u \in Tabs : tab[u].pc = "consumed" => invite[tab[u].inv].st = "used" /\ made[tab[u].inv] = {}
      BY <1>0, <2>5, Zenon DEF SpentFits
    <3>c. \A j \in Invites : invite[j].st = "used" => invite'[j].st = "used"
      BY <1>k, Zenon DEF InvitesKept
    <3>6. ASSUME NEW j \in Invites PROVE made'[j] = {} \/ (invite'[j].st = "used" /\ \E y \in Nat : made'[j] = {y})
      <4>1. CASE j = i
        BY <3>3, <4>1, Zenon
      <4>2. CASE j # i
        BY <3>3, <3>a, <3>c, <4>2, Zenon
      <4> QED BY <4>1, <4>2, Zenon
    <3>7. ASSUME NEW u \in Tabs, tab'[u].pc = "consumed" PROVE invite'[tab'[u].inv].st = "used" /\ made'[tab'[u].inv] = {}
      <4>1. tab'[u] = tab[u] /\ tab[u].pc = "consumed"
        BY <3>4, <3>7, Zenon
      <4>2. tab[u].inv \in Invites \ {i}
        BY <3>2, <3>4, <3>5, <3>7, <4>1, Zenon
      <4>3. invite'[tab[u].inv].st = "used" /\ made'[tab[u].inv] = {}
        BY <3>3, <3>b, <3>c, <4>1, <4>2, Zenon
      <4> QED BY <4>1, <4>3, Zenon
    <3>8. \A u, v \in Tabs : tab'[u].pc = "consumed" /\ tab'[v].pc = "consumed" /\ tab'[u].inv = tab'[v].inv => u = v
      BY <1>0, <2>5, <3>4 DEF SpentFits
    <3> QED BY <3>6, <3>7, <3>8, Zenon DEF SpentFits
  <2> QED BY <1>d, <2>4, <2>5, Zenon DEF SpentFits
<1>3. ASSUME NEW t \in Tabs, OidcAccount(t), next \in AccountIds, tab[t].pc = "consumed" \/ Cloud
      PROVE  SpentFits' /\ made' \in [Invites -> SUBSET Nat]
  <2>1. PICK x \in Nat : x = next
    BY <1>0, <1>3, Zenon
  <2>2. made' = [made EXCEPT ![tab[t].inv] = @ \cup {x}] /\ tab' = [tab EXCEPT ![t] = Idle]
    BY <1>3, <2>1, Zenon DEF OidcAccount
  <2>3. made' \in [Invites -> SUBSET Nat]
    BY <1>1, <2>2, Zenon
  <2>4. ASSUME deployment = "self" PROVE SpentFits'
    <3>1. PICK i \in Invites : i = tab[t].inv /\ tab[t].pc = "consumed"
      BY <1>0, <1>3, <2>4, Zenon DEF TabFits, Cloud
    <3>2. /\ made[i] = {} /\ invite[i].st = "used"
          /\ \A u \in Tabs \ {t} : tab[u].pc = "consumed" => tab[u].inv # i
      BY <1>0, <2>4, <3>1, Zenon DEF SpentFits
    <3>3. made'[i] = {x} /\ (\A j \in Invites \ {i} : made'[j] = made[j]) /\ invite'[i].st = "used"
      BY <1>0, <1>k, <2>2, <3>1, <3>2, Zenon DEF EnrolTypes, InvitesKept
    <3>4. \A u \in Tabs : tab'[u].pc = "consumed" => tab'[u] = tab[u] /\ u # t
      BY <1>0, <2>2, TabForms DEF EnrolTypes
    <3>5. \A u \in Tabs : tab[u].pc = "consumed" => tab[u].inv \in Invites
      BY <1>0, Zenon DEF TabFits
    <3>a. \A j \in Invites : made[j] = {} \/ (invite[j].st = "used" /\ \E y \in Nat : made[j] = {y})
      BY <1>0, <2>4, Zenon DEF SpentFits
    <3>b. \A u \in Tabs : tab[u].pc = "consumed" => invite[tab[u].inv].st = "used" /\ made[tab[u].inv] = {}
      BY <1>0, <2>4, Zenon DEF SpentFits
    <3>c. \A j \in Invites : invite[j].st = "used" => invite'[j].st = "used"
      BY <1>k, Zenon DEF InvitesKept
    <3>6. ASSUME NEW j \in Invites PROVE made'[j] = {} \/ (invite'[j].st = "used" /\ \E y \in Nat : made'[j] = {y})
      <4>1. CASE j = i
        BY <3>3, <4>1, Zenon
      <4>2. CASE j # i
        BY <3>3, <3>a, <3>c, <4>2, Zenon
      <4> QED BY <4>1, <4>2, Zenon
    <3>7. ASSUME NEW u \in Tabs, tab'[u].pc = "consumed" PROVE invite'[tab'[u].inv].st = "used" /\ made'[tab'[u].inv] = {}
      <4>1. tab'[u] = tab[u] /\ tab[u].pc = "consumed"
        BY <3>4, <3>7, Zenon
      <4>2. tab[u].inv \in Invites \ {i}
        BY <3>2, <3>4, <3>5, <3>7, <4>1, Zenon
      <4>3. invite'[tab[u].inv].st = "used" /\ made'[tab[u].inv] = {}
        BY <3>3, <3>b, <3>c, <4>1, <4>2, Zenon
      <4> QED BY <4>1, <4>3, Zenon
    <3>8. \A u, v \in Tabs : tab'[u].pc = "consumed" /\ tab'[v].pc = "consumed" /\ tab'[u].inv = tab'[v].inv => u = v
      BY <1>0, <2>4, <3>4 DEF SpentFits
    <3> QED BY <3>6, <3>7, <3>8, Zenon DEF SpentFits
  <2> QED BY <1>d, <2>3, <2>4, Zenon DEF SpentFits
<1>4. ASSUME NEW t \in Tabs, OidcConsume(t), UNCHANGED made PROVE SpentFits' /\ made' \in [Invites -> SUBSET Nat]
  <2>1. ASSUME deployment = "self" PROVE SpentFits'
    <3>1. PICK i \in Invites : i = tab[t].inv /\ tab[t].pc = "consume"
      BY <1>0, <1>4, Zenon DEF TabFits, OidcConsume
    <3>2. CASE Refused(t)
      <4>1. \A u \in Tabs : tab'[u].pc = "consumed" => tab'[u] = tab[u]
        BY <1>0, <3>2, TabForms DEF EnrolTypes, Refused, TurnedAway
      <4>2. \A u \in Tabs : tab[u].pc = "consumed" => tab[u].inv \in Invites
        BY <1>0, Zenon DEF TabFits
      <4>3. \A j \in Invites : invite[j].st = "used" => invite'[j].st = "used"
        BY <1>k, Zenon DEF InvitesKept
      <4>4. \A j \in Invites : made'[j] = {} \/ (invite'[j].st = "used" /\ \E y \in Nat : made'[j] = {y})
        BY <1>0, <1>4, <2>1, <4>3, Zenon DEF SpentFits
      <4>5. \A u \in Tabs : tab'[u].pc = "consumed" => invite'[tab'[u].inv].st = "used" /\ made'[tab'[u].inv] = {}
        <5>1. \A u \in Tabs : tab[u].pc = "consumed" => invite[tab[u].inv].st = "used" /\ made[tab[u].inv] = {}
          BY <1>0, <2>1, Zenon DEF SpentFits
        <5>2. SUFFICES ASSUME NEW u \in Tabs, tab'[u].pc = "consumed" PROVE invite'[tab'[u].inv].st = "used" /\ made'[tab'[u].inv] = {}
          BY Zenon
        <5>3. tab'[u] = tab[u] /\ tab[u].pc = "consumed"
          BY <4>1, <5>2, Zenon
        <5> QED BY <1>4, <4>2, <4>3, <5>1, <5>3, Zenon
      <4>6. \A u, v \in Tabs : tab[u].pc = "consumed" /\ tab[v].pc = "consumed" /\ tab[u].inv = tab[v].inv => u = v
        BY <1>0, <2>1, Zenon DEF SpentFits
      <4>7. \A u, v \in Tabs : tab'[u].pc = "consumed" /\ tab'[v].pc = "consumed" /\ tab'[u].inv = tab'[v].inv => u = v
        BY <4>1, <4>6, Zenon
      <4> QED BY <4>4, <4>5, <4>7, Zenon DEF SpentFits
    <3>3. CASE ~Refused(t)
      <4>1. /\ invite[i].st = "pending" /\ invite' = [invite EXCEPT ![i].st = "used"]
            /\ tab' = [tab EXCEPT ![t].pc = "consumed"]
        BY <1>4, <2>1, <3>1, <3>3, Zenon DEF OidcConsume, Cloud
      <4>2. /\ made[i] = {} /\ \A u \in Tabs : tab[u].pc = "consumed" => tab[u].inv # i /\ tab[u].inv \in Invites
        BY <1>0, <2>1, <4>1, Zenon DEF SpentFits, TabFits
      <4>3. invite'[i].st = "used"
        BY <1>0, <4>1, Zenon DEF EnrolTypes, InviteRecs
      <4>4. tab'[t].inv = i /\ \A u \in Tabs \ {t} : tab'[u] = tab[u]
        BY <1>0, <3>1, <4>1, Zenon DEF EnrolTypes, TabRecs
      <4>5. \A j \in Invites : made'[j] = {} \/ (invite'[j].st = "used" /\ \E y \in Nat : made'[j] = {y})
        BY <1>0, <1>4, <1>k, <2>1, Zenon DEF SpentFits, InvitesKept
      <4>6. \A u \in Tabs : tab'[u].pc = "consumed" => invite'[tab'[u].inv].st = "used" /\ made'[tab'[u].inv] = {}
        BY <1>0, <1>4, <1>k, <2>1, <4>2, <4>3, <4>4, ZenonT(60) DEF SpentFits, InvitesKept
      <4>7. \A u, v \in Tabs : tab'[u].pc = "consumed" /\ tab'[v].pc = "consumed" /\ tab'[u].inv = tab'[v].inv => u = v
        BY <1>0, <2>1, <4>2, <4>4 DEF SpentFits
      <4> QED BY <4>5, <4>6, <4>7, Zenon DEF SpentFits
    <3> QED BY <3>2, <3>3, Zenon
  <2> QED BY <1>0, <1>4, <1>d, <2>1, Zenon DEF SpentFits, EnrolTypes
<1>5. ASSUME UNCHANGED made, \A t \in Tabs : tab'[t].pc = "consumed" => tab'[t] = tab[t]
      PROVE  SpentFits' /\ made' \in [Invites -> SUBSET Nat]
  <2>1. \A t \in Tabs : tab[t].pc = "consumed" => tab[t].inv \in Invites
    BY <1>0, Zenon DEF TabFits
  <2> QED BY <1>0, <1>5, <1>d, <1>k, <2>1, ZenonT(60) DEF SpentFits, InvitesKept, EnrolTypes
<1>6. \/ UNCHANGED made
      \/ \E t \in Tabs : Enrol(t) \/ (OidcAccount(t) /\ next \in AccountIds /\ (tab[t].pc = "consumed" \/ Cloud))
  BY ZenonT(60) DEF EnrolNext, enrolVars, SetupStep, InviteStep, ProviderStep, KeyStep, AdminStep, SetupVerify, SetupCreate, SetupOptions,
         InviteVerify, InviteOptions, OidcConsume, OidcCreate, OidcLookup, OidcKnown, AddOptions, AddVerify,
         RecoverOptions, RecoverVerify, SaveTotp, DropTotp, DeleteKey, Recover, CountKeys, KeyAdded, Checked, Refused, Prompted,
         InviteCheck, RevokeRead, InviteWrite, RevokeDelete, ResendDelete, ResendMint, Abandon, CookieExpires, InviteExpires,
         DeleteUser, SetActive
<1>7. (\E t \in Tabs : OidcConsume(t)) \/ \A t \in Tabs : tab'[t].pc = "consumed" => tab'[t] = tab[t]
  <2>1. ASSUME NEW t \in Tabs, NEW q \in TabRecs, TabMoves(t, q) \/ TabPrompts(t, q), ~OidcConsume(t)
        PROVE  \A u \in Tabs : tab'[u].pc = "consumed" => tab'[u] = tab[u]
    <3>1. tab' = [tab EXCEPT ![t] = q] /\ q.pc # "consumed"
      BY <2>1, Zenon DEF TabMoves, TabPrompts
    <3> QED BY <1>0, <3>1, Zenon DEF EnrolTypes
  <2> QED BY <2>1, TabStep, Zenon
<1> QED BY <1>2, <1>3, <1>4, <1>5, <1>6, <1>7, Zenon

\* The rows that are written, and the edit of an account's status.
WithActive(r, b) == [r EXCEPT !.active = b]
AccountRow(e, r, v) == [email |-> e, role |-> r, active |-> TRUE, via |-> v]
KeyRow(o, hd, m) == [owner |-> o, handle |-> hd, born |-> m]

\* The rows accounts and passkeys are written with.
LEMMA RowForms ==
    /\ Absent \in UserRecs /\ Absent.via = "none" /\ NoKey \in KeyRecs /\ NoKey.born = "none"
    /\ \A e \in Addresses, r \in GrantedRoles, v \in Invites \cup {"setup"} :
         /\ AccountRow(e, r, v) \in UserRecs
         /\ AccountRow(e, r, v).via = v
    /\ \A o \in Nat, hd \in Nat, m \in Ceremonies :
         /\ KeyRow(o, hd, m) \in KeyRecs
         /\ KeyRow(o, hd, m).born = m
         /\ KeyRow(o, hd, m).owner = o
         /\ KeyRow(o, hd, m).handle = hd
    /\ \A r \in UserRecs, b \in BOOLEAN : WithActive(r, b) \in UserRecs /\ WithActive(r, b).via = r.via
<1>1. Absent \in UserRecs /\ Absent.via = "none"
  BY Zenon DEF Absent, UserRecs, Addresses, GrantedRoles
<1>2. NoKey \in KeyRecs /\ NoKey.born = "none"
  BY Zenon DEF NoKey, KeyRecs, Ceremonies, None
<1>3. \A e \in Addresses, r \in GrantedRoles, v \in Invites \cup {"setup"} :
         /\ AccountRow(e, r, v) \in UserRecs
         /\ AccountRow(e, r, v).via = v
  BY Zenon DEF AccountRow, UserRecs
<1>4. \A o \in Nat, hd \in Nat, m \in Ceremonies :
         /\ KeyRow(o, hd, m) \in KeyRecs
         /\ KeyRow(o, hd, m).born = m
         /\ KeyRow(o, hd, m).owner = o
         /\ KeyRow(o, hd, m).handle = hd
  BY Zenon DEF KeyRow, KeyRecs
<1>5. \A r \in UserRecs, b \in BOOLEAN : WithActive(r, b) \in UserRecs /\ WithActive(r, b).via = r.via
  BY Zenon DEF WithActive, UserRecs
<1> QED BY <1>1, <1>2, <1>3, <1>4, <1>5, Zenon

\* An account row written, kept or removed: no account becomes one of first-run
\* setup's unless first-run setup made it.
UsersFit ==
    /\ user' \in [AccountIds -> UserRecs]
    /\ (\E t \in Tabs : tab[t].pc = "create" /\ tab[t].mode = "setup")
         \/ \A u \in AccountIds : user'[u].via = "setup" => user[u].via = "setup"

KeysFit == key' \in [AccountIds -> KeyRecs] /\ HandleIsUser'

\* One account row is written.
LEMMA UserWritten ==
    ASSUME EnrolTypes, NEW x \in Nat, NEW r \in UserRecs, user' = [user EXCEPT ![x] = r],
           \/ \E t \in Tabs : tab[t].pc = "create" /\ tab[t].mode = "setup"
           \/ r.via # "setup"
           \/ r.via = user[x].via
    PROVE  UsersFit
BY Zenon DEF EnrolTypes, UsersFit

\* One passkey row is written.
LEMMA KeyWritten ==
    ASSUME EnrolTypes, HandleIsUser, NEW x \in Nat, NEW r \in KeyRecs, key' = [key EXCEPT ![x] = r],
           r.born \in {"setup", "invite"} => r.handle = r.owner
    PROVE  KeysFit
BY Zenon DEF EnrolTypes, KeysFit, HandleIsUser

\* An account with its first passkey.
LEMMA NewAccountIs ==
    ASSUME EnrolTypes, HandleIsUser, NEW t \in Tabs, TabFits(tab[t]), tab[t].pc = "create", NEW r \in GrantedRoles,
           NEW v \in Invites \cup {"setup"}, v = "setup" => tab[t].mode = "setup", NewAccount(t, r, v)
    PROVE  UsersFit /\ KeysFit
<1>0. PICK k \in TabRecs : k = tab[t]
  BY Zenon DEF EnrolTypes
<1>1. k.email \in Addresses /\ k.uid \in Nat /\ k.ch \in Nat /\ k.handle \in Nat /\ k.mode \in Ceremonies
  BY Zenon DEF TabRecs
<1>2. PICK w \in UserRecs : w = AccountRow(k.email, r, v) /\ w.via = v
  BY <1>1, RowForms
<1>3. user' = [user EXCEPT ![k.uid] = w]
  BY <1>0, <1>2, Zenon DEF NewAccount, AccountRow
<1>4. UsersFit
  BY <1>0, <1>1, <1>2, <1>3, UserWritten, Zenon
<1>5. PICK m \in KeyRecs : /\ m = KeyRow(k.uid, k.handle, k.mode)
                           /\ m.owner = k.uid /\ m.handle = k.handle
  BY <1>1, RowForms
<1>6. key' = [key EXCEPT ![k.ch] = m] /\ k.uid = k.handle
  BY <1>0, <1>5, Zenon DEF NewAccount, TabFits, KeyRow
<1> QED BY <1>1, <1>4, <1>5, <1>6, KeyWritten, Zenon

\* A further passkey.
LEMMA KeyAddedIs ==
    ASSUME EnrolTypes, HandleIsUser, NEW t \in Tabs, tab[t].mode \in {"add", "recover"}, NEW u \in Nat, KeyAdded(t, u)
    PROVE  UsersFit /\ KeysFit
<1>0. PICK k \in TabRecs : k = tab[t]
  BY Zenon DEF EnrolTypes
<1>1. k.ch \in Nat /\ k.handle \in Nat /\ k.mode \in Ceremonies
  BY Zenon DEF TabRecs
<1>2. PICK m \in KeyRecs : m = KeyRow(u, k.handle, k.mode) /\ m.born = k.mode
  BY <1>1, RowForms
<1>3. key' = [key EXCEPT ![k.ch] = m] /\ user' = user
  BY <1>0, <1>2, Zenon DEF KeyAdded, KeyRow
<1>4. KeysFit
  BY <1>0, <1>1, <1>2, <1>3, KeyWritten, Zenon
<1> QED BY <1>3, <1>4, Zenon DEF UsersFit, EnrolTypes

\* The account of an invitation that came through the provider.
LEMMA OidcAccountIs ==
    ASSUME EnrolTypes, HandleIsUser, NEW t \in Tabs, tab[t].inv \in Invites, OidcAccount(t)
    PROVE  UsersFit /\ KeysFit
<1>0. PICK k \in TabRecs : k = tab[t]
  BY Zenon DEF EnrolTypes
<1>1. k.email \in Addresses /\ next \in Nat /\ invite[k.inv].role \in GrantedRoles /\ k.inv \in Invites
  BY <1>0, Zenon DEF TabRecs, EnrolTypes, InviteRecs
<1>2. PICK w \in UserRecs : w = AccountRow(k.email, invite[k.inv].role, k.inv) /\ w.via = k.inv
  BY <1>1, RowForms
<1>3. user' = [user EXCEPT ![next] = w] /\ key' = key
  BY <1>0, <1>2, Zenon DEF OidcAccount, AccountRow
<1>4. UsersFit
  BY <1>1, <1>2, <1>3, UserWritten, EnrollmentAssumption, Zenon
<1> QED BY <1>3, <1>4, Zenon DEF KeysFit, HandleIsUser, EnrolTypes

\* What every step does to the accounts and the passkeys.
LEMMA AccountStep ==
    ASSUME EnrolInv, [EnrolNext]_enrolVars
    PROVE  UsersFit /\ KeysFit
<1>0. /\ EnrolTypes /\ HandleIsUser
      /\ \A t \in Tabs : tab[t] \in TabRecs /\ TabFits(tab[t]) /\ tab[t].ch \in Nat
  BY Zenon DEF EnrolInv, EnrolTypes, TabRecs
<1>u. UNCHANGED user => UsersFit
  BY <1>0, Zenon DEF UsersFit, EnrolTypes
<1>k. UNCHANGED key => KeysFit
  BY <1>0, Zenon DEF KeysFit, HandleIsUser, EnrolTypes
<1>1. ASSUME NEW t \in Tabs, SetupCreate(t) PROVE UsersFit /\ KeysFit
  <2>1. SetupRole \in GrantedRoles
    BY Zenon DEF SetupRole, GrantedRoles
  <2>2. CASE Refused(t)
    BY <1>u, <1>k, <2>2, Zenon DEF Refused
  <2>3. CASE ~Refused(t)
    <3>1. NewAccount(t, SetupRole, "setup") /\ tab[t].pc = "create" /\ tab[t].mode = "setup"
      BY <1>1, <2>3, Zenon DEF SetupCreate
    <3> QED BY <1>0, <2>1, <3>1, NewAccountIs, Zenon
  <2> QED BY <2>2, <2>3, Zenon
<1>2. ASSUME NEW t \in Tabs, Enrol(t) PROVE UsersFit /\ KeysFit
  <2>1. PICK i \in Invites : i = tab[t].inv /\ tab[t].pc = "create"
    BY <1>0, <1>2, Zenon DEF Enrol, TabFits
  <2>2. CASE Refused(t)
    BY <1>u, <1>k, <2>2, Zenon DEF Refused
  <2>3. CASE ~Refused(t)
    <3>1. NewAccount(t, invite[i].role, i)
      BY <1>2, <2>1, <2>3, Zenon DEF Enrol
    <3>2. invite[i].role \in GrantedRoles /\ i # "setup"
      BY <1>0, EnrollmentAssumption, Zenon DEF EnrolTypes, InviteRecs
    <3> QED BY <1>0, <2>1, <3>1, <3>2, NewAccountIs, Zenon
  <2> QED BY <2>2, <2>3, Zenon
<1>3. ASSUME NEW t \in Tabs, AddVerify(t) \/ RecoverVerify(t) PROVE UsersFit /\ KeysFit
  <2>1. CASE Refused(t)
    BY <1>u, <1>k, <2>1, Zenon DEF Refused
  <2>2. CASE ~Refused(t)
    <3>1. jar[jarOf[t]].recover \in Nat /\ CurrentUser(t) \in Nat
      BY <1>0, CurrentIs, Zenon DEF EnrolTypes, JarRecs
    <3>2. tab[t].mode \in {"add", "recover"} /\ \E u \in Nat : KeyAdded(t, u)
      BY <1>3, <2>2, <3>1, Zenon DEF AddVerify, RecoverVerify
    <3> QED BY <1>0, <3>2, KeyAddedIs, Zenon
  <2> QED BY <2>1, <2>2, Zenon
<1>4. ASSUME NEW t \in Tabs, OidcAccount(t), tab[t].pc \in {"consume", "consumed"} PROVE UsersFit /\ KeysFit
  <2>1. tab[t].inv \in Invites
    BY <1>0, <1>4, Zenon DEF TabFits
  <2> QED BY <1>0, <1>4, <2>1, OidcAccountIs, Zenon
<1>5. ASSUME NEW t \in Tabs, DeleteKey(t) PROVE UsersFit /\ KeysFit
  <2>1. key' = [key EXCEPT ![tab[t].ch] = NoKey] /\ UNCHANGED user
    BY <1>5, Zenon DEF DeleteKey
  <2>2. KeysFit
    BY <1>0, <2>1, RowForms, KeyWritten, Zenon
  <2> QED BY <1>u, <2>1, <2>2, Zenon
<1>6. ASSUME NEW u \in AccountIds, DeleteUser(u) PROVE UsersFit /\ KeysFit
  <2>1. u \in Nat /\ user' = [user EXCEPT ![u] = Absent]
    BY <1>6, EnrollmentAssumption DEF DeleteUser, AccountIds
  <2>2. UsersFit
    BY <1>0, <2>1, RowForms, UserWritten, Zenon
  <2>3. key' = [k \in AccountIds |-> IF key[k].owner = u THEN NoKey ELSE key[k]]
    BY <1>6, Zenon DEF DeleteUser
  <2>4. \A k \in AccountIds : key'[k] \in {NoKey, key[k]}
    BY <2>3, Zenon
  <2>5. key' \in [AccountIds -> KeyRecs]
    BY <1>0, <2>3, RowForms, Zenon DEF EnrolTypes
  <2>6. HandleIsUser'
    BY <1>0, <2>4, RowForms DEF HandleIsUser
  <2> QED BY <2>2, <2>5, <2>6, Zenon DEF KeysFit
<1>7. ASSUME NEW u \in AccountIds, NEW b \in BOOLEAN, SetActive(u, b) PROVE UsersFit /\ KeysFit
  <2>1. PICK r \in UserRecs : r = user[u]
    BY <1>0, Zenon DEF EnrolTypes
  <2>2. PICK w \in UserRecs : w = WithActive(r, b) /\ w.via = r.via
    BY RowForms, Zenon
  <2>3. u \in Nat /\ user' = [user EXCEPT ![u] = w] /\ UNCHANGED key
    BY <1>0, <1>7, <2>1, <2>2, EnrollmentAssumption DEF SetActive, WithActive, AccountIds, EnrolTypes
  <2>4. UsersFit
    BY <1>0, <2>1, <2>2, <2>3, UserWritten, Zenon
  <2> QED BY <1>k, <2>3, <2>4, Zenon
<1>8. \/ UNCHANGED <<user, key>>
      \/ \E t \in Tabs : \/ SetupCreate(t) \/ Enrol(t) \/ AddVerify(t) \/ RecoverVerify(t) \/ DeleteKey(t)
                         \/ OidcAccount(t) /\ tab[t].pc \in {"consume", "consumed"}
      \/ \E u \in AccountIds : DeleteUser(u) \/ \E b \in BOOLEAN : SetActive(u, b)
  BY ZenonT(60) DEF EnrolNext, enrolVars, SetupStep, InviteStep, ProviderStep, KeyStep, AdminStep, SetupVerify, SetupOptions,
         InviteVerify, InviteOptions, OidcConsume, OidcCreate, OidcLookup, OidcKnown, AddOptions,
         RecoverOptions, SaveTotp, DropTotp, Recover, CountKeys, Checked, Refused, Prompted,
         InviteCheck, RevokeRead, InviteWrite, RevokeDelete, ResendDelete, ResendMint, Abandon, CookieExpires, InviteExpires
<1> QED BY <1>u, <1>k, <1>1, <1>2, <1>3, <1>4, <1>5, <1>6, <1>7, <1>8, Zenon

\* The invariant holds at first ...
LEMMA EnrolStart == EnrolInit => EnrolInv
<1> SUFFICES ASSUME EnrolInit PROVE EnrolInv
  BY Zenon
<1>1. jarOf \in [Tabs -> Browsers] /\ next = 1 /\ tab = [t \in Tabs |-> Idle] /\ made = [i \in Invites |-> {}]
  BY Zenon DEF EnrolInit
<1>2. tab \in [Tabs -> TabRecs] /\ \A t \in Tabs : tab[t] = Idle
  BY <1>1, TabForms, Zenon
<1>3. user \in [AccountIds -> UserRecs] /\ key \in [AccountIds -> KeyRecs] /\ \A k \in AccountIds : key[k] = NoKey
  BY RowForms, Zenon DEF EnrolInit
<1>4. NoRequest \in RequestRecs /\ NoRequest.pc = "idle"
  BY Zenon DEF NoRequest, RequestRecs, Addresses, GrantedRoles
<1>5. adm \in [Admins -> RequestRecs] /\ \A a \in Admins : adm[a].pc = "idle"
  BY <1>4, Zenon DEF EnrolInit
<1>6. NoInvite \in InviteRecs
  BY Zenon DEF NoInvite, InviteRecs, Addresses, GrantedRoles
<1>7. Provisioned \in InviteRecs
  <2>1. (CHOOSE e \in Emails : TRUE) \in Emails
    BY EnrollmentAssumption, Zenon
  <2>2. PICK e \in Emails : e = CHOOSE x \in Emails : TRUE
    BY <2>1, Zenon
  <2> QED BY <2>2, Zenon DEF Provisioned, InviteRecs, Addresses, GrantedRoles
<1>8. invite \in [Invites -> InviteRecs]
  BY <1>6, <1>7, Zenon DEF EnrolInit
<1>9. Recovered(None) \in JarRecs /\ Recovered(None).challenge.ch = 0
  <2>1. NoChallenge \in ChallengeRecs /\ NoChallenge.ch = 0
    BY Zenon DEF NoChallenge, ChallengeRecs, None
  <2> QED BY <2>1, Zenon DEF Recovered, JarRecs, None
<1>10. jar \in [Browsers -> JarRecs] /\ \A b \in Browsers : jar[b].challenge.ch = 0
  <2>1. jar = [b \in Browsers |-> Recovered(None)]
    BY Zenon DEF EnrolInit, Recovered
  <2> QED BY <1>9, <2>1, Zenon
<1>11. EnrolTypes
  BY <1>1, <1>2, <1>3, <1>5, <1>8, <1>10 DEF EnrolTypes
<1>a. \A t \in Tabs : tab[t].pc = "idle"
  BY <1>2, TabForms, Zenon
<1>12. ChallengesFit
  <2>1. \A b \in Browsers : jar[b].challenge.ch < next
    BY <1>1, <1>10
  <2> QED BY <1>a, <2>1, Zenon DEF ChallengesFit
<1>13. SpentFits
  <2>1. \A i \in Invites : made[i] = {}
    BY <1>1, Zenon
  <2> QED BY <1>a, <2>1, Zenon DEF SpentFits
<1>14. HandleIsUser
  BY <1>3, RowForms, Zenon DEF HandleIsUser
<1> QED BY <1>2, <1>11, <1>12, <1>13, <1>14, TabForms DEF EnrolInv

\* ... and every step keeps it.
LEMMA EnrolInductive == EnrolInv /\ [EnrolNext]_enrolVars => EnrolInv'
<1> SUFFICES ASSUME EnrolInv, [EnrolNext]_enrolVars PROVE EnrolInv'
  BY Zenon
<1>1. UsersFit /\ KeysFit
  BY AccountStep, Zenon
<1>2. invite' \in [Invites -> InviteRecs] /\ RequestsFit'
  BY InvitationStep, Zenon DEF InvitesKept
<1>3. SpentFits' /\ made' \in [Invites -> SUBSET Nat]
  BY SpentStep, Zenon
<1> QED BY <1>1, <1>2, <1>3, ChallengeStep, Zenon DEF EnrolInv, EnrolTypes, UsersFit, KeysFit, RequestsFit

\* On a self-hosted install an invitation becomes at most one account, however
\* passkey enrolments, provider callbacks, resends, revocations and deletions
\* interleave on any number of tabs and administrators' requests.
THEOREM OneAccountEach == EnrolSpec => []OneAccountPerInvite
<1>1. EnrolInv => OneAccountPerInvite
  <2>1. ASSUME EnrolInv, deployment = "self", NEW i \in Invites PROVE Cardinality(made[i]) <= 1
    <3>1. made[i] = {} \/ \E x \in Nat : made[i] = {x}
      BY <2>1, Zenon DEF EnrolInv, SpentFits
    <3>2. CASE made[i] = {}
      BY <3>2, FS_EmptySet
    <3>3. CASE \E x \in Nat : made[i] = {x}
      <4>1. PICK x \in Nat : made[i] = {x}
        BY <3>3, Zenon
      <4>2. Cardinality({x}) = 1
        BY FS_Singleton, Zenon
      <4> QED BY <4>1, <4>2
    <3> QED BY <3>1, <3>2, <3>3, Zenon
  <2> QED BY <2>1, Zenon DEF OneAccountPerInvite
<1> QED BY <1>1, EnrolStart, EnrolInductive, PTL DEF EnrolSpec

\* On a self-hosted install an account of an invitation is one of an invitation
\* recorded as used, never of one revoked or replaced under the ceremony.
THEOREM InvitationsSpent == EnrolSpec => []InviteSpent
<1>1. EnrolInv => InviteSpent
  BY Zenon DEF EnrolInv, SpentFits, InviteSpent
<1> QED BY <1>1, EnrolStart, EnrolInductive, PTL DEF EnrolSpec

\* The userHandle a new account's passkey embeds is the id of that account,
\* whichever tabs of the browser overwrote the challenge cookie meanwhile.
THEOREM HandlesAreUsers == EnrolSpec => []HandleIsUser
<1>1. EnrolInv => HandleIsUser
  BY Zenon DEF EnrolInv
<1> QED BY <1>1, EnrolStart, EnrolInductive, PTL DEF EnrolSpec

\* A self-hosted verify call that is refused has created neither an account nor
\* a passkey.
THEOREM RefusalsMakeNothing == EnrolSpec => RefusedMakesNothing
<1>1. EnrolInv /\ [EnrolNext]_enrolVars =>
        [\A t \in Tabs : deployment = "self" /\ tab[t].pc \in {"create", "consumed"} /\ tab'[t].mode = "refused"
            => UNCHANGED <<user, key>>]_enrolVars
  <2> SUFFICES ASSUME EnrolInv, [EnrolNext]_enrolVars, NEW t \in Tabs, deployment = "self",
                      tab[t].pc \in {"create", "consumed"}, tab'[t].mode = "refused"
               PROVE  UNCHANGED <<user, key>>
    BY Zenon
  <2>1. tab \in [Tabs -> TabRecs] /\ tab[t].mode # "refused" /\ ~Cloud
    BY Zenon DEF EnrolInv, EnrolTypes, TabFits, Cloud
  <2>2. tab' # tab
    BY <2>1, Zenon
  <2>3. PICK u \in Tabs, q \in TabRecs : TabMoves(u, q) \/ TabPrompts(u, q)
    BY <2>2, TabStep, Zenon
  <2>4. q.mode = "refused"
    BY <2>1, <2>3, Zenon DEF TabMoves, TabPrompts
  <2> QED BY <2>1, <2>3, <2>4, Zenon DEF TabMoves, TabPrompts
<1> QED BY <1>1, EnrolStart, EnrolInductive, PTL DEF EnrolSpec, RefusedMakesNothing

\* Once an account exists and no setup request is past its check, first-run
\* setup makes no further account and no pending ceremony passes the check.
THEOREM SetupStaysClosed == EnrolSpec => SetupClosed
<1>1. EnrolInv /\ [EnrolNext]_enrolVars =>
        [Rows # {} /\ (\A t \in Tabs : ~(tab[t].pc = "create" /\ tab[t].mode = "setup"))
         => /\ \A u \in AccountIds : user'[u].via = "setup" => user[u].via = "setup"
            /\ \A t \in Tabs : ~(tab'[t].pc = "create" /\ tab'[t].mode = "setup")]_enrolVars
  <2> SUFFICES ASSUME EnrolInv, [EnrolNext]_enrolVars, Rows # {},
                      \A t \in Tabs : ~(tab[t].pc = "create" /\ tab[t].mode = "setup")
               PROVE  /\ \A u \in AccountIds : user'[u].via = "setup" => user[u].via = "setup"
                      /\ \A t \in Tabs : ~(tab'[t].pc = "create" /\ tab'[t].mode = "setup")
    BY Zenon
  <2>1. \A u \in AccountIds : user'[u].via = "setup" => user[u].via = "setup"
    BY AccountStep, Zenon DEF UsersFit
  <2>2. tab \in [Tabs -> TabRecs]
    BY Zenon DEF EnrolInv, EnrolTypes
  <2>3. ASSUME NEW u \in Tabs, NEW q \in TabRecs, TabMoves(u, q) \/ TabPrompts(u, q), NEW t \in Tabs
        PROVE  ~(tab'[t].pc = "create" /\ tab'[t].mode = "setup")
    <3>1. tab' = [tab EXCEPT ![u] = q] /\ (q.pc = "create" => q.mode # "setup")
      BY <2>3, Zenon DEF TabMoves, TabPrompts
    <3> QED BY <2>2, <3>1, Zenon
  <2> QED BY <2>1, <2>3, TabStep, Zenon
<1> QED BY <1>1, EnrolStart, EnrolInductive, PTL DEF EnrolSpec, SetupClosed

-----------------------------------------------------------------------------
(* The mobile app *)

\* A session row of the app, a sign-in attempt and a push registration.
AppRowRecs == [kind : {"none", "code", "app"}, user : AppUsers \cup {"none"}, challenge : Attempts \cup {"none"}]
AttemptRecs == [pc : {"new", "waiting", "code", "read", "done", "failed"}, code : 0..MaxRows, token : 0..MaxRows,
                verifier : Attempts \cup {"none"}, seen : Attempts \cup {"none"}]
DeviceRecs == [user : AppUsers \cup {"none"}, row : 0..MaxRows]

\* Every variable of the app's sign-in keeps its shape.
AppTypes ==
    /\ handoffJar \in Attempts \cup {"none"} /\ browser \in AppUsers \cup {"none"}
    /\ appRow \in [AppRows -> AppRowRecs] /\ written \in 0..MaxRows
    /\ attempt \in [Attempts -> AttemptRecs]
    /\ issued \in [AppRows -> Nat]
    /\ device \in [PushTokens -> DeviceRecs]

\* A row beyond the last written is blank, and a code has handed out nothing.
RowOk(r) ==
    /\ r > written => appRow[r] = NoAppRow /\ issued[r] = 0
    /\ appRow[r].kind = "code" => issued[r] = 0
    /\ issued[r] <= 1

\* An attempt holds a row that was written; while that row is a code, the
\* challenge the exchange read is the row's.
AttemptOk(a) ==
    /\ attempt[a].pc \in {"code", "read"} => attempt[a].code \in 1..written
    /\ attempt[a].pc = "done" => attempt[a].token \in 1..written
    /\ attempt[a].pc = "read" /\ appRow[attempt[a].code].kind = "code"
         => attempt[a].seen = appRow[attempt[a].code].challenge

\* A registration hangs on a live row of the person it names.
DeviceOk(t) ==
    device[t] # NoDevice =>
        /\ device[t].row \in AppRows
        /\ appRow[device[t].row].kind = "app" /\ appRow[device[t].row].user = device[t].user

\* The inductive invariant of the app's sign-in.
AppInv ==
    /\ AppTypes
    /\ \A r \in AppRows : RowOk(r)
    /\ \A a \in Attempts : AttemptOk(a)
    /\ \A t \in PushTokens : DeviceOk(t)

\* Nothing is written at first.
LEMMA AppInitially == AppInit => AppInv
<1> SUFFICES ASSUME AppInit PROVE AppInv
  BY Zenon
<1>1. NoAppRow \in AppRowRecs /\ Fresh \in AttemptRecs /\ NoDevice \in DeviceRecs
  BY AppAssumption DEF NoAppRow, AppRowRecs, Fresh, AttemptRecs, NoDevice, DeviceRecs
<1>2. AppTypes
  BY <1>1, AppAssumption DEF AppInit, AppTypes
<1>3. ASSUME NEW r \in AppRows PROVE RowOk(r)
  BY DEF AppInit, RowOk, NoAppRow
<1>4. ASSUME NEW a \in Attempts PROVE AttemptOk(a)
  BY Zenon DEF AppInit, AttemptOk, Fresh
<1>5. ASSUME NEW t \in PushTokens PROVE DeviceOk(t)
  BY Zenon DEF AppInit, DeviceOk
<1> QED BY <1>2, <1>3, <1>4, <1>5, Zenon DEF AppInv

\* A row that was written is a row.
LEMMA WrittenRows == ASSUME AppTypes, NEW r \in 1..written PROVE r \in AppRows /\ r <= written
BY AppAssumption DEF AppTypes, AppRows

\* Steps of the attempts alone.
LEMMA AttemptsStep ==
    ASSUME AppInv, UNCHANGED <<appRow, written, issued, device>>,
           handoffJar' \in Attempts \cup {"none"}, browser' \in AppUsers \cup {"none"},
           NEW a \in Attempts, NEW q \in AttemptRecs, attempt' = [attempt EXCEPT ![a] = q],
           q.pc \in {"code", "read"} => q.code \in 1..written,
           q.pc = "done" => q.token \in 1..written,
           q.pc = "read" /\ appRow[q.code].kind = "code" => q.seen = appRow[q.code].challenge
    PROVE  AppInv'
<1>1. attempt' \in [Attempts -> AttemptRecs] /\ attempt'[a] = q
      /\ \A b \in Attempts \ {a} : attempt'[b] = attempt[b]
  BY Zenon DEF AppInv, AppTypes
<1>2. AppTypes'
  BY <1>1, Zenon DEF AppInv, AppTypes
<1>3. \A r \in AppRows : RowOk(r)'
  BY Zenon DEF AppInv, RowOk
<1>4. \A t \in PushTokens : DeviceOk(t)'
  BY Zenon DEF AppInv, DeviceOk
<1>5. AttemptOk(a)'
  BY <1>1, Zenon DEF AttemptOk
<1>6. ASSUME NEW b \in Attempts \ {a} PROVE AttemptOk(b)'
  <2>1. AttemptOk(b) /\ attempt'[b] = attempt[b]
    BY <1>1, Zenon DEF AppInv
  <2> QED BY <2>1, Zenon DEF AttemptOk
<1> QED BY <1>2, <1>3, <1>4, <1>5, <1>6, Zenon DEF AppInv

\* Rows that are ended, whatever attempt fails with them.
LEMMA EndingRows ==
    ASSUME AppInv, NEW R, Gone(R), UNCHANGED <<written, issued>>,
           handoffJar' \in Attempts \cup {"none"}, browser' \in AppUsers \cup {"none"},
           attempt' \in [Attempts -> AttemptRecs],
           \A b \in Attempts : attempt'[b] = attempt[b] \/ attempt'[b].pc = "failed"
    PROVE  AppInv'
<1>1. NoAppRow \in AppRowRecs /\ NoAppRow.kind = "none" /\ NoDevice \in DeviceRecs
  BY AppAssumption DEF NoAppRow, AppRowRecs, NoDevice, DeviceRecs
<1>2. /\ appRow' \in [AppRows -> AppRowRecs] /\ device' \in [PushTokens -> DeviceRecs]
      /\ \A r \in AppRows : appRow'[r] = IF r \in R THEN NoAppRow ELSE appRow[r]
      /\ \A t \in PushTokens : device'[t] = IF device[t].row \in R THEN NoDevice ELSE device[t]
  BY <1>1, Zenon DEF Gone, AppInv, AppTypes
<1>3. AppTypes'
  BY <1>2, Zenon DEF AppInv, AppTypes
<1>4. ASSUME NEW r \in AppRows PROVE RowOk(r)'
  <2>1. RowOk(r)
    BY Zenon DEF AppInv
  <2>2. appRow'[r] = NoAppRow \/ appRow'[r] = appRow[r]
    BY <1>2, Zenon
  <2> QED BY <1>1, <2>1, <2>2, Zenon DEF RowOk
<1>5. ASSUME NEW b \in Attempts PROVE AttemptOk(b)'
  <2>1. CASE attempt'[b].pc = "failed"
    BY <2>1, Zenon DEF AttemptOk
  <2>2. CASE attempt'[b] = attempt[b]
    <3>1. AttemptOk(b)
      BY Zenon DEF AppInv
    <3>2. attempt[b].pc \in {"code", "read"} => attempt[b].code \in AppRows
      BY <3>1, WrittenRows, Zenon DEF AttemptOk, AppInv
    <3> QED BY <1>1, <1>2, <2>2, <3>1, <3>2, Zenon DEF AttemptOk
  <2> QED BY <2>1, <2>2, Zenon
<1>6. ASSUME NEW t \in PushTokens PROVE DeviceOk(t)'
  <2>1. CASE device'[t] = NoDevice
    BY <2>1, Zenon DEF DeviceOk
  <2>2. CASE device'[t] = device[t] /\ device[t].row \notin R
    BY <1>2, <2>2 DEF AppInv, DeviceOk
  <2> QED BY <1>2, <2>1, <2>2, Zenon
<1> QED BY <1>3, <1>4, <1>5, <1>6, Zenon DEF AppInv

\* GET /api/mobile/auth/finish with a code: the next row is written.
LEMMA IssueKeeps ==
    ASSUME AppInv, NEW u \in AppUsers, NEW c \in Attempts, IssueMobileCode(u, c), UNCHANGED <<issued, device>>,
           handoffJar' \in Attempts \cup {"none"}, browser' \in AppUsers \cup {"none"},
           NEW a \in Attempts, attempt' = [attempt EXCEPT ![a].pc = "code", ![a].code = written + 1]
    PROVE  AppInv'
<1> DEFINE w == [kind |-> "code", user |-> u, challenge |-> c]
           q == [[attempt[a] EXCEPT !.pc = "code"] EXCEPT !.code = written + 1]
<1>0. attempt[a] \in AttemptRecs /\ written \in 0..MaxRows /\ written < MaxRows /\ written' = written + 1
  BY Zenon DEF AppInv, AppTypes, IssueMobileCode
<1>1. PICK n \in AppRows : n = written + 1
  BY <1>0, AppAssumption DEF AppRows
<1>2. n = written' /\ n > written /\ n \in 0..MaxRows /\ written' \in 0..MaxRows /\ n \in 1..written'
  BY <1>0, <1>1, AppAssumption DEF AppRows
<1>3. w \in AppRowRecs /\ w.kind = "code"
  BY Zenon DEF AppRowRecs
<1>4. /\ appRow' \in [AppRows -> AppRowRecs] /\ appRow'[n] = w
      /\ \A r \in AppRows \ {n} : appRow'[r] = appRow[r]
  BY <1>1, <1>3, Zenon DEF IssueMobileCode, AppInv, AppTypes
<1>5. q \in AttemptRecs /\ q.pc = "code" /\ q.code = n
  BY <1>0, <1>1, <1>2, Zenon DEF AttemptRecs
<1>6. attempt' = [attempt EXCEPT ![a] = q]
  BY Zenon DEF AppInv, AppTypes
<1>7. attempt' \in [Attempts -> AttemptRecs] /\ attempt'[a] = q
      /\ \A b \in Attempts \ {a} : attempt'[b] = attempt[b]
  BY <1>5, <1>6, Zenon DEF AppInv, AppTypes
<1> HIDE DEF w, q
<1>8. AppTypes'
  BY <1>2, <1>4, <1>7, Zenon DEF AppInv, AppTypes
<1>9. ASSUME NEW r \in AppRows PROVE RowOk(r)'
  <2>1. RowOk(r)
    BY Zenon DEF AppInv
  <2>2. CASE r = n
    BY <1>2, <1>3, <1>4, <2>1, <2>2 DEF RowOk
  <2>3. CASE r # n
    <3>1. r > written' => r > written
      BY <1>0 DEF AppRows
    <3> QED BY <1>4, <2>1, <2>3, <3>1, Zenon DEF RowOk
  <2> QED BY <2>2, <2>3, Zenon
<1>10. ASSUME NEW b \in Attempts PROVE AttemptOk(b)'
  <2>1. CASE b = a
    BY <1>2, <1>5, <1>7, <2>1, Zenon DEF AttemptOk
  <2>2. CASE b # a
    <3>1. AttemptOk(b) /\ attempt'[b] = attempt[b]
      BY <1>7, <2>2, Zenon DEF AppInv
    <3>2. \A x \in 1..written : x \in 1..written' /\ x \in AppRows \ {n}
      BY <1>0, <1>1, AppAssumption DEF AppRows
    <3> QED BY <1>4, <3>1, <3>2, Zenon DEF AttemptOk
  <2> QED BY <2>1, <2>2, Zenon
<1>11. ASSUME NEW t \in PushTokens PROVE DeviceOk(t)'
  <2>1. DeviceOk(t) /\ RowOk(n)
    BY Zenon DEF AppInv
  <2>2. appRow[n].kind = "none"
    BY <1>2, <2>1 DEF RowOk, NoAppRow
  <2> QED BY <1>4, <2>1, <2>2, Zenon DEF DeviceOk
<1> QED BY <1>8, <1>9, <1>10, <1>11, Zenon DEF AppInv

\* The row a code becomes an app session of.
LEMMA SwapKeeps ==
    ASSUME AppInv, NEW r \in AppRows, appRow[r].kind = "code",
           appRow' = [appRow EXCEPT ![r].kind = "app", ![r].challenge = "none"],
           UNCHANGED <<written, device, handoffJar, browser>>,
           issued' = [issued EXCEPT ![r] = @ + 1] \/ UNCHANGED issued,
           attempt' \in [Attempts -> AttemptRecs],
           \A b \in Attempts : \/ attempt'[b] = attempt[b] \/ attempt'[b].pc = "failed"
                               \/ attempt'[b].pc = "done" /\ attempt'[b].token = r
    PROVE  AppInv'
<1> DEFINE w == [[appRow[r] EXCEPT !.kind = "app"] EXCEPT !.challenge = "none"]
<1>0. appRow[r] \in AppRowRecs /\ RowOk(r)
  BY Zenon DEF AppInv, AppTypes
<1>1. w \in AppRowRecs /\ w.kind = "app" /\ w.user = appRow[r].user
  BY <1>0, Zenon DEF AppRowRecs
<1>2. appRow' = [appRow EXCEPT ![r] = w]
  BY Zenon DEF AppInv, AppTypes
<1>3. /\ appRow' \in [AppRows -> AppRowRecs] /\ appRow'[r] = w
      /\ \A s \in AppRows \ {r} : appRow'[s] = appRow[s]
  BY <1>1, <1>2 DEF AppInv, AppTypes
<1> HIDE DEF w
<1>4. /\ issued' \in [AppRows -> Nat] /\ issued'[r] \in {issued[r], issued[r] + 1}
      /\ \A s \in AppRows \ {r} : issued'[s] = issued[s]
  BY DEF AppInv, AppTypes
<1>5. ~(r > written) /\ issued[r] = 0
  BY <1>0 DEF RowOk, NoAppRow
<1>6. r \in 1..written
  BY <1>5, AppAssumption DEF AppRows, AppInv, AppTypes
<1>7. AppTypes'
  BY <1>3, <1>4, Zenon DEF AppInv, AppTypes
<1>8. ASSUME NEW s \in AppRows PROVE RowOk(s)'
  <2>1. CASE s = r
    BY <1>1, <1>3, <1>4, <1>5, <2>1 DEF RowOk
  <2>2. CASE s # r
    BY <1>3, <1>4, <2>2, Zenon DEF AppInv, RowOk
  <2> QED BY <2>1, <2>2, Zenon
<1>9. ASSUME NEW b \in Attempts PROVE AttemptOk(b)'
  <2>1. CASE attempt'[b].pc = "failed" \/ (attempt'[b].pc = "done" /\ attempt'[b].token = r)
    BY <1>6, <2>1, Zenon DEF AttemptOk
  <2>2. CASE attempt'[b] = attempt[b]
    <3>1. AttemptOk(b)
      BY Zenon DEF AppInv
    <3>2. attempt[b].pc \in {"code", "read"} => attempt[b].code \in AppRows
      BY <3>1, WrittenRows, Zenon DEF AttemptOk, AppInv
    <3> QED BY <1>1, <1>3, <2>2, <3>1, <3>2, Zenon DEF AttemptOk
  <2> QED BY <2>1, <2>2, Zenon
<1>10. ASSUME NEW t \in PushTokens PROVE DeviceOk(t)'
  BY <1>1, <1>3, Zenon DEF AppInv, DeviceOk
<1> QED BY <1>7, <1>8, <1>9, <1>10, Zenon DEF AppInv

\* The edits of an attempt.
WithPc(k, p) == [k EXCEPT !.pc = p]
WithToken(k, n) == [[k EXCEPT !.pc = "done"] EXCEPT !.token = n]
WithVerifier(k, c) == [[k EXCEPT !.pc = "waiting"] EXCEPT !.verifier = c]
WithSeen(k, p, s) == [[k EXCEPT !.pc = p] EXCEPT !.seen = s]

\* What an edited attempt holds.
LEMMA AttemptEdits ==
    ASSUME NEW k \in AttemptRecs
    PROVE  /\ \A p \in {"code", "failed"} :
                WithPc(k, p) \in AttemptRecs /\ WithPc(k, p).pc = p /\ WithPc(k, p).code = k.code
           /\ \A c \in Attempts : WithVerifier(k, c) \in AttemptRecs /\ WithVerifier(k, c).pc = "waiting"
<1>1. ASSUME NEW p \in {"new", "waiting", "code", "read", "done", "failed"}
      PROVE  WithPc(k, p) \in AttemptRecs /\ WithPc(k, p).pc = p /\ WithPc(k, p).code = k.code
  BY Zenon DEF AttemptRecs, WithPc
<1>2. ASSUME NEW c \in Attempts PROVE WithVerifier(k, c) \in AttemptRecs /\ WithVerifier(k, c).pc = "waiting"
  BY Zenon DEF AttemptRecs, WithVerifier
<1> QED BY <1>1, <1>2, Zenon

\* Where an exchange goes on once it has read its code, and what it may have seen there.
AfterRead == {"read", "failed"}
Challenges == Attempts \cup {"none"}

\* An exchange that has read its code remembers the challenge it saw.
LEMMA AttemptSees ==
    ASSUME NEW k \in AttemptRecs, NEW p \in AfterRead, NEW s \in Challenges
    PROVE  /\ WithSeen(k, p, s) \in AttemptRecs /\ WithSeen(k, p, s).pc \in AfterRead
           /\ WithSeen(k, p, s).seen = s /\ WithSeen(k, p, s).code = k.code
  BY Zenon DEF AttemptRecs, WithSeen, AfterRead, Challenges

\* An exchange that was answered holds its token.
LEMMA AttemptGets ==
    ASSUME NEW k \in AttemptRecs, NEW n \in 0..MaxRows
    PROVE  WithToken(k, n) \in AttemptRecs /\ WithToken(k, n).pc = "done" /\ WithToken(k, n).token = n
  BY Zenon DEF AttemptRecs, WithToken

\* POST /api/mobile/auth/exchange, redeeming.
LEMMA RedeemKeeps == ASSUME AppInv, NEW a \in Attempts, NEW tooLate \in BOOLEAN, RedeemMobileCode(a, tooLate) PROVE AppInv'
<1>0. attempt[a] \in AttemptRecs /\ AttemptOk(a) /\ attempt[a].pc = "read"
  BY Zenon DEF AppInv, AppTypes, RedeemMobileCode
<1>r. PICK r \in AppRows : r = attempt[a].code
  BY <1>0, WrittenRows, Zenon DEF AttemptOk, AppInv
<1>f. PICK f \in AttemptRecs : f = WithPc(attempt[a], "failed") /\ f.pc = "failed"
  BY <1>0, AttemptEdits, Zenon
<1>d. PICK d \in AttemptRecs : d = WithToken(attempt[a], r) /\ d.pc = "done" /\ d.token = r
  <2>1. r \in 0..MaxRows
    BY AppAssumption DEF AppRows
  <2> QED BY <1>0, <2>1, AttemptGets, Zenon
<1>1. /\ [attempt EXCEPT ![a].pc = "failed"] = [attempt EXCEPT ![a] = f]
      /\ [attempt EXCEPT ![a].pc = "done", ![a].token = r] = [attempt EXCEPT ![a] = d]
  BY <1>f, <1>d, Zenon DEF AppInv, AppTypes, WithPc, WithToken
<1>2. UNCHANGED <<written, handoffJar, browser>>
  BY Zenon DEF RedeemMobileCode
<1>3. /\ [attempt EXCEPT ![a] = f] \in [Attempts -> AttemptRecs]
      /\ \A b \in Attempts : [attempt EXCEPT ![a] = f][b] = IF b = a THEN f ELSE attempt[b]
      /\ [attempt EXCEPT ![a] = d] \in [Attempts -> AttemptRecs]
      /\ \A b \in Attempts : [attempt EXCEPT ![a] = d][b] = IF b = a THEN d ELSE attempt[b]
  BY Zenon DEF AppInv, AppTypes
<1>4. handoffJar' \in Attempts \cup {"none"} /\ browser' \in AppUsers \cup {"none"}
  BY <1>2, Zenon DEF AppInv, AppTypes
<1>5. CASE Gone({r}) /\ attempt' = [attempt EXCEPT ![a] = f] /\ UNCHANGED issued
  BY <1>2, <1>3, <1>4, <1>5, <1>f, EndingRows, Zenon
<1>6. CASE attempt' = [attempt EXCEPT ![a] = f] /\ UNCHANGED <<appRow, issued, device>>
  BY <1>2, <1>4, <1>6, <1>f, AttemptsStep, Zenon
<1>7. CASE /\ appRow[r].kind = "code" /\ appRow' = [appRow EXCEPT ![r].kind = "app", ![r].challenge = "none"]
           /\ \/ issued' = [issued EXCEPT ![r] = @ + 1] /\ attempt' = [attempt EXCEPT ![a] = d]
              \/ UNCHANGED issued /\ attempt' = [attempt EXCEPT ![a] = f]
           /\ UNCHANGED device
  <2>1. /\ attempt' \in [Attempts -> AttemptRecs]
        /\ \A b \in Attempts : \/ attempt'[b] = attempt[b] \/ attempt'[b].pc = "failed"
                               \/ attempt'[b].pc = "done" /\ attempt'[b].token = r
    BY <1>3, <1>7, <1>f, <1>d, Zenon
  <2> QED BY <1>2, <1>7, <2>1, SwapKeeps, Zenon
<1>8. \/ Gone({r}) /\ attempt' = [attempt EXCEPT ![a].pc = "failed"] /\ UNCHANGED issued
      \/ attempt' = [attempt EXCEPT ![a].pc = "failed"] /\ UNCHANGED <<appRow, issued, device>>
      \/ /\ appRow[r].kind = "code" /\ appRow' = [appRow EXCEPT ![r].kind = "app", ![r].challenge = "none"]
         /\ \/ issued' = [issued EXCEPT ![r] = @ + 1] /\ attempt' = [attempt EXCEPT ![a].pc = "done", ![a].token = r]
            \/ UNCHANGED issued /\ attempt' = [attempt EXCEPT ![a].pc = "failed"]
         /\ UNCHANGED device
  BY <1>r, Zenon DEF RedeemMobileCode
<1> QED BY <1>1, <1>5, <1>6, <1>7, <1>8, Zenon

\* The other steps of an attempt: start, finish, the reads of an exchange.
LEMMA SignInKeeps ==
    ASSUME AppInv, NEW a \in Attempts, NEW b \in Attempts,
           AppStart(a) \/ AppFinish(a) \/ ExchangeRead(a) \/ ExchangeAgain(a, b)
    PROVE  AppInv'
<1>0. attempt[a] \in AttemptRecs /\ AttemptOk(a)
  BY Zenon DEF AppInv, AppTypes
<1>1. CASE AppStart(a)
  <2>0. WithVerifier(attempt[a], a) \in AttemptRecs /\ WithVerifier(attempt[a], a).pc = "waiting"
    BY <1>0, AttemptEdits, Zenon
  <2>1. PICK q \in AttemptRecs : q = WithVerifier(attempt[a], a) /\ q.pc = "waiting"
    BY <2>0, Zenon
  <2>2. attempt' = [attempt EXCEPT ![a] = q] /\ UNCHANGED <<appRow, written, issued, device, browser>> /\ handoffJar' = a
    BY <1>1, <2>1, Zenon DEF AppStart, AppInv, AppTypes, WithVerifier
  <2>3. handoffJar' \in Attempts \cup {"none"} /\ browser' \in AppUsers \cup {"none"}
    BY <2>2, Zenon DEF AppInv, AppTypes
  <2> QED BY <2>1, <2>2, <2>3, AttemptsStep, Zenon
<1>2. CASE AppFinish(a)
  <2>1. handoffJar' \in Attempts \cup {"none"} /\ browser' \in AppUsers \cup {"none"} /\ UNCHANGED <<issued, device>>
    BY <1>2, Zenon DEF AppFinish
  <2>2. CASE IssueMobileCode(browser, handoffJar) /\ attempt' = [attempt EXCEPT ![a].pc = "code", ![a].code = written + 1]
             /\ browser # "none"
    <3>1. PICK u \in AppUsers : u = browser
      BY <2>2, Zenon DEF AppInv, AppTypes
    <3>2. PICK c \in Attempts : c = handoffJar
      BY <1>2, Zenon DEF AppFinish, AppInv, AppTypes
    <3> QED BY <2>1, <2>2, <3>1, <3>2, IssueKeeps, Zenon
  <2>3. CASE attempt' = [attempt EXCEPT ![a].pc = "failed"] /\ UNCHANGED <<appRow, written>>
    <3>1. PICK q \in AttemptRecs : q = WithPc(attempt[a], "failed") /\ q.pc = "failed"
      BY <1>0, AttemptEdits, Zenon
    <3>2. attempt' = [attempt EXCEPT ![a] = q]
      BY <2>3, <3>1, Zenon DEF AppInv, AppTypes, WithPc
    <3> QED BY <2>1, <2>3, <3>1, <3>2, AttemptsStep, Zenon
  <2> QED BY <1>2, <2>2, <2>3, Zenon DEF AppFinish
<1>3. CASE ExchangeRead(a)
  <2>0. attempt[a].pc = "code" /\ attempt[a].code \in 1..written /\ attempt[a].code \in AppRows
    BY <1>0, <1>3, WrittenRows, Zenon DEF ExchangeRead, AttemptOk, AppInv
  <2>1. PICK s \in Challenges : s = appRow[attempt[a].code].challenge
    BY <2>0, Zenon DEF AppInv, AppTypes, AppRowRecs, Challenges
  <2>2. PICK p \in AfterRead : attempt' = [attempt EXCEPT ![a].pc = p, ![a].seen = s]
    BY <1>3, <2>1, Zenon DEF ExchangeRead, AfterRead
  <2>3. PICK q \in AttemptRecs : /\ q = WithSeen(attempt[a], p, s)
                                 /\ q.pc \in AfterRead /\ q.seen = s /\ q.code = attempt[a].code
    BY <1>0, AttemptSees, ZenonT(60)
  <2>4. attempt' = [attempt EXCEPT ![a] = q]
    BY <2>2, <2>3, Zenon DEF AppInv, AppTypes, WithSeen
  <2>5. /\ UNCHANGED <<appRow, written, issued, device>>
        /\ handoffJar' \in Attempts \cup {"none"} /\ browser' \in AppUsers \cup {"none"}
    BY <1>3, Zenon DEF ExchangeRead, AppInv, AppTypes
  <2> QED BY <2>0, <2>1, <2>3, <2>4, <2>5, AttemptsStep, Zenon DEF AfterRead, Challenges
<1>4. CASE ExchangeAgain(a, b)
  <2>1. PICK q \in AttemptRecs : q = WithPc(attempt[a], "code") /\ q.pc = "code" /\ q.code = attempt[a].code
    BY <1>0, AttemptEdits
  <2>2. attempt' = [attempt EXCEPT ![b] = q] /\ attempt[a].pc \in {"code", "read"}
    BY <1>4, <2>1, Zenon DEF ExchangeAgain, WithPc
  <2>3. /\ UNCHANGED <<appRow, written, issued, device>>
        /\ handoffJar' \in Attempts \cup {"none"} /\ browser' \in AppUsers \cup {"none"}
    BY <1>4, Zenon DEF ExchangeAgain, AppInv, AppTypes
  <2> QED BY <1>0, <2>1, <2>2, <2>3, AttemptsStep, Zenon DEF AttemptOk
<1> QED BY <1>1, <1>2, <1>3, <1>4, Zenon

\* Push registrations.
LEMMA DevicesKeep ==
    ASSUME AppInv, NEW t \in PushTokens,
           DeviceNotRegistered(t) \/ \E a \in Attempts : RegisterPush(a, t) \/ UnregisterPush(a, t)
    PROVE  AppInv'
<1>1. UNCHANGED <<handoffJar, browser, appRow, written, attempt, issued>>
  BY Zenon DEF DeviceNotRegistered, RegisterPush, UnregisterPush
<1>2. PICK d \in DeviceRecs : /\ device' = [device EXCEPT ![t] = d]
                              /\ d # NoDevice => /\ d.row \in AppRows /\ appRow[d.row].kind = "app"
                                                 /\ appRow[d.row].user = d.user
  <2>1. NoDevice \in DeviceRecs
    BY AppAssumption DEF NoDevice, DeviceRecs
  <2>2. ASSUME NEW a \in Attempts, RegisterPush(a, t)
        PROVE  \E d \in DeviceRecs : /\ device' = [device EXCEPT ![t] = d]
                                     /\ d.row \in AppRows /\ appRow[d.row].kind = "app" /\ appRow[d.row].user = d.user
    <3>1. attempt[a].pc = "done" /\ appRow[attempt[a].token].kind = "app" /\ Caller(a) = appRow[attempt[a].token].user
      BY <2>2, Zenon DEF RegisterPush, Caller
    <3>2. PICK r \in AppRows : r = attempt[a].token
      BY <3>1, WrittenRows, Zenon DEF AppInv, AttemptOk
    <3>3. PICK u \in AppUsers \cup {"none"} : u = appRow[r].user
      BY Zenon DEF AppInv, AppTypes, AppRowRecs
    <3>4. [user |-> u, row |-> r] \in DeviceRecs
      BY AppAssumption DEF DeviceRecs, AppRows
    <3>5. device' = [device EXCEPT ![t] = [user |-> u, row |-> r]]
      BY <2>2, <3>1, <3>2, <3>3, Zenon DEF RegisterPush
    <3> QED BY <3>1, <3>2, <3>3, <3>4, <3>5, Zenon
  <2> QED BY <2>1, <2>2, Zenon DEF DeviceNotRegistered, UnregisterPush
<1>3. device' \in [PushTokens -> DeviceRecs] /\ device'[t] = d /\ \A s \in PushTokens \ {t} : device'[s] = device[s]
  BY <1>2, Zenon DEF AppInv, AppTypes
<1>4. AppTypes'
  BY <1>1, <1>3, Zenon DEF AppInv, AppTypes
<1>5. \A s \in PushTokens : DeviceOk(s)'
  BY <1>1, <1>2, <1>3, Zenon DEF AppInv, DeviceOk
<1>6. (\A r \in AppRows : RowOk(r)') /\ \A a \in Attempts : AttemptOk(a)'
  BY <1>1, Zenon DEF AppInv, RowOk, AttemptOk
<1> QED BY <1>4, <1>5, <1>6, Zenon DEF AppInv

\* Every step keeps the invariant.
LEMMA AppInductive == AppInv /\ [AppNext]_appVars => AppInv'
<1> SUFFICES ASSUME AppInv, [AppNext]_appVars PROVE AppInv'
  BY Zenon
<1>1. ASSUME NEW a \in Attempts, AppLogout(a) PROVE AppInv'
  <2>1. /\ Gone({attempt[a].token}) /\ UNCHANGED <<written, issued, attempt>>
        /\ handoffJar' \in Attempts \cup {"none"} /\ browser' \in AppUsers \cup {"none"}
        /\ attempt' \in [Attempts -> AttemptRecs]
    BY <1>1, Zenon DEF AppLogout, AppInv, AppTypes
  <2> QED BY <2>1, EndingRows, Zenon
<1>2. ASSUME NEW u \in AppUsers, NEW disable \in BOOLEAN, EndUser(u, disable) PROVE AppInv'
  <2>1. /\ Gone({r \in AppRows : appRow[r].user = u}) /\ UNCHANGED <<written, issued, attempt>>
        /\ handoffJar' \in Attempts \cup {"none"} /\ browser' \in AppUsers \cup {"none"}
        /\ attempt' \in [Attempts -> AttemptRecs]
    BY <1>2, Zenon DEF EndUser, AppInv, AppTypes
  <2> QED BY <2>1, EndingRows, Zenon
<1>3. ASSUME UNCHANGED <<appRow, written, attempt, issued, device>>,
             handoffJar' \in Attempts \cup {"none"}, browser' \in AppUsers \cup {"none"}
      PROVE  AppInv'
  BY <1>3, Zenon DEF AppInv, AppTypes, RowOk, AttemptOk, DeviceOk
<1>4. ASSUME NEW u \in AppUsers, BrowserSignsIn(u) \/ LowerRole(u) PROVE AppInv'
  BY <1>3, <1>4, Zenon DEF BrowserSignsIn, LowerRole, AppInv, AppTypes
<1>5. ASSUME HandoffExpires \/ UNCHANGED appVars PROVE AppInv'
  BY <1>3, <1>5, Zenon DEF HandoffExpires, appVars, AppInv, AppTypes
<1> QED BY <1>1, <1>2, <1>4, <1>5, RedeemKeeps, SignInKeeps, DevicesKeep, Zenon DEF AppNext

\* Repeated and racing exchanges of one code hand out one token.
THEOREM CodesYieldOneToken == AppSpec => []OneTokenPerCode
<1>1. AppInv => OneTokenPerCode
  BY Zenon DEF AppInv, RowOk, OneTokenPerCode
<1> QED BY <1>1, AppInitially, AppInductive, PTL DEF AppSpec

\* Every push registration hangs on a live app session of the person it names.
THEOREM PhonesHaveSessions == AppSpec => []RegistrationsHaveSession
<1>1. AppInv => RegistrationsHaveSession
  BY Zenon DEF AppInv, DeviceOk, RegistrationsHaveSession
<1> QED BY <1>1, AppInitially, AppInductive, PTL DEF AppSpec

\* A row that ended is not brought back by an exchange that had read it, and
\* never changes hands.
THEOREM EndedSessionsStayEnded == AppSpec => EndedStaysEnded
<1> DEFINE Kept == \A r \in 1..written : appRow'[r] # appRow[r] =>
                      appRow'[r] = NoAppRow \/ (appRow[r].kind = "code" /\ appRow'[r].user = appRow[r].user)
<1>1. ASSUME AppInv, [AppNext]_appVars PROVE Kept
  <2> SUFFICES ASSUME NEW r \in 1..written, appRow'[r] # appRow[r]
               PROVE  appRow'[r] = NoAppRow \/ (appRow[r].kind = "code" /\ appRow'[r].user = appRow[r].user)
    BY Zenon
  <2>0. r \in AppRows /\ r <= written /\ written \in Nat /\ appRow[r] \in AppRowRecs
    BY <1>1, WrittenRows, AppAssumption DEF AppInv, AppTypes
  <2>1. ASSUME NEW R, Gone(R) PROVE appRow'[r] = NoAppRow
    BY <2>0, <2>1, Zenon DEF Gone
  <2>2. ASSUME NEW u, NEW c, IssueMobileCode(u, c) PROVE FALSE
    BY <1>1, <2>0, <2>2 DEF IssueMobileCode, AppInv, AppTypes
  <2>3. ASSUME NEW a \in Attempts, NEW tooLate \in BOOLEAN, RedeemMobileCode(a, tooLate)
        PROVE  appRow'[r] = NoAppRow \/ (appRow[r].kind = "code" /\ appRow'[r].user = appRow[r].user)
    <3>1. CASE appRow[attempt[a].code].kind = "code"
               /\ appRow' = [appRow EXCEPT ![attempt[a].code].kind = "app", ![attempt[a].code].challenge = "none"]
      BY <1>1, <2>0, <3>1, Zenon DEF AppInv, AppTypes, AppRowRecs
    <3> QED BY <2>1, <2>3, <3>1, Zenon DEF RedeemMobileCode
  <2>4. \/ \E R : Gone(R)
        \/ \E u, c : IssueMobileCode(u, c)
        \/ \E a \in Attempts, tooLate \in BOOLEAN : RedeemMobileCode(a, tooLate)
        \/ UNCHANGED appRow
    BY <1>1, Zenon DEF AppNext, appVars, AppStart, AppFinish, ExchangeRead, AppLogout, ExchangeAgain, RegisterPush, UnregisterPush,
                HandoffExpires, BrowserSignsIn, LowerRole, EndUser, DeviceNotRegistered
  <2> QED BY <2>1, <2>2, <2>3, <2>4, Zenon
<1> QED BY <1>1, AppInitially, AppInductive, PTL DEF AppSpec, EndedStaysEnded

\* A token is obtained only with the verifier of the challenge its code was
\* issued for.
THEOREM TokensNeedTheirVerifier == AppSpec => CodeBoundToAttempt
<1> DEFINE Bound == \A a \in Attempts : attempt'[a].pc = "done" /\ attempt[a].pc # "done" =>
                       attempt[a].verifier = appRow[attempt[a].code].challenge
<1>1. ASSUME AppInv, [AppNext]_appVars PROVE Bound
  <2> SUFFICES ASSUME NEW a \in Attempts, attempt'[a].pc = "done", attempt[a].pc # "done"
               PROVE  attempt[a].verifier = appRow[attempt[a].code].challenge
    BY Zenon
  <2>0. \A b \in Attempts : attempt[b] \in AttemptRecs
    BY <1>1, Zenon DEF AppInv, AppTypes
  <2>2. ASSUME NEW b \in Attempts, NEW tooLate \in BOOLEAN, RedeemMobileCode(b, tooLate)
        PROVE  attempt[a].verifier = appRow[attempt[a].code].challenge
    <3>1. CASE a # b
      BY <1>1, <2>2, <3>1, Zenon DEF RedeemMobileCode, AppInv, AppTypes
    <3>2. CASE a = b
      <4>1. attempt' # [attempt EXCEPT ![a].pc = "failed"]
        BY <1>1, <2>0 DEF AppInv, AppTypes, AttemptRecs
      <4>2. PkceMatches(a) /\ appRow[attempt[a].code].kind = "code" /\ attempt[a].pc = "read"
        BY <2>2, <3>2, <4>1, Zenon DEF RedeemMobileCode
      <4>3. attempt[a].seen = appRow[attempt[a].code].challenge
        BY <1>1, <4>2, Zenon DEF AppInv, AttemptOk
      <4> QED BY <4>2, <4>3, Zenon DEF PkceMatches
    <3> QED BY <3>1, <3>2, Zenon
  <2>3. ASSUME NEW b \in Attempts, NEW c \in Attempts,
               AppStart(b) \/ AppFinish(b) \/ ExchangeRead(b) \/ ExchangeAgain(b, c)
        PROVE  FALSE
    <3>1. CASE AppStart(b)
      BY <1>1, <2>0, <3>1, Zenon DEF AppStart, AppInv, AppTypes, AttemptRecs
    <3>2. CASE AppFinish(b)
      BY <1>1, <2>0, <3>2 DEF AppFinish, AppInv, AppTypes, AttemptRecs
    <3>3. CASE ExchangeRead(b)
      BY <1>1, <2>0, <3>3, Zenon DEF ExchangeRead, AppInv, AppTypes, AttemptRecs
    <3>4. CASE ExchangeAgain(b, c)
      BY <1>1, <2>0, <3>4, Zenon DEF ExchangeAgain, AppInv, AppTypes, AttemptRecs
    <3> QED BY <2>3, <3>1, <3>2, <3>3, <3>4, Zenon
  <2>4. \/ \E b \in Attempts, c \in Attempts : AppStart(b) \/ AppFinish(b) \/ ExchangeRead(b) \/ ExchangeAgain(b, c)
        \/ \E b \in Attempts, tooLate \in BOOLEAN : RedeemMobileCode(b, tooLate)
        \/ UNCHANGED attempt
    BY <1>1, Zenon DEF AppNext, appVars, AppLogout, RegisterPush, UnregisterPush,
                HandoffExpires, BrowserSignsIn, LowerRole, EndUser, DeviceNotRegistered
  <2> QED BY <2>2, <2>3, <2>4, Zenon
<1> QED BY <1>1, AppInitially, AppInductive, PTL DEF AppSpec, CodeBoundToAttempt

=============================================================================
