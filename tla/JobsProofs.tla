----------------------------- MODULE JobsProofs -----------------------------
(***************************************************************************)
(* Proofs about what the scheduler keeps going, for any sites, tenants,    *)
(* recordings and connectors: the health of the sites and its notices, the *)
(* heartbeats and the caps of a tenant, and the erasure of recordings.     *)
(***************************************************************************)
EXTENDS Platform, Recordings, SiteHealth, FiniteSetTheorems, TLAPS

-----------------------------------------------------------------------------
\* Site health.

PassRecord == [step : {"idle", "probe", "notify"}, was : [Probed -> Results \cup {"gone"}],
               got : [Probed -> Results], left : SUBSET Probed]
TestRecord == [step : {"idle", "probe", "write"}, site : Probed \cup {IdleTest.site},
               was : Results, got : Results]

HealthTypes ==
    /\ row \in [Probed -> Results \cup {"gone"}]
    /\ told \in [Probed -> NoticeTypes]
    /\ probing \in PassRecord /\ \A s \in probing.left : probing.was[s] # "gone"
    /\ test \in TestRecord /\ (test.step # "idle" => test.site \in Probed)

Found == {"ok", "failed"}

\* The newest notice is the one a stored result of `was` calls for.
TellsOf(s, was) == (was = "failed") <=> (told[s] = "site_down")

\* The stored result is still `was`, and the newest notice its notice.
StandsAt(s, was) == TellsOf(s, was) /\ row[s] \in {"gone", was}

\* Where an undisturbed site stands: at rest; read by a test; read by a pass,
\* probed and not yet written; written and not yet told; told.
SiteInv(s) ==
    /\ ~(PassOpen(s) /\ TestOpen(s))
    /\ Settled(s) => TellsOf(s, row[s])
    /\ TestOpen(s) => StandsAt(s, test.was) /\ (test.step = "write" => test.got \in Found)
    /\ PassOpen(s) /\ probing.step = "probe" =>
         StandsAt(s, probing.was[s]) /\ (s \in probing.left \/ probing.got[s] \in Found)
    /\ PassOpen(s) /\ probing.step = "notify" =>
         IF s \in probing.left
         THEN /\ TellsOf(s, probing.was[s]) /\ row[s] \in {"gone", probing.got[s]}
              /\ probing.got[s] \in Found
         ELSE row[s] = "gone" \/ TellsOf(s, row[s])

HealthInv == HealthTypes /\ \A s \in Probed \ disturbed : SiteInv(s)

\* Nothing has been probed and nobody told.
LEMMA HealthInitially == HealthInit => HealthInv
BY DEF HealthInit, HealthInv, HealthTypes, PassRecord, TestRecord, Results, NoticeTypes,
       IdlePass, IdleTest, SiteInv, PassOpen, TestOpen, Settled, TellsOf, StandsAt, Found

\* Every step keeps the shape of the state.
LEMMA HealthTypesKept ==
    ASSUME HealthTypes, [HealthNext]_healthVars
    PROVE  HealthTypes'
<1> USE DEF HealthTypes, Results, NoticeTypes
<1>1. IdlePass \in PassRecord /\ IdleTest \in TestRecord
  BY Zenon DEF IdlePass, IdleTest, PassRecord, TestRecord
<1>2. CASE PassReads
  BY <1>1, <1>2, Zenon DEF PassReads, IdlePass, PassRecord, Reads, Live
<1>3. ASSUME NEW s \in Probed, PassProbes(s) PROVE HealthTypes'
  BY <1>3, Zenon DEF PassProbes, ProbeSite, PassRecord
<1>4. ASSUME NEW before \in SUBSET Probed, PassWrites(before) PROVE HealthTypes'
  <2>1. row' \in [Probed -> Results \cup {"gone"}]
    BY <1>4, Zenon DEF PassWrites, PassRecord
  <2>2. probing' \in PassRecord /\ \A s \in probing'.left : probing'.was[s] # "gone"
    <3> DEFINE mine == {s \in Probed : probing.was[s] # "gone"}
               next == [probing EXCEPT !.step = "notify", !.left = mine]
    <3>1. probing' = next \/ probing' = IdlePass
      BY <1>4, Zenon DEF PassWrites
    <3>2. next \in PassRecord /\ next.left = mine /\ next.was = probing.was
      BY Zenon DEF PassRecord
    <3>3. IdlePass.left = {}
      BY Zenon DEF IdlePass
    <3> HIDE DEF next
    <3> QED BY <1>1, <3>1, <3>2, <3>3, Zenon
  <2> QED BY <1>4, <2>1, <2>2, Zenon DEF PassWrites
<1>5. ASSUME NEW s \in Probed, NEW lost \in BOOLEAN, PassNotifies(s, lost) PROVE HealthTypes'
  <2>1. told' \in [Probed -> NoticeTypes]
    BY <1>5, Zenon DEF PassNotifies, Notified, ClassifyTransition
  <2>2. probing' \in PassRecord /\ \A x \in probing'.left : probing'.was[x] # "gone"
    BY <1>1, <1>5, Zenon DEF PassNotifies, PassRecord, IdlePass
  <2> QED BY <1>5, <2>1, <2>2, Zenon DEF PassNotifies
<1>6. CASE PassEmpty
  BY <1>1, <1>6, Zenon DEF PassEmpty, IdlePass
<1>7. ASSUME NEW s \in Probed, TestReads(s) PROVE HealthTypes'
  BY <1>7, Zenon DEF TestReads, Live, TestRecord
<1>8. CASE TestProbes
  BY <1>8, Zenon DEF TestProbes, ProbeSite, TestRecord
<1>9. CASE TestWrites
  <2>1. told' \in [Probed -> NoticeTypes]
    BY <1>9, Zenon DEF TestWrites, Notified, ClassifyTransition
  <2>2. row' \in [Probed -> Results \cup {"gone"}]
    BY <1>9, Zenon DEF TestWrites, TestRecord
  <2> QED BY <1>1, <1>9, <2>1, <2>2, Zenon DEF TestWrites, IdleTest
<1>10. ASSUME NEW s \in Probed, TargetFlaps(s) \/ SiteGoes(s) PROVE HealthTypes'
  BY <1>10, Zenon DEF TargetFlaps, SiteGoes
<1>11. CASE UNCHANGED healthVars
  BY <1>11, Zenon DEF healthVars
<1> QED
  BY <1>2, <1>3, <1>4, <1>5, <1>6, <1>7, <1>8, <1>9, <1>10, <1>11, Zenon DEF HealthNext, PassStep

\* A pass reads the stored results; a test under way disturbs its site.
LEMMA PassReadsKeeps ==
    ASSUME HealthInv, PassReads, NEW s \in Probed \ disturbed'
    PROVE  SiteInv(s)'
<1> DEFINE was == [x \in Probed |-> IF x \in Live THEN row[x] ELSE "gone"]
<1>1. /\ probing'.step = "probe" /\ probing'.left = Live /\ probing'.was = was
      /\ UNCHANGED <<row, test, told>> /\ s \in Probed \ disturbed /\ ~TestOpen(s)
      /\ probing.step = "idle"
  BY Zenon DEF PassReads, Reads, IdlePass
<1>2. was[s] = row[s]
  BY Zenon DEF Live
<1>3. SiteInv(s)
  BY <1>1, Zenon DEF HealthInv
<1> HIDE DEF was
<1>4. CASE row[s] = "gone"
  BY <1>1, <1>2, <1>4, Zenon DEF SiteInv, PassOpen, TestOpen, Settled, TellsOf, StandsAt
<1>5. CASE row[s] # "gone"
  <2>1. s \in Live
    BY <1>5, Zenon DEF Live
  <2>2. TellsOf(s, row[s])
    BY <1>1, <1>3, <1>5, Zenon DEF SiteInv, PassOpen, Settled
  <2> QED BY <1>1, <1>2, <2>1, <2>2, Zenon DEF SiteInv, PassOpen, TestOpen, Settled, TellsOf, StandsAt
<1> QED BY <1>4, <1>5, Zenon

\* A probe finds the target up or down.
LEMMA PassProbesKeeps ==
    ASSUME HealthInv, NEW x \in Probed, PassProbes(x), NEW s \in Probed \ disturbed'
    PROVE  SiteInv(s)'
<1>1. /\ probing.step = "probe" /\ probing'.step = "probe" /\ probing'.was = probing.was
      /\ probing'.left = probing.left \ {x} /\ UNCHANGED <<row, test, told>>
      /\ s \in Probed \ disturbed
      /\ probing'.got[s] = IF s = x THEN ProbeSite(x) ELSE probing.got[s]
  BY Zenon DEF PassProbes, HealthInv, HealthTypes, PassRecord
<1>2. SiteInv(s)
  BY <1>1, Zenon DEF HealthInv
<1>3. ProbeSite(x) \in Found
  BY Zenon DEF ProbeSite, Found
<1> QED BY <1>1, <1>2, <1>3, Zenon DEF SiteInv, PassOpen, TestOpen, Settled, TellsOf, StandsAt

\* The results are written together, or the pass ends and what it wrote is
\* disturbed.
LEMMA PassWritesKeeps ==
    ASSUME HealthInv, NEW before \in SUBSET Probed, PassWrites(before), NEW s \in Probed \ disturbed'
    PROVE  SiteInv(s)'
<1> DEFINE mine == {x \in Probed : probing.was[x] # "gone"}
           written == IF mine \subseteq Live THEN mine ELSE IF inCloud THEN {} ELSE before
<1>1. /\ probing.step = "probe" /\ probing.left = {} /\ UNCHANGED <<test, told>>
      /\ row'[s] = IF s \in written THEN probing.got[s] ELSE row[s]
      /\ before \subseteq mine \cap Live
  BY Zenon DEF PassWrites
<1>2. s \in Probed \ disturbed
  BY Zenon DEF PassWrites
<1>3. SiteInv(s)
  BY <1>2, Zenon DEF HealthInv
<1>4. CASE mine \subseteq Live
  <2>1. /\ probing'.step = "notify" /\ probing'.left = mine /\ probing'.was = probing.was
        /\ probing'.got = probing.got
    <3>1. probing' = [probing EXCEPT !.step = "notify", !.left = mine]
      BY <1>4, Zenon DEF PassWrites
    <3> HIDE DEF mine
    <3> QED BY <3>1, Zenon DEF HealthInv, HealthTypes, PassRecord
  <2>2. CASE s \in mine
    BY <1>1, <1>3, <1>4, <2>1, <2>2, Zenon DEF SiteInv, PassOpen, TestOpen, Settled, TellsOf, StandsAt
  <2>3. CASE s \notin mine
    BY <1>1, <1>3, <1>4, <2>1, <2>3, Zenon DEF SiteInv, PassOpen, TestOpen, Settled, TellsOf, StandsAt
  <2> QED BY <2>2, <2>3, Zenon
<1>5. CASE ~(mine \subseteq Live)
  <2>1. probing'.step = "idle" /\ s \notin written
    BY <1>5 DEF PassWrites, IdlePass
  <2>2. row'[s] = row[s]
    BY <1>1, <2>1, Zenon
  <2> QED BY <1>1, <1>3, <2>1, <2>2, Zenon DEF SiteInv, PassOpen, TestOpen, Settled, TellsOf, StandsAt
<1> QED BY <1>4, <1>5, Zenon

\* The notice of an edge makes the newest notice that of the new result.
LEMMA NoticeOfAnEdge ==
    ASSUME NEW s \in Probed, HealthTypes, NEW was, NEW got \in Found, TellsOf(s, was),
           told' = Notified(s, ClassifyTransition(was, got))
    PROVE  (got = "failed") <=> (told'[s] = "site_down")
BY Zenon DEF HealthTypes, Found, TellsOf, Notified, ClassifyTransition

\* A notice concerns its site alone, and a lost one disturbs it.
LEMMA PassNotifiesKeeps ==
    ASSUME HealthInv, NEW x \in Probed, NEW lost \in BOOLEAN, PassNotifies(x, lost),
           NEW s \in Probed \ disturbed'
    PROVE  SiteInv(s)'
<1>1. /\ probing.step = "notify" /\ x \in probing.left /\ UNCHANGED <<row, test>>
      /\ s \in Probed \ disturbed
      /\ s = x => ~lost /\ told' = Notified(s, ClassifyTransition(probing.was[s], probing.got[s]))
  BY Zenon DEF PassNotifies
<1>2. SiteInv(s) /\ HealthTypes /\ probing.was[x] # "gone"
  BY <1>1, Zenon DEF HealthInv, HealthTypes
<1>3. \/ probing'.step = "idle" /\ probing.left = {x}
      \/ /\ probing'.step = "notify" /\ probing'.left = probing.left \ {x}
         /\ probing'.was = probing.was /\ probing'.got = probing.got
  BY <1>2, Zenon DEF PassNotifies, IdlePass, HealthTypes, PassRecord
<1>4. CASE s = x
  <2>1. /\ TellsOf(s, probing.was[s]) /\ row[s] \in {"gone", probing.got[s]} /\ probing.got[s] \in Found
        /\ ~TestOpen(s)
    BY <1>1, <1>2, <1>4, Zenon DEF SiteInv, PassOpen
  <2>2. (probing.got[s] = "failed") <=> (told'[s] = "site_down")
    BY <1>1, <1>2, <1>4, <2>1, NoticeOfAnEdge, Zenon
  <2>3. row'[s] = "gone" \/ ((row'[s] = "failed") <=> (told'[s] = "site_down"))
    BY <1>1, <2>1, <2>2, Zenon
  <2> QED BY <1>1, <1>3, <1>4, <2>1, <2>3, Zenon DEF SiteInv, PassOpen, TestOpen, Settled, TellsOf, StandsAt
<1>5. CASE s # x
  <2>1. told'[s] = told[s]
    BY <1>2, <1>5, Zenon DEF PassNotifies, Notified, HealthTypes
  <2> QED BY <1>1, <1>2, <1>3, <1>5, <2>1, Zenon DEF SiteInv, PassOpen, TestOpen, Settled, TellsOf, StandsAt
<1> QED BY <1>4, <1>5, Zenon

\* A pass with nothing to tell ends.
LEMMA PassEmptyKeeps ==
    ASSUME HealthInv, PassEmpty, NEW s \in Probed \ disturbed'
    PROVE  SiteInv(s)'
<1>1. /\ probing.step = "notify" /\ probing.left = {} /\ probing'.step = "idle"
      /\ UNCHANGED <<row, test, told>> /\ s \in Probed \ disturbed
  BY Zenon DEF PassEmpty, IdlePass
<1>2. SiteInv(s)
  BY <1>1, Zenon DEF HealthInv
<1> QED BY <1>1, <1>2, Zenon DEF SiteInv, PassOpen, TestOpen, Settled, TellsOf, StandsAt

\* A test reads the stored result; a pass that has the site open disturbs it.
LEMMA TestReadsKeeps ==
    ASSUME HealthInv, NEW x \in Probed, TestReads(x), NEW s \in Probed \ disturbed'
    PROVE  SiteInv(s)'
<1>1. /\ test.step = "idle" /\ x \in Live /\ UNCHANGED <<row, probing, told>>
      /\ test'.step = "probe" /\ test'.site = x /\ test'.was = row[x]
      /\ s \in Probed \ disturbed /\ (s = x => ~PassOpen(s))
  BY Zenon DEF TestReads
<1>2. SiteInv(s)
  BY <1>1, Zenon DEF HealthInv
<1> QED BY <1>1, <1>2, Zenon DEF SiteInv, PassOpen, TestOpen, Settled, TellsOf, StandsAt, Live

\* The test's probe finds the target up or down.
LEMMA TestProbesKeeps ==
    ASSUME HealthInv, TestProbes, NEW s \in Probed \ disturbed'
    PROVE  SiteInv(s)'
<1>1. /\ test.step = "probe" /\ UNCHANGED <<row, probing, told>> /\ s \in Probed \ disturbed
      /\ test'.step = "write" /\ test'.site = test.site /\ test'.was = test.was
      /\ test'.got \in Found
  BY Zenon DEF TestProbes, ProbeSite, Found, HealthInv, HealthTypes, TestRecord
<1>2. SiteInv(s)
  BY <1>1, Zenon DEF HealthInv
<1> QED BY <1>1, <1>2, Zenon DEF SiteInv, PassOpen, TestOpen, Settled, TellsOf, StandsAt

\* The test stores its result and tells of the edge it made.
LEMMA TestWritesKeeps ==
    ASSUME HealthInv, TestWrites, NEW s \in Probed \ disturbed'
    PROVE  SiteInv(s)'
<1>1. /\ test.step = "write" /\ test.site \in Probed /\ test'.step = "idle" /\ UNCHANGED probing
      /\ s \in Probed \ disturbed
  BY Zenon DEF TestWrites, IdleTest, HealthInv, HealthTypes
<1>2. SiteInv(s) /\ HealthTypes
  BY <1>1, Zenon DEF HealthInv
<1>3. CASE s # test.site
  <2>1. row'[s] = row[s] /\ told'[s] = told[s]
    BY <1>1, <1>2, <1>3, Zenon DEF TestWrites, Notified, HealthTypes
  <2> QED BY <1>1, <1>2, <1>3, <2>1, Zenon DEF SiteInv, PassOpen, TestOpen, Settled, TellsOf, StandsAt
<1>4. CASE s = test.site
  <2>1. ~PassOpen(s) /\ TellsOf(s, test.was) /\ test.got \in Found
    BY <1>1, <1>2, <1>4, Zenon DEF SiteInv, TestOpen, StandsAt
  <2>2. CASE s \notin Live
    <3>1. row'[s] = "gone"
      BY <1>4, <2>2, Zenon DEF TestWrites, Live
    <3> QED BY <1>1, <2>1, <3>1, Zenon DEF SiteInv, PassOpen, TestOpen, Settled
  <2>3. CASE s \in Live
    <3>1. row'[s] = test.got
      BY <1>2, <1>4, <2>3, Zenon DEF TestWrites, HealthTypes
    <3>2. told' = Notified(s, ClassifyTransition(test.was, test.got))
      BY <1>4, <2>3, Zenon DEF TestWrites
    <3>3. (test.got = "failed") <=> (told'[s] = "site_down")
      BY <1>2, <2>1, <3>2, NoticeOfAnEdge, Zenon
    <3> QED BY <1>1, <2>1, <3>1, <3>3, Zenon DEF SiteInv, PassOpen, TestOpen, Settled, TellsOf
  <2> QED BY <2>2, <2>3, Zenon
<1> QED BY <1>3, <1>4, Zenon

\* A target that flaps changes no row; a deleted site is not at rest.
LEMMA WorldKeepsHealth ==
    ASSUME HealthInv, NEW x \in Probed, TargetFlaps(x) \/ SiteGoes(x), NEW s \in Probed \ disturbed'
    PROVE  SiteInv(s)'
<1>1. /\ UNCHANGED <<probing, test, told>> /\ s \in Probed \ disturbed
      /\ row'[s] = row[s] \/ row'[s] = "gone"
  BY Zenon DEF TargetFlaps, SiteGoes, HealthInv, HealthTypes
<1>2. SiteInv(s)
  BY <1>1, Zenon DEF HealthInv
<1> QED BY <1>1, <1>2, Zenon DEF SiteInv, PassOpen, TestOpen, Settled, TellsOf, StandsAt

\* Where every undisturbed site stands is inductive.
LEMMA HealthInductive == HealthInv /\ [HealthNext]_healthVars => HealthInv'
<1> SUFFICES ASSUME HealthInv, [HealthNext]_healthVars PROVE HealthInv'
  BY Zenon
<1>1. HealthTypes'
  BY HealthTypesKept, Zenon DEF HealthInv
<1>2. ASSUME NEW s \in Probed \ disturbed' PROVE SiteInv(s)'
  <2>1. CASE UNCHANGED healthVars
    BY <2>1, s \in Probed \ disturbed, Zenon
       DEF healthVars, HealthInv, SiteInv, PassOpen, TestOpen, Settled, TellsOf, StandsAt
  <2> QED
    BY <2>1, PassReadsKeeps, PassProbesKeeps, PassWritesKeeps, PassNotifiesKeeps, PassEmptyKeeps,
       TestReadsKeeps, TestProbesKeeps, TestWritesKeeps, WorldKeepsHealth, Zenon DEF HealthNext, PassStep
<1> QED BY <1>1, <1>2, Zenon DEF HealthInv

\* What the console shows about an undisturbed site agrees with its newest
\* notice (site-health/route.ts, test/route.ts), for any sites and any number
\* of outages and tests.
THEOREM NoticesMatchHealth == HealthSpec => []NoticeMatchesHealth
<1>1. HealthInv => NoticeMatchesHealth
  BY Zenon DEF HealthInv, NoticeMatchesHealth, SiteInv, TellsOf
<1> QED BY <1>1, HealthInitially, HealthInductive, PTL DEF HealthSpec

\* A notice is never followed by the same notice about an undisturbed site
\* (lib/notifications.ts: a site that stays down does not notify every cycle).
THEOREM NoticesNotRepeated == HealthSpec => NoRepeatedNotice
<1>1. HealthInv /\ [HealthNext]_healthVars =>
        [\A s \in Probed \ disturbed':
           probing.step = "notify" /\ s \in probing.left /\ s \notin probing'.left
           /\ ClassifyTransition(probing.was[s], probing.got[s]) # "none"
           => told[s] # ClassifyTransition(probing.was[s], probing.got[s])]_healthVars
  <2> SUFFICES ASSUME HealthInv, HealthNext, NEW s \in Probed \ disturbed',
                      probing.step = "notify", s \in probing.left
               PROVE  told[s] # ClassifyTransition(probing.was[s], probing.got[s])
                        \/ ClassifyTransition(probing.was[s], probing.got[s]) = "none"
    BY Zenon
  <2>1. disturbed \subseteq disturbed'
    BY Zenon DEF HealthNext, PassStep, PassReads, PassProbes, PassWrites, PassNotifies, PassEmpty,
           TestReads, TestProbes, TestWrites, TargetFlaps, SiteGoes
  <2>2. SiteInv(s) /\ PassOpen(s)
    BY <2>1, Zenon DEF HealthInv, HealthTypes, PassOpen
  <2> QED BY <2>2, Zenon DEF SiteInv, TellsOf, ClassifyTransition
<1> QED BY <1>1, HealthInitially, HealthInductive, PTL DEF HealthSpec, NoRepeatedNotice

-----------------------------------------------------------------------------
\* Heartbeats.

\* In the cloud the daily heartbeat is as old as the work it stands for.
BeatInv ==
    /\ stamp \in [Customers -> [PlatformJobs -> Int]] /\ work \in [Customers -> Int]
    /\ cloud => alive \subseteq Customers /\ \A t \in Customers : stamp[t]["daily"] = work[t]

\* A heartbeat is stamped on one job of one tenant.
LEMMA StampType ==
    ASSUME BeatInv, NEW t \in Customers
    PROVE  [stamp EXCEPT ![t][pass.job] = 0] \in [Customers -> [PlatformJobs -> Int]]
<1> DEFINE beats == [stamp[t] EXCEPT ![pass.job] = 0]
<1>1. beats \in [PlatformJobs -> Int]
  <2>1. stamp[t] \in [PlatformJobs -> Int]
    BY Zenon DEF BeatInv
  <2>2. beats = [j \in PlatformJobs |-> IF j = pass.job THEN 0 ELSE stamp[t][j]]
    BY <2>1, Zenon
  <2>3. \A j \in PlatformJobs : (IF j = pass.job THEN 0 ELSE stamp[t][j]) \in Int
    BY <2>1
  <2> HIDE DEF beats
  <2> QED BY <2>2, <2>3, Zenon
<1>2. [stamp EXCEPT ![t][pass.job] = 0] = [stamp EXCEPT ![t] = beats]
  BY Zenon
<1> HIDE DEF beats
<1> QED BY <1>1, <1>2, Zenon DEF BeatInv

\* No job has run, or the heartbeat and the work are of one transaction.
LEMMA BeatInductive ==
    /\ PlatformInit => BeatInv
    /\ BeatInv /\ [PlatformNext]_platVars => BeatInv'
<1>1. PlatformInit => BeatInv
  BY DEF PlatformInit, BeatInv, Tenants, PlatformJobs, Never
<1>2. ASSUME BeatInv, [PlatformNext]_platVars PROVE BeatInv'
  <2> USE DEF BeatInv
  <2>1. ASSUME NEW j \in PlatformJobs, CronHit(j) PROVE BeatInv'
    BY <1>2, <2>1, Zenon DEF CronHit
  <2>2. ASSUME NEW j \in PlatformJobs, Period(j) PROVE BeatInv'
    <3>1. \A t \in Customers : stamp'[t] = [stamp[t] EXCEPT ![j] = Older(@, j)]
      BY <2>2, Zenon DEF Period
    <3>2. \A a \in Int : Older(a, j) \in Int
      BY DEF Older
    <3>3. stamp' \in [Customers -> [PlatformJobs -> Int]] /\ work' \in [Customers -> Int]
      BY <1>2, <2>2, <3>2, Zenon DEF Period
    <3>4. CASE j = "daily"
      <4>1. \A t \in Customers : stamp'[t]["daily"] = Older(stamp[t]["daily"], "daily")
        BY <1>2, <3>1, <3>4, Zenon DEF PlatformJobs
      <4>2. \A t \in Customers : work'[t] = Older(work[t], "daily")
        BY <2>2, <3>4, Zenon DEF Period
      <4> QED BY <1>2, <2>2, <3>3, <4>1, <4>2 DEF Period
    <3>5. CASE j # "daily"
      <4>1. \A t \in Customers : stamp'[t]["daily"] = stamp[t]["daily"]
        BY <1>2, <3>1, <3>5, ZenonT(60) DEF PlatformJobs
      <4> QED BY <1>2, <2>2, <3>3, <3>5, <4>1, Zenon DEF Period
    <3> QED BY <3>4, <3>5, Zenon
  <2>3. ASSUME NEW t \in Customers, RunJob(t) PROVE BeatInv'
    <3>1. stamp' \in [Customers -> [PlatformJobs -> Int]]
      BY <1>2, <2>3, StampType, Zenon DEF RunJob
    <3>2. \A x \in Customers : stamp'[x]["daily"] = IF x = t /\ pass.job = "daily" THEN 0 ELSE stamp[x]["daily"]
      BY <1>2, <2>3, Zenon DEF RunJob, PlatformJobs
    <3>3. cloud => \A x \in Customers : work'[x] = IF x = t /\ pass.job = "daily" THEN 0 ELSE work[x]
      BY <1>2, <2>3, Zenon DEF RunJob
    <3> QED BY <1>2, <2>3, <3>1, <3>2, <3>3 DEF RunJob
  <2>4. ASSUME NEW t \in Customers, JobThrows(t) PROVE BeatInv'
    <3>1. stamp' \in [Customers -> [PlatformJobs -> Int]]
      BY <1>2, <2>4, StampType, Zenon DEF JobThrows
    <3>2. cloud => \A x \in Customers : stamp'[x]["daily"] = stamp[x]["daily"]
      BY <1>2, <2>4, Zenon DEF JobThrows, StampKept, PlatformJobs
    <3> QED BY <1>2, <2>4, <3>1, <3>2, Zenon DEF JobThrows
  <2>5. ASSUME NEW t \in Customers, TenantGoes(t) PROVE BeatInv'
    BY <1>2, <2>5, Zenon DEF TenantGoes
  <2>6. CASE UNCHANGED <<cloud, cronVars>>
    BY <1>2, <2>6, Zenon DEF cronVars
  <2>7. \/ \E j \in PlatformJobs : CronHit(j) \/ Period(j)
        \/ \E t \in Customers : RunJob(t) \/ JobThrows(t) \/ TenantGoes(t)
        \/ UNCHANGED <<cloud, cronVars>>
    BY <1>2, Zenon DEF PlatformNext, platVars, AddCommits, AddChecks, UpdateTenant, RemovesOne, EnvelopeExpires,
              RemovalDeletes, RemovalChecks
  <2> QED BY <2>1, <2>2, <2>3, <2>4, <2>5, <2>6, <2>7, Zenon
<1> QED BY <1>1, <1>2, Zenon

\* A tenant of the cloud whose daily job stopped committing its work is told
\* so by its console (heartbeat.ts), whichever tenants' runs threw or went.
THEOREM StoppedFlagged == PlatformSpec => []StoppedIsFlagged
<1>1. BeatInv => StoppedIsFlagged
  BY DEF BeatInv, StoppedIsFlagged, CronHealth, Ran, DailyLimit, Never
<1> QED BY <1>1, BeatInductive, PTL DEF PlatformSpec

-----------------------------------------------------------------------------
\* Caps.

Adding == {a \in Adders : adder[a] = "adding"}

\* Whoever passed the check passed it below a cap no looser than the loosest:
\* what is used and what is being added stay within the cap and the requests.
CapInv ==
    /\ adder \in [Adders -> {"idle", "adding", "failed"}]
    /\ used \in Nat /\ cap \in 1..Uncapped /\ loosest \in 1..Uncapped /\ envelope \in 0..Uncapped
    /\ loosest # Uncapped => used + Cardinality(Adding) < loosest + Cardinality(Adders)

\* The requests under way are among the requests.
LEMMA AddingBounded ==
    ASSUME NEW S \in SUBSET Adders
    PROVE  /\ IsFiniteSet(S) /\ Cardinality(S) \in Nat /\ Cardinality(Adders) \in Nat
           /\ Cardinality(S) <= Cardinality(Adders)
BY PlatformAssumption, FS_Subset, FS_CardinalityType, Zenon

\* A check passes below the cap; a commit turns a request into a thing used.
LEMMA CapInductive ==
    /\ PlatformInit => CapInv
    /\ CapInv /\ [PlatformNext]_platVars => CapInv'
<1> USE PlatformAssumption
<1>1. PlatformInit => CapInv
  <2> SUFFICES ASSUME PlatformInit PROVE CapInv
    BY Zenon
  <2>1. Adding = {}
    BY Zenon DEF PlatformInit, Adding
  <2>2. Cardinality(Adding) = 0 /\ Cardinality(Adders) \in Nat
    BY <2>1, FS_EmptySet, AddingBounded, Zenon
  <2> QED BY <2>2 DEF PlatformInit, CapInv, Uncapped, NoEnvelope
<1>2. ASSUME CapInv, [PlatformNext]_platVars PROVE CapInv'
  <2>0. /\ Cardinality(Adding) \in Nat /\ Cardinality(Adding') \in Nat /\ Cardinality(Adders) \in Nat
        /\ Cardinality(Adding') <= Cardinality(Adders)
    BY AddingBounded, Adding \in SUBSET Adders, Adding' \in SUBSET Adders, Zenon DEF Adding
  <2>1. ASSUME NEW a \in Adders, NEW read \in {cap, Uncapped}, AddChecks(a, read) PROVE CapInv'
    <3> DEFINE e == TenantEnvelope(read)
    <3>1. e \in 1..Uncapped
      BY <1>2 DEF TenantEnvelope, CapInv, NoEnvelope, Uncapped
    <3>2. /\ envelope' = e /\ loosest' = IF e > loosest THEN e ELSE loosest
          /\ e = Uncapped \/ used < e
          /\ UNCHANGED <<cap, used>>
      BY <2>1, Zenon DEF AddChecks, Looser, WithinLimit
    <3>3. adder' \in [Adders -> {"idle", "adding", "failed"}]
      BY <1>2, <2>1, Zenon DEF AddChecks, CapInv
    <3> HIDE DEF e
    <3> QED BY <1>2, <2>0, <3>1, <3>2, <3>3 DEF CapInv, Uncapped
  <2>2. ASSUME NEW a \in Adders, AddCommits(a) PROVE CapInv'
    <3>1. Adding' = Adding \ {a}
      BY <1>2, <2>2, Zenon DEF AddCommits, Adding, CapInv
    <3>2. CASE adder[a] = "adding"
      <4>1. a \in Adding /\ IsFiniteSet(Adding)
        BY <3>2, AddingBounded, Zenon DEF Adding
      <4>2. Cardinality(Adding') = Cardinality(Adding) - 1
        BY <3>1, <4>1, FS_RemoveElement, Zenon
      <4> QED BY <1>2, <2>0, <2>2, <3>2, <4>2 DEF AddCommits, CapInv, Uncapped
    <3>3. CASE adder[a] # "adding"
      <4>1. Adding' = Adding
        BY <3>1, <3>3, Zenon DEF Adding
      <4> QED BY <1>2, <2>2, <3>3, <4>1, Zenon DEF AddCommits, CapInv
    <3> QED BY <3>2, <3>3, Zenon
  <2>3. CASE RemovesOne
    <3>1. Adding' = Adding
      BY <2>3, Zenon DEF RemovesOne, Adding
    <3> QED BY <1>2, <2>0, <2>3, <3>1 DEF RemovesOne, CapInv, Uncapped
  <2>4. ASSUME NEW raw \in 0..MaxCap, UpdateTenant(raw) PROVE CapInv'
    <3>1. Adding' = Adding
      BY <2>4, Zenon DEF UpdateTenant, Adding
    <3> QED BY <1>2, <2>4, <3>1 DEF UpdateTenant, ParseLimits, CapInv, Uncapped
  <2>5. CASE EnvelopeExpires
    <3>1. Adding' = Adding
      BY <2>5, Zenon DEF EnvelopeExpires, Adding
    <3> QED BY <1>2, <2>5, <3>1 DEF EnvelopeExpires, NoEnvelope, CapInv, Uncapped
  <2>6. CASE UNCHANGED capVars
    BY <1>2, <2>6, Zenon DEF capVars, CapInv, Adding
  <2>7. \/ \E a \in Adders : AddCommits(a) \/ \E read \in {cap, Uncapped} : AddChecks(a, read)
        \/ \E raw \in 0..MaxCap : UpdateTenant(raw)
        \/ RemovesOne \/ EnvelopeExpires \/ UNCHANGED capVars
    BY <1>2, Zenon DEF PlatformNext, platVars, CronHit, Period, RunJob, JobThrows, TenantGoes, RemovalDeletes, RemovalChecks
  <2> QED BY <2>1, <2>2, <2>3, <2>4, <2>5, <2>6, <2>7, Zenon
<1> QED BY <1>1, <1>2, Zenon

\* The count passes the loosest cap a check was made against by fewer than the
\* requests that run at once (assertWithinLimit counts before its caller
\* inserts), however the cap, its cached copy and the count change meanwhile.
THEOREM CapsOvershootBounded == PlatformSpec => []CapOvershoot
<1>1. CapInv => CapOvershoot
  <2> SUFFICES ASSUME CapInv PROVE CapOvershoot
    BY Zenon
  <2>1. Cardinality(Adding) \in Nat /\ Cardinality(Adders) \in Nat
    BY AddingBounded, Adding \in SUBSET Adders, Zenon DEF Adding
  <2> QED BY <2>1, PlatformAssumption DEF CapInv, CapOvershoot, Uncapped
<1> QED BY <1>1, CapInductive, PTL DEF PlatformSpec

-----------------------------------------------------------------------------
\* Recordings.

Writers == [conn : Connectors \cup {NoConnector}, live : BOOLEAN, left : Nat]
Pushes == [conn : Connectors, keys : SUBSET RecKeys, sweep : BOOLEAN]
Acks == [keys : SUBSET RecKeys, swept : BOOLEAN]
Reports == [key : RecKeys, cut : BOOLEAN]

RecTypes ==
    /\ recFormat \in [RecKeys -> {"rrweb", "guac", "video"}]
    /\ recRow \in [RecKeys -> Rows] /\ recHeld \in [RecKeys -> BOOLEAN]
    /\ recSite \in [RecKeys -> Connectors \cup {NoConnector}]
    /\ recMoved \in Nat /\ recOnline \subseteq Connectors
    /\ recBytes \in [Connectors -> SUBSET RecKeys]
    /\ writer \in [RecKeys -> Writers]
    /\ reports \subseteq Reports /\ pushes \subseteq Pushes /\ acks \subseteq Acks
    /\ retention \in BOOLEAN

\* Nothing is in flight at first.
LEMMA RecTypesInitially == RecInit => RecTypes
<1> SUFFICES ASSUME RecInit PROVE RecTypes
  BY Zenon
<1>1. NoRow \in Rows /\ [NoRow EXCEPT !.there = TRUE] \in Rows
  BY Zenon DEF NoRow, Rows
<1>2. NoWriter \in Writers /\ OverWriter \in Writers
  BY RecAssumption, Zenon DEF NoWriter, OverWriter, Writers
<1> QED BY <1>1, <1>2, Zenon DEF RecInit, RecTypes

\* A push is made of what a connector owes, and of the window of the moment.
LEMMA NewPush ==
    ASSUME RecTypes, RecNext, NEW p \in pushes', p \notin pushes
    PROVE  /\ p \in Pushes /\ p.sweep = retention
           /\ \A k \in p.keys : recSite[k] = p.conn /\ (recRow[k].pending \/ recHeld[k] \/ k \in asked')
           /\ UNCHANGED recSite
<1> DEFINE Made(c, keys) ==
      /\ c \in Connectors /\ p \in Policy(c, keys) /\ keys \subseteq RecKeys
      /\ \A k \in keys : recSite[k] = c /\ (recRow[k].pending \/ recHeld[k] \/ k \in asked')
<1>1. ASSUME NEW c, NEW keys, Made(c, keys)
      PROVE  /\ p \in Pushes /\ p.sweep = retention
             /\ \A k \in p.keys : recSite[k] = p.conn /\ (recRow[k].pending \/ recHeld[k] \/ k \in asked')
  <2>1. p = [conn |-> c, keys |-> keys, sweep |-> retention]
    BY <1>1, Zenon DEF Policy
  <2> QED BY <1>1, <2>1, Zenon DEF Pushes, RecTypes
<1>2. ASSUME NEW k \in RecKeys, RequestErasure(k) PROVE (\E c, keys : Made(c, keys)) /\ UNCHANGED recSite
  <2>1. /\ recSite[k] \in recOnline /\ p \in Policy(recSite[k], PendingErasures(recSite[k]) \cup {k})
        /\ k \in asked' /\ UNCHANGED recSite
    BY <1>2, Zenon DEF RequestErasure, PushOf
  <2>2. Made(recSite[k], PendingErasures(recSite[k]) \cup {k})
    BY <2>1, Zenon DEF PendingErasures, RecTypes
  <2> QED BY <2>1, <2>2, Zenon
<1>3. ASSUME ReconcilePendingErasures PROVE (\E c, keys : Made(c, keys)) /\ UNCHANGED recSite
  <2>1. PICK c \in recOnline : p \in Policy(c, CommittedErasures(c))
    BY <1>3, Zenon DEF ReconcilePendingErasures
  <2>2. Made(c, CommittedErasures(c))
    BY <2>1, Zenon DEF CommittedErasures, PendingErasures, RecTypes
  <2> QED BY <1>3, <2>2, Zenon DEF ReconcilePendingErasures
<1>4. ASSUME NEW c \in Connectors, Connect(c) \/ PushConnectorPolicy(c)
      PROVE  (\E d, keys : Made(d, keys)) /\ UNCHANGED recSite
  <2>1. p \in Policy(c, CommittedErasures(c)) /\ UNCHANGED recSite
    BY <1>4, Zenon DEF Connect, PushConnectorPolicy, PushOf
  <2>2. Made(c, CommittedErasures(c))
    BY <2>1, Zenon DEF CommittedErasures, PendingErasures, RecTypes
  <2> QED BY <2>1, <2>2, Zenon
<1>5. \/ \E k \in RecKeys : RequestErasure(k)
      \/ ReconcilePendingErasures
      \/ \E c \in Connectors : Connect(c) \/ PushConnectorPolicy(c)
  BY Zenon DEF RecNext, CommitRequest, ExpireRequest, StartRecording, SendChunk, ReportTruncated, EndRecording,
         Age, Replay, MoveSite, Disconnect, SearchOnConnector, ApplyRecordingPolicy, ErasureAck, AckLost,
         Ingest, ReportLost, SetRetention, RecordingRetention, SearchCandidates, ListRecordings
<1> HIDE DEF Made
<1> QED BY <1>1, <1>2, <1>3, <1>4, <1>5, Zenon

\* An acknowledgement is made by the application of a push.
LEMMA NewAck ==
    ASSUME RecTypes, RecNext, NEW a \in acks', a \notin acks
    PROVE  \E p \in pushes : \E failed \in SUBSET recBytes[p.conn] :
             /\ ApplyRecordingPolicy(p, failed) /\ a.keys = p.keys \ failed /\ a \in Acks
<1>1. PICK p \in pushes : \E failed \in SUBSET recBytes[p.conn] : ApplyRecordingPolicy(p, failed)
  BY Zenon DEF RecNext, RequestErasure, CommitRequest, ExpireRequest, StartRecording, SendChunk, ReportTruncated,
         EndRecording, Age, Replay, MoveSite, Connect, Disconnect, PushConnectorPolicy, SearchOnConnector,
         ErasureAck, AckLost, Ingest, ReportLost, ReconcilePendingErasures, SetRetention, RecordingRetention,
         SearchCandidates, ListRecordings
<1>2. PICK failed \in SUBSET recBytes[p.conn] : ApplyRecordingPolicy(p, failed)
  BY <1>1, Zenon
<1>3. a.keys = p.keys \ failed /\ a \in Acks
  <2>1. p \in Pushes
    BY Zenon DEF RecTypes
  <2>2. PICK b \in BOOLEAN : a = [keys |-> p.keys \ failed, swept |-> b]
    BY <1>2, Zenon DEF ApplyRecordingPolicy, Confirmed
  <2> QED BY <2>1, <2>2, Zenon DEF Pushes, Acks
<1> QED BY <1>2, <1>3, Zenon

\* What a step does to a row, other than removing it.
LEMMA RowSteps ==
    ASSUME RecTypes, RecNext, NEW k \in RecKeys
    PROVE  \/ recRow'[k] = recRow[k]
           \/ recRow'[k] = NoRow
           \/ recRow'[k] = [recRow[k] EXCEPT !.pending = TRUE] /\ recHeld[k]
           \/ \E cut \in BOOLEAN : recRow'[k] = [NoRow EXCEPT !.there = TRUE, !.cut = cut] /\ ~recRow[k].there
           \/ recRow'[k] = [recRow[k] EXCEPT !.cut = TRUE] /\ recRow[k].there
           \/ recRow'[k] = [recRow[k] EXCEPT !.lastOld = FALSE] /\ recRow[k].there
           \/ recRow'[k] = [recRow[k] EXCEPT !.startOld = TRUE] /\ recRow[k].there
           \/ recRow'[k] = [recRow[k] EXCEPT !.lastOld = TRUE] /\ recRow[k].startOld
<1>1. ASSUME NEW x \in RecKeys, CommitRequest(x)
      PROVE  recRow'[k] = recRow[k] \/ (recRow'[k] = [recRow[k] EXCEPT !.pending = TRUE] /\ recHeld[k])
  <2>1. CASE k = x
    <3>1. recRow' = [recRow EXCEPT ![k] = [recRow[k] EXCEPT !.pending = TRUE]] /\ recHeld[k]
      BY <1>1, <2>1, Zenon DEF CommitRequest
    <3> QED BY <3>1, Zenon DEF RecTypes
  <2>2. CASE k # x
    <3>1. PICK r : recRow' = [recRow EXCEPT ![x] = r]
      BY <1>1, Zenon DEF CommitRequest
    <3>2. recRow'[k] = recRow[k]
      BY <2>2, <3>1, Zenon DEF RecTypes
    <3> QED BY <3>2, Zenon
  <2> QED BY <2>1, <2>2, Zenon
<1>2. ASSUME NEW x \in RecKeys, Age(x)
      PROVE  \/ recRow'[k] = recRow[k]
             \/ recRow'[k] = [recRow[k] EXCEPT !.startOld = TRUE] /\ recRow[k].there
             \/ recRow'[k] = [recRow[k] EXCEPT !.lastOld = TRUE] /\ recRow[k].startOld
  BY <1>2, ZenonT(60) DEF Age, RecTypes
<1>3. ASSUME NEW r \in reports, Ingest(r)
      PROVE  \/ recRow'[k] = recRow[k]
             \/ \E cut \in BOOLEAN : recRow'[k] = [NoRow EXCEPT !.there = TRUE, !.cut = cut] /\ ~recRow[k].there
             \/ recRow'[k] = [recRow[k] EXCEPT !.cut = TRUE] /\ recRow[k].there
             \/ recRow'[k] = [recRow[k] EXCEPT !.lastOld = FALSE] /\ recRow[k].there
  <2>1. r \in Reports
    BY Zenon DEF RecTypes
  <2>2. r.key \in RecKeys /\ r.cut \in BOOLEAN
    BY <2>1, Zenon DEF Reports
  <2>3. recRow'[k] = recRow[k] \/ recRow'[k] = Ingested(recRow[k], r.cut)
    BY <1>3, <2>2, Zenon DEF Ingest, RecTypes
  <2> QED BY <2>2, <2>3, Zenon DEF Ingested
<1>4. ASSUME NEW a \in acks, ErasureAck(a) PROVE recRow'[k] = recRow[k] \/ recRow'[k] = NoRow
  BY <1>4, Zenon DEF ErasureAck
<1>5. ASSUME RecordingRetention PROVE recRow'[k] = recRow[k] \/ recRow'[k] = NoRow
  BY <1>5, Zenon DEF RecordingRetention
<1>6. \/ \E x \in RecKeys : CommitRequest(x) \/ Age(x)
      \/ \E r \in reports : Ingest(r)
      \/ \E a \in acks : ErasureAck(a)
      \/ RecordingRetention
      \/ UNCHANGED recRow
  BY Zenon DEF RecNext, RequestErasure, ExpireRequest, StartRecording, SendChunk, ReportTruncated, EndRecording,
         Replay, MoveSite, Connect, Disconnect, PushConnectorPolicy, SearchOnConnector, ApplyRecordingPolicy,
         AckLost, ReportLost, ReconcilePendingErasures, SetRetention, SearchCandidates, ListRecordings
<1> QED BY <1>1, <1>2, <1>3, <1>4, <1>5, <1>6, Zenon

\* The types of the index, the stores and the frames in flight.
LEMMA RecTypesKept ==
    ASSUME RecTypes, [RecNext]_recVars
    PROVE  RecTypes'
<1>1. CASE UNCHANGED recVars
  BY <1>1, Zenon DEF recVars, RecTypes
<1>2. CASE RecNext
  <2>1. /\ recFormat' \in [RecKeys -> {"rrweb", "guac", "video"}] /\ retention' \in BOOLEAN
    BY <1>2, ZenonT(60) DEF RecTypes, RecNext, RequestErasure, CommitRequest, ExpireRequest, StartRecording, SendChunk,
         ReportTruncated, EndRecording, Age, Replay, MoveSite, Connect, Disconnect, PushConnectorPolicy,
         SearchOnConnector, ApplyRecordingPolicy, ErasureAck, AckLost, Ingest, ReportLost,
         ReconcilePendingErasures, SetRetention, RecordingRetention, SearchCandidates, ListRecordings
  <2>2. recRow' \in [RecKeys -> Rows]
    <3>1. ASSUME NEW k \in RecKeys PROVE recRow'[k] \in Rows
      <4>1. recRow[k] \in Rows /\ NoRow \in Rows
        BY Zenon DEF RecTypes, NoRow, Rows
      <4>2. [NoRow EXCEPT !.there = TRUE] \in Rows
        BY Zenon DEF NoRow, Rows
      <4>3. \A cut \in BOOLEAN : [NoRow EXCEPT !.there = TRUE, !.cut = cut] \in Rows
        BY Zenon DEF NoRow, Rows
      <4>4. /\ [recRow[k] EXCEPT !.pending = TRUE] \in Rows
            /\ [recRow[k] EXCEPT !.cut = TRUE] \in Rows
            /\ [recRow[k] EXCEPT !.lastOld = FALSE] \in Rows
            /\ [recRow[k] EXCEPT !.startOld = TRUE] \in Rows
            /\ [recRow[k] EXCEPT !.lastOld = TRUE] \in Rows
        BY <4>1, Zenon DEF Rows
      <4> QED BY <1>2, <4>1, <4>2, <4>3, <4>4, RowSteps, Zenon
    <3>2. recRow' = [k \in RecKeys |-> recRow'[k]]
      BY <1>2, ZenonT(60) DEF RecTypes, RecNext, RequestErasure, CommitRequest, ExpireRequest, StartRecording, SendChunk,
         ReportTruncated, EndRecording, Age, Replay, MoveSite, Connect, Disconnect, PushConnectorPolicy,
         SearchOnConnector, ApplyRecordingPolicy, ErasureAck, AckLost, Ingest, ReportLost,
         ReconcilePendingErasures, SetRetention, RecordingRetention, SearchCandidates, ListRecordings
    <3> QED BY <3>1, <3>2, Zenon
  <2>3. recHeld' \in [RecKeys -> BOOLEAN] /\ recMoved' \in Nat
    <3>1. \/ UNCHANGED recHeld \/ \E k \in RecKeys, b \in BOOLEAN : recHeld' = [recHeld EXCEPT ![k] = b]
      BY <1>2, ZenonT(60) DEF RecNext, RequestErasure, CommitRequest, ExpireRequest, StartRecording, SendChunk,
         ReportTruncated, EndRecording, Age, Replay, MoveSite, Connect, Disconnect, PushConnectorPolicy,
         SearchOnConnector, ApplyRecordingPolicy, ErasureAck, AckLost, Ingest, ReportLost,
         ReconcilePendingErasures, SetRetention, RecordingRetention, SearchCandidates, ListRecordings
    <3>2. recMoved' = recMoved \/ recMoved' = recMoved + 1
      BY <1>2, Zenon DEF RecNext, RequestErasure, CommitRequest, ExpireRequest, StartRecording, SendChunk,
         ReportTruncated, EndRecording, Age, Replay, MoveSite, Connect, Disconnect, PushConnectorPolicy,
         SearchOnConnector, ApplyRecordingPolicy, ErasureAck, AckLost, Ingest, ReportLost,
         ReconcilePendingErasures, SetRetention, RecordingRetention, SearchCandidates, ListRecordings
    <3> QED BY <3>1, <3>2 DEF RecTypes
  <2>4. recSite' \in [RecKeys -> Connectors \cup {NoConnector}] /\ recOnline' \subseteq Connectors
    <3>1. \/ UNCHANGED recSite
          \/ \E k \in RecKeys, c \in Connectors \cup {NoConnector} : recSite' = [recSite EXCEPT ![k] = c]
      BY <1>2, Zenon DEF RecNext, RequestErasure, CommitRequest, ExpireRequest, StartRecording, SendChunk,
         ReportTruncated, EndRecording, Age, Replay, MoveSite, Connect, Disconnect, PushConnectorPolicy,
         SearchOnConnector, ApplyRecordingPolicy, ErasureAck, AckLost, Ingest, ReportLost,
         ReconcilePendingErasures, SetRetention, RecordingRetention, SearchCandidates, ListRecordings
    <3>2. recOnline' \subseteq recOnline \/ \E c \in Connectors : recOnline' = recOnline \cup {c}
      BY <1>2, Zenon DEF RecNext, RequestErasure, CommitRequest, ExpireRequest, StartRecording, SendChunk,
         ReportTruncated, EndRecording, Age, Replay, MoveSite, Connect, Disconnect, PushConnectorPolicy,
         SearchOnConnector, ApplyRecordingPolicy, ErasureAck, AckLost, Ingest, ReportLost,
         ReconcilePendingErasures, SetRetention, RecordingRetention, SearchCandidates, ListRecordings
    <3> QED BY <3>1, <3>2, Zenon DEF RecTypes
  <2>5. recBytes' \in [Connectors -> SUBSET RecKeys]
    <3>1. ASSUME NEW p \in pushes, NEW failed \in SUBSET recBytes[p.conn], ApplyRecordingPolicy(p, failed)
          PROVE  recBytes' \in [Connectors -> SUBSET RecKeys]
      BY <3>1, Zenon DEF ApplyRecordingPolicy, RecTypes
    <3>2. ASSUME NEW k \in RecKeys, SendChunk(k) PROVE recBytes' \in [Connectors -> SUBSET RecKeys]
      BY <3>2, Zenon DEF SendChunk, RecTypes
    <3>3. \/ \E p \in pushes : \E failed \in SUBSET recBytes[p.conn] : ApplyRecordingPolicy(p, failed)
          \/ \E k \in RecKeys : SendChunk(k)
          \/ UNCHANGED recBytes
      BY <1>2, Zenon DEF RecNext, RequestErasure, CommitRequest, ExpireRequest, StartRecording, ReportTruncated,
         EndRecording, Age, Replay, MoveSite, Connect, Disconnect, PushConnectorPolicy, SearchOnConnector,
         ErasureAck, AckLost, Ingest, ReportLost, ReconcilePendingErasures, SetRetention, RecordingRetention,
         SearchCandidates, ListRecordings
    <3> QED BY <3>1, <3>2, <3>3, Zenon DEF RecTypes
  <2>6. writer' \in [RecKeys -> Writers] /\ reports' \subseteq Reports
    <3>1. ASSUME NEW k \in RecKeys, StartRecording(k) PROVE writer' \in [RecKeys -> Writers] /\ UNCHANGED reports
      <4>1. [conn |-> recSite[k], live |-> TRUE, left |-> MaxChunks] \in Writers
        BY RecAssumption, Zenon DEF Writers, RecTypes
      <4> QED BY <3>1, <4>1, Zenon DEF StartRecording, RecTypes
    <3>2. ASSUME NEW k \in RecKeys, SendChunk(k)
          PROVE  writer' \in [RecKeys -> Writers] /\ reports' = reports \cup {[key |-> k, cut |-> FALSE]}
      <4>1. writer[k] \in Writers /\ writer[k].left > 0
        BY <3>2, Zenon DEF SendChunk, RecTypes
      <4>2. [writer[k] EXCEPT !.left = writer[k].left - 1] \in Writers
        BY <4>1 DEF Writers
      <4>3. writer' = [writer EXCEPT ![k] = [writer[k] EXCEPT !.left = writer[k].left - 1]]
        BY <3>2, Zenon DEF SendChunk
      <4> QED BY <3>2, <4>2, <4>3, Zenon DEF SendChunk, RecTypes
    <3>3. ASSUME NEW k \in RecKeys, ReportTruncated(k) \/ EndRecording(k)
          PROVE  writer' \in [RecKeys -> Writers] /\ reports' \subseteq reports \cup {[key |-> k, cut |-> TRUE]}
      <4>1. writer[k] \in Writers
        BY Zenon DEF RecTypes
      <4>2. [writer[k] EXCEPT !.live = FALSE] \in Writers
        BY <4>1, Zenon DEF Writers
      <4>3. writer' = [writer EXCEPT ![k] = [writer[k] EXCEPT !.live = FALSE]]
        BY <3>3, Zenon DEF ReportTruncated, EndRecording
      <4> QED BY <3>3, <4>2, <4>3, Zenon DEF ReportTruncated, EndRecording, RecTypes
    <3>4. \A k \in RecKeys : [key |-> k, cut |-> FALSE] \in Reports /\ [key |-> k, cut |-> TRUE] \in Reports
      BY Zenon DEF Reports
    <3>5. \/ \E k \in RecKeys : StartRecording(k) \/ SendChunk(k) \/ ReportTruncated(k) \/ EndRecording(k)
          \/ UNCHANGED writer /\ reports' \subseteq reports
      BY <1>2, ZenonT(60) DEF RecNext, RequestErasure, CommitRequest, ExpireRequest, Age, Replay, MoveSite, Connect,
         Disconnect, PushConnectorPolicy, SearchOnConnector, ApplyRecordingPolicy, ErasureAck, AckLost,
         Ingest, ReportLost, ReconcilePendingErasures, SetRetention, RecordingRetention, SearchCandidates,
         ListRecordings
    <3> QED BY <3>1, <3>2, <3>3, <3>4, <3>5, Zenon DEF RecTypes
  <2>7. pushes' \subseteq Pushes /\ acks' \subseteq Acks
    BY <1>2, NewPush, NewAck, Zenon DEF RecTypes
  <2> QED BY <2>1, <2>2, <2>3, <2>4, <2>5, <2>6, <2>7, Zenon DEF RecTypes
<1> QED BY <1>1, <1>2, Zenon

\* Rows: nothing is left of a deleted one; the last event is no older than the
\* start; what is pending or held was asked for.
RowInv ==
    \A k \in RecKeys :
        /\ ~recRow[k].there => recRow[k] = NoRow /\ ~recHeld[k]
        /\ recRow[k].lastOld => recRow[k].startOld
        /\ recRow[k].pending \/ recHeld[k] => k \in asked

\* Frames in flight name only recordings somebody asked to erase.
KeysInv ==
    /\ \A p \in pushes : p.keys \subseteq asked
    /\ \A a \in acks : a.keys \subseteq asked

\* Without retention nothing is swept.
SweepInv == ~Does("retention") => ~retention /\ \A p \in pushes : ~p.sweep

\* Until a site is moved, a recording is written, stored and erased at the
\* connector of its site.
PlaceInv ==
    recMoved = 0 =>
        /\ \A k \in RecKeys : writer[k].live => writer[k].conn = recSite[k]
        /\ \A c \in Connectors : \A k \in recBytes[c] : recSite[k] = c
        /\ \A p \in pushes : \A k \in p.keys : recSite[k] = p.conn

\* An acknowledgement is true for as long as it is under way: nobody holds what
\* it names, unless the session wrote to it again.
AckInv ==
    recMoved = 0 /\ ~Does("retention") =>
        \A a \in acks : \A k \in a.keys : k \in late \/ \A c \in Connectors : k \notin recBytes[c]

RecInv == RecTypes /\ RowInv /\ KeysInv /\ SweepInv /\ PlaceInv /\ AckInv

\* At first every stored recording is at its site's connector.
LEMMA RecInitially == RecInit => RecInv
<1> SUFFICES ASSUME RecInit PROVE RecInv
  BY Zenon
<1>1. RecTypes
  BY RecTypesInitially, Zenon
<1>2. RowInv
  <2>1. \A k \in RecKeys : recRow[k] = NoRow \/ recRow[k] = [NoRow EXCEPT !.there = TRUE]
    BY Zenon DEF RecInit
  <2> QED BY <2>1 DEF RecInit, RowInv, NoRow
<1>3. KeysInv /\ SweepInv /\ AckInv
  BY Zenon DEF RecInit, KeysInv, SweepInv, AckInv
<1>4. PlaceInv
  <2>1. \A k \in RecKeys : writer[k].live = FALSE
    BY DEF RecInit, NoWriter, OverWriter
  <2> QED BY <2>1, Zenon DEF RecInit, PlaceInv
<1> QED BY <1>1, <1>2, <1>3, <1>4, Zenon DEF RecInv

\* A request stays asked for.
LEMMA AskedGrows == ASSUME [RecNext]_recVars PROVE asked \subseteq asked'
BY Zenon DEF recVars, RecNext, RequestErasure, CommitRequest, ExpireRequest, StartRecording, SendChunk,
       ReportTruncated, EndRecording, Age, Replay, MoveSite, Connect, Disconnect, PushConnectorPolicy,
       SearchOnConnector, ApplyRecordingPolicy, ErasureAck, AckLost, Ingest, ReportLost,
       ReconcilePendingErasures, SetRetention, RecordingRetention, SearchCandidates, ListRecordings

\* The scope of a behaviour is its own; nothing moves back.
LEMMA MovesCount ==
    ASSUME RecTypes, [RecNext]_recVars
    PROVE  UNCHANGED recScope /\ (recMoved' = 0 => recMoved = 0 /\ UNCHANGED recSite)
<1>1. UNCHANGED recScope
  BY Zenon DEF recVars, RecNext, RequestErasure, CommitRequest, ExpireRequest, StartRecording, SendChunk,
       ReportTruncated, EndRecording, Age, Replay, MoveSite, Connect, Disconnect, PushConnectorPolicy,
       SearchOnConnector, ApplyRecordingPolicy, ErasureAck, AckLost, Ingest, ReportLost,
       ReconcilePendingErasures, SetRetention, RecordingRetention, SearchCandidates, ListRecordings
<1>2. UNCHANGED <<recMoved, recSite>> \/ \E k \in RecKeys, c \in Connectors \cup {NoConnector} : MoveSite(k, c)
  BY ZenonT(60) DEF recVars, RecNext, RequestErasure, CommitRequest, ExpireRequest, StartRecording, SendChunk,
       ReportTruncated, EndRecording, Age, Replay, Connect, Disconnect, PushConnectorPolicy,
       SearchOnConnector, ApplyRecordingPolicy, ErasureAck, AckLost, Ingest, ReportLost,
       ReconcilePendingErasures, SetRetention, RecordingRetention, SearchCandidates, ListRecordings
<1>3. ASSUME NEW k \in RecKeys, NEW c, MoveSite(k, c) PROVE recMoved' # 0
  BY <1>3 DEF MoveSite, RecTypes
<1> QED BY <1>1, <1>2, <1>3, Zenon

\* A commit of a mark and the passing of time leave a row where it is.
LEMMA RowOfAStep ==
    ASSUME RecTypes, NEW x \in RecKeys, CommitRequest(x) \/ Age(x)
    PROVE  \E r \in Rows : r.there = recRow[x].there /\ recRow' = [recRow EXCEPT ![x] = r]
<1> DEFINE P == [recRow[x] EXCEPT !.pending = TRUE]
           S == [recRow[x] EXCEPT !.startOld = TRUE]
           L == [recRow[x] EXCEPT !.lastOld = TRUE]
<1>1. recRow[x] \in Rows
  BY Zenon DEF RecTypes
<1>2. /\ P \in Rows /\ P.there = recRow[x].there /\ S \in Rows /\ S.there = recRow[x].there
      /\ L \in Rows /\ L.there = recRow[x].there
  BY <1>1, Zenon DEF Rows
<1>3. recRow' = recRow \/ recRow' = [recRow EXCEPT ![x] = P] \/ recRow' = [recRow EXCEPT ![x] = S]
      \/ recRow' = [recRow EXCEPT ![x] = L]
  BY Zenon DEF CommitRequest, Age
<1>4. recRow = [recRow EXCEPT ![x] = recRow[x]]
  BY Zenon DEF RecTypes
<1> HIDE DEF P, S, L
<1> QED BY <1>1, <1>2, <1>3, <1>4, Zenon

\* A row under an open erasure mark is not removed, and a mark needs a row.
LEMMA HeldRowsStay ==
    ASSUME RecTypes, RecNext, NEW k \in RecKeys
    PROVE  /\ recRow[k].there /\ ~recRow'[k].there => ~recHeld[k]
           /\ recHeld'[k] => recHeld[k] \/ (recRow[k].there /\ k \in asked' /\ UNCHANGED recRow)
<1>1. recRow[k].there /\ ~recRow'[k].there => ~recHeld[k]
  <2>1. ASSUME NEW x \in RecKeys, CommitRequest(x) \/ Age(x) PROVE recRow'[k].there = recRow[k].there
    <3>2. PICK r \in Rows : r.there = recRow[x].there /\ recRow' = [recRow EXCEPT ![x] = r]
      BY <2>1, RowOfAStep, Zenon
    <3>3. recRow'[k] = recRow[k] \/ (k = x /\ recRow'[k] = r)
      BY <3>2, Zenon DEF RecTypes
    <3> QED BY <3>2, <3>3, Zenon
  <2>2. ASSUME NEW r \in reports, Ingest(r) PROVE recRow[k].there => recRow'[k].there
    <3>1. r \in Reports /\ recRow[k] \in Rows
      BY Zenon DEF RecTypes
    <3>2. recRow'[k] = recRow[k] \/ recRow'[k] = Ingested(recRow[k], r.cut)
      BY <2>2, <3>1, Zenon DEF Ingest, RecTypes, Reports
    <3> QED BY <3>1, <3>2, Zenon DEF Ingested, Rows
  <2>3. ASSUME NEW a \in acks, ErasureAck(a) PROVE recRow'[k] = recRow[k] \/ ~recHeld[k]
    BY <2>3, Zenon DEF ErasureAck
  <2>4. ASSUME RecordingRetention PROVE recRow'[k] = recRow[k] \/ ~recHeld[k]
    BY <2>4, Zenon DEF RecordingRetention
  <2>5. \/ \E x \in RecKeys : CommitRequest(x) \/ Age(x)
        \/ \E r \in reports : Ingest(r)
        \/ \E a \in acks : ErasureAck(a)
        \/ RecordingRetention
        \/ UNCHANGED recRow
    BY Zenon DEF RecNext, RequestErasure, ExpireRequest, StartRecording, SendChunk, ReportTruncated, EndRecording,
         Replay, MoveSite, Connect, Disconnect, PushConnectorPolicy, SearchOnConnector, ApplyRecordingPolicy,
         AckLost, ReportLost, ReconcilePendingErasures, SetRetention, SearchCandidates, ListRecordings
  <2> QED BY <2>1, <2>2, <2>3, <2>4, <2>5, Zenon
<1>2. recHeld'[k] => recHeld[k] \/ (recRow[k].there /\ k \in asked' /\ UNCHANGED recRow)
  <2>1. ASSUME NEW x \in RecKeys, RequestErasure(x)
        PROVE  recHeld'[k] => recHeld[k] \/ (recRow[k].there /\ k \in asked' /\ UNCHANGED recRow)
    <3>1. recHeld'[k] = recHeld[k] \/ k = x
      BY <2>1, Zenon DEF RequestErasure, RecTypes
    <3>2. recRow[x].there /\ x \in asked' /\ UNCHANGED recRow
      BY <2>1, Zenon DEF RequestErasure
    <3> QED BY <3>1, <3>2, Zenon
  <2>2. ASSUME NEW x \in RecKeys, CommitRequest(x) \/ ExpireRequest(x) PROVE recHeld'[k] => recHeld[k]
    BY <2>2, Zenon DEF CommitRequest, ExpireRequest, RecTypes
  <2>3. \/ \E x \in RecKeys : RequestErasure(x) \/ CommitRequest(x) \/ ExpireRequest(x)
        \/ UNCHANGED recHeld
    BY Zenon DEF RecNext, StartRecording, SendChunk,
       ReportTruncated, EndRecording, Age, Replay, MoveSite, Connect, Disconnect, PushConnectorPolicy,
       SearchOnConnector, ApplyRecordingPolicy, ErasureAck, AckLost, Ingest, ReportLost,
       ReconcilePendingErasures, SetRetention, RecordingRetention, SearchCandidates, ListRecordings
  <2> QED BY <2>1, <2>2, <2>3, Zenon
<1> QED BY <1>1, <1>2, Zenon

\* Rows keep to RowInv.
LEMMA RowInvKept == ASSUME RecTypes, RowInv, RecNext PROVE RowInv'
<1> SUFFICES ASSUME NEW k \in RecKeys
             PROVE  /\ ~recRow'[k].there => recRow'[k] = NoRow /\ ~recHeld'[k]
                    /\ recRow'[k].lastOld => recRow'[k].startOld
                    /\ recRow'[k].pending \/ recHeld'[k] => k \in asked'
  BY Zenon DEF RowInv
<1> DEFINE old == recRow[k]
           new == recRow'[k]
<1>1. /\ old \in Rows /\ (~old.there => old = NoRow /\ ~recHeld[k])
      /\ (old.lastOld => old.startOld) /\ (old.pending \/ recHeld[k] => k \in asked)
  BY Zenon DEF RecTypes, RowInv
<1>2. asked \subseteq asked'
  BY AskedGrows, Zenon
<1>3. /\ old.there /\ ~new.there => ~recHeld[k]
      /\ recHeld'[k] => recHeld[k] \/ (old.there /\ k \in asked' /\ UNCHANGED recRow)
  BY HeldRowsStay, Zenon
<1>4. /\ ~new.there => new = NoRow
      /\ new.lastOld => new.startOld
      /\ new.pending => old.pending \/ recHeld[k]
  <2>1. CASE new = old
    BY <1>1, <2>1, Zenon
  <2>2. CASE new = NoRow
    BY <2>2 DEF NoRow
  <2>3. CASE new = [old EXCEPT !.pending = TRUE] /\ recHeld[k]
    BY <1>1, <2>3, Zenon DEF Rows
  <2>4. CASE \E cut \in BOOLEAN : new = [NoRow EXCEPT !.there = TRUE, !.cut = cut]
    BY <2>4, Zenon DEF NoRow
  <2>5. CASE \/ new = [old EXCEPT !.cut = TRUE] /\ old.there
             \/ new = [old EXCEPT !.lastOld = FALSE] /\ old.there
             \/ new = [old EXCEPT !.startOld = TRUE] /\ old.there
             \/ new = [old EXCEPT !.lastOld = TRUE] /\ old.startOld
    <3>1. old.startOld => old.there
      BY <1>1 DEF NoRow
    <3> QED BY <1>1, <2>5, <3>1, Zenon DEF Rows
  <2> QED BY <2>1, <2>2, <2>3, <2>4, <2>5, RowSteps, Zenon
<1>5. ~new.there => ~recHeld'[k]
  <2>1. ~new.there /\ ~old.there => ~recHeld[k]
    BY <1>1, Zenon
  <2> QED BY <1>3, <2>1, Zenon
<1> HIDE DEF old, new
<1>6. new.pending \/ recHeld'[k] => k \in asked'
  BY <1>1, <1>2, <1>3, <1>4, Zenon
<1> QED BY <1>4, <1>5, <1>6, Zenon DEF new

\* Frames keep to KeysInv: a push is filled from pending rows and open marks.
LEMMA KeysInvKept == ASSUME RecTypes, RowInv, KeysInv, RecNext PROVE KeysInv'
<1>1. asked \subseteq asked'
  BY AskedGrows, Zenon
<1>2. ASSUME NEW p \in pushes' PROVE p.keys \subseteq asked'
  <2>1. CASE p \in pushes
    BY <1>1, <2>1, Zenon DEF KeysInv
  <2>2. CASE p \notin pushes
    <3>1. p \in Pushes /\ \A k \in p.keys : recRow[k].pending \/ recHeld[k] \/ k \in asked'
      BY <2>2, NewPush, Zenon
    <3>2. \A k \in p.keys : k \in RecKeys
      BY <3>1, Zenon DEF Pushes
    <3> QED BY <1>1, <3>1, <3>2, Zenon DEF RowInv
  <2> QED BY <2>1, <2>2, Zenon
<1>3. ASSUME NEW a \in acks' PROVE a.keys \subseteq asked'
  <2>1. CASE a \in acks
    BY <1>1, <2>1, Zenon DEF KeysInv
  <2>2. CASE a \notin acks
    <3>1. \E p \in pushes : a.keys \subseteq p.keys
      BY <2>2, NewAck, Zenon
    <3> QED BY <1>1, <3>1, Zenon DEF KeysInv
  <2> QED BY <2>1, <2>2, Zenon
<1> QED BY <1>2, <1>3, Zenon DEF KeysInv

\* Only the retention group switches the window on.
LEMMA SweepInvKept == ASSUME RecTypes, SweepInv, RecNext PROVE SweepInv'
<1>1. UNCHANGED recScope
  BY MovesCount, Zenon
<1>2. UNCHANGED retention \/ Does("retention")
  BY Zenon DEF RecNext, RequestErasure, CommitRequest, ExpireRequest, StartRecording, SendChunk,
       ReportTruncated, EndRecording, Age, Replay, MoveSite, Connect, Disconnect, PushConnectorPolicy,
       SearchOnConnector, ApplyRecordingPolicy, ErasureAck, AckLost, Ingest, ReportLost,
       ReconcilePendingErasures, SetRetention, RecordingRetention, SearchCandidates, ListRecordings
<1>3. \A p \in pushes' : p \in pushes \/ p.sweep = retention
  BY NewPush, Zenon
<1> QED BY <1>1, <1>2, <1>3, Zenon DEF SweepInv, Does

\* How stores grow, and who writes: only a live session adds to the store of the
\* connector it started on.
LEMMA StoreSteps ==
    ASSUME RecTypes, RecNext, NEW c \in Connectors, NEW k \in recBytes'[c]
    PROVE  \/ k \in recBytes[c]
           \/ SendChunk(k) /\ k \in RecKeys /\ writer[k].live /\ writer[k].conn = c
<1>1. ASSUME NEW x \in RecKeys, SendChunk(x)
      PROVE  k \in recBytes[c] \/ (k = x /\ writer[k].live /\ writer[k].conn = c)
  BY <1>1, Zenon DEF SendChunk, RecTypes
<1>2. ASSUME NEW p \in pushes, NEW failed, ApplyRecordingPolicy(p, failed) PROVE k \in recBytes[c]
  BY <1>2, Zenon DEF ApplyRecordingPolicy, RecTypes
<1>3. \/ \E x \in RecKeys : SendChunk(x)
      \/ \E p \in pushes : \E failed \in SUBSET recBytes[p.conn] : ApplyRecordingPolicy(p, failed)
      \/ UNCHANGED recBytes
  BY Zenon DEF RecNext, RequestErasure, CommitRequest, ExpireRequest, StartRecording,
       ReportTruncated, EndRecording, Age, Replay, MoveSite, Connect, Disconnect, PushConnectorPolicy,
       SearchOnConnector, ErasureAck, AckLost, Ingest, ReportLost,
       ReconcilePendingErasures, SetRetention, RecordingRetention, SearchCandidates, ListRecordings
<1> QED BY <1>1, <1>2, <1>3, Zenon

\* A live session keeps its connector, and starts on its site's.
LEMMA WriterSteps ==
    ASSUME RecTypes, RecNext, NEW k \in RecKeys, writer'[k].live
    PROVE  writer'[k].conn = recSite[k] \/ (writer[k].live /\ writer'[k].conn = writer[k].conn)
<1>0. writer[k] \in Writers
  BY Zenon DEF RecTypes
<1>1. ASSUME NEW x \in RecKeys, StartRecording(x)
      PROVE  writer'[k] = writer[k] \/ writer'[k].conn = recSite[k]
  BY <1>1, Zenon DEF StartRecording, RecTypes
<1>2. ASSUME NEW x \in RecKeys, SendChunk(x)
      PROVE  writer'[k] = writer[k] \/ (writer[k].live /\ writer'[k].conn = writer[k].conn)
  <2>1. writer' = [writer EXCEPT ![x] = [writer[x] EXCEPT !.left = writer[x].left - 1]] /\ writer[x].live
    BY <1>2, Zenon DEF SendChunk
  <2>2. CASE k = x
    <3>1. writer'[k] = [writer[k] EXCEPT !.left = writer[k].left - 1]
      BY <2>1, <2>2, Zenon DEF RecTypes
    <3> QED BY <1>0, <2>1, <2>2, <3>1 DEF Writers
  <2>3. CASE k # x
    BY <2>1, <2>3, Zenon DEF RecTypes
  <2> QED BY <2>2, <2>3, Zenon
<1>3. ASSUME NEW x \in RecKeys, ReportTruncated(x) \/ EndRecording(x) PROVE writer'[k] = writer[k]
  <2>1. writer' = [writer EXCEPT ![x] = [writer[x] EXCEPT !.live = FALSE]]
    BY <1>3, Zenon DEF ReportTruncated, EndRecording
  <2>2. CASE k = x
    <3>1. writer'[k] = [writer[k] EXCEPT !.live = FALSE]
      BY <2>1, <2>2, Zenon DEF RecTypes
    <3> QED BY <1>0, <3>1, Zenon DEF Writers
  <2>3. CASE k # x
    BY <2>1, <2>3, Zenon DEF RecTypes
  <2> QED BY <2>2, <2>3, Zenon
<1>4. \/ \E x \in RecKeys : StartRecording(x) \/ SendChunk(x) \/ ReportTruncated(x) \/ EndRecording(x)
      \/ UNCHANGED writer
  BY Zenon DEF RecNext, RequestErasure, CommitRequest, ExpireRequest, Age, Replay, MoveSite, Connect, Disconnect,
       PushConnectorPolicy, SearchOnConnector, ApplyRecordingPolicy, ErasureAck, AckLost, Ingest, ReportLost,
       ReconcilePendingErasures, SetRetention, RecordingRetention, SearchCandidates, ListRecordings
<1> QED BY <1>1, <1>2, <1>3, <1>4, Zenon

\* Recordings keep to their site's connector until a site is moved.
LEMMA PlaceInvKept == ASSUME RecTypes, PlaceInv, RecNext PROVE PlaceInv'
<1> SUFFICES ASSUME recMoved' = 0 PROVE PlaceInv'
  BY Zenon DEF PlaceInv
<1>1. recMoved = 0 /\ UNCHANGED recSite
  BY MovesCount, Zenon
<1>2. ASSUME NEW k \in RecKeys, writer'[k].live PROVE writer'[k].conn = recSite'[k]
  BY <1>1, <1>2, WriterSteps, Zenon DEF PlaceInv
<1>3. ASSUME NEW c \in Connectors, NEW k \in recBytes'[c] PROVE recSite'[k] = c
  BY <1>1, <1>3, StoreSteps, Zenon DEF PlaceInv
<1>4. ASSUME NEW p \in pushes', NEW k \in p.keys PROVE recSite'[k] = p.conn
  BY <1>1, <1>4, NewPush, Zenon DEF PlaceInv
<1> QED BY <1>2, <1>3, <1>4, Zenon DEF PlaceInv

\* What a connector confirms is stored nowhere.
LEMMA ConfirmedGone ==
    ASSUME RecTypes, PlaceInv, recMoved = 0, NEW p \in pushes, NEW failed, ApplyRecordingPolicy(p, failed),
           NEW k \in p.keys \ failed, NEW c \in Connectors
    PROVE  k \notin recBytes'[c]
<1>1. p \in Pushes /\ recSite[k] = p.conn
  BY Zenon DEF RecTypes, PlaceInv
<1>2. PICK gone : k \in gone /\ recBytes' = [recBytes EXCEPT ![p.conn] = @ \ gone]
  BY Zenon DEF ApplyRecordingPolicy
<1>3. CASE c = p.conn
  BY <1>2, <1>3, Zenon DEF RecTypes
<1>4. CASE c # p.conn
  BY <1>1, <1>2, <1>4, Zenon DEF RecTypes, PlaceInv
<1> QED BY <1>3, <1>4, Zenon

\* What a store holds again is late, and what stops being late is stored nowhere.
LEMMA LateSteps ==
    ASSUME RecTypes, SweepInv, PlaceInv, RecNext, recMoved = 0, ~Does("retention"), NEW k \in late
    PROVE  k \in late' \/ \A c \in Connectors : k \notin recBytes'[c]
<1>1. ASSUME NEW x \in RecKeys, SendChunk(x) PROVE k \in late'
  BY <1>1, Zenon DEF SendChunk
<1>2. ASSUME NEW p \in pushes, NEW failed, ApplyRecordingPolicy(p, failed)
      PROVE  k \in late' \/ \A c \in Connectors : k \notin recBytes'[c]
  <2>1. p \in Pushes /\ ~p.sweep
    BY Zenon DEF RecTypes, SweepInv
  <2>2. late' = late \ (p.keys \ failed)
    BY <1>2, <2>1, Zenon DEF ApplyRecordingPolicy, Purge
  <2>3. k \in p.keys \ failed => \A c \in Connectors : k \notin recBytes'[c]
    BY <1>2, ConfirmedGone, Zenon
  <2> QED BY <2>2, <2>3, Zenon
<1>3. \/ \E x \in RecKeys : SendChunk(x)
      \/ \E p \in pushes : \E failed \in SUBSET recBytes[p.conn] : ApplyRecordingPolicy(p, failed)
      \/ UNCHANGED late
  BY Zenon DEF RecNext, RequestErasure, CommitRequest, ExpireRequest, StartRecording,
       ReportTruncated, EndRecording, Age, Replay, MoveSite, Connect, Disconnect, PushConnectorPolicy,
       SearchOnConnector, ErasureAck, AckLost, Ingest, ReportLost,
       ReconcilePendingErasures, SetRetention, RecordingRetention, SearchCandidates, ListRecordings
<1> QED BY <1>1, <1>2, <1>3, Zenon

\* Acknowledgements stay true.
LEMMA AckInvKept == ASSUME RecTypes, KeysInv, SweepInv, PlaceInv, AckInv, RecNext PROVE AckInv'
<1> SUFFICES ASSUME recMoved' = 0, ~Does("retention")', NEW a \in acks', NEW k \in a.keys,
                    NEW c \in Connectors, k \in recBytes'[c]
             PROVE  k \in late'
  BY Zenon DEF AckInv
<1>1. recMoved = 0 /\ ~Does("retention")
  BY MovesCount, Zenon DEF Does
<1>2. CASE a \in acks
  <2>1. k \in asked /\ (k \in late \/ k \notin recBytes[c])
    BY <1>1, <1>2, Zenon DEF AckInv, KeysInv
  <2>2. CASE k \in late
    BY <1>1, <2>2, LateSteps, Zenon
  <2>3. CASE k \notin recBytes[c]
    <3>1. SendChunk(k)
      BY <2>3, StoreSteps, Zenon
    <3> QED BY <2>1, <2>3, <3>1, Zenon DEF SendChunk
  <2> QED BY <2>1, <2>2, <2>3, Zenon
<1>3. CASE a \notin acks
  <2>1. PICK p \in pushes : \E failed \in SUBSET recBytes[p.conn] :
          ApplyRecordingPolicy(p, failed) /\ a.keys = p.keys \ failed
    BY <1>3, NewAck, Zenon
  <2>2. PICK failed : ApplyRecordingPolicy(p, failed) /\ a.keys = p.keys \ failed
    BY <2>1, Zenon
  <2> QED BY <1>1, <2>2, ConfirmedGone, Zenon
<1> QED BY <1>2, <1>3, Zenon

\* The invariant of the recordings is inductive.
LEMMA RecInductive == RecInv /\ [RecNext]_recVars => RecInv'
<1>1. ASSUME RecInv, RecNext PROVE RecInv'
  <2>1. RecTypes'
    BY <1>1, RecTypesKept, Zenon DEF RecInv
  <2>2. RowInv' /\ KeysInv' /\ SweepInv'
    BY <1>1, RowInvKept, KeysInvKept, SweepInvKept, Zenon DEF RecInv
  <2>3. PlaceInv' /\ AckInv'
    BY <1>1, PlaceInvKept, AckInvKept, Zenon DEF RecInv
  <2> QED BY <2>1, <2>2, <2>3, Zenon DEF RecInv
<1>2. ASSUME RecInv, UNCHANGED recVars PROVE RecInv'
  BY <1>2, Zenon DEF recVars, RecInv, RecTypes, RowInv, KeysInv, SweepInv, PlaceInv, AckInv, Does
<1> QED BY <1>1, <1>2, Zenon

\* How a row goes: an acknowledgement names it and its erasure is pending, or the
\* window is on and it is old enough (confirmErasures, trimIndexAfterRetention,
\* recordingRetention).
LEMMA RowGoes ==
    ASSUME RecTypes, RowInv, SweepInv, RecNext, NEW k \in RecKeys, recRow[k].there, ~recRow'[k].there
    PROVE  \/ recRow[k].pending /\ \E a \in acks : k \in a.keys
           \/ retention /\ recRow[k].startOld
<1>1. ASSUME NEW a \in acks, ErasureAck(a)
      PROVE  (recRow[k].pending /\ k \in a.keys) \/ (retention /\ recRow[k].startOld)
  <2>1. k \in ConfirmErasures(a.keys) \/ k \in TrimIndexAfterRetention(a.swept)
    BY <1>1, Zenon DEF ErasureAck
  <2> QED BY <2>1, Zenon DEF ConfirmErasures, TrimIndexAfterRetention, RowInv
<1>2. ASSUME RecordingRetention PROVE retention /\ recRow[k].startOld
  <2>1. k \in RetentionDelete
    BY <1>2, Zenon DEF RecordingRetention
  <2> QED BY <2>1, Zenon DEF RetentionDelete
<1>3. (\E a \in acks : ErasureAck(a)) \/ RecordingRetention
  <2>1. ASSUME NEW x \in RecKeys, CommitRequest(x) \/ Age(x) PROVE recRow'[k].there
    <3>1. PICK r \in Rows : r.there = recRow[x].there /\ recRow' = [recRow EXCEPT ![x] = r]
      BY <2>1, RowOfAStep, Zenon
    <3>2. recRow'[k] = recRow[k] \/ (k = x /\ recRow'[k] = r)
      BY <3>1, Zenon DEF RecTypes
    <3> QED BY <3>1, <3>2, Zenon
  <2>2. ASSUME NEW r \in reports, Ingest(r) PROVE recRow'[k].there
    <3>1. r \in Reports /\ recRow[k] \in Rows
      BY Zenon DEF RecTypes
    <3>2. recRow'[k] = recRow[k] \/ recRow'[k] = Ingested(recRow[k], r.cut)
      BY <2>2, <3>1, Zenon DEF Ingest, RecTypes, Reports
    <3> QED BY <3>1, <3>2, Zenon DEF Ingested, Rows
  <2>3. \/ \E x \in RecKeys : CommitRequest(x) \/ Age(x)
        \/ \E r \in reports : Ingest(r)
        \/ \E a \in acks : ErasureAck(a)
        \/ RecordingRetention
        \/ UNCHANGED recRow
    BY Zenon DEF RecNext, RequestErasure, ExpireRequest, StartRecording, SendChunk, ReportTruncated, EndRecording,
         Replay, MoveSite, Connect, Disconnect, PushConnectorPolicy, SearchOnConnector, ApplyRecordingPolicy,
         AckLost, ReportLost, ReconcilePendingErasures, SetRetention, SearchCandidates, ListRecordings
  <2> QED BY <2>1, <2>2, <2>3, Zenon
<1> QED BY <1>1, <1>2, <1>3, Zenon

\* The row of a pending erasure goes only once no connector holds the recording
\* (confirmErasures deletes on the connector's word), for every interleaving of
\* requests, pushes, lost and late acknowledgements and chunks still written.
THEOREM ErasuresConfirmed == RecSpec => ErasureConfirmed
<1>1. RecInv /\ [RecNext]_recVars =>
        [\A k \in RecKeys :
           recRow[k].pending /\ ~recRow'[k].there /\ recMoved = 0 /\ ~Does("retention")
             => k \in late \/ \A c \in Connectors : k \notin recBytes[c]]_recVars
  <2> SUFFICES ASSUME RecInv, RecNext, NEW k \in RecKeys, recRow[k].pending, ~recRow'[k].there,
                      recMoved = 0, ~Does("retention")
               PROVE  k \in late \/ \A c \in Connectors : k \notin recBytes[c]
    BY Zenon
  <2>1. recRow[k].there /\ ~retention
    BY DEF RecInv, RowInv, SweepInv, NoRow
  <2>2. PICK a \in acks : k \in a.keys
    BY <2>1, RowGoes, Zenon DEF RecInv
  <2> QED BY <2>2, Zenon DEF RecInv, AckInv
<1> QED BY <1>1, RecInitially, RecInductive, PTL DEF RecSpec, ErasureConfirmed

\* A row goes only when its erasure is pending or the window has passed it
\* (confirmErasures, trimIndexAfterRetention and the nightly job).
THEOREM UnaskedRowsStay == RecSpec => UnaskedStays
<1>1. RecInv /\ [RecNext]_recVars =>
        [\A k \in RecKeys :
           recRow[k].there /\ ~recRow'[k].there
             => recRow[k].pending \/ (retention /\ recRow[k].startOld)]_recVars
  <2> SUFFICES ASSUME RecInv, RecNext, NEW k \in RecKeys, recRow[k].there, ~recRow'[k].there
               PROVE  recRow[k].pending \/ (retention /\ recRow[k].startOld)
    BY Zenon
  <2> QED BY RowGoes, Zenon DEF RecInv
<1> QED BY <1>1, RecInitially, RecInductive, PTL DEF RecSpec, UnaskedStays

\* A connector destroys a recording only on request or past the window
\* (applyRecordingPolicy): no push, however stale, empties a store otherwise.
THEOREM OnlyAskedDestroyed == RecSpec => OnlyAskedErased
<1>1. RecInv /\ [RecNext]_recVars =>
        [\A c \in Connectors : \A k \in recBytes[c] \ recBytes'[c] :
           k \in asked \/ k \in dirOld[c]]_recVars
  <2> SUFFICES ASSUME RecInv, RecNext, NEW c \in Connectors, NEW k \in recBytes[c] \ recBytes'[c]
               PROVE  k \in asked \/ k \in dirOld[c]
    BY Zenon
  <2>1. ASSUME NEW x \in RecKeys, SendChunk(x) PROVE FALSE
    BY <2>1, Zenon DEF RecInv, RecTypes, SendChunk
  <2>2. ASSUME NEW p \in pushes, NEW failed, ApplyRecordingPolicy(p, failed)
        PROVE  k \in asked \/ k \in dirOld[c]
    <3>1. PICK gone : gone = (Purge(p.conn, p.sweep) \ failed) \cup (p.keys \ failed)
      BY Zenon
    <3>2. recBytes' = [recBytes EXCEPT ![p.conn] = @ \ gone]
      BY <2>2, <3>1, Zenon DEF ApplyRecordingPolicy
    <3>3. c = p.conn /\ k \in gone
      BY <3>2, Zenon DEF RecInv, RecTypes
    <3> QED BY <3>1, <3>3, Zenon DEF Purge, RecInv, KeysInv
  <2>3. \/ \E x \in RecKeys : SendChunk(x)
        \/ \E p \in pushes : \E failed \in SUBSET recBytes[p.conn] : ApplyRecordingPolicy(p, failed)
        \/ UNCHANGED recBytes
    BY Zenon DEF RecNext, RequestErasure, CommitRequest, ExpireRequest, StartRecording,
         ReportTruncated, EndRecording, Age, Replay, MoveSite, Connect, Disconnect, PushConnectorPolicy,
         SearchOnConnector, ErasureAck, AckLost, Ingest, ReportLost,
         ReconcilePendingErasures, SetRetention, RecordingRetention, SearchCandidates, ListRecordings
  <2> QED BY <2>1, <2>2, <2>3, Zenon
<1> QED BY <1>1, RecInitially, RecInductive, PTL DEF RecSpec, OnlyAskedErased

\* An empty stream is answered only for a recording nobody holds: the replay
\* routes ask the site's connector, and until a site is moved that is the one
\* the session was recorded on.
THEOREM ReplaysHonest == RecSpec => ReplayHonest
<1>1. RecInv /\ [RecNext]_recVars =>
        [replay' # replay /\ replay'.answer = "empty" /\ recMoved = 0
           => \A c \in Connectors : replay'.key \notin recBytes[c]]_recVars
  <2> SUFFICES ASSUME RecInv, RecNext, replay' # replay, replay'.answer = "empty", recMoved = 0,
                      NEW c \in Connectors
               PROVE  replay'.key \notin recBytes[c]
    BY Zenon
  <2>1. PICK k \in RecKeys : Replay(k)
    BY Zenon DEF RecNext, RequestErasure, CommitRequest, ExpireRequest, StartRecording, SendChunk,
         ReportTruncated, EndRecording, Age, MoveSite, Connect, Disconnect, PushConnectorPolicy,
         SearchOnConnector, ApplyRecordingPolicy, ErasureAck, AckLost, Ingest, ReportLost,
         ReconcilePendingErasures, SetRetention, RecordingRetention, SearchCandidates, ListRecordings
  <2>2. recFormat[k] \in {"rrweb", "guac", "video"}
    BY Zenon DEF RecInv, RecTypes
  <2>3. PICK answer : /\ replay' = [key |-> k, answer |-> answer]
                      /\ \/ recFormat[k] = "rrweb" /\ answer = EventsAnswer(k)
                         \/ recFormat[k] = "guac" /\ answer = GuacAnswer(k)
                         \/ recFormat[k] = "video" /\ answer = VideoAnswer(k)
                         \/ answer = KeyeventsAnswer(k)
    BY <2>1, <2>2, Zenon DEF Replay
  <2>4. ASSUME NEW listed, NEW stream \in {recFormat[k], "keys"}, ReplayAnswer(k, listed, stream) = "empty"
        PROVE  k \notin recBytes[recSite[k]]
    BY <2>4, Zenon DEF ReplayAnswer, FetchFromConnector
  <2>5. replay'.key = k /\ k \notin recBytes[recSite[k]]
    BY <2>3, <2>4, Zenon DEF EventsAnswer, KeyeventsAnswer, GuacAnswer, VideoAnswer
  <2> QED BY <2>5, Zenon DEF RecInv, PlaceInv
<1> QED BY <1>1, RecInitially, RecInductive, PTL DEF RecSpec, ReplayHonest
=============================================================================
