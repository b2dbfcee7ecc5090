------------------------------- MODULE Platform -----------------------------
(***************************************************************************)
(* What the platform keeps running for its tenants and holds them to: the  *)
(* scheduled jobs fanned out over the tenants with their heartbeats and    *)
(* the consoles' stale-job warning, the caps of a tenant's plan behind the *)
(* envelope cache, and the platform's own operators.                       *)
(*                                                                         *)
(* In the cloud a job runs once per tenant, each in a transaction of its   *)
(* own; self-hosted it runs once and every statement commits.              *)
(***************************************************************************)
EXTENDS Integers, FiniteSets

CONSTANTS Customers,   \* tenants
          Adders,      \* requests that add a user, a resource or a connector
          Operators,   \* the platform's operators at the start
          MaxThrows,   \* bound: jobs that throw
          MaxCap,      \* bound: the caps an operator sets
          PlatformScopes

ASSUME PlatformAssumption == IsFiniteSet(Adders) /\ MaxCap \in Nat

VARIABLES platScope, cloud,
          alive,    \* tenants that are active
          pass,     \* a fan-out under way: its job and the tenants still to run
          stamp,    \* CronRun: periods since the heartbeat, per tenant and job
          work,     \* periods since the daily job's work was last committed
          throws,   \* jobs that have thrown
          cap, used, \* a tenant's cap on one kind of thing, and how many it has
          envelope, \* the manager's cached copy of the cap
          adder,    \* requests that passed the cap's check
          loosest,  \* history: the loosest cap a check was made against
          operators, removal

cronVars == <<alive, pass, stamp, work, throws>>
capVars == <<cap, used, envelope, adder, loosest>>
platVars == <<platScope, cloud, cronVars, capVars, operators, removal>>

PlatformJobs == {"site-health", "daily"}
PulseLimit == 4   \* 20 minutes, a hit every five
DailyLimit == 1   \* 26 hours, a hit a day
AgeLimit == [j \in PlatformJobs |-> IF j = "daily" THEN DailyLimit + 1 ELSE PulseLimit + 1]  \* bound: periods counted
Never == 99
NoPass == [job |-> "none", todo |-> {}]
Uncapped == MaxCap + 1
NoEnvelope == 0
MaxUsed == MaxCap + Cardinality(Adders) + 1  \* bound: things added

\* Self-hosted the job runs once, under the implicit default tenant.
Tenants == IF cloud THEN Customers ELSE {CHOOSE t \in Customers : TRUE}

PlatformInit ==
    /\ platScope \in PlatformScopes
    /\ cloud \in (IF platScope = {"cron"} THEN BOOLEAN ELSE {TRUE})
    /\ alive = Tenants
    /\ pass = NoPass
    /\ stamp = [t \in Customers |-> [j \in PlatformJobs |-> Never]]
    /\ work = [t \in Customers |-> Never]
    /\ throws = 0
    /\ cap = 1 /\ used = 0 /\ envelope = NoEnvelope /\ adder = [a \in Adders |-> "idle"] /\ loosest = 1
    /\ operators = Operators /\ removal = [o \in Operators |-> "none"]

-----------------------------------------------------------------------------
(* Scheduled jobs *)

\* forEachTenant / forEachTenantId: the active tenants, listed once.
FanOutSkipsOne == IF Cardinality(alive) > 1 THEN alive \ {CHOOSE t \in alive : TRUE} ELSE alive

FanOut == alive

\* An authorized POST to /api/cron/...
CronHit(j) ==
    /\ "cron" \in platScope /\ pass = NoPass /\ FanOut # {}
    /\ pass' = [job |-> j, todo |-> FanOut]
    /\ UNCHANGED <<platScope, cloud, alive, stamp, work, throws, capVars, operators, removal>>

Rest(todo) == IF todo = {} THEN NoPass ELSE [pass EXCEPT !.todo = todo]

\* recordCronRun, then the job; the next tenant's turn.
RunJob(t) ==
    /\ t \in pass.todo /\ t \in alive
    /\ stamp' = [stamp EXCEPT ![t][pass.job] = 0]
    /\ work' = IF pass.job = "daily" THEN [work EXCEPT ![t] = 0] ELSE work
    /\ pass' = Rest(pass.todo \ {t})
    /\ UNCHANGED <<platScope, cloud, alive, throws, capVars, operators, removal>>

\* The job throws.  In the cloud a daily job's heartbeat is rolled back with
\* it; site-health's is a scope of its own, and self-hosted it has committed.
\* The tenants still to run are not run.
StampKept == pass.job = "site-health" \/ ~cloud

JobThrows(t) ==
    /\ t \in pass.todo /\ (throws < MaxThrows \/ t \notin alive)
    /\ throws' = IF t \in alive THEN throws + 1 ELSE throws
    /\ stamp' = IF StampKept /\ t \in alive THEN [stamp EXCEPT ![t][pass.job] = 0] ELSE stamp
    /\ pass' = NoPass
    /\ UNCHANGED <<platScope, cloud, alive, work, capVars, operators, removal>>

\* A tenant is purged under a fan-out that has listed it: its heartbeat breaks
\* the foreign key and takes the scope's transaction with it (JobThrows).
TenantGoes(t) ==
    /\ "cron" \in platScope /\ cloud /\ t \in alive /\ alive # {t}
    /\ alive' = alive \ {t}
    /\ UNCHANGED <<platScope, cloud, pass, stamp, work, throws, capVars, operators, removal>>

Older(a, j) == IF a < AgeLimit[j] THEN a + 1 ELSE a

\* A job's period goes by: five minutes for site-health, a day for the others.
Period(j) ==
    /\ "cron" \in platScope
    /\ stamp' = [t \in Customers |-> [stamp[t] EXCEPT ![j] = Older(@, j)]]
    /\ work' = IF j = "daily" THEN [t \in Customers |-> Older(work[t], j)] ELSE work
    /\ UNCHANGED <<platScope, cloud, alive, pass, throws, capVars, operators, removal>>

\* cronHealth: site-health is the scheduler's pulse (stale after four periods);
\* a daily job is reported when it ran before and has since missed its day.
Ran(t, j) == stamp[t][j] # Never

CronHealth(t) ==
    IF Ran(t, "site-health") /\ stamp[t]["site-health"] <= PulseLimit
    THEN {j \in {"daily"} : Ran(t, j) /\ stamp[t][j] > DailyLimit}
    ELSE {"site-health"}

-----------------------------------------------------------------------------
(* Plan caps *)

\* withinLimit: whether one more fits.
WithinLimit(c, count) == c = Uncapped \/ count < c

\* tenantEnvelope: the cached copy for its fifteen seconds, else the row's; a
\* read that fails answers with no caps, and that answer is kept as well.
TenantEnvelope(read) == IF envelope # NoEnvelope THEN envelope ELSE read

Looser(c) == IF c > loosest THEN c ELSE loosest

\* assertWithinLimit after the count: the request goes on to its insert.
AddChecks(a, read) ==
    LET e == TenantEnvelope(read) IN
    /\ "caps" \in platScope /\ adder[a] = "idle" /\ read \in {cap, Uncapped}
    /\ envelope' = e /\ loosest' = Looser(e)
    /\ WithinLimit(e, used) /\ used < MaxUsed
    /\ adder' = [adder EXCEPT ![a] = IF read = cap \/ envelope # NoEnvelope THEN "adding" ELSE "failed"]
    /\ UNCHANGED <<platScope, cloud, cronVars, cap, used, operators, removal>>

\* The insert, or the failed read's transaction giving up.
AddCommits(a) ==
    /\ adder[a] # "idle"
    /\ used' = IF adder[a] = "adding" THEN used + 1 ELSE used
    /\ adder' = [adder EXCEPT ![a] = "idle"]
    /\ UNCHANGED <<platScope, cloud, cronVars, cap, envelope, loosest, operators, removal>>

RemovesOne ==
    /\ used > 0 /\ used' = used - 1
    /\ UNCHANGED <<platScope, cloud, cronVars, cap, envelope, adder, loosest, operators, removal>>

\* parseLimits: a positive whole number, or the key is dropped: no cap.
ParseLimits(raw) == IF raw > 0 THEN raw ELSE Uncapped

\* PATCH /api/platform/tenants/[id] (updateTenant): the row, never the caches.
UpdateTenant(raw) ==
    /\ "caps" \in platScope /\ cap' = ParseLimits(raw)
    /\ UNCHANGED <<platScope, cloud, cronVars, used, envelope, adder, loosest, operators, removal>>

EnvelopeExpires ==
    /\ envelope # NoEnvelope /\ envelope' = NoEnvelope
    /\ UNCHANGED <<platScope, cloud, cronVars, cap, used, adder, loosest, operators, removal>>

-----------------------------------------------------------------------------
(* The platform's operators *)

\* DELETE /api/platform/admins/[id] (removePlatformAdmin): not yourself, not
\* when you count one operator ...
RemovalChecks(o, target) ==
    /\ "operators" \in platScope /\ {o, target} \subseteq operators /\ removal[o] = "none"
    /\ o # target /\ Cardinality(operators) > 1
    /\ removal' = [removal EXCEPT ![o] = target]
    /\ UNCHANGED <<platScope, cloud, cronVars, capVars, operators>>

\* ... and the row goes.
RemovalDeletes(o) ==
    /\ removal[o] # "none"
    /\ operators' = operators \ {removal[o]}
    /\ removal' = [removal EXCEPT ![o] = "none"]
    /\ UNCHANGED <<platScope, cloud, cronVars, capVars>>

PlatformNext ==
    \/ \E j \in PlatformJobs : CronHit(j) \/ Period(j)
    \/ \E t \in Customers : RunJob(t) \/ JobThrows(t) \/ TenantGoes(t)
    \/ \E a \in Adders : AddCommits(a) \/ \E read \in {cap, Uncapped} : AddChecks(a, read)
    \/ \E raw \in 0..MaxCap : UpdateTenant(raw)
    \/ RemovesOne \/ EnvelopeExpires
    \/ \E o \in Operators : RemovalDeletes(o) \/ \E target \in Operators : RemovalChecks(o, target)

\* The scheduler hits every job again and again, and a fan-out goes on.
PlatformFairness ==
    /\ \A j \in PlatformJobs : SF_platVars(CronHit(j))
    /\ \A t \in Customers : WF_platVars(RunJob(t))
    /\ WF_platVars(\E t \in Customers : t \notin alive /\ JobThrows(t))

PlatformSpec == PlatformInit /\ [][PlatformNext]_platVars /\ PlatformFairness

-----------------------------------------------------------------------------
(* Properties *)

Ages == 0..(PulseLimit + 1) \cup {Never}

\* Heartbeats, caps and requests keep their types; a check only fails on caps.
PlatformTypeOK ==
    /\ alive \subseteq Customers /\ pass.todo \subseteq Customers
    /\ stamp \in [Customers -> [PlatformJobs -> Ages]] /\ work \in [Customers -> Ages] /\ throws \in 0..MaxThrows
    /\ cap \in 1..Uncapped /\ used \in Nat /\ adder \in [Adders -> {"idle", "adding", "failed"}]
    /\ \A a \in Adders : adder[a] = "failed" => "caps" \in platScope
    /\ operators \subseteq Operators

\* A tenant whose daily job has stopped committing its work, because its own
\* run throws or because an earlier tenant's does, is told so by its console:
\* no heartbeat outlives the work it stands for in the cloud.
StoppedIsFlagged ==
    \A t \in alive : cloud /\ work[t] = DailyLimit + 1 => CronHealth(t) # {}

\* Two requests that count at the same time, a cap changed behind a cached one
\* and a read that failed open: the count passes the loosest cap in force by
\* fewer than the requests that were under way.
CapOvershoot == loosest # Uncapped => used < loosest + Cardinality(Adders)

\* Jobs that stop throwing serve every tenant again and again, however often an
\* earlier tenant's cut a fan-out short.
EveryTenantServed == \A t \in Customers : ("cron" \in platScope) => []<>(work[t] = 0 \/ t \notin alive)

\* "never the last one" (lib/platform/admins.ts).  Violated: two operators who
\* remove each other each count the other.
OperatorRemains == operators # {}
=============================================================================
