------------------------------ MODULE Settings ------------------------------
(***************************************************************************)
(* A workspace's settings: the policy form, the thirty-second cache every  *)
(* reader goes through, the display time zone Captivo ID owns once it has  *)
(* sent one, and the two configurations with a stored password, mail and   *)
(* directory, whose forms leave the password blank to keep it.             *)
(*                                                                         *)
(* A read that misses the cache is two steps: the query, and the write of  *)
(* its answer into the cache after the await.  A save drops the cache when *)
(* its statement returns; in the cloud the row changes only when the       *)
(* request's transaction commits, later.                                   *)
(***************************************************************************)
EXTENDS Naturals, FiniteSets

CONSTANTS
    Zones,           \* display time zones
    SettingsAdmins,  \* requests in flight
    MaxSaves         \* bound on saves

ASSUME SettingsAssumption == MaxSaves \in Nat /\ Zones # {}

VARIABLES
    settings,     \* the PlatformSettings row
    settingsCache,\* the process's cached copy, or none
    reads,        \* a reader between its query and the cache write
    saves,        \* one save per admin
    centreZone,   \* the zone Captivo ID last sent
    overtaken,    \* a read or a save overlapped another request on the row
    secretRow,    \* the stored passwords: mail and directory
    secretSaves,  \* a configuration form between its read and its upsert; a
                  \* password is its version, 0 is none
    cloudTx,      \* MULTI_TENANT
    saved

setVars == <<settings, settingsCache, reads, saves, centreZone, overtaken, secretRow,
             secretSaves, cloudTx, saved>>

NoZone == "no zone"
SettingsRow == [zone: Zones \cup {NoZone}, fromCentre: BOOLEAN, days: 0..1]
NoCache == [zone |-> NoZone, fromCentre |-> FALSE, days |-> 2]
NoRead == NoCache
NoSave == [step |-> "idle", zone |-> NoZone, days |-> 0, centre |-> FALSE]

MoreSaves == saved < MaxSaves /\ saved' = saved + 1
Busy(a) == saves[a].step # "idle"
\* Another request has read the row or has an uncommitted write on it.
Overlaps(a) == reads # NoRead \/ \E b \in SettingsAdmins \ {a}: Busy(b)

(***************************************************************************)
(* lib/settings/platform.ts: the cached read.                              *)
(***************************************************************************)

\* What getPlatformSettings answers: the cache while it is fresh, else the row.
GetPlatformSettings == IF settingsCache # NoCache THEN settingsCache ELSE settings

ReadMisses ==
    /\ reads = NoRead /\ settingsCache = NoCache
    /\ reads' = settings
    /\ UNCHANGED <<settings, settingsCache, saves, centreZone, overtaken, secretRow,
                   secretSaves, cloudTx, saved>>

ReadFills ==
    /\ reads # NoRead
    /\ settingsCache' = reads
    /\ reads' = NoRead
    /\ UNCHANGED <<settings, saves, centreZone, overtaken, secretRow, secretSaves, cloudTx, saved>>

\* Thirty seconds after it was written the entry is not used any more.
CacheAgesOut ==
    /\ settingsCache # NoCache
    /\ settingsCache' = NoCache
    /\ UNCHANGED <<settings, reads, saves, centreZone, overtaken, secretRow, secretSaves, cloudTx, saved>>

(***************************************************************************)
(* POST /api/admin/policy/platform and the centre's push.                  *)
(***************************************************************************)

\* timeZoneManaged: the organisation has sent its zone at least once.
TimeZoneManaged == settings.fromCentre

\* A managed zone is kept as it is read now, whatever was posted.
KeptZone(posted) == IF TimeZoneManaged THEN GetPlatformSettings.zone ELSE posted

SettingsPosted(a, posted, days) ==
    /\ ~Busy(a) /\ MoreSaves
    /\ saves' = [saves EXCEPT ![a] = [step |-> "save", zone |-> KeptZone(posted),
                                      days |-> days, centre |-> FALSE]]
    /\ UNCHANGED <<settings, settingsCache, reads, centreZone, overtaken, secretRow, secretSaves, cloudTx>>

\* POST /api/center/settings: a push of the zone already shown writes nothing.
CentrePushes(a, zone) ==
    /\ ~Busy(a) /\ MoreSaves
    /\ centreZone' = zone
    /\ saves' = IF GetPlatformSettings.zone = zone /\ settings.fromCentre THEN saves
                ELSE [saves EXCEPT ![a] = [step |-> "save", zone |-> zone, days |-> settings.days,
                                           centre |-> TRUE]]
    /\ overtaken' = (overtaken \/ \E b \in SettingsAdmins: Busy(b)
                               \/ settingsCache \notin {NoCache, settings})
    /\ UNCHANGED <<settings, settingsCache, reads, secretRow, secretSaves, cloudTx>>

\* The push writes the zone alone, the form every field of the row.
SavedRow(v) ==
    IF v.centre THEN [settings EXCEPT !.zone = v.zone, !.fromCentre = TRUE]
    ELSE [settings EXCEPT !.zone = v.zone, !.days = v.days]

\* Leaves the cached copy where it is.
SaveWritesKeepsCache(a) ==
    /\ saves[a].step = "save"
    /\ IF cloudTx THEN /\ saves' = [saves EXCEPT ![a].step = "commit"]
                       /\ UNCHANGED settings
       ELSE /\ settings' = SavedRow(saves[a])
            /\ saves' = [saves EXCEPT ![a] = NoSave]
    /\ overtaken' = (overtaken \/ Overlaps(a))
    /\ UNCHANGED <<settingsCache, reads, centreZone, secretRow, secretSaves, cloudTx, saved>>

\* The upsert, and the cache dropped.  Two transactions cannot both have written
\* the row: the second waits for the first to commit.
SaveWrites(a) ==
    /\ saves[a].step = "save"
    /\ \A b \in SettingsAdmins: saves[b].step # "commit"
    /\ IF cloudTx THEN /\ saves' = [saves EXCEPT ![a].step = "commit"]
                       /\ UNCHANGED settings
       ELSE /\ settings' = SavedRow(saves[a])
            /\ saves' = [saves EXCEPT ![a] = NoSave]
    /\ settingsCache' = NoCache
    /\ overtaken' = (overtaken \/ Overlaps(a))
    /\ UNCHANGED <<reads, centreZone, secretRow, secretSaves, cloudTx, saved>>

\* The commit; a copy a reader cached since the write is of the old row.
SaveCommits(a) ==
    /\ saves[a].step = "commit"
    /\ settings' = SavedRow(saves[a])
    /\ saves' = [saves EXCEPT ![a] = NoSave]
    /\ overtaken' = (overtaken \/ settingsCache # NoCache \/ Overlaps(a))
    /\ UNCHANGED <<settingsCache, reads, centreZone, secretRow, secretSaves, cloudTx, saved>>

(***************************************************************************)
(* Configurations with a stored password.                                  *)
(***************************************************************************)

Configs == {"mail", "directory"}
NoForm == [step |-> "idle", of |-> "mail", posted |-> FALSE, password |-> 0]

\* The mail form needs a password, posted or stored.
SecretFormReads(a, c, posted) ==
    /\ secretSaves[a].step = "idle" /\ MoreSaves
    /\ c = "mail" => posted \/ secretRow[c] # 0
    /\ secretSaves' = [secretSaves EXCEPT ![a] =
          [step |-> "save", of |-> c, posted |-> posted,
           password |-> IF posted THEN saved + 1 ELSE secretRow[c]]]
    /\ UNCHANGED <<settings, settingsCache, reads, saves, centreZone, overtaken, secretRow, cloudTx>>

\* POST /api/admin/smtp writes back the password it read; POST
\* /api/admin/directory leaves the column alone.
StoredPassword(f, stored) ==
    IF f.of = "mail" \/ f.posted THEN f.password ELSE stored

SecretFormWrites(a) ==
    /\ secretSaves[a].step = "save"
    /\ LET f == secretSaves[a] IN secretRow' = [secretRow EXCEPT ![f.of] = StoredPassword(f, @)]
    /\ secretSaves' = [secretSaves EXCEPT ![a] = NoForm]
    /\ UNCHANGED <<settings, settingsCache, reads, saves, centreZone, overtaken, cloudTx, saved>>

SettingsInit ==
    /\ settings = [zone |-> NoZone, fromCentre |-> FALSE, days |-> 0]
    /\ settingsCache = NoCache
    /\ reads = NoRead
    /\ saves = [a \in SettingsAdmins |-> NoSave]
    /\ centreZone = NoZone
    /\ overtaken = FALSE
    /\ secretRow = [c \in Configs |-> 0]
    /\ secretSaves = [a \in SettingsAdmins |-> NoForm]
    /\ cloudTx \in BOOLEAN
    /\ saved = 0

SettingsNext ==
    \/ ReadMisses \/ ReadFills \/ CacheAgesOut
    \/ \E a \in SettingsAdmins:
          \/ SaveWrites(a) \/ SaveCommits(a) \/ SecretFormWrites(a)
          \/ \E z \in Zones: CentrePushes(a, z) \/ \E d \in 0..1: SettingsPosted(a, z, d)
          \/ \E c \in Configs, posted \in BOOLEAN: SecretFormReads(a, c, posted)

\* A cached entry ages by the clock alone.
SettingsFairness == WF_setVars(CacheAgesOut)

SettingsSpec == SettingsInit /\ [][SettingsNext]_setVars /\ SettingsFairness

-----------------------------------------------------------------------------
\* The state has its shape, and only a cloud transaction has an uncommitted
\* write, one at a time.
SettingsTypeOK ==
    /\ settings \in SettingsRow
    /\ settingsCache \in SettingsRow \cup {NoCache} /\ reads \in SettingsRow \cup {NoRead}
    /\ secretRow \in [Configs -> 0..MaxSaves]
    /\ Cardinality({a \in SettingsAdmins: saves[a].step = "commit"}) <= (IF cloudTx THEN 1 ELSE 0)

\* A saved policy is what the next reader gets: with no read and no other save
\* open meanwhile, the cache never holds anything but the row.
SavedIsServed == ~overtaken => settingsCache \in {NoCache, settings}

\* Even overtaken, a stale copy is served for a bounded time: readers come back
\* to the row for ever.
StaleCopyEnds == []<>(settingsCache \in {NoCache, settings})

\* Once Captivo ID has sent the organisation's zone the form cannot change it,
\* whatever is posted, unless the push itself overlapped a save or met a stale
\* copy.
ZoneIsTheCentres ==
    ~overtaken /\ centreZone # NoZone /\ (\A a \in SettingsAdmins: ~Busy(a))
    => settings.zone = centreZone /\ settings.fromCentre

\* A directory form saved with its password left blank keeps the stored one,
\* whichever form was saved in between.
BlankKeepsPassword ==
    [][\A a \in SettingsAdmins:
         secretSaves[a].step = "save" /\ secretSaves'[a].step = "idle"
         /\ secretSaves[a].of = "directory" /\ ~secretSaves[a].posted
         => secretRow' = secretRow]_setVars

\* The same of the mail form: "Blank password on save = keep the stored one."
\* Violated: it posts back the password it read, over one saved meanwhile.
BlankKeepsMailPassword ==
    [][\A a \in SettingsAdmins:
         secretSaves[a].step = "save" /\ secretSaves'[a].step = "idle"
         /\ secretSaves[a].of = "mail" /\ ~secretSaves[a].posted
         => secretRow' = secretRow]_setVars
=============================================================================
