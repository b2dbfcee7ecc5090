----------------------------- MODULE Recordings -----------------------------
(***************************************************************************)
(* Session recordings.  The bytes of a recording stay in the store of the  *)
(* connector that served the session (connector/recstore.go); the manager  *)
(* keeps an index row per recording (SessionRecording).  The module models *)
(* how the two are kept together: the chunk writes and the index reports   *)
(* of a live session, the erasure an administrator asks for, the policy    *)
(* pushes that carry it and the acknowledgements that complete it, the     *)
(* three retention sweeps (the nightly job, the connector's, the trim of   *)
(* the index after it), replay, and the command search that fans out to    *)
(* the connectors.                                                         *)
(*                                                                         *)
(* In the cloud the erasure route runs in one transaction: recHeld[k] is   *)
(* the mark it has written and not committed.  Self-hosted the mark        *)
(* commits at once, which is CommitRequest taken directly after it.        *)
(***************************************************************************)
EXTENDS Naturals, FiniteSets

CONSTANTS RecKeys,      \* recordings; recording k belongs to a site of its own
          Connectors,   \* connectors a site can be assigned to
          NoConnector,  \* the site is deleted
          MaxChunks,    \* chunks one session writes
          MaxInFlight,  \* pushes in flight to one connector, reports or
                        \* acknowledgements in flight to the manager
          MaxRequests,  \* erasure requests
          MaxMoves,     \* sites moved or deleted
          RecScopes     \* sets of operation groups explored together

ASSUME RecAssumption == NoConnector \notin Connectors /\ MaxChunks \in Nat

VARIABLES recScope,   \* the groups of operations of this behaviour
          recFormat,  \* the stream a recording's player replays
          recRow,     \* the index
          recHeld,    \* an erasure mark written and not committed
          recSite,    \* the connector of the recording's site
          recMoved,   \* how often a site was moved or deleted
          recOnline,  \* connectors with a tunnel
          recBytes,   \* recordings in a connector's store
          dirOld,     \* ... whose directory is older than the window
          writer,     \* the recorded session
          reports,    \* index reports on the way to the manager
          pushes,     \* policy pushes on the way to a connector
          acks,       \* PolicyAcks on the way to the manager
          retention,  \* a retention window is configured
          asked,      \* recordings an administrator asked to erase
          late,       \* recordings written again after the connector erased them
          requests,   \* erasure requests made
          search,     \* the command search under way
          replay      \* the replay answered last

recVars == <<recScope, recFormat, recRow, recHeld, recSite, recMoved, recOnline, recBytes, dirOld,
             writer, reports, pushes, acks, retention, asked, late, requests, search, replay>>

NoRow == [there |-> FALSE, pending |-> FALSE, startOld |-> FALSE, lastOld |-> FALSE, cut |-> FALSE]
Rows == [there : BOOLEAN, pending : BOOLEAN, startOld : BOOLEAN, lastOld : BOOLEAN, cut : BOOLEAN]
NoWriter == [conn |-> NoConnector, live |-> FALSE, left |-> MaxChunks]
OverWriter == [NoWriter EXCEPT !.left = 0]
NoSearch == [step |-> "idle", hits |-> {}, todo |-> {}, found |-> {}, partial |-> FALSE,
             truncated |-> FALSE, of |-> [k \in RecKeys |-> NoConnector]]
Answers == {"none", "not_found", "no_connector", "connector_offline", "bytes", "empty"}
NoReplay == [key |-> "none", answer |-> "none"]

Does(group) == group \in recScope
Listed == {k \in RecKeys : recRow[k].there}

(* Erasure *)

(* The keys a connector still owes: pending rows whose site is assigned to it. *)
PendingErasures(c) ==
    {k \in RecKeys : (recRow[k].pending \/ recHeld[k]) /\ recSite[k] = c}

(* ... as another transaction sees them: committed marks only. *)
CommittedErasures(c) == {k \in PendingErasures(c) : recRow[k].pending}

Room(c) == Cardinality({p \in pushes : p.conn = c}) < MaxInFlight

(* The recording half of a pushed policy; one without keys and without a     *)
(* window asks nothing of the connector.                                     *)
Policy(c, keys) ==
    IF keys = {} /\ ~retention THEN {} ELSE {[conn |-> c, keys |-> keys, sweep |-> retention]}

(* A push reaches the tunnel only while the connector is connected. *)
PushOf(c, keys) == IF c \in recOnline /\ Room(c) THEN pushes \cup Policy(c, keys) ELSE pushes

(* DELETE /api/admin/recordings/[id]: mark the row, push to the owner.  The *)
(* push reads the mark of its own transaction.                              *)
RequestErasure(k) ==
    /\ Does("erase")
    /\ recRow[k].there /\ ~recHeld[k] /\ requests < MaxRequests
    /\ requests' = requests + 1
    /\ recHeld' = [recHeld EXCEPT ![k] = TRUE]
    /\ asked' = asked \cup {k}
    /\ pushes' = PushOf(recSite[k], PendingErasures(recSite[k]) \cup {k})
    /\ UNCHANGED <<recScope, recFormat, recRow, recSite, recMoved, recOnline, recBytes, dirOld, writer,
                   reports, acks, retention, late, search, replay>>

CommitRequest(k) ==
    /\ recHeld[k]
    /\ recHeld' = [recHeld EXCEPT ![k] = FALSE]
    /\ recRow' = [recRow EXCEPT ![k].pending = TRUE]
    /\ UNCHANGED <<recScope, recFormat, recSite, recMoved, recOnline, recBytes, dirOld, writer, reports,
                   pushes, acks, retention, asked, late, requests, search, replay>>

(* The request's transaction outlives its budget while the push hangs. *)
ExpireRequest(k) ==
    /\ recHeld[k]
    /\ recHeld' = [recHeld EXCEPT ![k] = FALSE]
    /\ UNCHANGED <<recScope, recFormat, recRow, recSite, recMoved, recOnline, recBytes, dirOld, writer,
                   reports, pushes, acks, retention, asked, late, requests, search, replay>>

(* The site-health pass pushes again to every connector that owes an erasure. *)
ReconcilePendingErasures ==
    /\ Does("erase")
    /\ LET owing == {c \in recOnline : CommittedErasures(c) # {} /\ Room(c)}
       IN /\ owing # {}
          /\ pushes' = pushes \cup UNION {Policy(c, CommittedErasures(c)) : c \in owing}
    /\ UNCHANGED <<recScope, recFormat, recRow, recHeld, recSite, recMoved, recOnline, recBytes, dirOld,
                   writer, reports, acks, retention, asked, late, requests, search, replay>>

(* The tunnel comes up: the status answer carries the policy on connect. *)
Connect(c) ==
    /\ c \notin recOnline
    /\ recOnline' = recOnline \cup {c}
    /\ pushes' = pushes \cup Policy(c, CommittedErasures(c))
    /\ UNCHANGED <<recScope, recFormat, recRow, recHeld, recSite, recMoved, recBytes, dirOld, writer,
                   reports, acks, retention, asked, late, requests, search, replay>>

(* It goes down, and the frames on its control stream with it. *)
Disconnect(c) ==
    /\ c \in recOnline
    /\ recOnline' = recOnline \ {c}
    /\ pushes' = {p \in pushes : p.conn # c}
    /\ UNCHANGED <<recScope, recFormat, recRow, recHeld, recSite, recMoved, recBytes, dirOld, writer,
                   reports, acks, retention, asked, late, requests, search, replay>>

(* The recordings of a connector that a sweep removes. *)
Purge(c, sweep) == IF sweep THEN dirOld[c] ELSE {}

(* The keys the connector confirms: every key it was asked for whose removal *)
(* did not fail, also one it no longer holds.                                *)
ConfirmedAnyway(p, failed) == p.keys
ConfirmedIfHeld(p, failed) == (p.keys \cap recBytes[p.conn]) \ failed
Confirmed(p, failed) == p.keys \ failed

(* The connector applies a pushed policy: it sweeps, deletes the keys, and   *)
(* reports what it did.                                                      *)
ApplyRecordingPolicy(p, failed) ==
    LET swept == Purge(p.conn, p.sweep) \ failed
        gone  == swept \cup (p.keys \ failed)
        keys  == Confirmed(p, failed)
    IN /\ recBytes' = [recBytes EXCEPT ![p.conn] = @ \ gone]
       /\ dirOld' = [dirOld EXCEPT ![p.conn] = @ \ gone]
       /\ late' = late \ gone
       /\ pushes' = pushes \ {p}
       /\ acks' = IF keys = {} /\ swept = {} THEN acks
                  ELSE acks \cup {[keys |-> keys, swept |-> swept # {}]}
       /\ Cardinality(acks') <= MaxInFlight
       /\ UNCHANGED <<recScope, recFormat, recRow, recHeld, recSite, recMoved, recOnline, writer, reports,
                      retention, asked, requests, search, replay>>

(* confirmErasures removes only rows whose committed mark it can see ... *)
ConfirmErasures(keys) == {k \in keys : recRow[k].there /\ recRow[k].pending}

(* ... and trimIndexAfterRetention, after a sweep, rows by their last event. *)
TrimIndexAfterRetention(swept) ==
    {k \in RecKeys : swept /\ retention /\ recRow[k].there /\ recRow[k].lastOld}

(* POST /api/internal/recording/erasure-ack.  A row under an open erasure    *)
(* mark is locked: the delete waits for it.                                  *)
ErasureAck(a) ==
    LET gone == ConfirmErasures(a.keys) \cup TrimIndexAfterRetention(a.swept)
    IN /\ \A k \in gone : ~recHeld[k]
       /\ recRow' = [k \in RecKeys |-> IF k \in gone THEN NoRow ELSE recRow[k]]
       /\ acks' = acks \ {a}
       /\ UNCHANGED <<recScope, recFormat, recHeld, recSite, recMoved, recOnline, recBytes, dirOld, writer,
                      reports, pushes, retention, asked, late, requests, search, replay>>

(* ReportErasureAck is one best-effort post. *)
AckLost(a) ==
    /\ acks' = acks \ {a}
    /\ UNCHANGED <<recScope, recFormat, recRow, recHeld, recSite, recMoved, recOnline, recBytes, dirOld,
                   writer, reports, pushes, retention, asked, late, requests, search, replay>>

(* The recorded session *)

(* A session of the recording's site is recorded by the site's connector. *)
StartRecording(k) ==
    /\ Does("record")
    /\ writer[k] = NoWriter /\ recSite[k] # NoConnector
    /\ writer' = [writer EXCEPT ![k] = [conn |-> recSite[k], live |-> TRUE, left |-> MaxChunks]]
    /\ UNCHANGED <<recScope, recFormat, recRow, recHeld, recSite, recMoved, recOnline, recBytes, dirOld,
                   reports, pushes, acks, retention, asked, late, requests, search, replay>>

(* One chunk goes to the connector, and its index to the manager whether or *)
(* not the chunk landed.  A directory keeps the age it was created with.    *)
SendChunk(k) ==
    LET lands == writer[k].conn \in recOnline
    IN /\ writer[k].live /\ writer[k].left > 0
       /\ Cardinality(reports) < MaxInFlight
       /\ writer' = [writer EXCEPT ![k].left = @ - 1]
       /\ recBytes' = IF lands THEN [recBytes EXCEPT ![writer[k].conn] = @ \cup {k}] ELSE recBytes
       /\ late' = IF lands /\ k \in asked THEN late \cup {k} ELSE late
       /\ reports' = reports \cup {[key |-> k, cut |-> FALSE]}
       /\ UNCHANGED <<recScope, recFormat, recRow, recHeld, recSite, recMoved, recOnline, dirOld, pushes,
                      acks, retention, asked, requests, search, replay>>

(* Capture stops at the size cap: one report without a chunk. *)
ReportTruncated(k) ==
    /\ writer[k].live /\ Cardinality(reports) < MaxInFlight
    /\ writer' = [writer EXCEPT ![k].live = FALSE]
    /\ reports' = reports \cup {[key |-> k, cut |-> TRUE]}
    /\ UNCHANGED <<recScope, recFormat, recRow, recHeld, recSite, recMoved, recOnline, recBytes, dirOld,
                   pushes, acks, retention, asked, late, requests, search, replay>>

EndRecording(k) ==
    /\ writer[k].live
    /\ writer' = [writer EXCEPT ![k].live = FALSE]
    /\ UNCHANGED <<recScope, recFormat, recRow, recHeld, recSite, recMoved, recOnline, recBytes, dirOld,
                   reports, pushes, acks, retention, asked, late, requests, search, replay>>

(* POST /api/internal/recording/ingest: create the row, or refresh it; a    *)
(* truncation only marks it.  The tenant is found through the site.         *)
Ingested(row, cut) ==
    IF ~row.there THEN [NoRow EXCEPT !.there = TRUE, !.cut = cut]
    ELSE IF cut THEN [row EXCEPT !.cut = TRUE]
    ELSE [row EXCEPT !.lastOld = FALSE]

Ingest(r) ==
    /\ ~recHeld[r.key]
    /\ reports' = reports \ {r}
    /\ recRow' = IF recSite[r.key] = NoConnector THEN recRow
                 ELSE [recRow EXCEPT ![r.key] = Ingested(@, r.cut)]
    /\ UNCHANGED <<recScope, recFormat, recHeld, recSite, recMoved, recOnline, recBytes, dirOld, writer,
                   pushes, acks, retention, asked, late, requests, search, replay>>

ReportLost(r) ==
    /\ reports' = reports \ {r}
    /\ UNCHANGED <<recScope, recFormat, recRow, recHeld, recSite, recMoved, recOnline, recBytes, dirOld,
                   writer, pushes, acks, retention, asked, late, requests, search, replay>>

(* Retention *)

(* The start of a recording passes the window, then its last event; a       *)
(* directory is as old as its creation.                                     *)
Age(k) ==
    /\ Does("retention") /\ ~writer[k].live
    /\ IF ~recRow[k].startOld
       THEN /\ recRow' = IF recRow[k].there THEN [recRow EXCEPT ![k].startOld = TRUE] ELSE recRow
            /\ dirOld' = [c \in Connectors |-> IF k \in recBytes[c] THEN dirOld[c] \cup {k} ELSE dirOld[c]]
       ELSE /\ recRow' = [recRow EXCEPT ![k].lastOld = TRUE]
            /\ UNCHANGED dirOld
    /\ <<recRow', dirOld'>> # <<recRow, dirOld>>
    /\ UNCHANGED <<recScope, recFormat, recHeld, recSite, recMoved, recOnline, recBytes, writer, reports,
                   pushes, acks, retention, asked, late, requests, search, replay>>

(* The window is switched on or off in the platform policy. *)
SetRetention ==
    /\ Does("retention")
    /\ retention' = ~retention
    /\ UNCHANGED <<recScope, recFormat, recRow, recHeld, recSite, recMoved, recOnline, recBytes, dirOld,
                   writer, reports, pushes, acks, asked, late, requests, search, replay>>

(* The nightly job deletes rows by their start, pending or not. *)
RetentionDelete == {k \in RecKeys : retention /\ recRow[k].there /\ recRow[k].startOld}

RecordingRetention ==
    /\ Does("retention")
    /\ RetentionDelete # {} /\ \A k \in RetentionDelete : ~recHeld[k]
    /\ recRow' = [k \in RecKeys |-> IF k \in RetentionDelete THEN NoRow ELSE recRow[k]]
    /\ UNCHANGED <<recScope, recFormat, recHeld, recSite, recMoved, recOnline, recBytes, dirOld, writer,
                   reports, pushes, acks, retention, asked, late, requests, search, replay>>

(* Any other policy change pushes the whole policy, the sweep included. *)
PushConnectorPolicy(c) ==
    /\ Does("retention")
    /\ c \in recOnline /\ Room(c)
    /\ pushes' = PushOf(c, CommittedErasures(c))
    /\ UNCHANGED <<recScope, recFormat, recRow, recHeld, recSite, recMoved, recOnline, recBytes, dirOld,
                   writer, reports, acks, retention, asked, late, requests, search, replay>>

(* The site is assigned to another connector, or deleted. *)
MoveSite(k, c) ==
    /\ Does("move")
    /\ recMoved < MaxMoves
    /\ recSite[k] # NoConnector /\ c # recSite[k]
    /\ recSite' = [recSite EXCEPT ![k] = c]
    /\ recMoved' = recMoved + 1
    /\ UNCHANGED <<recScope, recFormat, recRow, recHeld, recOnline, recBytes, dirOld, writer, reports,
                   pushes, acks, retention, asked, late, requests, search, replay>>

(* Replay and search *)

(* fetchFromConnector: nothing when the connector cannot be reached, else    *)
(* the stream asked for, which is empty when the store holds none.           *)
FetchUnreachableEmpty(k, stream) ==
    IF recSite[k] \in recOnline /\ k \in recBytes[recSite[k]] /\ stream \in {recFormat[k], "keys"}
    THEN "bytes" ELSE "empty"
FetchFromConnector(k, stream) ==
    IF recSite[k] \notin recOnline THEN "connector_offline"
    ELSE IF k \in recBytes[recSite[k]] /\ stream \in {recFormat[k], "keys"} THEN "bytes"
    ELSE "empty"

(* connectorForRecording: the connector the site is assigned to now. *)
ReplayAnswer(k, listed, stream) ==
    IF ~listed THEN "not_found"
    ELSE IF recSite[k] = NoConnector THEN "no_connector"
    ELSE FetchFromConnector(k, stream)

(* The replay routes; the guac and video ones refuse another format. *)
EventsAnswer(k) == ReplayAnswer(k, recRow[k].there, "rrweb")
KeyeventsAnswer(k) == ReplayAnswer(k, recRow[k].there, "keys")
GuacAnswer(k) == ReplayAnswer(k, recRow[k].there /\ recFormat[k] = "guac", "guac")
VideoAnswer(k) == ReplayAnswer(k, recRow[k].there /\ recFormat[k] = "video", "video")

(* The player asks the route of the recording's format, and for its keys. *)
Replay(k) ==
    /\ Does("replay")
    /\ \E answer \in {CASE recFormat[k] = "rrweb" -> EventsAnswer(k)
                        [] recFormat[k] = "guac" -> GuacAnswer(k)
                        [] recFormat[k] = "video" -> VideoAnswer(k),
                      KeyeventsAnswer(k)} :
         replay' = [key |-> k, answer |-> answer]
    /\ UNCHANGED <<recScope, recFormat, recRow, recHeld, recSite, recMoved, recOnline, recBytes,
                   dirOld, writer, reports, pushes, acks, retention, asked, late, requests, search>>

(* listRecordings with a command: the candidates and the connector of each.  *)
(* A candidate without a connector makes the answer partial at once.         *)
SearchCandidates(hits) ==
    /\ Does("search")
    /\ search.step = "idle" /\ Listed # {}
    /\ search' = [NoSearch EXCEPT !.step = "asking", !.hits = hits,
                     !.of = [k \in RecKeys |-> IF k \in Listed THEN recSite[k] ELSE NoConnector],
                     !.todo = {recSite[k] : k \in Listed} \ {NoConnector},
                     !.partial = \E k \in Listed : recSite[k] = NoConnector]
    /\ UNCHANGED <<recScope, recFormat, recRow, recHeld, recSite, recMoved, recOnline, recBytes, dirOld,
                   writer, reports, pushes, acks, retention, asked, late, requests, replay>>

(* A connector answers with the matches of the keys it was asked about, and  *)
(* truncated when its decrypt budget ended first; an unreachable one makes   *)
(* the answer partial.                                                       *)
SearchOnConnector(c) ==
    LET mine == {k \in RecKeys : search.of[k] = c}
        match == mine \cap search.hits \cap recBytes[c]
    IN /\ search.step = "asking" /\ c \in search.todo
       /\ \/ /\ c \notin recOnline
             /\ search' = [search EXCEPT !.todo = @ \ {c}, !.partial = TRUE]
          \/ /\ c \in recOnline
             /\ \E seen \in SUBSET mine :
                  search' = [search EXCEPT !.todo = @ \ {c}, !.found = @ \cup (match \cap seen),
                               !.truncated = @ \/ seen # mine]
       /\ UNCHANGED <<recScope, recFormat, recRow, recHeld, recSite, recMoved, recOnline, recBytes, dirOld,
                      writer, reports, pushes, acks, retention, asked, late, requests, replay>>

(* The merged answer: too broad, nothing found with the partial flag, or the *)
(* rows still listed among the matches, without either flag.                 *)
SearchAnswer(s) ==
    IF s.truncated /\ s.found = {} THEN [rows |-> {}, tooBroad |-> TRUE, partial |-> FALSE]
    ELSE IF s.found = {} THEN [rows |-> {}, tooBroad |-> FALSE, partial |-> s.partial]
    ELSE [rows |-> s.found \cap Listed, tooBroad |-> FALSE, partial |-> FALSE]

ListRecordings ==
    /\ search.step = "asking" /\ search.todo = {}
    /\ search' = [search EXCEPT !.step = "done"]
    /\ UNCHANGED <<recScope, recFormat, recRow, recHeld, recSite, recMoved, recOnline, recBytes, dirOld,
                   writer, reports, pushes, acks, retention, asked, late, requests, replay>>

RecInit ==
    /\ recScope \in RecScopes
    /\ recFormat \in [RecKeys -> {"rrweb", "guac", "video"}]
    /\ recRow \in [RecKeys -> {NoRow, [NoRow EXCEPT !.there = TRUE]}]
    /\ recHeld = [k \in RecKeys |-> FALSE]
    /\ recSite \in [RecKeys -> Connectors]
    /\ recMoved = 0
    /\ recOnline \in {{}, Connectors}
    /\ recBytes = [c \in Connectors |-> {k \in RecKeys : recRow[k].there /\ recSite[k] = c}]
    /\ dirOld = [c \in Connectors |-> {}]
    /\ writer \in [RecKeys -> {NoWriter, OverWriter}]
    /\ reports = {} /\ pushes = {} /\ acks = {}
    /\ retention = FALSE
    /\ asked = {} /\ late = {} /\ requests = 0
    /\ search = NoSearch
    /\ replay = NoReplay

RecNext ==
    \/ \E k \in RecKeys :
         \/ RequestErasure(k) \/ CommitRequest(k) \/ ExpireRequest(k)
         \/ StartRecording(k) \/ SendChunk(k) \/ ReportTruncated(k) \/ EndRecording(k)
         \/ Age(k) \/ Replay(k)
         \/ \E c \in Connectors \cup {NoConnector} : MoveSite(k, c)
    \/ \E c \in Connectors :
         Connect(c) \/ Disconnect(c) \/ PushConnectorPolicy(c) \/ SearchOnConnector(c)
    \/ \E p \in pushes : \E failed \in SUBSET recBytes[p.conn] : ApplyRecordingPolicy(p, failed)
    \/ \E a \in acks : ErasureAck(a) \/ AckLost(a)
    \/ \E r \in reports : Ingest(r) \/ ReportLost(r)
    \/ ReconcilePendingErasures \/ SetRetention \/ RecordingRetention
    \/ \E hits \in SUBSET Listed : SearchCandidates(hits)
    \/ ListRecordings

(* The scheduler keeps firing the site-health pass, a connector comes back,   *)
(* and neither every push nor every acknowledgement is lost, nor does every   *)
(* removal fail.                                                              *)
RecFairness ==
    /\ WF_recVars(ReconcilePendingErasures)
    /\ \A c \in Connectors :
         /\ WF_recVars(Connect(c))
         /\ SF_recVars(\E p \in pushes : p.conn = c /\ ApplyRecordingPolicy(p, {}))
    /\ WF_recVars(\E a \in acks : ErasureAck(a) \/ AckLost(a))
    /\ \A k \in RecKeys :
         /\ WF_recVars(CommitRequest(k) \/ ExpireRequest(k))
         /\ SF_recVars(\E p \in pushes : k \in p.keys /\ ApplyRecordingPolicy(p, {}))
         /\ SF_recVars(\E a \in acks : k \in a.keys /\ ErasureAck(a))

RecSpec == RecInit /\ [][RecNext]_recVars /\ RecFairness

-----------------------------------------------------------------------------
(* Properties *)

(* Type correctness; a deleted row keeps no flag, and only a listed            *)
(* recording is pending or held by an erasure request.                         *)
RecTypeOK ==
    /\ recRow \in [RecKeys -> Rows]
    /\ \A k \in RecKeys : ~recRow[k].there => recRow[k] = NoRow /\ ~recHeld[k]
    /\ recSite \in [RecKeys -> Connectors \cup {NoConnector}]
    /\ recMoved \in 0..MaxMoves
    /\ recBytes \in [Connectors -> SUBSET RecKeys]
    /\ \A c \in Connectors : dirOld[c] \subseteq recBytes[c]
    /\ \A p \in pushes : p.conn \in recOnline /\ p.keys \subseteq asked
    /\ \A a \in acks : a.keys \subseteq asked
    /\ replay.answer \in Answers

(* An accepted erasure disappears from the index only once the bytes are gone: *)
(* the row of a pending erasure goes when no connector holds the recording,    *)
(* unless the session wrote to it again in the meantime.  Holds while sites    *)
(* keep their connector and no retention window deletes rows by age            *)
(* (erasure.ts: "the row is removed only once the connector confirms").        *)
ErasureConfirmed ==
    [][\A k \in RecKeys :
         recRow[k].pending /\ ~recRow'[k].there /\ recMoved = 0 /\ ~Does("retention")
           => k \in late \/ \A c \in Connectors : k \notin recBytes[c]]_recVars

(* The same with no such proviso.  The nightly retention job and a connector   *)
(* the site was moved to both let a pending row go while the bytes remain, so  *)
(* this is violated.                                                           *)
ErasureConfirmedAlways ==
    [][\A k \in RecKeys :
         recRow[k].pending /\ ~recRow'[k].there
           => k \in late \/ \A c \in Connectors : k \notin recBytes[c]]_recVars

(* An acknowledgement, however late or repeated, never removes a recording     *)
(* that nobody asked to erase: a row goes when its erasure is pending or when  *)
(* its start is older than the configured window.                              *)
UnaskedStays ==
    [][\A k \in RecKeys :
         recRow[k].there /\ ~recRow'[k].there
           => recRow[k].pending \/ (retention /\ recRow[k].startOld)]_recVars

(* A connector destroys only what it was asked to: bytes leave a store because *)
(* an administrator asked for that recording, or because it is older than a    *)
(* configured window; an absent window never empties the store.                *)
OnlyAskedErased ==
    [][\A c \in Connectors : \A k \in recBytes[c] \ recBytes'[c] :
         k \in asked \/ k \in dirOld[c]]_recVars

(* Replay never shows an unreachable recording as an empty one: an empty       *)
(* stream is answered only when no connector holds the bytes.                  *)
ReplayHonest ==
    [][replay' # replay /\ replay'.answer = "empty" /\ recMoved = 0
         => \A c \in Connectors : replay'.key \notin recBytes[c]]_recVars

(* "Nothing matched" means every connector was searched to the end: a search   *)
(* that found nothing and raises neither flag misses no recording whose text   *)
(* matches and is still stored.                                                *)
SearchHonest ==
    [][search.step = "asking" /\ search'.step = "done" /\ recMoved = 0 /\ search.found = {}
       /\ SearchAnswer(search) = [rows |-> {}, tooBroad |-> FALSE, partial |-> FALSE]
         => \A k \in Listed \cap search.hits : search.of[k] # NoConnector
              => k \notin recBytes[search.of[k]]]_recVars

(* A search that could not ask every connector says so.  It does not when some *)
(* other connector had a match (the flags are dropped with the rows), so this  *)
(* is violated.                                                                *)
PartialTold ==
    [][search.step = "asking" /\ search'.step = "done" /\ search.partial
         => SearchAnswer(search).partial \/ SearchAnswer(search).tooBroad]_recVars

(* An accepted erasure is eventually carried out, however often the connector  *)
(* was away and pushes or acknowledgements were lost: while its site exists, a *)
(* pending recording does not stay pending.                                    *)
ErasureCompletes ==
    \A k \in RecKeys :
        recRow[k].pending ~> (~recRow[k].pending \/ recSite[k] = NoConnector)
=============================================================================
