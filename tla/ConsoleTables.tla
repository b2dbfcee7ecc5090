--------------------------- MODULE ConsoleTables ---------------------------
(***************************************************************************)
(* The two searchable tables of the admin console, audit events and        *)
(* recordings: the filters on the screen, the debounced search box, the    *)
(* loads in flight whose answers come back in any order or not at all, the *)
(* rows and banners an answer puts on the screen, and the recordings       *)
(* table's bulk delete.                                                    *)
(*                                                                         *)
(* One table per behaviour.  `text` is the search box, `cmd` the command   *)
(* search only the recordings table has, and `user` stands for the select  *)
(* and date fields, which all go through updateFilter.                     *)
(***************************************************************************)
EXTENDS Naturals, FiniteSets

CONSTANTS
    Entries,        \* audit events or recordings; a larger number is newer
    EntryOwner,     \* the user of an entry
    FilterUsers,    \* users the admin selects
    TextHits,       \* the entries the two-letter search text occurs in
    CommandHits,    \* the entries the command was typed in
    OffSite,        \* the entries held by a connector that may be unreachable
    PageSize,       \* LIMIT of the audit table, PAGE of the recordings table
    MaxLoads,       \* bound on loads issued
    TblScopes       \* which groups of operations a run combines

ASSUME TablesAssumption ==
    /\ Entries \subseteq Nat /\ IsFiniteSet(Entries)
    /\ DOMAIN EntryOwner = Entries
    /\ PageSize \in Nat \ {0} /\ MaxLoads \in Nat

VARIABLES
    table,        \* which of the two tables
    store,        \* the entries in the database
    filters,      \* the filters on the screen
    shown,        \* the answer on the screen: rows, total, banners, and its load
    loading,      \* `busy` of the audit table
    error,        \* the audit table's error notice
    timer,        \* the debounced load's filters: none, or one
    inflight,     \* loads issued and not yet received
    requestId,    \* requestIdRef
    failed,       \* the newest load received a failure
    selected,     \* ticked recordings
    bulk,         \* the bulk delete
    gone,         \* recordings a bulk delete removed
    tblScope

tblVars == <<table, store, filters, shown, loading, error, timer, inflight, requestId,
             failed, selected, bulk, gone, tblScope>>
delVars == <<selected, bulk, gone, tblScope>>

Texts == {"", "a", "ab"}
Filters == [text: Texts, cmd: {"", "rm"}, user: FilterUsers \cup {""}]
NoFilters == [text |-> "", cmd |-> "", user |-> ""]

(***************************************************************************)
(* The server: the filter in the query, the page and the count, and the    *)
(* command search that asks the connectors.                                *)
(***************************************************************************)

\* A search text of one letter filters nothing.
Where(f) == {e \in store: /\ f.user = "" \/ EntryOwner[e] = f.user
                          /\ f.text = "ab" => e \in TextHits}
Matching(f) == IF f.cmd = "" THEN Where(f) ELSE Where(f) \cap CommandHits

\* Newest first, skip the offset, take a page.
PageOf(found, offset) ==
    {e \in found: LET before == Cardinality({x \in found: x > e})
                  IN  offset <= before /\ before < offset + PageSize}

Answer(f, offset, found, partial, tooBroad) ==
    [ok |-> TRUE, rows |-> PageOf(found, offset), total |-> Cardinality(found),
     partial |-> partial, tooBroad |-> tooBroad, none |-> Matching(f) = {}]
FailedAnswer == [ok |-> FALSE, rows |-> {}, total |-> 0, partial |-> FALSE,
                 tooBroad |-> FALSE, none |-> FALSE]

\* The answers the list route may give: a failure, the rows found, and for a
\* command search what the connectors that answered know.  The incomplete flag
\* is returned only when nothing matched.
AnswerRecordings(f, offset) ==
    IF f.cmd = "" \/ Where(f) = {}
    THEN {Answer(f, offset, Matching(f), FALSE, FALSE)}
    ELSE LET reached == Matching(f) \ OffSite
             lost == Where(f) \cap OffSite # {}
         IN  {Answer(f, offset, Matching(f), FALSE, FALSE),
              Answer(f, offset, reached, lost /\ reached = {}, FALSE)}
             \cup (IF reached = {} THEN {Answer(f, offset, {}, FALSE, TRUE)} ELSE {})

ListAuditEvents(f, offset) == {Answer(f, offset, Matching(f), FALSE, FALSE)}

AnswersTo(f, offset) ==
    {FailedAnswer} \cup IF table = "audit" THEN ListAuditEvents(f, offset)
                        ELSE AnswerRecordings(f, offset)

(***************************************************************************)
(* Loads.                                                                  *)
(***************************************************************************)

Load(f, offset) ==
    /\ requestId < MaxLoads
    /\ requestId' = requestId + 1
    /\ loading' = TRUE
    /\ error' = FALSE
    /\ inflight' = inflight \cup {[id |-> requestId + 1, filters |-> f, offset |-> offset,
                                   answered |-> FALSE, answer |-> FailedAnswer]}

NoLoad == UNCHANGED <<requestId, loading, error, inflight>>

\* The route answers with what the database holds at that moment.
ServerAnswers(r) ==
    /\ ~r.answered
    /\ \E a \in AnswersTo(r.filters, r.offset):
         inflight' = (inflight \ {r}) \cup {[r EXCEPT !.answered = TRUE, !.answer = a]}
    /\ UNCHANGED <<table, store, filters, shown, loading, error, timer, requestId, failed, delVars>>

Put(r) == [id |-> r.id, filters |-> r.filters, offset |-> r.offset, answer |-> r.answer]

\* The audit table applies every answer, in whatever order they arrive.
AuditReceives(r) ==
    /\ table = "audit"
    /\ loading' = FALSE
    /\ failed' = ~r.answer.ok
    /\ IF r.answer.ok
       THEN shown' = Put(r) /\ filters' = r.filters /\ UNCHANGED error
       ELSE error' = TRUE /\ UNCHANGED <<shown, filters>>
    /\ UNCHANGED bulk

RecordingsReceivesStale(r) ==
    /\ table = "recordings"
    /\ loading' = FALSE
    /\ failed' = (IF r.id = requestId THEN ~r.answer.ok ELSE failed)
    /\ IF r.answer.ok
       THEN shown' = Put(r) /\ filters' = r.filters
       ELSE UNCHANGED <<shown, filters>>
    /\ bulk' = [bulk EXCEPT !.step = IF bulk.step = "reload" /\ bulk.load = r.id THEN "idle" ELSE @]
    /\ UNCHANGED error

\* The recordings table drops an answer that is not the newest load's.
RecordingsReceives(r) ==
    /\ table = "recordings"
    /\ loading' = (loading /\ r.id # requestId)
    /\ failed' = (IF r.id = requestId THEN ~r.answer.ok ELSE failed)
    /\ IF r.answer.ok /\ r.id = requestId
       THEN shown' = Put(r) /\ filters' = r.filters
       ELSE UNCHANGED <<shown, filters>>
    /\ bulk' = [bulk EXCEPT !.step = IF bulk.step = "reload" /\ bulk.load = r.id THEN "idle" ELSE @]
    /\ UNCHANGED error

Receive(r) ==
    /\ r.answered
    /\ inflight' = inflight \ {r}
    /\ AuditReceives(r) \/ RecordingsReceives(r)
    /\ UNCHANGED <<table, store, timer, requestId, selected, gone, tblScope>>

(***************************************************************************)
(* The controls.  A dialog covers them while it is open.                   *)
(***************************************************************************)
Covered == bulk.step = "confirm"

\* A keystroke shows at once and starts the debounce over; the load it starts
\* carries the filters of the moment of the keystroke.
Type(f) ==
    /\ "type" \in tblScope /\ ~Covered
    /\ f # filters /\ f.user = filters.user
    /\ table = "audit" => f.cmd = ""
    /\ filters' = f
    /\ timer' = {f}
    /\ NoLoad
    /\ UNCHANGED <<table, store, shown, failed, delVars>>

TimerFires ==
    /\ \E f \in timer: Load(f, 0)
    /\ timer' = {}
    /\ UNCHANGED <<table, store, filters, shown, failed, delVars>>

\* A select or a date loads at once and shows only when its rows do.
UpdateFilter(u) ==
    /\ ~Covered
    /\ u # filters.user
    /\ Load([filters EXCEPT !.user = u], 0)
    /\ UNCHANGED <<table, store, filters, shown, timer, failed, delVars>>

HasPrevious == shown.offset > 0 /\ ~loading
HasNext == shown.offset + PageSize < shown.answer.total /\ ~loading

PreviousPage ==
    /\ ~Covered /\ HasPrevious
    /\ Load(filters, IF shown.offset > PageSize THEN shown.offset - PageSize ELSE 0)
    /\ UNCHANGED <<table, store, filters, shown, timer, failed, delVars>>

NextPage ==
    /\ ~Covered /\ HasNext
    /\ Load(filters, shown.offset + PageSize)
    /\ UNCHANGED <<table, store, filters, shown, timer, failed, delVars>>

(***************************************************************************)
(* Deleting recordings.                                                    *)
(***************************************************************************)
Toggle(e) ==
    /\ table = "recordings" /\ "delete" \in tblScope /\ ~Covered
    /\ e \in shown.answer.rows
    /\ selected' = IF e \in selected THEN selected \ {e} ELSE selected \cup {e}
    /\ NoLoad
    /\ UNCHANGED <<table, store, filters, shown, timer, failed, bulk, gone, tblScope>>

ToggleAll ==
    /\ table = "recordings" /\ "delete" \in tblScope /\ ~Covered
    /\ shown.answer.rows # {}
    /\ selected' = IF shown.answer.rows \subseteq selected THEN selected \ shown.answer.rows
                   ELSE selected \cup shown.answer.rows
    /\ NoLoad
    /\ UNCHANGED <<table, store, filters, shown, timer, failed, bulk, gone, tblScope>>

IdleBulk == [step |-> "idle", ids |-> {}, filters |-> NoFilters, load |-> 0]

\* The ids and the filters are those of the click.
DeleteSelected ==
    /\ selected # {} /\ bulk.step = "idle"
    /\ bulk' = [step |-> "confirm", ids |-> selected, filters |-> filters, load |-> 0]
    /\ NoLoad
    /\ UNCHANGED <<table, store, filters, shown, timer, failed, selected, gone, tblScope>>

Confirm(ok) ==
    /\ bulk.step = "confirm"
    /\ bulk' = IF ok THEN [bulk EXCEPT !.step = "deleting"] ELSE IdleBulk
    /\ NoLoad
    /\ UNCHANGED <<table, store, filters, shown, timer, failed, selected, gone, tblScope>>

\* One of the parallel DELETEs: it removes the recording or fails quietly.
DeleteOne(e, ok) ==
    /\ bulk.step = "deleting" /\ e \in bulk.ids
    /\ bulk' = [bulk EXCEPT !.ids = @ \ {e}]
    /\ store' = IF ok THEN store \ {e} ELSE store
    /\ gone' = IF ok THEN gone \cup {e} ELSE gone
    /\ NoLoad
    /\ UNCHANGED <<table, filters, shown, timer, failed, selected, tblScope>>

\* All of them have ended: untick, and load the first page again.
Deleted ==
    /\ bulk.step = "deleting" /\ bulk.ids = {}
    /\ selected' = {}
    /\ Load(bulk.filters, 0)
    /\ bulk' = [bulk EXCEPT !.step = "reload", !.load = requestId + 1]
    /\ UNCHANGED <<table, store, filters, shown, timer, failed, gone, tblScope>>

\* The button of a row deletes and refreshes the server's render, which the
\* rows kept by this table do not follow.
DeleteRecording(e) ==
    /\ table = "recordings" /\ "delete" \in tblScope /\ ~Covered
    /\ e \in shown.answer.rows \cap store
    /\ store' = store \ {e}
    /\ NoLoad
    /\ UNCHANGED <<table, filters, shown, timer, failed, delVars>>

\* The data plane logs an event, or a vendor's session starts a recording.
NewEntry(e) ==
    /\ \A x \in store \cup gone: x < e
    /\ store' = store \cup {e}
    /\ NoLoad
    /\ UNCHANGED <<table, filters, shown, timer, failed, delVars>>

(***************************************************************************)
(* The page renders with the first page of everything.  Filters in the     *)
(* address of the audit page are loaded as soon as it mounts.              *)
(***************************************************************************)
FirstRender == [id |-> 0, filters |-> NoFilters, offset |-> 0,
                answer |-> Answer(NoFilters, 0, Matching(NoFilters), FALSE, FALSE)]

TblInit ==
    /\ table \in {"audit", "recordings"}
    /\ store = {e \in Entries: \E x \in Entries: x > e}
    /\ shown = FirstRender
    /\ \E u \in FilterUsers \cup {""}:
         /\ table = "recordings" => u = ""
         /\ filters = [NoFilters EXCEPT !.user = u]
         /\ loading = (u # "")
         /\ requestId = IF u # "" THEN 1 ELSE 0
         /\ inflight = IF u = "" THEN {}
                       ELSE {[id |-> 1, filters |-> filters, offset |-> 0,
                              answered |-> FALSE, answer |-> FailedAnswer]}
    /\ error = FALSE /\ failed = FALSE
    /\ timer = {}
    /\ tblScope \in TblScopes
    /\ selected = {} /\ bulk = IdleBulk /\ gone = {}

TblNext ==
    \/ \E r \in inflight: ServerAnswers(r) \/ Receive(r)
    \/ \E f \in Filters: Type(f)
    \/ \E u \in FilterUsers \cup {""}: UpdateFilter(u)
    \/ TimerFires \/ PreviousPage \/ NextPage
    \/ \E e \in Entries: Toggle(e) \/ DeleteRecording(e) \/ NewEntry(e)
    \/ ToggleAll \/ DeleteSelected \/ Deleted
    \/ \E ok \in BOOLEAN: Confirm(ok) \/ \E e \in Entries: DeleteOne(e, ok)

TblSpec == TblInit /\ [][TblNext]_tblVars

(***************************************************************************)
(* What the screen says, and the properties.                               *)
(***************************************************************************)
AtRest == inflight = {} /\ timer = {}

\* Above the rows, the notice of an incomplete answer; in their place, when
\* there are none, one of three messages; beside them, the count.
Screen == [notice |-> shown.answer.partial,
           message |-> CASE shown.answer.tooBroad -> "too broad"
                         [] shown.answer.rows # {} -> ""
                         [] loading -> "loading"
                         [] OTHER -> "no match",
           count |-> shown.answer.total]

\* Type invariant: a request is among the loads issued, a bulk delete removes
\* only what was ticked, and entries a bulk delete removed have left the database.
TblTypeOK ==
    /\ store \subseteq Entries /\ selected \subseteq Entries
    /\ filters \in Filters
    /\ timer \subseteq Filters /\ Cardinality(timer) <= 1
    /\ shown.answer.rows \subseteq Entries /\ shown.offset \in Nat
    /\ \A r \in inflight: r.id \in 1..requestId /\ r.filters \in Filters
    /\ \A r, s \in inflight: r.id = s.id => r = s
    /\ bulk.step \in {"idle", "confirm", "deleting", "reload"}
    /\ gone \cap store = {}

\* "a slow stale response can't clobber newer rows": the rows of the recordings
\* table are only ever replaced by those of a load issued later.
NewestAnswerShown ==
    [][table = "recordings" /\ shown' # shown => shown'.id > shown.id]_tblVars

\* The recordings table says it is loading exactly while its newest load is out,
\* so the page buttons never act on rows about to be replaced.
SpinnerHonest ==
    table = "recordings" => (loading <=> \E r \in inflight: r.id = requestId)

\* At rest, and unless the last load failed, the rows are the answer to the
\* filters on the screen, so that what is exported or paged is what is shown.
RowsFitFilters == AtRest /\ ~failed /\ ~error => shown.filters = filters

\* "Reading 'no matches' when a connector could not be searched is the failure
\* this banner exists to prevent": at rest the table says that nothing matches and
\* counts none only when nothing did, or under the notice that the answer is incomplete.
NoFalseEmpty ==
    AtRest /\ ~failed /\ ~error /\ Screen.message = "no match" /\ Screen.count = 0 /\ ~Screen.notice
        => shown.answer.none

\* Once a bulk delete and the load it ends with are over, no row on the screen
\* is a recording it deleted.
BulkDeletedGone ==
    AtRest /\ ~failed /\ bulk.step = "idle" => shown.answer.rows \cap gone = {}
=============================================================================
