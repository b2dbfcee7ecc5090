----------------------------- MODULE SessionPage -----------------------------
(***************************************************************************)
(* The full-screen page of a gateway or isolated-browser session: whether  *)
(* it is served, the recording consent gate before it, the client that     *)
(* connects only after a dynamic import (and must not once the vendor has  *)
(* left), the splash over it, the isolated browser's reconnect on a change *)
(* of streaming quality, the drop target for files, and the poll that      *)
(* tells the vendor an administrator is watching.                          *)
(*                                                                         *)
(* guacd, KasmVNC and the data plane's answer to watch-status are          *)
(* external.                                                               *)
(***************************************************************************)
EXTENDS Naturals, Sequences, RecordingMode

CONSTANTS MaxGen,       \* bound on the quality changes of one visit
          MaxPolls,     \* bound on watch-status polls in flight
          MaxChanges,   \* bound on administrators' changes (policy, watching)
          MaxFailures,  \* bound on polls that fail
          PageScopes    \* activities explored together

ASSUME PageAssumption ==
    /\ MaxGen \in Nat /\ MaxPolls \in Nat \ {0}
    /\ MaxChanges \in Nat /\ MaxFailures \in Nat

VARIABLES pageScope,
          site,      \* [mode, toggle, canUpload]: the resource as stored
          setting,   \* [recording, consent]: the tenant's recording policy
          cookie,    \* the per-site consent cookie of this browser session
          agreed,    \* the vendor pressed "I understand" in this browser session
          screen,    \* what the page shows: see Screens
          given,     \* [mode, recorded, asked]: the page's props at its load
          life,      \* [phase, disposed]: the mounted client
          recording, \* what the data plane decided when the client connected
          splash,    \* [ready, timer, why]: over the session
          gen,       \* reconnects of the isolated browser
          drag,      \* [depth, state, fs, result]: the drop target
          watch,     \* [now, polls, notice, failed]: monitoring and its notice
          changes    \* administrators' changes so far

visitVars == <<screen, given, life, recording, splash, gen, drag>>
pageVars == <<pageScope, site, setting, cookie, agreed, visitVars, watch, changes>>

PageModes == {"GATEWAY", "ISOLATED", "TRANSPARENT"}
Screens == {"away", "missing", "gate", "accepting", "session"}
Monitoring == {"no", "watching", "control"}

RecordedNow == effectiveRecordSessions(setting.recording, site.toggle)

NoClient == [phase |-> "none", disposed |-> FALSE]
NoSplash == [ready |-> FALSE, timer |-> FALSE, why |-> "none"]
NoDrag == [depth |-> 0, state |-> "idle", fs |-> FALSE, result |-> "none"]

InSession == screen = "session" /\ ~life.disposed

-----------------------------------------------------------------------------
(* Loading the page and the consent gate                                   *)

\* The client is mounted: its effects arm the splash's fallback; the gateway's
\* one starts importing the library, the isolated one mounts its frame.
Mounted(mode) ==
    /\ life' = [phase |-> IF mode = "GATEWAY" THEN "importing" ELSE "loading",
                disposed |-> FALSE]
    /\ splash' = [NoSplash EXCEPT !.timer = TRUE]

\* The page: only the two screen-streaming modes have a session here, and a
\* recorded one asks for consent unless the browser session already gave it.
GatewaySessionPage ==
    LET consentNeeded == RecordedNow /\ ~cookie /\ setting.consent
    IN  /\ screen = "away" /\ life.phase = "none"
        /\ given' = [mode |-> site.mode, recorded |-> RecordedNow, asked |-> consentNeeded]
        /\ \/ /\ site.mode = "TRANSPARENT"
              /\ screen' = "missing" /\ UNCHANGED <<life, splash>>
           \/ /\ site.mode # "TRANSPARENT" /\ consentNeeded
              /\ screen' = "gate" /\ UNCHANGED <<life, splash>>
           \/ /\ site.mode # "TRANSPARENT" /\ ~consentNeeded
              /\ screen' = "session" /\ Mounted(site.mode)
        /\ UNCHANGED <<pageScope, site, setting, cookie, agreed, recording, gen, drag, watch, changes>>

\* accept(): the button is disabled, the consent is posted.
Accept ==
    /\ screen = "gate"
    /\ screen' = "accepting" /\ agreed' = TRUE
    /\ UNCHANGED <<pageScope, site, setting, cookie, given, life, recording, splash, gen, drag, watch, changes>>

\* The post returns, its cookie set, or fails: the session starts either way.
ConsentAccepted ==
    /\ screen = "accepting"
    /\ screen' = "session" /\ cookie' \in {cookie, TRUE}
    /\ Mounted(given.mode)
    /\ UNCHANGED <<pageScope, site, setting, agreed, given, recording, gen, drag, watch, changes>>

-----------------------------------------------------------------------------
(* The client                                                              *)

\* The import resolves.  A client whose page is gone is never connected.
Imported ==
    /\ life.phase = "importing"
    /\ \/ /\ life.disposed
          /\ life' = NoClient /\ UNCHANGED recording
       \/ /\ ~life.disposed
          /\ life' = [life EXCEPT !.phase = "connecting"]
          /\ recording' = RecordedNow
    /\ UNCHANGED <<pageScope, site, setting, cookie, agreed, screen, given, splash, gen, drag, watch, changes>>

\* The import fails: the page says so.
ImportFails ==
    /\ life.phase = "importing"
    /\ life' = IF life.disposed THEN NoClient ELSE [life EXCEPT !.phase = "failed"]
    /\ UNCHANGED <<pageScope, site, setting, cookie, agreed, screen, given, recording, splash, gen, drag, watch, changes>>

\* guacd reaches CONNECTED (state 3): the splash goes.
ClientConnected ==
    /\ InSession /\ life.phase = "connecting"
    /\ life' = [life EXCEPT !.phase = "connected"]
    /\ splash' = [splash EXCEPT !.ready = TRUE, !.why = IF splash.ready THEN @ ELSE "connected"]
    /\ UNCHANGED <<pageScope, site, setting, cookie, agreed, screen, given, recording, gen, drag, watch, changes>>

\* The frame's KasmVNC client connects and marks its document; the 250 ms poll,
\* stopped by the fallback, sees the mark.
FrameConnected ==
    /\ InSession /\ life.phase = "loading"
    /\ life' = [life EXCEPT !.phase = "connected"]
    /\ recording' = RecordedNow
    /\ UNCHANGED <<pageScope, site, setting, cookie, agreed, screen, given, splash, gen, drag, watch, changes>>

FramePollSeesIt ==
    /\ InSession /\ given.mode = "ISOLATED" /\ life.phase = "connected" /\ ~splash.ready
    /\ splash' = [splash EXCEPT !.ready = TRUE, !.why = "connected"]
    /\ UNCHANGED <<pageScope, site, setting, cookie, agreed, screen, given, life, recording, gen, drag, watch, changes>>

\* The 20 s fallback.
FallbackFires ==
    /\ InSession /\ splash.timer
    /\ splash' = [ready |-> TRUE, timer |-> FALSE,
                  why |-> IF splash.ready THEN splash.why ELSE "fallback"]
    /\ UNCHANGED <<pageScope, site, setting, cookie, agreed, screen, given, life, recording, gen, drag, watch, changes>>

\* The tunnel or the client reports an error.
ClientFails ==
    /\ InSession /\ life.phase \in {"connecting", "connected"} /\ given.mode = "GATEWAY"
    /\ life' = [life EXCEPT !.phase = "failed"]
    /\ UNCHANGED <<pageScope, site, setting, cookie, agreed, screen, given, recording, splash, gen, drag, watch, changes>>

\* cycleQuality: a new frame, the splash up again and its fallback armed anew.
cycleQualityUncovered ==
    /\ "quality" \in pageScope
    /\ InSession /\ given.mode = "ISOLATED" /\ splash.ready /\ gen < MaxGen
    /\ gen' = gen + 1
    /\ life' = [life EXCEPT !.phase = "loading"]
    /\ splash' = [splash EXCEPT !.timer = TRUE]
    /\ UNCHANGED <<pageScope, site, setting, cookie, agreed, screen, given, recording, drag, watch, changes>>
cycleQuality ==
    /\ "quality" \in pageScope
    /\ InSession /\ given.mode = "ISOLATED" /\ splash.ready /\ gen < MaxGen
    /\ gen' = gen + 1
    /\ life' = [life EXCEPT !.phase = "loading"]
    /\ splash' = [NoSplash EXCEPT !.timer = TRUE]
    /\ UNCHANGED <<pageScope, site, setting, cookie, agreed, screen, given, recording, drag, watch, changes>>

\* The vendor leaves: the effects' cleanups clear the timers and polls and
\* disconnect the client, unless its import is still pending.
Leave ==
    /\ screen # "away"
    /\ screen' = "away"
    /\ life' = IF life.phase = "importing" THEN [life EXCEPT !.disposed = TRUE] ELSE NoClient
    /\ splash' = NoSplash /\ gen' = 0 /\ drag' = NoDrag
    /\ recording' = FALSE
    /\ watch' = [watch EXCEPT !.polls = <<>>, !.notice = "no"]
    /\ UNCHANGED <<pageScope, site, setting, cookie, agreed, given, changes>>

-----------------------------------------------------------------------------
(* Dropping files                                                          *)

\* guacd announces a filesystem when file transfer is enabled.
onfilesystem ==
    /\ "drop" \in pageScope
    /\ InSession /\ life.phase \in {"connecting", "connected"} /\ given.mode = "GATEWAY"
    /\ site.canUpload /\ ~drag.fs
    /\ drag' = [drag EXCEPT !.fs = TRUE]
    /\ UNCHANGED <<pageScope, site, setting, cookie, agreed, screen, given, life, recording, splash, gen, watch, changes>>

\* Whether a drop uploads: the announced filesystem, or the isolated browser's
\* file-transfer mode.
CanUpload == IF given.mode = "GATEWAY" THEN drag.fs ELSE site.canUpload

onDragEnter ==
    /\ "drop" \in pageScope
    /\ InSession /\ drag.depth < 2
    /\ drag' = [drag EXCEPT !.depth = @ + 1, !.state = IF CanUpload THEN "over" ELSE "blocked",
                            !.result = "none"]
    /\ UNCHANGED <<pageScope, site, setting, cookie, agreed, screen, given, life, recording, splash, gen, watch, changes>>

onDragLeave ==
    /\ InSession /\ drag.state # "idle"
    /\ LET depth == IF drag.depth = 0 THEN 0 ELSE drag.depth - 1
       IN  drag' = [drag EXCEPT !.depth = depth, !.state = IF depth = 0 THEN "idle" ELSE @]
    /\ UNCHANGED <<pageScope, site, setting, cookie, agreed, screen, given, life, recording, splash, gen, watch, changes>>

\* A drop uploads or says why not, never in silence; before the library is
\* there it is ignored.
onDrop ==
    /\ InSession /\ drag.state # "idle"
    /\ drag' = [drag EXCEPT !.depth = 0, !.state = "idle",
                            !.result = CASE CanUpload -> "uploaded"
                                         [] life.phase = "importing" -> "ignored"
                                         [] OTHER -> "refused"]
    /\ UNCHANGED <<pageScope, site, setting, cookie, agreed, screen, given, life, recording, splash, gen, watch, changes>>

-----------------------------------------------------------------------------
(* The monitoring notice                                                   *)

\* The 2 s poll of watch-status; the answers may overtake each other.
PollSent ==
    /\ "watch" \in pageScope
    /\ InSession /\ Len(watch.polls) < MaxPolls
    /\ watch' = [watch EXCEPT !.polls = Append(@, watch.now)]
    /\ UNCHANGED <<pageScope, site, setting, cookie, agreed, visitVars, changes>>

\* The polls still out once the i-th has its answer.
PollsWithout(i) == SubSeq(watch.polls, 1, i - 1) \o SubSeq(watch.polls, i + 1, Len(watch.polls))

PollAnswered(i) ==
    /\ i \in 1..Len(watch.polls)
    /\ watch' = [watch EXCEPT !.polls = PollsWithout(i), !.notice = watch.polls[i]]
    /\ UNCHANGED <<pageScope, site, setting, cookie, agreed, visitVars, changes>>

PollFails(i) ==
    /\ i \in 1..Len(watch.polls) /\ watch.failed < MaxFailures
    /\ watch' = [watch EXCEPT !.polls = PollsWithout(i), !.failed = @ + 1]
    /\ UNCHANGED <<pageScope, site, setting, cookie, agreed, visitVars, changes>>

\* An administrator starts or stops watching, or takes control.
AdminWatches(w) ==
    /\ "watch" \in pageScope
    /\ w # watch.now /\ changes < MaxChanges
    /\ watch' = [watch EXCEPT !.now = w]
    /\ changes' = changes + 1
    /\ UNCHANGED <<pageScope, site, setting, cookie, agreed, visitVars>>

\* An administrator edits the recording policy or the resource's toggle.
AdminSetsRecording(p, toggle) ==
    /\ "consent" \in pageScope /\ changes < MaxChanges
    /\ setting' = [setting EXCEPT !.recording = p]
    /\ site' = [site EXCEPT !.toggle = toggle]
    /\ <<setting', site'>> # <<setting, site>>
    /\ changes' = changes + 1
    /\ UNCHANGED <<pageScope, cookie, agreed, visitVars, watch>>

-----------------------------------------------------------------------------
PageInit ==
    /\ pageScope \in PageScopes
    /\ site \in [mode: PageModes, toggle: BOOLEAN, canUpload: BOOLEAN]
    /\ setting \in [recording: RecModes, consent: BOOLEAN]
    /\ "drop" \notin pageScope => ~site.canUpload
    /\ "consent" \notin pageScope =>
          setting = [recording |-> "off", consent |-> FALSE] /\ ~site.toggle
    /\ cookie = FALSE /\ agreed = FALSE
    /\ screen = "away" /\ life = NoClient /\ splash = NoSplash /\ drag = NoDrag /\ gen = 0
    /\ given = [mode |-> "TRANSPARENT", recorded |-> FALSE, asked |-> FALSE]
    /\ recording = FALSE
    /\ watch = [now |-> "no", polls |-> <<>>, notice |-> "no", failed |-> 0]
    /\ changes = 0

PageNext ==
    \/ GatewaySessionPage \/ Accept \/ ConsentAccepted
    \/ Imported \/ ImportFails \/ ClientConnected \/ FrameConnected
    \/ FramePollSeesIt \/ FallbackFires \/ ClientFails \/ cycleQuality \/ Leave
    \/ onfilesystem \/ onDragEnter \/ onDragLeave \/ onDrop
    \/ PollSent
    \/ \E i \in 1..MaxPolls: PollAnswered(i) \/ PollFails(i)
    \/ \E w \in Monitoring: AdminWatches(w)
    \/ \E p \in RecModes, toggle \in BOOLEAN: AdminSetsRecording(p, toggle)

\* Timers fire, and a poll is answered or fails.
PageFairness ==
    /\ WF_pageVars(FallbackFires)
    /\ WF_pageVars(PollSent)
    /\ \A i \in 1..MaxPolls: WF_pageVars(PollAnswered(i))

PageSpec == PageInit /\ [][PageNext]_pageVars /\ PageFairness

-----------------------------------------------------------------------------
(* Properties                                                              *)

\* The types; and the overlay is up exactly while files are dragged over the
\* page, however many elements they are dragged across.
PageTypeOK ==
    /\ screen \in Screens /\ gen \in 0..MaxGen
    /\ life.phase \in {"none", "importing", "loading", "connecting", "connected", "failed"}
    /\ drag.state \in {"idle", "over", "blocked"}
    /\ watch.now \in Monitoring /\ watch.notice \in Monitoring
    /\ (drag.depth > 0) <=> (drag.state # "idle")

\* A vendor who left stays disconnected: no client is connected to the session
\* of a page that is gone, though its import may resolve later.
LeavingDisconnects == screen = "away" => life.phase \in {"none", "importing"}

\* Where consent is required, nothing is recorded of a vendor who did not press
\* "I understand" in this browser session, if the recording policy has not been
\* changed since the page was loaded.
RecordedWithConsent ==
    (recording /\ setting.consent /\ given.recorded) => agreed

\* The splash over a session lifts for a reason of that session: its own client
\* connected, or its own 20 s fallback; a quality change covers the new frame.
SplashHonest ==
    splash.ready => \/ splash.why = "fallback"
                    \/ splash.why = "connected" /\ life.phase # "loading"

\* Files dropped where the overlay says "Drop to upload" are uploaded.
OverWillUpload == drag.state = "over" => CanUpload

\* The vendor is never trapped behind the splash: it lifts, the page says the
\* session failed, or the vendor leaves.
SplashLifts == InSession ~> (splash.ready \/ life.phase = "failed" \/ ~InSession)

\* Monitoring is told: once an administrator watches (or stops, or controls) for
\* good, the notice in a session that stays open comes to say so for good,
\* however the polls overtake each other, if only finitely many fail.
MonitoringIsTold ==
    \A w \in Monitoring: <>[](InSession /\ watch.now = w /\ "watch" \in pageScope)
                            => <>[](watch.notice = w)

\* A recorded session is one the vendor was told of.  Violated: the page decides
\* what to disclose when it loads, the data plane when the client connects, and
\* an administrator may turn recording on in between.
RecordedIsDisclosed == recording => given.recorded
=============================================================================
