---------------------------- MODULE SessionInput ----------------------------
(***************************************************************************)
(* Keyboard and clipboard of a native gateway session in the vendor's      *)
(* browser (session-client.tsx, clipboard.ts, paste-keys.ts): which keys   *)
(* the remote believes are down, the Ctrl+V gesture that is swallowed and  *)
(* replayed as the protocol's paste chord, the clipboard panel that        *)
(* suspends the keyboard, the on-screen keyboard, and the two clipboards   *)
(* joined by messages that cross each other on the tunnel.                 *)
(*                                                                         *)
(* Guacamole.Keyboard, the browser's clipboard and guacd are external.     *)
(* The library calls a handler once per key until the key is released, and *)
(* its reset() releases what it holds, the letter keys first (their        *)
(* keysyms are the smaller ones).                                          *)
(***************************************************************************)
EXTENDS Naturals, Sequences, SequencesExt, FiniteSets

CONSTANTS LocalTexts,   \* texts the vendor copies on their own machine
          RemoteTexts,  \* texts copied in the remote session
          MaxWire,      \* bound on the messages queued in one direction
          InScopes      \* what is explored together: keys, "osk", "clip"

ASSUME InputAssumption ==
    /\ "" \notin LocalTexts \cup RemoteTexts
    /\ LocalTexts \cap RemoteTexts = {}
    /\ MaxWire \in Nat \ {0}

VARIABLES inScope,
          protocol,   \* "SSH" or "RDP" (VNC pastes as RDP does)
          clipPolicy,     \* [pasteIn, copyOut]: the resource's clipboard caps
          down,       \* the keys the vendor's fingers are on
          kb,         \* [held, remote, mods, twice]: see KbType
          osk,        \* modifiers armed on the on-screen keyboard
          muddled,    \* both Ctrl keys, or real and on-screen keys, were mixed
          panelOpen,  \* clipboardOpen, the panel on screen (keyboard suspended)
          openRef,    \* clipboardOpenRef.current
          box,        \* the panel's textarea
          clip,       \* [browser, guacd, remoteText, lastPushed]
          toRemote,   \* clipboard streams and paste chords on their way to guacd
          toBrowser,  \* clipboard streams on their way from guacd
          reading,    \* texts of readText() calls that have not resolved
          crossing     \* a copy in the session and a push met on the wire

kbdVars == <<down, kb, osk, muddled>>
panelVars == <<panelOpen, openRef, box>>
wireVars == <<clip, toRemote, toBrowser, reading, crossing>>
inputVars == <<inScope, protocol, clipPolicy, kbdVars, panelVars, wireVars>>

Keys == {"ctrlL", "ctrlR", "alt", "shift", "insert", "v", "esc"}
Ctrls == {"ctrlL", "ctrlR"}
Keysyms == {"ctrlL", "ctrlR", "alt", "shift", "insert", "v", "V", "esc"}
ClipTexts == LocalTexts \cup RemoteTexts \cup {""}

\* held: keysyms the library holds; remote: keys down at the remote; mods:
\* modsRef; twice: Ctrl was pressed while the remote had it down already.
KbType == [held: SUBSET Keysyms, remote: SUBSET Keysyms,
           mods: SUBSET {"ctrl", "alt", "shift", "insert"}, twice: BOOLEAN]

-----------------------------------------------------------------------------
(* The key handlers                                                        *)

\* The letter under the v key depends on Shift.
Keysym(k) == IF k = "v" /\ "shift" \in down THEN "V" ELSE k

\* modsRef's name of a modifier key.
ModOf(k) == CASE k \in Ctrls -> {"ctrl"}
              [] k \in {"alt", "shift", "insert"} -> {k}
              [] OTHER -> {}

trackMods(b, k, isDown) ==
    [b EXCEPT !.mods = IF isDown THEN @ \cup ModOf(k) ELSE @ \ ModOf(k)]

isBrowserPasteKey(k, mods) == k = "v" /\ "ctrl" \in mods /\ "alt" \notin mods

\* client.sendKeyEvent, as the remote's set of keys sees it.
sendKeyDown(b, k) ==
    [b EXCEPT !.remote = @ \cup {k}, !.twice = @ \/ (k \in Ctrls \cap b.remote)]
sendKeyUp(b, k) == [b EXCEPT !.remote = @ \ {k}]

kd(b, k) ==
    LET t == trackMods(b, k, TRUE)
    IN  IF isBrowserPasteKey(k, t.mods) THEN t ELSE sendKeyDown(t, k)

ku(b, k) ==
    LET t == trackMods(b, k, FALSE)
    IN  IF isBrowserPasteKey(k, t.mods) THEN t ELSE sendKeyUp(t, k)

\* The library's own bookkeeping around the handlers; `on` says whether the
\* handlers are installed.
press(b, k, on) ==
    IF k \in b.held THEN b
    ELSE LET h == [b EXCEPT !.held = @ \cup {k}] IN IF on THEN kd(h, k) ELSE h

release(b, k, on) ==
    IF k \notin b.held THEN b
    ELSE LET h == [b EXCEPT !.held = @ \ {k}] IN IF on THEN ku(h, k) ELSE h

\* reset(): every held key is released, the letters first.
resetOrder == <<"V", "v", "esc", "insert", "shift", "ctrlL", "ctrlR", "alt">>
reset(b, on) == FoldLeft(LAMBDA acc, k: release(acc, k, on), b, resetOrder)

\* Press the keys in order and release them in reverse.
sendChord(b, ks) ==
    LET pressed == FoldLeft(LAMBDA acc, k: sendKeyDown(acc, k), b, ks)
    IN  FoldLeft(LAMBDA acc, k: sendKeyUp(acc, k), pressed, Reverse(ks))

pasteKeySequence(ctrlHeld) ==
    LET chord == IF protocol = "SSH" THEN <<"shift", "V">> ELSE <<"v">>
    IN  IF ctrlHeld THEN chord ELSE <<"ctrlL">> \o chord

\* The panel's effect: opening suspends the keyboard after a reset and fills
\* the textarea, closing installs the handlers again.
suspendKeyboardNoReset(b) == b
suspendKeyboard(b) == reset(b, ~panelOpen)

-----------------------------------------------------------------------------
(* The clipboard bridge                                                    *)

ClipMsg(t) == [op |-> "clip", text |-> t]
PasteMsg(t) == [op |-> "paste", text |-> t]

\* pushLocal: the messages it queues; "blocked", "empty" and "unchanged" queue
\* none.
pushLocal(t) ==
    IF ~clipPolicy.pasteIn \/ t = "" \/ t = clip.lastPushed THEN <<>> ELSE <<ClipMsg(t)>>

\* Queue msgs; a queued stream is what lastPushed names from now on.
Enqueue(msgs) ==
    /\ Len(toRemote) + Len(msgs) <= MaxWire
    /\ toRemote' = toRemote \o msgs
    /\ clip' = [clip EXCEPT !.lastPushed =
                    IF \E m \in ToSet(msgs): m.op = "clip"
                    THEN (CHOOSE m \in ToSet(msgs): m.op = "clip").text ELSE @]
    /\ crossing' = (crossing \/ (msgs # <<>> /\ toBrowser # <<>>))

\* The paste event, with the keyboard as it is then: ignored while the panel
\* has the focus as the ref tells it; Shift+Insert only refreshes guacd's
\* clipboard; where pasting in is not allowed the plain chord goes out.
onPaste(b, t) ==
    LET shiftInsert == {"shift", "insert"} \subseteq b.mods
        chorded == sendChord(b, pasteKeySequence("ctrl" \in b.mods))
    IN  \/ /\ openRef
           /\ kb' = b /\ UNCHANGED <<toRemote, clip, crossing>>
        \/ /\ ~openRef /\ shiftInsert
           /\ kb' = b /\ Enqueue(pushLocal(t))
        \/ /\ ~openRef /\ ~shiftInsert
           /\ kb' = chorded
           /\ Enqueue(pushLocal(t) \o <<PasteMsg(IF clipPolicy.pasteIn THEN t ELSE "")>>)

-----------------------------------------------------------------------------
(* Keys                                                                    *)

\* The panel's state after a step; opening it runs the effect.
PanelOpens(ref, text) ==
    /\ panelOpen' = TRUE /\ openRef' = ref
    /\ box' = IF panelOpen THEN box ELSE text
PanelCloses == panelOpen' = FALSE /\ openRef' = FALSE /\ box' = ""

\* What the textarea shows when the panel opens.
OpeningText == IF clipPolicy.copyOut THEN clip.remoteText ELSE ""

\* A key goes down.  The capturing listener takes Ctrl+Alt+Shift and, while the
\* ref says the panel is open, Esc; any other key reaches the library.  Ctrl+V
\* and Shift+Insert make the browser fire `paste` before the next key.
Chord(d) == d \cap Ctrls # {} /\ {"alt", "shift"} \subseteq d
Gesture(k, d) ==
    \/ k = "v" /\ d \cap Ctrls # {} /\ "alt" \notin d
    \/ k = "insert" /\ "shift" \in d

KeyDown(k) ==
    LET d == down \cup {k}
    IN  /\ k \in inScope /\ k \notin down
        /\ down' = d
        /\ muddled' = (muddled \/ Ctrls \subseteq d)
        /\ \/ /\ Chord(d) /\ openRef
              /\ PanelCloses /\ UNCHANGED <<kb, wireVars>>
           \/ /\ Chord(d) /\ ~openRef
              /\ PanelOpens(TRUE, OpeningText)
              /\ kb' = IF panelOpen THEN kb ELSE suspendKeyboard(kb)
              /\ UNCHANGED wireVars
           \/ /\ ~Chord(d) /\ openRef /\ k = "esc"
              /\ PanelCloses /\ UNCHANGED <<kb, wireVars>>
           \/ /\ ~Chord(d) /\ ~(openRef /\ k = "esc") /\ ~Gesture(k, d)
              /\ kb' = press(kb, Keysym(k), ~panelOpen)
              /\ UNCHANGED <<panelVars, wireVars>>
           \/ /\ ~Chord(d) /\ Gesture(k, d)
              /\ onPaste(press(kb, Keysym(k), ~panelOpen), clip.browser)
              /\ UNCHANGED <<panelVars, toBrowser, reading>>
        /\ UNCHANGED <<inScope, protocol, clipPolicy, osk>>

\* A key comes up: the library releases the keysym it was pressed as.
KeyUp(k) ==
    LET ks == kb.held \cap (IF k = "v" THEN {"v", "V"} ELSE {k})
    IN  /\ k \in down
        /\ down' = down \ {k}
        /\ kb' = IF ks = {} THEN kb ELSE release(kb, CHOOSE s \in ks: TRUE, ~panelOpen)
        /\ UNCHANGED <<inScope, protocol, clipPolicy, osk, muddled, panelVars, wireVars>>

\* Edit -> Paste: the gesture without a key.
MenuPaste ==
    /\ onPaste(kb, clip.browser)
    /\ UNCHANGED <<inScope, protocol, clipPolicy, down, osk, muddled, panelVars, toBrowser, reading>>

\* The on-screen keyboard: a modifier is armed or disarmed, any other key goes
\* out with the armed ones pressed around it.
applyKey(k) ==
    IF k \in {"ctrlL", "alt", "shift"}
    THEN /\ osk' = IF k \in osk THEN osk \ {k} ELSE osk \cup {k}
         /\ UNCHANGED <<kb, muddled>>
    ELSE /\ kb' = sendChord(kb, SelectSeq(<<"ctrlL", "alt", "shift">>,
                                          LAMBDA m: m \in osk) \o <<k>>)
         /\ osk' = {}
         /\ muddled' = (muddled \/ (osk \cup {k}) \cap kb.remote # {})

OskPress(k) ==
    /\ "osk" \in inScope
    /\ applyKey(k)
    /\ UNCHANGED <<inScope, protocol, clipPolicy, down, panelVars, wireVars>>

-----------------------------------------------------------------------------
(* The panel                                                               *)

\* The Clipboard buttons of the session's controls set the state, not the ref.
ClipboardButton ==
    /\ ~panelOpen
    /\ PanelOpens(openRef, OpeningText)
    /\ kb' = suspendKeyboard(kb)
    /\ UNCHANGED <<inScope, protocol, clipPolicy, down, osk, muddled, wireVars>>

\* The vendor types; the textarea is read-only where pasting in is not allowed.
TypeInBox(t) ==
    /\ "clip" \in inScope
    /\ panelOpen /\ clipPolicy.pasteIn
    /\ box' = t
    /\ UNCHANGED <<inScope, protocol, clipPolicy, kbdVars, panelOpen, openRef, wireVars>>

closeClipboard ==
    /\ panelOpen
    /\ PanelCloses
    /\ UNCHANGED <<inScope, protocol, clipPolicy, kbdVars, wireVars>>

\* Send to session: the panel closes, then pasteIntoSession pushes and pastes.
SendToSession ==
    /\ panelOpen /\ clipPolicy.pasteIn
    /\ PanelCloses
    /\ \/ /\ box = ""
          /\ UNCHANGED <<kb, toRemote, clip, crossing>>
       \/ /\ box # ""
          /\ Enqueue(pushLocal(box) \o <<PasteMsg(box)>>)
          /\ kb' = sendChord(kb, pasteKeySequence("ctrl" \in kb.mods))
    /\ UNCHANGED <<inScope, protocol, clipPolicy, down, osk, muddled, toBrowser, reading>>

-----------------------------------------------------------------------------
(* The wire and the two clipboards                                         *)

\* The vendor copies something on their own machine.
LocalCopy(t) ==
    /\ "clip" \in inScope
    /\ clip' = [clip EXCEPT !.browser = t]
    /\ UNCHANGED <<inScope, protocol, clipPolicy, kbdVars, panelVars, toRemote, toBrowser, reading, crossing>>

\* An application of the remote copies: guacd streams it to the browser.
RemoteCopy(t) ==
    /\ "clip" \in inScope /\ Len(toBrowser) < MaxWire
    /\ clip' = [clip EXCEPT !.guacd = t]
    /\ toBrowser' = Append(toBrowser, t)
    /\ crossing' = (crossing \/ toRemote # <<>>)
    /\ UNCHANGED <<inScope, protocol, clipPolicy, kbdVars, panelVars, toRemote, reading>>

\* client.onclipboard: what guacd holds now is what a paste would insert, so it
\* counts as pushed; it reaches the browser's clipboard where copying out is
\* allowed (and the browser permits the write).
onclipboard ==
    /\ toBrowser # <<>>
    /\ LET t == Head(toBrowser)
       IN  \E written \in {clipPolicy.copyOut, FALSE}:
              clip' = [clip EXCEPT !.remoteText = t, !.lastPushed = t,
                                   !.browser = IF written THEN t ELSE @]
    /\ toBrowser' = Tail(toBrowser)
    /\ UNCHANGED <<inScope, protocol, clipPolicy, kbdVars, panelVars, toRemote, reading, crossing>>

\* syncFromBrowser on focus: readText is asynchronous and may be refused.
syncFromBrowser ==
    /\ "clip" \in inScope /\ clipPolicy.pasteIn
    /\ Cardinality(reading) < MaxWire
    /\ reading' = reading \cup {clip.browser}
    /\ UNCHANGED <<inScope, protocol, clipPolicy, kbdVars, panelVars, clip, toRemote, toBrowser, crossing>>

ReadResolves(t) ==
    /\ t \in reading
    /\ reading' = reading \ {t}
    /\ Enqueue(pushLocal(t))
    /\ UNCHANGED <<inScope, protocol, clipPolicy, kbdVars, panelVars, toBrowser>>

ReadRefused(t) ==
    /\ t \in reading
    /\ reading' = reading \ {t}
    /\ UNCHANGED <<inScope, protocol, clipPolicy, kbdVars, panelVars, clip, toRemote, toBrowser, crossing>>

\* guacd takes the oldest message: a stream becomes its clipboard, a chord
\* pastes it.
GuacdTakes ==
    /\ toRemote # <<>>
    /\ LET m == Head(toRemote)
       IN  clip' = IF m.op = "clip" THEN [clip EXCEPT !.guacd = m.text] ELSE clip
    /\ toRemote' = Tail(toRemote)
    /\ UNCHANGED <<inScope, protocol, clipPolicy, kbdVars, panelVars, toBrowser, reading, crossing>>

-----------------------------------------------------------------------------
InputInit ==
    /\ inScope \in InScopes
    /\ protocol \in {"SSH", "RDP"}
    /\ clipPolicy \in [pasteIn: BOOLEAN, copyOut: BOOLEAN]
    /\ down = {} /\ osk = {} /\ muddled = FALSE
    /\ kb = [held |-> {}, remote |-> {}, mods |-> {}, twice |-> FALSE]
    /\ panelOpen = FALSE /\ openRef = FALSE /\ box = ""
    /\ clip = [browser |-> "", guacd |-> "", remoteText |-> "", lastPushed |-> ""]
    /\ toRemote = <<>> /\ toBrowser = <<>> /\ reading = {} /\ crossing = FALSE

InputNext ==
    \/ \E k \in Keys: KeyDown(k) \/ KeyUp(k)
    \/ \E k \in {"ctrlL", "alt", "shift", "v"}: OskPress(k)
    \/ MenuPaste
    \/ ClipboardButton
    \/ \E t \in LocalTexts \cup {""}: TypeInBox(t)
    \/ closeClipboard
    \/ SendToSession
    \/ \E t \in LocalTexts: LocalCopy(t)
    \/ \E t \in RemoteTexts: RemoteCopy(t)
    \/ onclipboard
    \/ syncFromBrowser
    \/ \E t \in ClipTexts: ReadResolves(t) \/ ReadRefused(t)
    \/ GuacdTakes

InputSpec == InputInit /\ [][InputNext]_inputVars

-----------------------------------------------------------------------------
(* Properties                                                              *)

\* The types, and the ref says "open" only while the panel is: Esc and the
\* paste event are never withheld from a session whose panel is closed.
InputTypeOK ==
    /\ kb \in KbType /\ down \subseteq Keys /\ osk \subseteq {"ctrlL", "alt", "shift"}
    /\ clip \in [browser: ClipTexts, guacd: ClipTexts, remoteText: ClipTexts, lastPushed: ClipTexts]
    /\ box \in ClipTexts /\ reading \subseteq ClipTexts
    /\ openRef => panelOpen

\* No modifier sticks: with no finger on the keyboard, and for as long as the
\* clipboard panel is open, the remote has no key down.  (The v key is excepted:
\* released while Ctrl is held, its key-up is swallowed as the paste gesture's.)
NothingSticks == (down = {} \/ panelOpen) => kb.remote \subseteq {"v"}

\* The replayed paste chord never presses Ctrl when the remote has it down,
\* unless both Ctrl keys, or real and on-screen keys, were down together.
NeverDoublePressesCtrl == kb.twice => muddled

\* Text crosses only in the directions the resource allows: what the vendor
\* copied never reaches guacd where pasting in is blocked, and what the session
\* copied reaches neither the browser's clipboard nor the panel where copying
\* out is blocked.
ClipboardPolicyKept ==
    /\ ~clipPolicy.pasteIn => /\ clip.guacd \notin LocalTexts
                          /\ \A m \in ToSet(toRemote): m.op = "paste"
    /\ ~clipPolicy.copyOut => clip.browser \notin RemoteTexts /\ box \notin RemoteTexts

\* A paste inserts the text the vendor asked for: when the chord reaches the
\* remote, guacd's clipboard is that text, although streams are skipped as
\* unchanged, unless a copy made in the session crossing a push on the wire.
PasteInsertsWhatWasAsked ==
    (toRemote # <<>> /\ Head(toRemote).op = "paste" /\ Head(toRemote).text # "" /\ ~crossing)
        => clip.guacd = Head(toRemote).text

\* "Ignored while the panel's textarea has it" (session-client.tsx:346): while
\* the panel stays open no paste chord is sent.  Violated: the Clipboard buttons
\* open the panel without setting the ref the handler reads.
Pastes(q) == Len(SelectSeq(q, LAMBDA m: m.op = "paste"))
PanelKeepsThePaste ==
    [][panelOpen /\ panelOpen' => Pastes(toRemote') <= Pastes(toRemote)]_inputVars
=============================================================================
