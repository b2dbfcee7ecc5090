---------------------------- MODULE ResourceForm ----------------------------
(***************************************************************************)
(* Editing a resource and the organisation's policy, and what a session    *)
(* then gets: the resource form with its locked and inherited fields       *)
(* (site-form.tsx, guac-params-fields.tsx), the policy form that writes    *)
(* its whole record (platform-settings-form.tsx), the server's             *)
(* normalisation of both, the resolvers DB -> environment -> default       *)
(* (settings/platform.ts), and the session descriptor (guac-params.ts,     *)
(* recording/mode.ts, keystroke/policy.ts) the data plane acts on.         *)
(*                                                                         *)
(* Of the remote-desktop parameters three stand for all sixteen: file      *)
(* transfer (off unless set), its dependent upload block, and sound (on    *)
(* unless disabled, shown inverted).                                       *)
(***************************************************************************)
EXTENDS Naturals, FiniteSets, RecordingMode

CONSTANTS FormAdmins,   \* administrators with a form open
          MaxSubmits,     \* bound on submits
          MaxTouched,   \* bound on the controls changed in one form
          FormScopes    \* the groups of fields explored together

ASSUME FormAssumption == FormAdmins # {} /\ MaxSubmits \in Nat /\ MaxTouched \in Nat

VARIABLES formScope,
          stored,    \* the resource's row and its vault row's guacParams
          policy,    \* the PlatformSettings row, with "null" for unset columns
          env,       \* the environment's fallbacks
          capRec,    \* the platform allows this tenant to record
          forms,     \* what each administrator has on screen
          submits      \* submits so far

formVars == <<formScope, stored, policy, env, capRec, forms, submits>>

AccessModes == {"TRANSPARENT", "GATEWAY", "ISOLATED"}
ClipModes == {"allow", "no_copy", "no_paste", "none"}
Params == {"enableFileTransfer", "blockUpload", "disableAudio"}
Absent == [p \in Params |-> "absent"]
BlankForm == [kind |-> "none"]

-----------------------------------------------------------------------------
(* Conversions                                                             *)

\* paramsToGuacFields and guacFieldsToParams: a tri-state select per
\* parameter; sound is shown inverted.
tri(v) == CASE v = "absent" -> "" [] v = "true" -> "on" [] v = "false" -> "off"
triToBool(f) == CASE f = "" -> "absent" [] f = "on" -> "true" [] f = "off" -> "false"
flip(f) == CASE f = "on" -> "off" [] f = "off" -> "on" [] OTHER -> ""

paramsToGuacFields(ps) ==
    [p \in Params |-> IF p = "disableAudio" THEN flip(tri(ps[p])) ELSE tri(ps[p])]
guacFieldsToParams(fs) ==
    [p \in Params |-> triToBool(IF p = "disableAudio" THEN flip(fs[p]) ELSE fs[p])]

\* resolveGuacParams: the resource's value if it has one, else the policy's.
resolveGuacParams(resource, default) ==
    [p \in Params |-> IF resource[p] # "absent" THEN resource[p] ELSE default[p]]

\* toGuacArgs: the arguments guacd is given, per protocol.
ClipboardArgs(mode) ==
    {a \in {"disable-copy", "disable-paste"} :
        \/ a = "disable-copy" /\ mode \in {"no_copy", "none"}
        \/ a = "disable-paste" /\ mode \in {"no_paste", "none"}}

toGuacArgs(ps, clipMode, proto) ==
    ClipboardArgs(clipMode)
    \cup {a \in {"files", "no-upload", "disable-audio"} :
            \/ a = "disable-audio" /\ proto = "RDP" /\ ps["disableAudio"] = "true"
            \/ /\ proto \in {"RDP", "SSH"} /\ ps["enableFileTransfer"] = "true"
               /\ a = "files" \/ (a = "no-upload" /\ ps["blockUpload"] = "true")}

\* clipboardCaps: what the session page lets the browser do.
clipboardCaps(mode) == [copyOut |-> mode \notin {"no_copy", "none"},
                        pasteIn |-> mode \notin {"no_paste", "none"}]

-----------------------------------------------------------------------------
(* Resolved settings                                                       *)

resolvedRecordingMode ==
    CASE ~capRec -> "off"
      [] policy.recording # "null" -> policy.recording
      [] env.recording # "" -> env.recording
      [] OTHER -> "per_resource"
resolvedWatermarkDefault ==
    IF policy.mark # "null" THEN policy.mark ELSE env.mark
resolvedClipboardDefault == IF policy.clip = "null" THEN "allow" ELSE policy.clip
resolvedKeystrokeLoggingMode == IF policy.keys = "null" THEN "per_resource" ELSE policy.keys

\* effectiveKeystrokeLogging, given the resource's own toggle.
effectiveKeystrokeLogging(mode, toggle, flag) ==
    toggle /\ (CASE mode = "off" -> FALSE [] mode = "required" -> TRUE [] OTHER -> flag)

\* The data plane writes keystrokes only next to a recording.
KeystrokeTimeline(record, logging) == record /\ logging

\* What a session opened now gets, and the name the resource is served under.
Session ==
    LET clipMode == IF stored.clip = "inherit" THEN resolvedClipboardDefault ELSE stored.clip
        record == effectiveRecordSessions(resolvedRecordingMode, stored.record)
    IN  [record |-> record,
         clip |-> clipMode,
         host |-> IF stored.mode = "TRANSPARENT" THEN stored.host ELSE "",
         keys |-> /\ stored.mode = "GATEWAY"
                  /\ KeystrokeTimeline(record, effectiveKeystrokeLogging(
                        resolvedKeystrokeLoggingMode, stored.record, stored.keys)),
         mark |-> stored.mode = "ISOLATED" /\
                  (IF stored.mark = "inherit" THEN resolvedWatermarkDefault ELSE stored.mark) = "on",
         args |-> IF stored.mode # "GATEWAY" THEN {}
                  ELSE toGuacArgs(resolveGuacParams(stored.guac, policy.guac), clipMode, stored.protocol)]

-----------------------------------------------------------------------------
(* The resource form                                                       *)

\* The hostname box holds the label of a name under the server's suffix, and
\* any other name as it is.
WithoutSuffix(host) == IF host = "wiki.access" THEN "wiki" ELSE host

\* The label of a parameter's empty option: the policy's value, else the
\* engine's, sound being shown as on or off rather than as disabled or not.
InheritLabel(p, labels) ==
    LET v == IF labels[p] = "true" THEN "on" ELSE "off"
    IN  IF p = "disableAudio" THEN flip(v) ELSE v

\* The logo the form previews: a picked one, the stored one, or none.
ShownLogo(f) == CASE f.logo = "undefined" -> f.hadLogo
                  [] f.logo = "null" -> "none"
                  [] OTHER -> f.logo

\* The page loads the form with the row and the resolved policy.
OpenResource(a) ==
    /\ forms[a] = BlankForm
    /\ forms' = [forms EXCEPT ![a] =
           [kind |-> "resource", mode |-> stored.mode, record |-> stored.record,
            keys |-> stored.keys, clip |-> stored.clip, mark |-> stored.mark,
            host |-> WithoutSuffix(stored.host), custom |-> stored.custom, secret |-> FALSE,
            guac |-> paramsToGuacFields(stored.guac),
            logo |-> "undefined", hadLogo |-> stored.logo, reading |-> FALSE,
            lock |-> resolvedRecordingMode, ksMode |-> resolvedKeystrokeLoggingMode,
            labels |-> policy.guac,
            touched |-> {}, error |-> FALSE, stale |-> FALSE]]
    /\ UNCHANGED <<formScope, stored, policy, env, capRec, submits>>

\* One control changed, once per form.
Edit(a, field, changed) ==
    /\ field \notin forms[a].touched /\ Cardinality(forms[a].touched) < MaxTouched
    /\ changed # forms[a]
    /\ forms' = [forms EXCEPT ![a] = [changed EXCEPT !.touched = @ \cup {field}]]
    /\ UNCHANGED <<formScope, stored, policy, env, capRec, submits>>

EditMode(a, f) ==
    /\ "mode" \in formScope
    /\ \E m \in AccessModes: Edit(a, "mode", [f EXCEPT !.mode = m])

\* A web app's domain: managed under the suffix, or the tenant's own.
EditHost(a, f) ==
    /\ "host" \in formScope /\ f.mode = "TRANSPARENT"
    /\ \/ Edit(a, "custom", [f EXCEPT !.custom = ~@])
       \/ \E h \in {"", "wiki", "wiki.access", "portal.acme"}: Edit(a, "host", [f EXCEPT !.host = h])

\* A remote session's password, write-only, and its parameters.
EditSecret(a, f) ==
    /\ "mode" \in formScope /\ f.mode = "GATEWAY"
    /\ Edit(a, "secret", [f EXCEPT !.secret = TRUE])
EditGuac(a, f) ==
    /\ "guac" \in formScope /\ (f.kind = "resource" => f.mode = "GATEWAY")
    /\ \E p \in Params, v \in {"", "on", "off"}:
          Edit(a, "guac", [f EXCEPT !.guac = [@ EXCEPT ![p] = v]])

\* Every mode has a clipboard select; only an isolated one a watermark.
EditClipboard(a, f) ==
    /\ "clip" \in formScope
    /\ \E c \in ClipModes \cup {"inherit"}: Edit(a, "clip", [f EXCEPT !.clip = c])
EditWatermark(a, f) ==
    /\ "mark" \in formScope /\ f.mode = "ISOLATED"
    /\ \E m \in {"inherit", "on", "off"}: Edit(a, "mark", [f EXCEPT !.mark = m])

\* The toggle is disabled under a locking policy; the keystroke box is there
\* for a remote session shown as recorded, and enabled if the policy leaves
\* the choice.
EditRecord(a, f) ==
    /\ "record" \in formScope /\ ~recordToggleLock(f.lock)
    /\ Edit(a, "record", [f EXCEPT !.record = ~@])
EditKeystrokes(a, f) ==
    /\ "record" \in formScope /\ f.mode = "GATEWAY"
    /\ effectiveRecordSessions(f.lock, f.record) /\ f.ksMode = "per_resource"
    /\ Edit(a, "keys", [f EXCEPT !.keys = ~@])

\* onLogoFile reads the file before the form has it; removeLogo is immediate.
onLogoFile(a, f) ==
    /\ "logo" \in formScope /\ ~f.reading
    /\ Edit(a, "logo", [f EXCEPT !.reading = TRUE])
LogoRead(a, f) ==
    /\ "reading" \in DOMAIN f /\ f.reading
    /\ forms' = [forms EXCEPT ![a] = [f EXCEPT !.reading = FALSE, !.logo = "new", !.error = FALSE]]
    /\ UNCHANGED <<formScope, stored, policy, env, capRec, submits>>
removeLogo(a, f) ==
    /\ "logo" \in formScope /\ ShownLogo(f) # "none"
    /\ Edit(a, "removed", [f EXCEPT !.logo = "null"])

\* Whatever is open elsewhere is now older than the database.
Outdated(b) == IF forms[b] = BlankForm THEN BlankForm ELSE [forms[b] EXCEPT !.stale = TRUE]

\* parseLogoUpload: an absent field leaves the logo, null removes it.
parseLogoUpload(logo, had) ==
    CASE logo = "undefined" -> had [] logo = "null" -> "none" [] OTHER -> logo

\* validateSiteInput and the PATCH's own refusal: a web app needs a name - a
\* whole one if it is the tenant's own, a label otherwise - and a remote
\* session's first credential a password.
InputAccepted(f) ==
    /\ f.mode = "TRANSPARENT" =>
          IF f.custom THEN f.host \in {"wiki.access", "portal.acme"} ELSE f.host = "wiki"
    /\ f.mode = "GATEWAY" => stored.vault \/ f.secret

\* PATCH: the row of each mode has its own columns; the others stay.  The
\* server drops the toggle, and the keystroke flag without it, where recording
\* is not available.  A remote session's clipboard choice is posted and not
\* written.
PatchedWith(f, record) ==
    [stored EXCEPT !.mode = f.mode, !.record = record,
        !.keys = IF f.mode = "GATEWAY" THEN record /\ f.keys ELSE @,
        !.clip = IF f.mode = "GATEWAY" THEN @ ELSE f.clip,
        !.mark = IF f.mode = "ISOLATED" THEN f.mark ELSE @,
        !.host = IF f.mode # "TRANSPARENT" THEN ""
                 ELSE IF f.custom THEN f.host ELSE "wiki.access",
        !.custom = IF f.mode = "TRANSPARENT" THEN f.custom ELSE @,
        !.logo = parseLogoUpload(f.logo, @),
        !.vault = f.mode = "GATEWAY" \/ (@ /\ f.mode = "TRANSPARENT"),
        !.guac = CASE f.mode = "GATEWAY" -> guacFieldsToParams(f.guac)
                   [] f.mode = "ISOLATED" -> Absent
                   [] OTHER -> @]
PatchedRowLocked(f) == PatchedWith(f, capRec /\ effectiveRecordSessions(f.lock, f.record))
PatchedRow(f) == PatchedWith(f, capRec /\ f.record)

\* handleSubmit: the form leaves the screen when the server took it, and shows
\* the error when it did not.
handleSubmit(a) ==
    LET f == forms[a]
    IN  /\ f.kind = "resource" /\ submits < MaxSubmits
        /\ IF InputAccepted(f)
           THEN /\ stored' = PatchedRow(f)
                /\ forms' = [b \in FormAdmins |-> IF b = a THEN BlankForm ELSE Outdated(b)]
                /\ submits' = submits + 1
           ELSE /\ ~f.error
                /\ forms' = [forms EXCEPT ![a] = [f EXCEPT !.error = TRUE]]
                /\ UNCHANGED <<stored, submits>>
        /\ UNCHANGED <<formScope, policy, env, capRec>>

EditResource(a) ==
    LET f == forms[a]
    IN  /\ f.kind = "resource"
        /\ \/ EditMode(a, f) \/ EditHost(a, f) \/ EditSecret(a, f) \/ EditGuac(a, f)
           \/ EditClipboard(a, f) \/ EditWatermark(a, f)
           \/ EditRecord(a, f) \/ EditKeystrokes(a, f)
           \/ onLogoFile(a, f) \/ LogoRead(a, f) \/ removeLogo(a, f)

-----------------------------------------------------------------------------
(* The policy form                                                         *)

\* The form starts from the row where it has a value and from what applies
\* where it has none.
PolicyInitial ==
    [recording |-> IF policy.recording = "null" THEN resolvedRecordingMode ELSE policy.recording,
     mark |-> IF policy.mark = "null" THEN resolvedWatermarkDefault ELSE policy.mark]

OpenPolicy(a) ==
    /\ forms[a] = BlankForm
    /\ forms' = [forms EXCEPT ![a] =
           [kind |-> "policy",
            recording |-> PolicyInitial.recording, mark |-> PolicyInitial.mark,
            keys |-> resolvedKeystrokeLoggingMode, clip |-> resolvedClipboardDefault,
            guac |-> paramsToGuacFields(policy.guac),
            touched |-> {}, stale |-> FALSE]]
    /\ UNCHANGED <<formScope, stored, policy, env, capRec, submits>>

EditRecordingPolicy(a, f) ==
    /\ "record" \in formScope
    /\ \E m \in RecModes: \/ Edit(a, "recording", [f EXCEPT !.recording = m])
                          \/ Edit(a, "keys", [f EXCEPT !.keys = m])
EditPolicyDefaults(a, f) ==
    \/ /\ "clip" \in formScope
       /\ \E c \in ClipModes: Edit(a, "clip", [f EXCEPT !.clip = c])
    \/ /\ "mark" \in formScope
       /\ \E m \in {"on", "off"}: Edit(a, "mark", [f EXCEPT !.mark = m])

EditPolicy(a) ==
    LET f == forms[a]
    IN  /\ f.kind = "policy"
        /\ EditRecordingPolicy(a, f) \/ EditPolicyDefaults(a, f) \/ EditGuac(a, f)

\* save() posts the whole record, whichever fields were touched; the form stays
\* on screen with the values it had.
SavePolicy(a) ==
    LET f == forms[a]
    IN  /\ f.kind = "policy" /\ submits < MaxSubmits
        /\ policy' = [recording |-> f.recording, keys |-> f.keys, clip |-> f.clip,
                      mark |-> f.mark, guac |-> guacFieldsToParams(f.guac)]
        /\ forms' = [b \in FormAdmins |-> IF b = a THEN [f EXCEPT !.touched = {}, !.stale = FALSE]
                                      ELSE Outdated(b)]
        /\ submits' = submits + 1
        /\ UNCHANGED <<formScope, stored, env, capRec>>

\* A form is left without saving.
CloseForm(a) ==
    /\ forms[a] # BlankForm
    /\ forms' = [forms EXCEPT ![a] = BlankForm]
    /\ UNCHANGED <<formScope, stored, policy, env, capRec, submits>>

\* The platform's operator switches the tenant's recording capability.
CapabilitySwitched ==
    /\ "record" \in formScope /\ submits < MaxSubmits
    /\ capRec' = ~capRec
    /\ submits' = submits + 1
    /\ forms' = [a \in FormAdmins |-> Outdated(a)]
    /\ UNCHANGED <<formScope, stored, policy, env>>

-----------------------------------------------------------------------------
\* A resource and a policy that earlier submits can have left, with the fields
\* out of scope at rest.
In(field, values, rest) == IF field \in formScope THEN values ELSE {rest}

FormInit ==
    /\ formScope \in FormScopes
    /\ stored \in [mode: In("mode", AccessModes, IF "mark" \in formScope THEN "ISOLATED"
                                          ELSE IF "host" \in formScope THEN "TRANSPARENT"
                                          ELSE "GATEWAY"),
                   record: In("record", BOOLEAN, FALSE), keys: In("record", BOOLEAN, FALSE),
                   clip: In("clip", {"inherit", "no_copy"}, "inherit"),
                   mark: In("mark", {"inherit", "on"}, "inherit"),
                   host: {"", "wiki.access", "portal.acme"}, custom: BOOLEAN,
                   logo: In("logo", {"none", "old"}, "none"),
                   vault: BOOLEAN,
                   protocol: In("guac", {"RDP", "SSH", "VNC"}, "RDP"),
                   guac: In("guac", {Absent, [Absent EXCEPT !["enableFileTransfer"] = "false"],
                                     [Absent EXCEPT !["enableFileTransfer"] = "true",
                                                    !["disableAudio"] = "true"]}, Absent)]
    /\ stored.keys => stored.record
    /\ (stored.host # "") <=> (stored.mode = "TRANSPARENT")
    /\ (stored.host = "portal.acme") => stored.custom
    /\ stored.custom => "host" \in formScope
    /\ stored.vault <=> (stored.mode = "GATEWAY")
    /\ policy \in [recording: In("record", RecModes \cup {"null"}, "null"),
                   keys: In("record", {"null", "required"}, "null"),
                   clip: In("clip", {"null", "none"}, "null"),
                   mark: In("mark", {"null", "on", "off"}, "null"),
                   guac: In("guac", {Absent, [p \in Params |-> "true"]}, Absent)]
    /\ env \in [recording: In("record", {"", "required"}, ""), mark: In("mark", {"on", "off"}, "off")]
    /\ capRec \in In("record", BOOLEAN, TRUE)
    /\ forms = [a \in FormAdmins |-> BlankForm]
    /\ submits = 0

\* The second administrator joins in the scope where the two overlap.
Editing == IF "two" \in formScope THEN FormAdmins ELSE {CHOOSE a \in FormAdmins: TRUE}

FormNext ==
    \/ \E a \in Editing: \/ OpenResource(a) \/ EditResource(a) \/ handleSubmit(a)
                         \/ OpenPolicy(a) \/ EditPolicy(a) \/ SavePolicy(a)
                         \/ CloseForm(a)
    \/ CapabilitySwitched

FormSpec == FormInit /\ [][FormNext]_formVars

-----------------------------------------------------------------------------
(* Properties                                                              *)

\* Administrator a submits, in this step, a form nothing has outdated.
SavesResource(a) == handleSubmit(a) /\ submits' = submits + 1 /\ ~forms[a].stale
SavesPolicy(a) == SavePolicy(a) /\ ~forms[a].stale

\* Keystrokes are captured only of sessions that are recorded, whatever the
\* policy and the resource say about either.
KeystrokesNeedRecording == Session.keys => Session.record

\* The two clipboard controls agree: guacd blocks a direction exactly when the
\* session page's own caps do, whichever of the resource and the policy the
\* mode came from.
ClipboardControlsAgree ==
    stored.mode = "GATEWAY" =>
        /\ ("disable-copy" \in Session.args) <=> ~clipboardCaps(Session.clip).copyOut
        /\ ("disable-paste" \in Session.args) <=> ~clipboardCaps(Session.clip).pasteIn

\* The empty option of a remote-desktop parameter reads "Inherit policy (x)":
\* as long as nothing was saved since the form opened, x is what a session gets
\* from a save that leaves the field there.
InheritLabelsHonest ==
    \A a \in FormAdmins:
        LET f == forms[a]
            got == resolveGuacParams(guacFieldsToParams(f.guac), policy.guac)
            on(p) == (got[p] = "true") # (p = "disableAudio")
        IN  (f.kind = "resource" /\ ~f.stale) =>
                \A p \in Params: f.guac[p] = "" => (InheritLabel(p, f.labels) = "on" <=> on(p))

\* Saving a form untouched changes no session and no name: not the resource
\* form, although it posts values a policy overrides and a name without its
\* suffix, nor the policy form, although it writes every column with what the
\* environment or a default had supplied.
UntouchedSaveChangesNothing ==
    [][\A a \in FormAdmins:
          (SavesResource(a) \/ SavesPolicy(a)) /\ forms[a].touched = {}
              => Session' = Session]_formVars

\* A policy that locks the recording toggle never overwrites the resource's own
\* preference: it is there again when the policy returns to "per resource"
\* (site-form.tsx:139-142).
LockKeepsPreference ==
    [][\A a \in FormAdmins:
          SavesResource(a) /\ "record" \notin forms[a].touched /\ capRec
              => stored'.record = stored.record]_formVars

\* "Anything set here wins for this resource" (site-form.tsx:520), for the
\* remote-desktop parameters: an explicit off beats a policy's on.
ParameterSetHereWins ==
    [][\A a \in FormAdmins: (SavesResource(a) /\ stored'.mode = "GATEWAY") =>
          \A p \in Params: forms[a].guac[p] # "" =>
              resolveGuacParams(stored'.guac, policy'.guac)[p]
                  = guacFieldsToParams(forms[a].guac)[p]]_formVars

\* The logo saved is the one the form showed, whatever was picked, removed or
\* still being read.
LogoShownIsSaved ==
    [][\A a \in FormAdmins: SavesResource(a) => stored'.logo = ShownLogo(forms[a])]_formVars

\* The same for the clipboard choice in the same list.  Violated: neither
\* validateSiteInput nor the two gateway writes carry clipboardMode.
ClipboardSetHereWins ==
    [][\A a \in FormAdmins: (SavesResource(a) /\ stored'.mode = "GATEWAY") =>
          (forms[a].clip # "inherit" => Session'.clip = forms[a].clip)]_formVars

\* "gated on recording being active for the session" (keystroke/policy.ts).
\* Violated: the gate is the resource's own toggle, so a session recorded
\* because the policy requires it has no keystroke timeline.
KeystrokesWhenRequired ==
    (stored.mode = "GATEWAY" /\ Session.record /\ resolvedKeystrokeLoggingMode = "required")
        => Session.keys

\* A save keeps the columns its administrator did not touch.  Violated: both
\* forms write every field, so the later of two submits undoes the other's edit.
SaveKeepsOthers ==
    [][\A a \in FormAdmins: SavePolicy(a) =>
          \A c \in {"clip", "keys"} \ forms[a].touched:
              policy[c] # "null" => policy'[c] = policy[c]]_formVars

\* An untouched form is accepted.  Violated: a domain of the tenant's own that
\* lies under the server's suffix is shown as its label and posted as one.
UntouchedSaveAccepted ==
    \A a \in FormAdmins: (forms[a].kind = "resource" /\ forms[a].touched = {} /\ ~forms[a].stale)
        => ~forms[a].error
=============================================================================
