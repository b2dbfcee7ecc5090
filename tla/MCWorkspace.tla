---------------------------- MODULE MCWorkspace ----------------------------
(***************************************************************************)
(* A workspace and its screens, checked in one run.  Each behaviour is one *)
(* of one part, the others resting in an initial state of theirs: the life *)
(* of a tenant (Tenancy), its settings (Settings), its resources (Sites)   *)
(* and their health (SiteHealth), the page of a session (SessionPage) with *)
(* its keyboard and clipboard (SessionInput), and the console's tables     *)
(* (ConsoleTables) and forms (ResourceForm).                               *)
(***************************************************************************)
EXTENDS Tenancy, Settings, Sites, SiteHealth, SessionPage, SessionInput, ConsoleTables, ResourceForm

VARIABLE part

Parts == {"tenancy", "settings", "sites", "health", "page", "input", "tables", "form"}

MCHomeOf == [s \in SiteIds |-> IF s = "s1" THEN "acme" ELSE "globex"]
MCSiteScopes == {{"create", "patch", "verify"}, {"create", "patch", "vault"}, {}}
MCPageScopes == {{"consent"}, {"quality"}, {"drop"}, {"watch"}, {}}
MCInScopes == {{"ctrlL", "alt", "shift", "v", "esc"}, {"ctrlL", "ctrlR", "v", "alt"},
               {"shift", "insert", "v", "ctrlL"}, {"osk", "ctrlL", "v"}, {"clip"}, {}}
MCTblScopes == {{"type"}, {"delete"}, {}}
MCEntryOwner == [e \in Entries |-> IF e = 1 THEN "u1" ELSE "u2"]
MCFormScopes == {{"record"}, {"clip", "mode"}, {"mark"}, {"guac"}, {"mode", "host"}, {"logo"},
                 {"clip", "two"}, {}}

\* A part that rests has no operation in scope and one initial state; the
\* clipboard policies vary where the clipboard is in scope.
WorkspaceInit ==
    /\ part \in Parts
    /\ TenancyInit /\ ((tenScope # {}) <=> (part = "tenancy"))
    /\ SettingsInit /\ (part # "settings" => ~cloudTx)
    /\ SiteInit /\ ((siteScope # {}) <=> (part = "sites"))
    /\ part # "sites" => ~multi /\ caps = {} /\ dns = Hostnames
    /\ HealthInit
    /\ part # "health" => ~inCloud /\ row = [s \in Probed |-> "gone"] /\ up = [s \in Probed |-> TRUE]
    /\ PageInit /\ ((pageScope # {}) <=> (part = "page"))
    /\ part # "page" => site.mode = "GATEWAY"
    /\ InputInit /\ ((inScope # {}) <=> (part = "input"))
    /\ part # "input" => protocol = "SSH"
    /\ "clip" \notin inScope => clipPolicy = [pasteIn |-> TRUE, copyOut |-> TRUE]
    /\ TblInit /\ ((tblScope # {}) <=> (part = "tables"))
    /\ part # "tables" => table = "recordings"
    /\ FormInit /\ ((formScope # {}) <=> (part = "form"))

WorkspaceNext ==
    \/ /\ part = "tenancy" /\ TenancyNext
       /\ UNCHANGED <<part, setVars, siteVars, healthVars, pageVars, inputVars, tblVars, formVars>>
    \/ /\ part = "settings" /\ SettingsNext
       /\ UNCHANGED <<part, tenVars, siteVars, healthVars, pageVars, inputVars, tblVars, formVars>>
    \/ /\ part = "sites" /\ SiteNext
       /\ UNCHANGED <<part, tenVars, setVars, healthVars, pageVars, inputVars, tblVars, formVars>>
    \/ /\ part = "health" /\ HealthNext
       /\ UNCHANGED <<part, tenVars, setVars, siteVars, pageVars, inputVars, tblVars, formVars>>
    \/ /\ part = "page" /\ PageNext
       /\ UNCHANGED <<part, tenVars, setVars, siteVars, healthVars, inputVars, tblVars, formVars>>
    \/ /\ part = "input" /\ InputNext
       /\ UNCHANGED <<part, tenVars, setVars, siteVars, healthVars, pageVars, tblVars, formVars>>
    \/ /\ part = "tables" /\ TblNext
       /\ UNCHANGED <<part, tenVars, setVars, siteVars, healthVars, pageVars, inputVars, formVars>>
    \/ /\ part = "form" /\ FormNext
       /\ UNCHANGED <<part, tenVars, setVars, siteVars, healthVars, pageVars, inputVars, tblVars>>

WorkspaceSpec ==
    /\ WorkspaceInit
    /\ [][WorkspaceNext]_<<part, tenVars, setVars, siteVars, healthVars, pageVars, inputVars, tblVars, formVars>>
=============================================================================
