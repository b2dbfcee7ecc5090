---------------------------- MODULE RecordingMode ----------------------------
(***************************************************************************)
(* How the organisation's recording mode and a resource's own toggle       *)
(* combine (lib/recording/mode.ts), shared by the modules that record,     *)
(* announce or configure it.                                               *)
(***************************************************************************)

RecModes == {"off", "per_resource", "required"}

effectiveRecordSessions(mode, toggle) ==
    CASE mode = "off" -> FALSE [] mode = "required" -> TRUE [] OTHER -> toggle

\* recordToggleLock: whether the mode takes the choice from the resource.
recordToggleLock(mode) == mode # "per_resource"
=============================================================================
