--------------------------- MODULE MCLiveSessions ---------------------------
(***************************************************************************)
(* The live sessions for TLC: tunnels, views and terminations are          *)
(* interchangeable where no liveness is checked.                           *)
(***************************************************************************)
EXTENDS LiveSessions, TLC

CONSTANTS v1

OneHolder == [g \in Grants |-> v1]

Interchangeable == Permutations(Sessions) \cup Permutations(Views) \cup Permutations(Admins) \cup Permutations(Controls)

=============================================================================
