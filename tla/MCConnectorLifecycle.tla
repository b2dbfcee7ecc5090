---------------------- MODULE MCConnectorLifecycle ----------------------
(* Small instances of ConnectorLifecycle for TLC.  Connectors, sessions,     *)
(* redeem requests, pairing codes and administrator requests are             *)
(* interchangeable.                                                          *)
EXTENDS ConnectorLifecycle, TLC

Symmetry == Permutations(Sessions) \cup Permutations(Redeems) \cup Permutations(Pairings)
            \cup Permutations(AdminOps) \cup Permutations(Connectors)
============================================================================
