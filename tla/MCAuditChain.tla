--------------------------- MODULE MCAuditChain ---------------------------
(* Small instances of AuditChain for TLC.                                    *)
EXTENDS AuditChain, TLC

CONSTANTS e1, e2, e3, e4

NoBatch == <<>>
Pairs   == {<<e1, e2>>, <<e3>>, <<e4>>}
OldRows == <<e3, e4>>
Few     == {<<e1>>, <<e2>>}
Symmetry == Permutations(Writers) \cup Permutations(Retainers) \cup Permutations(Anchorers)
============================================================================
