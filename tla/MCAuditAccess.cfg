SPECIFICATION Spec
CONSTANTS
    e1 = e1
    e2 = e2
    e3 = e3
    e4 = e4
    Events = {e1, e2, e3, e4}
    Batches <- Pairs
    Legacy <- NoBatch
    Writers = {w1, w2}
    Retainers = {t1, t2}
    Verifiers = {v1}
    Anchorers = {a1, a2}
    PageSize = 2
    NoWriter = NoWriter
SYMMETRY Symmetry
INVARIANTS ChainIntact VerifierHonest AnchorsHold
PROPERTIES AppendOnly
