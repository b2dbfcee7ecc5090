SPECIFICATION FairSpec
CONSTANTS
    e1 = e1
    e2 = e2
    e3 = e3
    e4 = e4
    Events = {e1, e2, e3, e4}
    Batches <- Few
    Legacy <- OldRows
    Writers = {w1, w2, w3}
    Retainers = {}
    Verifiers = {v1}
    Anchorers = {a1}
    PageSize = 4
    NoWriter = NoWriter
INVARIANTS ChainedOnce
PROPERTIES AppendFinishes AnchorCatchesUp
