CONSTANTS
  Sessions = {s1}
  Admins = {a1, a2}
  Views = {w1, w2}
  Kills = {k1}
  Controls = {c1}
  Cloud = FALSE
  Grants = {g1}
  Vendors = {v1}
  v1 = v1
  HolderOf <- OneHolder
  None = None
SPECIFICATION Spec
SYMMETRY Interchangeable
INVARIANTS ViewersCounted InputFollowsControl AuditPaired NoOrphanBrowser
CHECK_DEADLOCK FALSE
