CONSTANTS
  Sessions = {s1}
  Admins = {a1}
  Views = {}
  Kills = {k1, k2}
  Controls = {}
  Cloud = TRUE
  Grants = {g1}
  Vendors = {v1}
  v1 = v1
  HolderOf <- OneHolder
  None = None
SPECIFICATION FairSpec
PROPERTIES TerminateEnds RevokeHappens
CHECK_DEADLOCK FALSE
