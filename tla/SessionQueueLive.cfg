CONSTANTS
  a1 = a1
  a2 = a2
  a3 = a3
  gm = gm
  Account = {a1, a2}
  Privileged = {}
  Session = {s1, s2, s3}
  Limits = {1}
  Tolerance = 1
  MaxTime = 1
  NULL = NULL
SPECIFICATION FairSpec
CHECK_DEADLOCK FALSE
PROPERTY LostConnectionsAreDropped
