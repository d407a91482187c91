CONSTANTS
  a1 = a1
  a2 = a2
  a3 = a3
  gm = gm
  Account <- MCAccount
  Privileged <- MCPrivileged
  Session = {s1, s2, s3, s4}
  Limits = {1, 2}
  Tolerance = 0
  MaxTime = 0
  NULL = NULL
SPECIFICATION Spec
SYMMETRY MCSymmetry
CHECK_DEADLOCK FALSE
INVARIANTS
  TypeOK
  QueueHoldsListedSessions
  QueueFlagIsAccurate
  PlayerLimitHolds
  NoOneWaitsForAFreeSlot
  OneCharacterPerAccount
  KickedAreRemoved
PROPERTY QueueIsFair
