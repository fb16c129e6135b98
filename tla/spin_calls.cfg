\* Three spins and two faults; the lock expires.
SPECIFICATION Spec
CONSTANTS
  Rooms = {r1}
  Sockets = {s1}
  Rids = {u1, u2}
  Roles = {"owner", "participant"}
  Requests = {q1, q2}
  Spins = {t1, t2, t3}
  WinnersCounts = {1}
  Null = Null
  LocksExpire = TRUE
  RequestsExpire = FALSE
  MaxOthers = 0
  MaxFaults = 2
SYMMETRY Symmetry
CHECK_DEADLOCK FALSE
INVARIANTS TypeOK LockHeld MutualExclusion ReplayIsOfAnnounced LatestSpinShown
PROPERTIES RetryIsRecognised LocksAreReleased ImplementsContract
