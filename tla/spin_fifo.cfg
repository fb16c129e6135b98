\* One process, three spins, one fault; the lock expires.
SPECIFICATION FifoSpec
CONSTANTS
  Rooms = {r1}
  Sockets = {s1}
  Rids = {u1, u2}
  Roles = {"owner", "participant"}
  Requests = {q1}
  Spins = {t1, t2, t3}
  WinnersCounts = {1}
  Null = Null
  LocksExpire = TRUE
  RequestsExpire = FALSE
  MaxOthers = 1
  MaxFaults = 1
SYMMETRY Symmetry
CHECK_DEADLOCK FALSE
INVARIANTS FifoTypeOK NoRequestSpunTwiceInOneProcess
