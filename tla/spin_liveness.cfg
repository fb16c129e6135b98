\* Two spins, one fault (a crash of the holder, for one); keys expire; the
\* winnersCount is a number or not.
SPECIFICATION FairSpec
CONSTANTS
  Rooms = {r1}
  Sockets = {s1}
  Rids = {u1, u2}
  Roles = {"owner", "participant"}
  Requests = {q1}
  Spins = {t1, t2}
  WinnersCounts = {0, 1}
  Null = Null
  LocksExpire = TRUE
  RequestsExpire = TRUE
  MaxOthers = 0
  MaxFaults = 1
CHECK_DEADLOCK FALSE
PROPERTY EveryRequestAnswered
