\* One spin and two rooms; two commands of other handlers between its reads,
\* and one fault, which may be a GET of the batch that fails.
SPECIFICATION Spec
CONSTANTS
  Rooms = {r1, r2}
  Sockets = {s1, s2}
  Rids = {u1, u2}
  Roles = {"owner", "participant"}
  Requests = {q1}
  Spins = {t1}
  WinnersCounts = {1}
  Null = Null
  LocksExpire = FALSE
  RequestsExpire = FALSE
  MaxOthers = 2
  MaxFaults = 1
SYMMETRY Symmetry
CHECK_DEADLOCK FALSE
INVARIANT ReadsCoverRoom
PROPERTIES NoSpinPastWaitingParticipant NoMemberLeftOut
