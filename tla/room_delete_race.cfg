\* A deletion and a join.
CONSTANTS
  o1 = o1
  o2 = o2
  p1 = p1
  p2 = p2
  r1 = r1
  Null = Null
  Rooms = {r1}
  Sockets = {o1, p1}
  Rids <- RidsOf
  Roles = {"owner", "participant"}
  Requests = {}
  Spins = {}
  WinnersCounts = {1}
  Calls = {1, 2}
  Inputs <- Intrusions
  OwnerSockets = {o1}
  Home = r1
  Seated = {o1}
  Host <- OneHost
  Orderly = FALSE
  Droppable = {}
CHECK_DEADLOCK FALSE
SPECIFICATION Spec
INVARIANTS
  DeletedRoomIsGone
