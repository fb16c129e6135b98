\* Two requests, the owner with two connections; every connection may be lost.
CONSTANTS
  o1 = o1
  o2 = o2
  p1 = p1
  p2 = p2
  r1 = r1
  Null = Null
  Rooms = {r1}
  Sockets = {o1, o2, p1}
  Rids <- RidsOf
  Roles = {"owner", "participant"}
  Requests = {}
  Spins = {}
  WinnersCounts = {1}
  Calls = {1, 2}
  Inputs <- Registering
  OwnerSockets = {o1, o2}
  Home = r1
  Seated = {o1, p1}
  Host <- OneHost
  Orderly = TRUE
  Droppable = {o1, o2, p1}
CHECK_DEADLOCK FALSE
SPECIFICATION Spec
INVARIANTS
  TypeOK
  RegistryMatchesConnections
  ReadyAreParticipants
  OneOwner
  OwnerIsRecorded
  DeletedRoomIsGone
