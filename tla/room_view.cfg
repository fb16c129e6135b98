\* One process, a participant, a socket that joins with a role of its own, any
\* two requests, one connection may be lost.
CONSTANTS
  o1 = o1
  p1 = p1
  p2 = p2
  r1 = r1
  Null = Null
  Rooms = {r1}
  Sockets = {o1, p1, p2}
  Rids <- RidsOf
  Roles = {"owner", "participant", "other"}
  Requests = {}
  Spins = {}
  WinnersCounts = {0, 1}
  Calls = {1, 2}
  Inputs <- Everything
  OwnerSockets = {o1}
  Home = r1
  Seated = {o1, p1}
  Host <- OneHost
  Orderly = FALSE
  Droppable = {p1}
CHECK_DEADLOCK FALSE
SPECIFICATION FairFifoSpec
INVARIANTS OwnerViewIsCurrent
PROPERTIES OwnerCatchesUp KeepsSpinEnvironment
