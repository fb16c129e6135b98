\* Two connections of the owner and a participant; 2 h are three ticks.
SPECIFICATION FairSpec
CONSTANTS
  Sockets = {o1, o2, p1}
  OwnerSockets = {o1, o2}
  RoomKeys = {"token", "title", "config", "owner", "members", "ready", "state", "nickname"}
  Full = 3
  Grace = 2
INVARIANTS TypeOK TokenExpiresFirst GraceIsKept
PROPERTIES CookieLostOnlyWithRoom AbandonedRoomVanishes
