\* 30 minutes are one tick; all keys.
SPECIFICATION Spec
CONSTANTS
  Sockets = {o1, o2}
  OwnerSockets = {o1, o2}
  RoomKeys = {"token", "title", "nickname", "config", "owner", "counter", "state", "activity", "members", "ready"}
  Full = 4
  Grace = 1
INVARIANT ActiveRoomIsKept
