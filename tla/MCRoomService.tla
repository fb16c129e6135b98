--------------------------- MODULE MCRoomService ---------------------------
(* Small instances of RoomService: o1 and o2 are two connections of the      *)
(* owner of room r1, p1 and p2 belong to participants.                       *)
EXTENDS RoomService

CONSTANTS o1, o2, p1, p2, r1

Asks(kind, s, arg) == [kind |-> kind, sock |-> s, room |-> r1, arg |-> arg]

OneHost == [s \in Sockets |-> "a"]
RidsOf == Sockets \cup Rooms

Joins == {Asks("join", s, "owner") : s \in OwnerSockets}
           \cup {Asks("join", s, "participant") : s \in Sockets \ OwnerSockets}
Leaves == {Asks("leave", s, "none") : s \in {o1, p1}}
Toggles == {Asks("toggle", s, "ready") : s \in Sockets \ OwnerSockets}
Deletes == {Asks("delete", s, "none") : s \in OwnerSockets}
Settles == {Asks("nickname", p1, "none"), Asks("config", o1, "none")}

Registering == Joins \cup Leaves \cup Toggles \cup Deletes \cup Settles
Intrusions == Joins \cup Deletes
=============================================================================
