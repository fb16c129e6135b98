----------------------- MODULE MCRoomSingleInstance -----------------------
(* Small instances of RoomSingleInstance; o1 is the owner's connection.      *)
EXTENDS RoomSingleInstance

CONSTANTS o1, p1, p2, r1

OneHost == [s \in Sockets |-> "a"]
RidsOf == Sockets \cup Rooms
Everything == {q \in InputData :
                 /\ q.kind = "join" => q.arg = IF q.sock = p2 THEN "other" ELSE SeatedRole(q.sock)
                 /\ q.kind = "toggle" => q.sock # o1 /\ q.arg \in {"ready", "unready"}
                 /\ q.kind \notin {"join", "toggle"} => q.arg = "none"
                 /\ q.kind \in {"config", "delete"} => q.sock = o1
                 /\ q.sock = p2 => q.kind = "join"}
===========================================================================
