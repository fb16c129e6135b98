--------------------------- MODULE RoomController ---------------------------
(***************************************************************************)
(* The HTTP API of rooms (src/src/modules/roulette/roulette.controller.ts) *)
(* and the life of the room it creates: createRoom and getRooms command by *)
(* command, the socket handlers of RoomLifetime, and the passing of time.  *)
(***************************************************************************)
EXTENDS RoomLifetime

VARIABLES
  creation,  \* where createRoom is
  query      \* where a getRooms is, and what it has read for the room

vars == <<lifeVars, creation, query>>

\* The key that each step of createRoom stores, and the step after it.
Stores == [start |-> "token", title |-> "title", nickname |-> "nickname",
           config |-> "config", owner |-> "owner", activity |-> "activity"]
After == [start |-> "title", title |-> "nickname", nickname |-> "config",
          config |-> "owner", owner |-> "activity", activity |-> "answer"]

Queries == [pc : {"idle", "configs"}, token : BOOLEAN, lost : BOOLEAN]
NoQuery == [pc |-> "idle", token |-> FALSE, lost |-> FALSE]

TypeOK ==
  /\ LifeTypeOK
  /\ creation \in DOMAIN Stores \cup {"answer", "created", "failed"}
  /\ query \in Queries

Init == LifeInit /\ creation = "start" /\ query = NoQuery
-----------------------------------------------------------------------------
(***************************************************************************)
(* createRoom.                                                             *)
(***************************************************************************)
\* The title is stored without EX.
CreateStepWithoutTTL ==
  /\ creation \in DOMAIN Stores
  /\ ttl' = IF creation = "title" THEN [ttl EXCEPT !["title"] = Forever]
                                  ELSE Stored(ttl, {Stores[creation]})
  /\ creation' = After[creation]
  /\ UNCHANGED <<infoTtl, members, ready, cookie, place, closing, promise, query>>

CreateStep ==
  /\ creation \in DOMAIN Stores
  /\ ttl' = Stored(ttl, {Stores[creation]})
  /\ creation' = After[creation]
  /\ UNCHANGED <<infoTtl, members, ready, cookie, place, closing, promise, query>>

\* A command is rejected, before or after Redis has executed it: the client is
\* answered with an error and gets no cookie.
CreateFails ==
  /\ creation \in DOMAIN Stores
  /\ ttl' \in {ttl, Stored(ttl, {Stores[creation]})}
  /\ creation' = "failed"
  /\ UNCHANGED <<infoTtl, members, ready, cookie, place, closing, promise, query>>

\* The answer with the room's id and the cookies.
CreateAnswers ==
  /\ creation = "answer"
  /\ creation' = "created"
  /\ cookie' = Full
  /\ UNCHANGED <<ttl, infoTtl, members, ready, place, closing, promise, query>>

Create == CreateStep \/ CreateFails \/ CreateAnswers
-----------------------------------------------------------------------------
(***************************************************************************)
(* getRooms of a client with the cookie: two pipelines sent together.  A   *)
(* GET that fails counts as an absent key.                                 *)
(***************************************************************************)
\* getRoomOwnerTokenBatch.
ReadTokens ==
  /\ query.pc = "idle" /\ cookie # 0
  /\ \E lost \in BOOLEAN :
       query' = [pc |-> "configs", token |-> Present("token") /\ ~lost, lost |-> lost]
  /\ UNCHANGED <<lifeVars, creation>>

\* A room whose owner is not on record is not valid.
ValidOnlyWithOwner(token, lost) ==
  token /\ Present("config") /\ Present("owner") /\ ~lost

\* fetchRoomsWithInfo lists the room; other rooms lose their cookie.
Valid(token, lost) == token /\ Present("config") /\ ~lost

\* getRoomConfigBatch.  The remaining reads only fill in the list.
ReadConfigs ==
  /\ query.pc = "configs"
  /\ \E lost \in BOOLEAN :
       /\ cookie' = IF Valid(query.token, lost) THEN cookie ELSE 0
       /\ query' = [NoQuery EXCEPT !.lost = query.lost \/ lost]
       /\ promise' = IF query.lost \/ lost THEN 0 ELSE promise
  /\ UNCHANGED <<ttl, infoTtl, members, ready, place, closing, creation>>

GetRooms == ReadTokens \/ ReadConfigs
-----------------------------------------------------------------------------
\* Nobody knows the room before createRoom has answered.
Sock(s) == creation = "created" /\ Handler(s) /\ UNCHANGED <<creation, query>>

\* createRoom takes no time.
Tick ==
  /\ creation \in {"start", "created", "failed"}
  /\ Age
  /\ UNCHANGED <<creation, query>>

Next ==
  \/ Create
  \/ GetRooms
  \/ \E s \in Sockets : Sock(s)
  \/ Tick

Spec == Init /\ [][Next]_vars

\* Time passes.  Nothing makes a client or a handler do anything.
FairSpec == Spec /\ WF_vars(Tick)
-----------------------------------------------------------------------------
(***************************************************************************)
(* Properties.                                                             *)
(***************************************************************************)
Opened == creation = "created" /\ Present("token")

\* The owner's token, which nothing stores again and extendRoomTTL only sets
\* together with the other keys, is the first key of a room to expire: as long
\* as the owner is let in, the room has its config and title,
\* its members and their infos, and a connected owner is on record
\* (createRoom's order of writes, extendRoomTTL's list of keys).
TokenExpiresFirst ==
  Opened =>
    /\ ttl["token"] <= ttl["config"]
    /\ ttl["token"] <= ttl["title"]
    /\ \A s \in Sockets : Here(s) =>
         /\ s \in members /\ ttl["token"] <= ttl["members"]
         /\ ttl["token"] <= infoTtl[s]
         /\ s \in OwnerSockets => ttl["token"] <= ttl["owner"]

\* An owner whose room was there when the connection ended can come back for
\* half an hour, or for what was left of the cookie's two hours, which is less
\* than handleDisconnect has in mind: until then the cookie, the token, the
\* config and the title are not gone, however little the keys had left
\* (extendRoomTTL), unless the room is deleted or a GET of getRooms failed.
GraceIsKept ==
  promise > 0 => /\ cookie >= promise
                 /\ \A k \in {"token", "config", "title"} : ttl[k] >= promise

\* getRooms takes the cookie only from a client whose room does not let it in
\* any more, unless one of its GETs failed, although token and config are read
\* one after the other; a deletion takes both keys in one step here.
CookieLostOnlyWithRoom ==
  [][cookie > 1 /\ cookie' = 0 => query'.lost \/ ~Present("token")]_vars

\* A member, or a ready mark, that handleDisconnect did not remove because the
\* info had expired.
Stranded == \E s \in members \cup ready : place[s] = "away" /\ infoTtl[s] = 0

NobodyHere == \A s \in Sockets : place[s] = "away"

\* A room that is left alone, or whose creation failed half-way, vanishes from
\* Redis, unless a disconnect found its info expired (EX of every SET, SREM of
\* the last member, EXPIRE of the sets).
AbandonedRoomVanishes ==
  creation \in {"created", "failed"} /\ NobodyHere ~>
    ~NobodyHere \/ Stranded \/ \A k \in RoomKeys : ~Present(k)

(***************************************************************************)
(* What the documentation says, and the code does not keep.                *)
(***************************************************************************)
\* The data of a room that is less than 2 h old are kept while its owner is
\* connected (redis-spec.md:721): extendRoomTTL shortens every TTL when the
\* owner's connection ends, and nothing sets them back when the owner returns.
ActiveRoomIsKept ==
  \A s \in OwnerSockets : Here(s) /\ cookie > 0 => Present("token") /\ Present("config")
=============================================================================
