---------------------------- MODULE RoomService ----------------------------
(***************************************************************************)
(* Joining, leaving, readiness, settings and deletion of rooms: every      *)
(* handler of RouletteService but handleSpinRequest                        *)
(* (src/src/modules/roulette/roulette.service.ts), and the gateway events  *)
(* that start them (roulette.gateway.ts).                                  *)
(*                                                                         *)
(* A task is one run of a handler: an element of Calls runs a client's     *)
(* request, and the task named like a socket runs the handleDisconnect     *)
(* that the loss of that socket starts.  As in Spin, a step of a task is   *)
(* one Redis command with the continuation that follows it, up to the next *)
(* await, and tasks interleave at every await.                             *)
(*                                                                         *)
(* Abstractions.  The rid drawn for a connection is the socket itself, and *)
(* the rid that createRoom drew for the owner of room r, which the owner's *)
(* cookies carry, is r.  Clients give a nickname, and nicknames are not    *)
(* told apart.  A pipeline is a sequence of commands.                      *)
(*                                                                         *)
(* No pipe validates what the gateway receives, so a join may carry any    *)
(* role, which is stored as it is, and the owner may set a winnersCount    *)
(* that is no number.                                                      *)
(***************************************************************************)
EXTENDS RedisService, Sequences

CONSTANTS
  Calls,         \* bound: the client requests in a behaviour, numbered as they come
  Inputs,        \* the requests clients may send
  OwnerSockets,  \* the sockets whose cookies carry the owner token of Home
  Home,          \* the room that exists at the start
  Seated,        \* the sockets that have joined Home at the start
  Host,          \* the server process each socket is connected to
  Orderly,       \* do clients send one request at a time?
  Droppable      \* the sockets whose connection may be lost

Kinds == {"join", "leave", "toggle", "nickname", "config", "delete"}
Args == {"none", "ready", "unready"} \cup Roles  \* "none": nothing is given
InputData == [kind : Kinds, sock : Sockets, room : Rooms, arg : Args]

Tasks == Calls \cup Sockets

ASSUME RoomAssumption ==
  /\ Sockets \cup Rooms \subseteq Rids
  /\ Sockets \cap Rooms = {} /\ Calls \cap Sockets = {}
  /\ Inputs \subseteq InputData
  /\ \A q \in Inputs : q.kind = "join" => q.arg \in Roles \cup {"none"}
  /\ OwnerSockets \subseteq Sockets /\ Seated \subseteq Sockets /\ Home \in Rooms
  /\ DOMAIN Host = Sockets
  /\ Orderly \in BOOLEAN /\ Droppable \subseteq Sockets /\ Calls \subseteq Nat
  /\ 1 \in WinnersCounts
  /\ Null \notin Rooms \cup Sockets

VARIABLES
  ownerToken,  \* room:owner:token:{room}: is it still there?
  conn,        \* is the socket connected?
  rid,         \* socket.data.rid
  role,        \* socket.data.role
  joined,      \* the socket.io rooms the socket is in
  task,        \* where each task is, and its local variables
  view,        \* the last room:participants each socket received
  deleted,     \* history: the rooms a deleteRoom has gone through
  torn         \* history: the sockets lost before a toggle of theirs had written

sockVars == <<conn, rid, role, joined>>
vars == <<redisVars, ownerToken, sockVars, task, view, deleted, torn>>

Locations ==
  {"idle", "done", "activity", "ttlMembers", "ttlExpire",
   "joinToken", "joinOwner", "activeOwner", "activeMembers", "activeInfo",
   "dropMember", "dropInfo", "ensureOwner", "setOwner", "joinConfig",
   "addMember", "setInfo", "replyOwner", "replyConfig", "defaultConfig",
   "replyTitle", "replyState",
   "castOwner", "castMembers", "castReady", "castInfo",
   "goneInfo", "goneReady", "goneMember", "goneDelete",
   "leaveInfo", "leaveMember", "leaveDelete", "leaveOwner",
   "toggleInfo", "toggleWrite", "nickInfo", "nickSet",
   "configOwner", "configSet",
   "delOwner", "delMembers", "delInfo", "delOwnInfo", "delRoom"}

\* A deleteRoom that forgets room:ready.
DeletionOrderWithoutReady == <<"config", "owner", "token", "members", "state", "lock">>

\* The DELs of deleteRoom, in the order they are sent.
DeletionOrder == <<"config", "owner", "token", "members", "ready", "state", "lock">>

TaskStates ==
  [pc : Locations,
   sock : Sockets \cup {Null},      \* the socket the handler runs for
   room : Rooms \cup {Null},        \* the room it is about
   arg : Args,                      \* the role, or the ready flag
   rid : Rids \cup {Null},          \* the rid read at the start
   todo : SUBSET Sockets,           \* sockets still to look at
   owner : Rids \cup {Null},        \* ownerRid
   found : Sockets \cup {Null},     \* a socket found among the members
   parts : SUBSET Sockets,          \* participants found among the members
   ready : SUBSET Sockets,          \* readyParticipants
   info : SocketInfos \cup {Null},  \* the socket info read
   then : {"end", "activity", "leave"},  \* what follows the broadcast
   home : Rooms \cup {Null},        \* the room to leave in the end
   next : 1..Len(DeletionOrder)]

NoTask == [pc |-> "idle", sock |-> Null, room |-> Null, arg |-> "none",
           rid |-> Null, todo |-> {}, owner |-> Null, found |-> Null,
           parts |-> {}, ready |-> {}, info |-> Null, then |-> "end",
           home |-> Null, next |-> 1]

Ended == [NoTask EXCEPT !.pc = "done"]

Lists == [room : Rooms, parts : SUBSET Sockets, ready : SUBSET Sockets]

TypeOK ==
  /\ RedisTypeOK
  /\ ownerToken \in [Rooms -> BOOLEAN]
  /\ conn \in [Sockets -> BOOLEAN]
  /\ rid \in [Sockets -> Rids]
  /\ role \in [Sockets -> Roles \cup {"none"}]
  /\ joined \in [Sockets -> SUBSET Rooms]
  /\ task \in [Tasks -> TaskStates]
  /\ view \in [Sockets -> Lists \cup {Null}]
  /\ deleted \subseteq Rooms
  /\ torn \subseteq Sockets

SeatedRole(s) == IF s \in OwnerSockets THEN "owner" ELSE "participant"

\* What orderly clients have in common besides InOrder: they name the room they
\* are about, the owner joins as the owner and the others as participants, and
\* the owner starts with at most one connection in the room.
ASSUME OrderlyAssumption == Orderly =>
  /\ \A q \in Inputs : q.room = Home /\ (q.kind = "join" => q.arg = SeatedRole(q.sock))
  /\ \A s, u \in Seated \cap OwnerSockets : s = u

\* The participants of room r and those of them who are ready, as Redis has them.
Listed(r) == {s \in roomMembers[r] : /\ socketInfo[s] # Null
                                     /\ socketInfo[s].role = "participant"
                                     /\ socketInfo[s].rid # roomOwner[r]}

Roster(r) == [room |-> r, parts |-> Listed(r), ready |-> Listed(r) \cap roomReady[r]]

\* Home has been created, and the sockets in Seated have joined it.
Init ==
  /\ roomConfig \in [Rooms -> (WinnersCounts \ {0}) \cup {Null}]  \* CreateRoomDto
  /\ \A r \in Rooms : (roomConfig[r] # Null) = (r = Home)
  /\ roomOwner = [r \in Rooms |-> IF r = Home THEN Home ELSE Null]
  /\ ownerToken = [r \in Rooms |-> r = Home]
  /\ roomMembers = [r \in Rooms |-> IF r = Home THEN Seated ELSE {}]
  /\ roomReady \in [Rooms -> SUBSET (Seated \ OwnerSockets)]
  /\ \A r \in Rooms \ {Home} : roomReady[r] = {}
  /\ rid = [s \in Sockets |-> IF s \in Seated \cap OwnerSockets THEN Home ELSE s]
  /\ socketInfo = [s \in Sockets |->
       IF s \in Seated THEN [roomId |-> Home, rid |-> rid[s], role |-> SeatedRole(s)]
                       ELSE Null]
  /\ role = [s \in Sockets |-> IF s \in Seated THEN SeatedRole(s) ELSE "none"]
  /\ joined = [s \in Sockets |-> IF s \in Seated THEN {Home} ELSE {}]
  /\ conn = [s \in Sockets |-> TRUE]
  /\ spinLock = [r \in Rooms |-> Null]
  /\ idem = [k \in Rooms \X Requests |-> Null]
  /\ roomState = [r \in Rooms |-> Null]
  /\ task = [x \in Tasks |-> NoTask]
  /\ view = [s \in Sockets |-> IF s \in Seated \cap OwnerSockets THEN Roster(Home) ELSE Null]
  /\ deleted = {} /\ torn = {}
-----------------------------------------------------------------------------
(***************************************************************************)
(* Control flow of a task.                                                 *)
(***************************************************************************)
At(x, l) == task[x].pc = l

Set(x, t) == task' = [task EXCEPT ![x] = t]

Go(x, l) == Set(x, [task[x] EXCEPT !.pc = l])

\* The end of handleDisconnect; for a leaving participant, socket.leave.
Finished(x) == [task EXCEPT ![x] = Ended]

LeaveRoom(x) ==
  joined' = IF task[x].then = "leave"
              THEN [joined EXCEPT ![task[x].sock] = @ \ {task[x].home}]
              ELSE joined

OnlyRedis == UNCHANGED <<ownerToken, sockVars, view, deleted, torn>>
ReadsOnly == UNCHANGED redisVars /\ OnlyRedis

\* The handleDisconnect that the loss of socket s starts.
Disconnection(s) == [NoTask EXCEPT !.pc = "goneInfo", !.sock = s]

\* The continuation of a task that calls broadcastParticipantsToOwner(r) next.
Cast(x, r, then) ==
  Set(x, [task[x] EXCEPT !.pc = "castOwner", !.room = r, !.then = then])

\* The first await of a request: validation and local checks come before it.
FirstAwait(q) ==
  CASE q.kind = "join" /\ q.arg = "owner" ->
         IF q.sock \in OwnerSockets THEN "joinToken" ELSE "done"
    [] q.kind = "join" /\ q.arg # "owner" ->
         IF q.arg = "none" THEN "done" ELSE "joinConfig"
    [] q.kind = "leave" ->
         IF role[q.sock] \in {"owner", "participant"} THEN "leaveInfo" ELSE "done"
    [] q.kind = "toggle" -> "toggleInfo"
    [] q.kind = "nickname" -> "nickInfo"
    [] q.kind = "config" -> "configOwner"
    [] q.kind = "delete" -> "delOwner"

Running(x) == task[x].pc \notin {"idle", "done"}

Deletion == {"delOwner", "delMembers", "delInfo", "delOwnInfo", "delRoom"}
ToggleSteps == {"toggleInfo", "toggleWrite"}

\* Orderly clients wait for the answer before they send the next request, on
\* all the connections of the owner; they leave a room before they join one;
\* and while the room is being deleted nobody else requests anything.
SamePerson(s, u) == s = u \/ {s, u} \subseteq OwnerSockets

InOrder(q) ==
  /\ \A c \in Calls : Running(c) => /\ ~SamePerson(task[c].sock, q.sock)
                                   /\ q.kind # "delete" /\ task[c].pc \notin Deletion
  /\ q.kind = "join" => joined[q.sock] \subseteq IF q.arg = "owner" THEN {} ELSE {q.room}

\* A client's message arrives and its handler starts.
Arrive(c) ==
  /\ At(c, "idle") /\ \A d \in Calls : d < c => ~At(d, "idle")
  /\ \E q \in Inputs :
       /\ conn[q.sock]
       /\ Orderly => InOrder(q)
       /\ Set(c, IF FirstAwait(q) = "done" THEN Ended ELSE
                   [NoTask EXCEPT !.pc = FirstAwait(q), !.sock = q.sock,
                      !.room = q.room, !.rid = rid[q.sock],
                      !.arg = IF q.kind = "leave" THEN role[q.sock] ELSE q.arg])
  /\ ReadsOnly

Toggling(s) == \E c \in Calls : task[c].pc \in ToggleSteps /\ task[c].sock = s

\* The transport of a socket is lost: it leaves its rooms and handleDisconnect
\* starts, while a request the client has sent goes on.  Orderly clients lose
\* their connections between their requests, or before a toggle has written.
Drop(s) ==
  /\ s \in Droppable /\ conn[s]
  /\ Orderly => \A c \in Calls :
       Running(c) /\ task[c].sock = s => task[c].pc \in ToggleSteps
  /\ conn' = [conn EXCEPT ![s] = FALSE]
  /\ joined' = [joined EXCEPT ![s] = {}]
  /\ task' = [task EXCEPT ![s] = Disconnection(s)]
  /\ torn' = IF Toggling(s) THEN torn \cup {s} ELSE torn
  /\ UNCHANGED <<redisVars, ownerToken, rid, role, view, deleted>>

\* socket.disconnect(true), called by task x while it goes on as t: a socket
\* of another process, or one that is gone, is not found.
Kick(x, s, t) ==
  IF conn[s] /\ Host[s] = Host[t.sock]
    THEN /\ conn' = [conn EXCEPT ![s] = FALSE]
         /\ joined' = [joined EXCEPT ![s] = {}]
         /\ task' = [task EXCEPT ![x] = t, ![s] = Disconnection(s)]
    ELSE UNCHANGED <<conn, joined>> /\ Set(x, t)

\* Reads whose reply only goes into a message, and the write of lastActivity,
\* which nothing here reads.
Onward == [replyOwner |-> "replyConfig", replyTitle |-> "replyState",
           ttlMembers |-> "ttlExpire"]

PassThrough(x) ==
  /\ task[x].pc \in DOMAIN Onward
  /\ Go(x, Onward[task[x].pc])
  /\ ReadsOnly

\* A join that is not broadcast.
ReplyStateSilently(x) == At(x, "replyState") /\ Go(x, "activity") /\ ReadsOnly

ReplyState(x) ==
  /\ At(x, "replyState")
  /\ Cast(x, task[x].room, "activity")
  /\ ReadsOnly

Close(x) ==
  /\ task[x].pc \in {"activity", "ttlExpire"}
  /\ task' = Finished(x)
  /\ LeaveRoom(x)
  /\ UNCHANGED <<redisVars, ownerToken, conn, rid, role, view, deleted, torn>>
-----------------------------------------------------------------------------
(***************************************************************************)
(* room:join.                                                              *)
(***************************************************************************)
\* verifyOwnerToken: INVALID_OWNER_TOKEN once the room is gone.
CheckToken(x) ==
  /\ At(x, "joinToken")
  /\ IF ownerToken[task[x].room] /\ task[x].room = Home THEN Go(x, "joinOwner")
                                                         ELSE Set(x, Ended)
  /\ ReadsOnly

\* The rid of the cookie must be the recorded one; the socket takes it over.
TakeOwnerRid(x) ==
  /\ At(x, "joinOwner")
  /\ LET r == task[x].room IN
       IF roomOwner[r] \notin {Null, r}
         THEN Set(x, Ended) /\ UNCHANGED rid
         ELSE /\ Set(x, [task[x] EXCEPT !.pc = "activeOwner", !.rid = r])
              /\ rid' = [rid EXCEPT ![task[x].sock] = r]
  /\ UNCHANGED <<redisVars, ownerToken, conn, role, joined, view, deleted, torn>>

\* handleOwnerJoin without the search for the connection it replaces.
ActiveOwnerUnsought(x) == At(x, "activeOwner") /\ Go(x, "ensureOwner") /\ ReadsOnly

\* getActiveOwnerSocketId, three reads.
ActiveOwner(x) ==
  /\ At(x, "activeOwner")
  /\ LET u == roomOwner[task[x].room] IN
       IF u = Null THEN Go(x, "ensureOwner")
                   ELSE Set(x, [task[x] EXCEPT !.pc = "activeMembers", !.owner = u])
  /\ ReadsOnly

ActiveMembers(x) ==
  /\ At(x, "activeMembers")
  /\ LET m == roomMembers[task[x].room] IN
       IF m = {} THEN Go(x, "ensureOwner")
                 ELSE Set(x, [task[x] EXCEPT !.pc = "activeInfo", !.todo = m])
  /\ ReadsOnly

\* The owner's present connection is told and closed.
ActiveInfo(x) ==
  /\ At(x, "activeInfo")
  /\ \E m \in task[x].todo :
       LET owns == socketInfo[m] # Null /\ socketInfo[m].rid = task[x].owner
           f == IF owns /\ task[x].found = Null THEN m ELSE task[x].found
           t == [task[x] EXCEPT !.todo = @ \ {m}, !.found = f]
       IN  IF t.todo # {} THEN Set(x, t) /\ UNCHANGED <<conn, joined>>
           ELSE IF f = Null
             THEN Set(x, [t EXCEPT !.pc = "ensureOwner"]) /\ UNCHANGED <<conn, joined>>
             ELSE Kick(x, f, [t EXCEPT !.pc = "dropMember"])
  /\ UNCHANGED <<redisVars, ownerToken, rid, role, view, deleted, torn>>

DropMember(x) ==
  /\ At(x, "dropMember")
  /\ RemoveRoomMember(task[x].room, task[x].found)
  /\ Go(x, "dropInfo")
  /\ OnlyRedis

DropInfo(x) ==
  /\ At(x, "dropInfo")
  /\ RemoveSocketInfo(task[x].found)
  /\ Set(x, [task[x] EXCEPT !.pc = "ensureOwner", !.found = Null])
  /\ OnlyRedis

\* completeJoin starts with socket.join, which does nothing once the socket is
\* gone.
EnterRoom(x) ==
  /\ joined' = IF conn[task[x].sock]
                 THEN [joined EXCEPT ![task[x].sock] = @ \cup {task[x].room}]
                 ELSE joined
  /\ Go(x, "addMember")

\* handleOwnerJoin relying on createRoom to have recorded the owner.
EnsureOwnerAssumed(x) ==
  /\ At(x, "ensureOwner")
  /\ EnterRoom(x)
  /\ UNCHANGED <<redisVars, ownerToken, conn, rid, role, view, deleted, torn>>

EnsureOwner(x) ==
  /\ At(x, "ensureOwner")
  /\ IF roomOwner[task[x].room] = Null THEN Go(x, "setOwner") /\ UNCHANGED joined
                                       ELSE EnterRoom(x)
  /\ UNCHANGED <<redisVars, ownerToken, conn, rid, role, view, deleted, torn>>

RecordOwner(x) ==
  /\ At(x, "setOwner")
  /\ SetRoomOwner(task[x].room, task[x].rid)
  /\ EnterRoom(x)
  /\ UNCHANGED <<ownerToken, conn, rid, role, view, deleted, torn>>

\* handleParticipantJoin: ROOM_NOT_FOUND without a config.
CheckRoom(x) ==
  /\ At(x, "joinConfig")
  /\ IF roomConfig[task[x].room] = Null THEN Set(x, Ended) /\ UNCHANGED joined
                                        ELSE EnterRoom(x)
  /\ UNCHANGED <<redisVars, ownerToken, conn, rid, role, view, deleted, torn>>

AddMember(x) ==
  /\ At(x, "addMember")
  /\ AddRoomMember(task[x].room, task[x].sock)
  /\ role' = [role EXCEPT ![task[x].sock] = task[x].arg]
  /\ Go(x, "setInfo")
  /\ UNCHANGED <<ownerToken, conn, rid, joined, view, deleted, torn>>

RecordInfo(x) ==
  /\ At(x, "setInfo")
  /\ SetSocketInfo(task[x].sock,
       [roomId |-> task[x].room, rid |-> task[x].rid, role |-> task[x].arg])
  /\ Go(x, "replyOwner")
  /\ OnlyRedis

\* The config is read, and a room that has none gets the default one.
EnsureConfig(x) ==
  /\ task[x].pc \in {"replyConfig", "defaultConfig"}
  /\ IF At(x, "replyConfig") /\ roomConfig[task[x].room] = Null
       THEN Go(x, "defaultConfig") ELSE Go(x, "replyTitle")
  /\ IF At(x, "defaultConfig") THEN SetRoomConfig(task[x].room, 1) ELSE UNCHANGED redisVars
  /\ OnlyRedis

Join(x) ==
  \/ CheckToken(x) \/ TakeOwnerRid(x) \/ ActiveOwner(x) \/ ActiveMembers(x)
  \/ ActiveInfo(x) \/ DropMember(x) \/ DropInfo(x) \/ EnsureOwner(x)
  \/ RecordOwner(x) \/ CheckRoom(x) \/ AddMember(x) \/ RecordInfo(x)
  \/ EnsureConfig(x)
-----------------------------------------------------------------------------
(***************************************************************************)
(* broadcastParticipantsToOwner.                                           *)
(***************************************************************************)
\* What a task does when its broadcast is over.
CastDone(x) ==
  IF task[x].then = "activity" THEN Go(x, "activity") /\ UNCHANGED joined
                               ELSE task' = Finished(x) /\ LeaveRoom(x)

CastOwner(x) ==
  /\ At(x, "castOwner")
  /\ LET u == roomOwner[task[x].room] IN
       IF u = Null THEN CastDone(x)
       ELSE /\ Set(x, [task[x] EXCEPT !.pc = "castMembers", !.owner = u,
                         !.found = Null, !.parts = {}])
            /\ UNCHANGED joined
  /\ UNCHANGED <<redisVars, ownerToken, conn, rid, role, view, deleted, torn>>

CastMembers(x) ==
  /\ At(x, "castMembers")
  /\ Set(x, [task[x] EXCEPT !.pc = "castReady", !.todo = roomMembers[task[x].room]])
  /\ ReadsOnly

CastReady(x) ==
  /\ At(x, "castReady")
  /\ IF task[x].todo = {} THEN CastDone(x)
     ELSE /\ Set(x, [task[x] EXCEPT !.pc = "castInfo", !.ready = roomReady[task[x].room]])
          /\ UNCHANGED joined
  /\ UNCHANGED <<redisVars, ownerToken, conn, rid, role, view, deleted, torn>>

\* The users are collected, by rid, instead of their sockets.
SortedByRid(t, m) ==
  LET info == socketInfo[m] IN
  [t EXCEPT !.todo = @ \ {m}, !.found = IF info # Null /\ info.rid = t.owner THEN m ELSE @,
            !.parts = IF info # Null THEN @ \cup {info.rid} ELSE @]

\* The loop's treatment of member m.
Sorted(t, m) ==
  LET info == socketInfo[m] IN
  [t EXCEPT
     !.todo = @ \ {m},
     !.found = IF info # Null /\ info.rid = t.owner THEN m ELSE @,
     !.parts = IF info # Null /\ info.rid # t.owner /\ info.role = "participant"
                 THEN @ \cup {m} ELSE @]

\* room:participants goes to the owner's socket, when this process has it.
Delivered(t) ==
  IF t.found # Null /\ conn[t.found] /\ Host[t.found] = Host[t.sock]
    THEN [view EXCEPT ![t.found] =
            [room |-> t.room, parts |-> t.parts, ready |-> t.parts \cap t.ready]]
    ELSE view

CastInfo(x) ==
  /\ At(x, "castInfo")
  /\ \E m \in task[x].todo :
       LET t == Sorted(task[x], m) IN
       IF t.todo # {} THEN Set(x, t) /\ UNCHANGED <<view, joined>>
                      ELSE view' = Delivered(t) /\ CastDone(x)
  /\ UNCHANGED <<redisVars, ownerToken, conn, rid, role, deleted, torn>>

Broadcast(x) == CastOwner(x) \/ CastMembers(x) \/ CastReady(x) \/ CastInfo(x)
-----------------------------------------------------------------------------
(***************************************************************************)
(* handleDisconnect, on the loss of a socket and inside room:leave.        *)
(***************************************************************************)
GoneInfo(x) ==
  /\ At(x, "goneInfo")
  /\ LET info == socketInfo[task[x].sock] IN
       IF info = Null THEN task' = Finished(x) /\ LeaveRoom(x)
       ELSE /\ Set(x, [task[x] EXCEPT !.pc = "goneReady", !.room = info.roomId,
                         !.arg = info.role])
            /\ UNCHANGED joined
  /\ UNCHANGED <<redisVars, ownerToken, conn, rid, role, view, deleted, torn>>

\* handleDisconnect without removeParticipantReady, without removeRoomMember,
\* and without the broadcast.
GoneReadyForgotten(x) == At(x, "goneReady") /\ Go(x, "goneMember") /\ ReadsOnly

GoneMemberForgotten(x) == At(x, "goneMember") /\ Go(x, "goneDelete") /\ ReadsOnly

GoneDeleteSilently(x) ==
  /\ At(x, "goneDelete")
  /\ RemoveSocketInfo(task[x].sock)
  /\ Go(x, "activity")
  /\ OnlyRedis

GoneReady(x) ==
  /\ At(x, "goneReady")
  /\ RemoveParticipantReady(task[x].room, task[x].sock)
  /\ Go(x, "goneMember")
  /\ OnlyRedis

GoneMember(x) ==
  /\ At(x, "goneMember")
  /\ RemoveRoomMember(task[x].room, task[x].sock)
  /\ Go(x, "goneDelete")
  /\ OnlyRedis

GoneDelete(x) ==
  /\ At(x, "goneDelete")
  /\ RemoveSocketInfo(task[x].sock)
  /\ IF task[x].arg = "owner" THEN Go(x, "ttlMembers")
                              ELSE Cast(x, task[x].room, task[x].then)
  /\ OnlyRedis

Gone(x) == GoneInfo(x) \/ GoneReady(x) \/ GoneMember(x) \/ GoneDelete(x)
-----------------------------------------------------------------------------
(***************************************************************************)
(* room:leave.                                                             *)
(***************************************************************************)
LeaveInfo(x) ==
  /\ At(x, "leaveInfo")
  /\ LET info == socketInfo[task[x].sock] IN
       IF info = Null \/ info.roomId # task[x].room THEN Set(x, Ended)
       ELSE Set(x, [task[x] EXCEPT
                      !.pc = IF task[x].arg = "owner" THEN "leaveMember" ELSE "goneInfo",
                      !.then = IF task[x].arg = "owner" THEN @ ELSE "leave",
                      !.home = task[x].room])
  /\ ReadsOnly

\* handleOwnerExit.
LeaveMember(x) ==
  /\ At(x, "leaveMember")
  /\ RemoveRoomMember(task[x].room, task[x].sock)
  /\ Go(x, "leaveDelete")
  /\ OnlyRedis

LeaveDelete(x) ==
  /\ At(x, "leaveDelete")
  /\ RemoveSocketInfo(task[x].sock)
  /\ Go(x, "leaveOwner")
  /\ OnlyRedis

LeaveOwner(x) ==
  /\ At(x, "leaveOwner")
  /\ ClearRoomOwner(task[x].room)
  /\ joined' = [joined EXCEPT ![task[x].sock] = @ \ {task[x].room}]
  /\ Go(x, "ttlMembers")
  /\ UNCHANGED <<ownerToken, conn, rid, role, view, deleted, torn>>

Leave(x) == LeaveInfo(x) \/ LeaveMember(x) \/ LeaveDelete(x) \/ LeaveOwner(x)
-----------------------------------------------------------------------------
(***************************************************************************)
(* participant:ready:toggle, participant:nickname:change, room:config:set. *)
(***************************************************************************)
ToggleInfo(x) ==
  /\ At(x, "toggleInfo")
  /\ LET info == socketInfo[task[x].sock] IN
       IF info # Null /\ info.role = "participant" THEN Go(x, "toggleWrite")
                                                   ELSE Set(x, Ended)
  /\ ReadsOnly

\* The new flag is not broadcast.
ToggleWriteSilently(x) ==
  /\ At(x, "toggleWrite")
  /\ SetParticipantReady(task[x].room, task[x].sock)
  /\ Go(x, "activity")
  /\ OnlyRedis

\* The room is the one the client named, not the one it is in.
ToggleWrite(x) ==
  /\ At(x, "toggleWrite")
  /\ IF task[x].arg = "ready"
       THEN SetParticipantReady(task[x].room, task[x].sock)
       ELSE RemoveParticipantReady(task[x].room, task[x].sock)
  /\ Cast(x, task[x].room, "activity")
  /\ OnlyRedis

\* updateSocketNickname without its check that there is an info.
NickInfoUnchecked(x) ==
  /\ At(x, "nickInfo")
  /\ LET info == socketInfo[task[x].sock]
         nameOnly == [roomId |-> Null, rid |-> Null, role |-> "participant"]
     IN  Set(x, [task[x] EXCEPT !.pc = "nickSet",
                   !.info = IF info = Null THEN nameOnly ELSE info])
  /\ ReadsOnly

\* updateSocketNickname: the info is read, then written back.
NickInfo(x) ==
  /\ At(x, "nickInfo")
  /\ LET info == socketInfo[task[x].sock] IN
       IF info = Null THEN Cast(x, task[x].room, "activity")
                      ELSE Set(x, [task[x] EXCEPT !.pc = "nickSet", !.info = info])
  /\ ReadsOnly

NickSet(x) ==
  /\ At(x, "nickSet")
  /\ SetSocketInfo(task[x].sock, task[x].info)
  /\ Cast(x, task[x].room, "activity")
  /\ OnlyRedis

ConfigOwner(x) ==
  /\ At(x, "configOwner")
  /\ IF roomOwner[task[x].room] = task[x].rid THEN Go(x, "configSet") ELSE Set(x, Ended)
  /\ ReadsOnly

\* The winnersCount has passed `winnersCount < 1`, which is false for whatever
\* is no number; 0 stands for those.
ConfigSet(x) ==
  /\ At(x, "configSet")
  /\ \E w \in WinnersCounts : SetRoomConfig(task[x].room, w)
  /\ Go(x, "activity")
  /\ OnlyRedis

Settings(x) ==
  \/ ToggleInfo(x) \/ ToggleWrite(x) \/ NickInfo(x) \/ NickSet(x)
  \/ ConfigOwner(x) \/ ConfigSet(x)
-----------------------------------------------------------------------------
(***************************************************************************)
(* room:delete.                                                            *)
(***************************************************************************)
DelOwner(x) ==
  /\ At(x, "delOwner")
  /\ IF roomOwner[task[x].room] = task[x].rid THEN Go(x, "delMembers") ELSE Set(x, Ended)
  /\ ReadsOnly

\* The next member but the caller is disconnected before its info is deleted.
KickNext(x, t) ==
  IF t.todo = {}
    THEN Set(x, [t EXCEPT !.pc = "delOwnInfo", !.found = Null]) /\ UNCHANGED <<conn, joined>>
    ELSE \E m \in t.todo :
           Kick(x, m, [t EXCEPT !.pc = "delInfo", !.found = m, !.todo = @ \ {m}])

DelMembers(x) ==
  /\ At(x, "delMembers")
  /\ KickNext(x, [task[x] EXCEPT !.todo = roomMembers[task[x].room] \ {task[x].sock}])
  /\ UNCHANGED <<redisVars, ownerToken, rid, role, view, deleted, torn>>

DelInfo(x) ==
  /\ At(x, "delInfo")
  /\ RemoveSocketInfo(task[x].found)
  /\ KickNext(x, task[x])
  /\ UNCHANGED <<ownerToken, rid, role, view, deleted, torn>>

DelOwnInfo(x) ==
  /\ At(x, "delOwnInfo")
  /\ RemoveSocketInfo(task[x].sock)
  /\ joined' = [joined EXCEPT ![task[x].sock] = @ \ {task[x].room}]
  /\ Go(x, "delRoom")
  /\ UNCHANGED <<ownerToken, conn, rid, role, view, deleted, torn>>

\* deleteRoom, one DEL at a time.
DelRoom(x) ==
  /\ At(x, "delRoom")
  /\ LET r == task[x].room
         k == DeletionOrder[task[x].next]
         last == task[x].next = Len(DeletionOrder)
     IN  /\ IF k = "token" THEN UNCHANGED redisVars ELSE DeleteRoomKey(r, k)
         /\ ownerToken' = IF k = "token" THEN [ownerToken EXCEPT ![r] = FALSE] ELSE ownerToken
         /\ Set(x, IF last THEN Ended ELSE [task[x] EXCEPT !.next = @ + 1])
         /\ deleted' = IF last THEN deleted \cup {r} ELSE deleted
  /\ UNCHANGED <<sockVars, view, torn>>

Delete(x) == DelOwner(x) \/ DelMembers(x) \/ DelInfo(x) \/ DelOwnInfo(x) \/ DelRoom(x)
-----------------------------------------------------------------------------
Run(x) ==
  \/ PassThrough(x) \/ ReplyState(x) \/ Close(x)
  \/ Join(x) \/ Broadcast(x) \/ Gone(x) \/ Leave(x) \/ Settings(x) \/ Delete(x)

Next ==
  \/ \E c \in Calls : Arrive(c)
  \/ \E s \in Sockets : Drop(s)
  \/ \E x \in Tasks : Run(x)

Spec == Init /\ [][Next]_vars
-----------------------------------------------------------------------------
(***************************************************************************)
(* Properties.  Most are about the states in which no handler runs: what a *)
(* history of overlapping handlers leaves behind.                          *)
(***************************************************************************)
Quiescent == \A x \in Tasks : ~Running(x)

\* Nothing of a connection is left behind or lost: the members of a room are
\* the sockets in its socket.io room, and exactly they have a socket info that
\* names the room (completeJoin, handleDisconnect, handleOwnerExit,
\* handleParticipantExit and the clean-up of handleOwnerJoin).
RegistryMatchesConnections ==
  Quiescent => \A s \in Sockets : \A r \in Rooms :
    /\ (s \in roomMembers[r]) = (r \in joined[s])
    /\ (s \in roomMembers[r]) = (socketInfo[s] # Null /\ socketInfo[s].roomId = r)

\* Who is marked ready is a participant of the room: a departure, or a
\* replacement, leaves no ready mark behind, and neither does a lost connection,
\* but for one that is lost before a toggle of its own has written: its mark may
\* follow the removal (handleDisconnect against handleReadyToggle).
ReadyAreParticipants ==
  Quiescent => \A r \in Rooms : roomReady[r] \subseteq Listed(r) \cup torn

Owns(s, r) == /\ conn[s] /\ socketInfo[s] # Null
              /\ socketInfo[s].roomId = r /\ socketInfo[s].role = "owner"

\* A room has one connected owner: whoever joins as the owner replaces the
\* connection the owner had (handleOwnerJoin).
OneOwner ==
  Quiescent => \A r \in Rooms : \A s, u \in Sockets : Owns(s, r) /\ Owns(u, r) => s = u

\* A connected owner is the owner Redis has on record, so its requests are
\* accepted (verifyOwnerToken, handleOwnerJoin, handleOwnerExit).
OwnerIsRecorded ==
  Quiescent => \A r \in Rooms : \A s \in Sockets : Owns(s, r) => roomOwner[r] = rid[s]

\* Nothing is left of a deleted room: no key, no socket info, and no socket in
\* its socket.io room (handleRoomDelete, deleteRoom).
DeletedRoomIsGone ==
  Quiescent => \A r \in deleted :
    /\ roomConfig[r] = Null /\ roomOwner[r] = Null /\ ~ownerToken[r]
    /\ roomMembers[r] = {} /\ roomReady[r] = {}
    /\ roomState[r] = Null /\ spinLock[r] = Null
    /\ \A s \in Sockets : /\ r \notin joined[s]
                           /\ socketInfo[s] # Null => socketInfo[s].roomId # r

\* A connection that is gone is not a member (completeJoin against
\* handleDisconnect).
NoGhostMembers ==
  Quiescent => \A r \in Rooms : \A s \in roomMembers[r] : conn[s]

\* A connected owner whose requests are accepted.
Presides(s, r) == Owns(s, r) /\ roomOwner[r] = rid[s]

\* The owner's screen is up to date: the last room:participants that reached
\* the connected owner of a room says who takes part and who is ready
\* (broadcastParticipantsToOwner at the end of every handler).
OwnerViewIsCurrent ==
  Quiescent => \A r \in Rooms : \A s \in Sockets :
    Presides(s, r) => view[s] = Roster(r)

\* What Spin takes for granted about the commands that run between its own:
\* whichever room handlers overlap, and whatever role and winnersCount clients
\* send, they take no lock, store no room:state, touch no idempotency key, write
\* no info without a room, not even in a nickname change whose info is deleted
\* meanwhile, and what they delete of a spin they delete with the room
\* (updateSocketNickname, completeJoin, deleteRoom).
KeepsSpinEnvironment == [][RoomCommand \/ RoomDeletion]_redisVars
=============================================================================
