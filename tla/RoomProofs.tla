----------------------------- MODULE RoomProofs -----------------------------
(***************************************************************************)
(* Proofs about RoomService, for every set of sockets, rooms and requests, *)
(* and for clients that keep to no order: whatever handlers overlap, the   *)
(* keys stay well typed, and every command is one that Spin expects of the *)
(* handlers it runs beside.  Roles and winnersCounts are whatever clients  *)
(* send.                                                                   *)
(***************************************************************************)
EXTENDS RoomService, TLAPS

\* The steps of a join that still need the role and the rid it will store.
BeforeInfo ==
  {"joinToken", "joinOwner", "activeOwner", "activeMembers", "activeInfo",
   "dropMember", "dropInfo", "ensureOwner", "setOwner", "joinConfig",
   "addMember", "setInfo"}

\* What a task relies on where it stands: a handler that runs has a socket; it
\* has a room unless its first read will tell; a socket to clean up has been
\* found; the info to write back has been read; a join knows whom to register.
WellFormed(t) ==
  /\ t \in TaskStates
  /\ t.pc \notin {"idle", "done"} => t.sock \in Sockets
  /\ t.pc \notin {"idle", "done", "goneInfo"} => t.room \in Rooms
  /\ t.pc \in {"dropMember", "dropInfo", "delInfo"} => t.found \in Sockets
  /\ t.pc = "nickSet" => t.info \in SocketInfos
  /\ t.pc \in BeforeInfo => t.rid \in Rids /\ t.arg \in Roles

TasksOK == task \in [Tasks -> TaskStates] /\ \A x \in Tasks : WellFormed(task[x])

\* The variables that are neither in Redis nor local to a handler.
SocketsOK ==
  /\ ownerToken \in [Rooms -> BOOLEAN]
  /\ conn \in [Sockets -> BOOLEAN]
  /\ rid \in [Sockets -> Rids]
  /\ role \in [Sockets -> Roles \cup {"none"}]
  /\ joined \in [Sockets -> SUBSET Rooms]
  /\ view \in [Sockets -> Lists \cup {Null}]
  /\ deleted \subseteq Rooms
  /\ torn \subseteq Sockets

\* The inductive invariant.
IInv == RedisTypeOK /\ SocketsOK /\ TasksOK

Command == RoomCommand \/ RoomDeletion \/ UNCHANGED redisVars
-----------------------------------------------------------------------------
(***************************************************************************)
(* Redis.                                                                  *)
(***************************************************************************)
LEMMA CommandsAreTyped == RedisTypeOK /\ Command => RedisTypeOK'
<1> SUFFICES ASSUME RedisTypeOK, Command PROVE RedisTypeOK'
  OBVIOUS
<1>1. CASE UNCHANGED redisVars
  BY <1>1 DEF redisVars, RedisTypeOK
<1>2. CASE RoomDeletion
  BY <1>2 DEF RoomDeletion, DeleteRoomKey, RedisTypeOK
<1>3. ASSUME NEW r \in Rooms, NEW s \in Sockets,
             \/ AddRoomMember(r, s) \/ RemoveRoomMember(r, s)
             \/ SetParticipantReady(r, s) \/ RemoveParticipantReady(r, s)
      PROVE  RedisTypeOK'
  BY <1>3 DEF AddRoomMember, RemoveRoomMember, SetParticipantReady,
              RemoveParticipantReady, RedisTypeOK
<1>4. ASSUME NEW s \in Sockets,
             RemoveSocketInfo(s) \/ \E info \in SocketInfos : SetSocketInfo(s, info)
      PROVE  RedisTypeOK'
  BY <1>4 DEF RemoveSocketInfo, SetSocketInfo, RedisTypeOK
<1>5. ASSUME NEW r \in Rooms,
             \/ \E c \in WinnersCounts : SetRoomConfig(r, c)
             \/ \E u \in Rids : SetRoomOwner(r, u)
             \/ ClearRoomOwner(r)
      PROVE  RedisTypeOK'
  BY <1>5 DEF SetRoomConfig, SetRoomOwner, ClearRoomOwner, RedisTypeOK
<1> QED
  BY <1>1, <1>2, <1>3, <1>4, <1>5 DEF Command, RoomCommand

\* What is read of a key is Null or a value of its kind.
LEMMA InfosAreTyped ==
  ASSUME RedisTypeOK, NEW s \in Sockets
  PROVE  /\ socketInfo[s] \in SocketInfos \cup {Null}
         /\ socketInfo[s] # Null =>
              /\ socketInfo[s].roomId \in Rooms
              /\ socketInfo[s].rid \in Rids
              /\ socketInfo[s].role \in Roles
  BY DEF RedisTypeOK, SocketInfos
-----------------------------------------------------------------------------
(***************************************************************************)
(* Tasks.                                                                  *)
(***************************************************************************)
LEMMA SetKeepsTasks ==
  ASSUME TasksOK, NEW x \in Tasks, NEW t, WellFormed(t), Set(x, t)
  PROVE  TasksOK'
  BY DEF TasksOK, Set, WellFormed

LEMMA EndedIsWellFormed == WellFormed(Ended) /\ WellFormed(NoTask)
  BY DEF WellFormed, Ended, NoTask, TaskStates, Locations, Args, DeletionOrder,
         BeforeInfo

LEMMA DisconnectionIsWellFormed ==
  ASSUME NEW s \in Sockets
  PROVE  WellFormed(Disconnection(s))
<1>1. NoTask \in TaskStates /\ "goneInfo" \in Locations
  BY EndedIsWellFormed DEF WellFormed, Locations
<1>2. /\ Disconnection(s) \in TaskStates
      /\ Disconnection(s).pc = "goneInfo" /\ Disconnection(s).sock = s
  BY <1>1 DEF Disconnection, TaskStates
<1> QED  BY <1>2 DEF WellFormed, BeforeInfo

LEMMA FinishedKeepsTasks ==
  ASSUME TasksOK, NEW x \in Tasks, task' = Finished(x)
  PROVE  TasksOK'
  BY EndedIsWellFormed, SetKeepsTasks DEF Finished, Set

\* A task that goes on to a step that needs nothing new.
LEMMA GoKeepsTasks ==
  ASSUME TasksOK, NEW x \in Tasks, NEW l \in Locations,
         task[x].pc \notin {"idle", "done", "goneInfo"},
         l \in BeforeInfo => task[x].pc \in BeforeInfo,
         l \in {"dropMember", "dropInfo", "delInfo"} => task[x].found \in Sockets,
         l # "nickSet",
         Go(x, l)
  PROVE  TasksOK'
<1>1. WellFormed([task[x] EXCEPT !.pc = l])
  BY DEF TasksOK, WellFormed, TaskStates
<1> QED  BY <1>1, SetKeepsTasks DEF Go

LEMMA CastKeepsTasks ==
  ASSUME TasksOK, NEW x \in Tasks, NEW r \in Rooms,
         NEW then \in {"end", "activity", "leave"},
         task[x].pc \notin {"idle", "done", "goneInfo"},
         Cast(x, r, then)
  PROVE  TasksOK'
<1> DEFINE t == [task[x] EXCEPT !.pc = "castOwner", !.room = r, !.then = then]
<1>1. "castOwner" \in Locations /\ task[x] \in TaskStates /\ task[x].sock \in Sockets
  BY DEF TasksOK, WellFormed, Locations
<1>2. t \in TaskStates /\ t.pc = "castOwner" /\ t.room = r /\ t.sock = task[x].sock
  BY <1>1 DEF TaskStates
<1>3. WellFormed(t)
  BY <1>1, <1>2 DEF WellFormed, BeforeInfo
<1> QED  BY <1>3, SetKeepsTasks DEF Cast

LEMMA KickKeeps ==
  ASSUME SocketsOK, TasksOK, NEW x \in Tasks, NEW s \in Sockets, NEW t, WellFormed(t),
         Kick(x, s, t)
  PROVE  /\ TasksOK'
         /\ conn' \in [Sockets -> BOOLEAN] /\ joined' \in [Sockets -> SUBSET Rooms]
<1>1. CASE Set(x, t) /\ UNCHANGED <<conn, joined>>
  BY <1>1, SetKeepsTasks DEF SocketsOK
<1>2. CASE /\ conn' = [conn EXCEPT ![s] = FALSE]
           /\ joined' = [joined EXCEPT ![s] = {}]
           /\ task' = [task EXCEPT ![x] = t, ![s] = Disconnection(s)]
  <2>1. WellFormed(Disconnection(s)) /\ s \in Tasks
    BY DisconnectionIsWellFormed DEF Tasks
  <2>2. TasksOK'
    BY <1>2, <2>1 DEF TasksOK, WellFormed
  <2> QED  BY <1>2, <2>2 DEF SocketsOK
<1> QED  BY <1>1, <1>2 DEF Kick

\* A reply that ends the task is as good as any.
LEMMA EndKeepsTasks ==
  ASSUME TasksOK, NEW x \in Tasks, Set(x, Ended)
  PROVE  TasksOK'
  BY EndedIsWellFormed, SetKeepsTasks

LEMMA DoneKeeps ==
  ASSUME SocketsOK, TasksOK, NEW x \in Tasks,
         task[x].pc \notin {"idle", "done", "goneInfo"}, CastDone(x)
  PROVE  TasksOK' /\ joined' \in [Sockets -> SUBSET Rooms]
<1>1. CASE Go(x, "activity") /\ UNCHANGED joined
  BY <1>1, GoKeepsTasks DEF SocketsOK, Locations, BeforeInfo
<1>2. CASE task' = Finished(x) /\ LeaveRoom(x)
  BY <1>2, FinishedKeepsTasks DEF LeaveRoom, SocketsOK
<1> QED  BY <1>1, <1>2 DEF CastDone

LEMMA EnterKeeps ==
  ASSUME SocketsOK, TasksOK, NEW x \in Tasks, task[x].pc \in BeforeInfo, EnterRoom(x)
  PROVE  TasksOK' /\ joined' \in [Sockets -> SUBSET Rooms]
<1>1. task[x].room \in Rooms /\ task[x].pc \notin {"idle", "done", "goneInfo"}
  BY DEF TasksOK, WellFormed, BeforeInfo
<1>2. TasksOK'
  BY <1>1, GoKeepsTasks DEF EnterRoom, Locations
<1>3. joined' \in [Sockets -> SUBSET Rooms]
  BY <1>1 DEF EnterRoom, SocketsOK
<1> QED  BY <1>2, <1>3

\* What one step of a task keeps.
Kept == Command /\ SocketsOK' /\ TasksOK'

LEMMA ReadsAreKept ==
  ASSUME SocketsOK, ReadsOnly
  PROVE  Command /\ SocketsOK'
  BY DEF ReadsOnly, OnlyRedis, sockVars, SocketsOK, Command

LEMMA WritesAreKept ==
  ASSUME SocketsOK, OnlyRedis
  PROVE  SocketsOK'
  BY DEF OnlyRedis, sockVars, SocketsOK

\* The writes of RedisService that the handlers use.
LEMMA WritesAreCommands ==
  ASSUME NEW r \in Rooms, NEW s \in Sockets,
         \/ AddRoomMember(r, s) \/ RemoveRoomMember(r, s)
         \/ SetParticipantReady(r, s) \/ RemoveParticipantReady(r, s)
         \/ RemoveSocketInfo(s) \/ \E info \in SocketInfos : SetSocketInfo(s, info)
         \/ \E c \in WinnersCounts : SetRoomConfig(r, c)
         \/ \E u \in Rids : SetRoomOwner(r, u)
         \/ ClearRoomOwner(r)
  PROVE  Command
  BY DEF Command, RoomCommand
-----------------------------------------------------------------------------
(***************************************************************************)
(* One lemma per group of actions.                                         *)
(***************************************************************************)
LEMMA ControlKeeps ==
  ASSUME IInv, NEW x \in Tasks, PassThrough(x) \/ ReplyState(x) \/ Close(x)
  PROVE  Kept
<1>1. SocketsOK /\ TasksOK /\ WellFormed(task[x])
  BY DEF IInv, TasksOK
<1>2. CASE PassThrough(x)
  <2>1. /\ task[x].pc \in {"replyOwner", "replyTitle", "ttlMembers"}
        /\ Onward[task[x].pc] \in {"replyConfig", "replyState", "ttlExpire"}
    BY <1>2 DEF PassThrough, Onward
  <2>2. Go(x, Onward[task[x].pc])
    BY <1>2 DEF PassThrough
  <2>3. TasksOK'
    BY <1>1, <2>1, <2>2, GoKeepsTasks DEF Locations, BeforeInfo
  <2> QED  BY <1>1, <1>2, <2>3, ReadsAreKept DEF PassThrough, Kept
<1>3. CASE ReplyState(x)
  <2>1. TasksOK'
    BY <1>1, <1>3, CastKeepsTasks DEF ReplyState, At, WellFormed
  <2> QED  BY <1>1, <1>3, <2>1, ReadsAreKept DEF ReplyState, Kept
<1>4. CASE Close(x)
  <2>1. TasksOK'
    BY <1>1, <1>4, FinishedKeepsTasks DEF Close
  <2>2. Command /\ SocketsOK'
    BY <1>1, <1>4 DEF Close, LeaveRoom, SocketsOK, Command
  <2> QED  BY <2>1, <2>2 DEF Kept
<1> QED  BY <1>2, <1>3, <1>4

LEMMA BroadcastKeeps ==
  ASSUME IInv, NEW x \in Tasks, Broadcast(x)
  PROVE  Kept
<1>1. RedisTypeOK /\ SocketsOK /\ TasksOK /\ WellFormed(task[x])
  BY DEF IInv, TasksOK
<1>2. CASE CastOwner(x)
  <2>1. CASE CastDone(x)
    <3>1. TasksOK' /\ joined' \in [Sockets -> SUBSET Rooms]
      BY <1>1, <1>2, <2>1, DoneKeeps DEF CastOwner, At
    <3> QED  BY <1>1, <1>2, <3>1 DEF CastOwner, SocketsOK, Kept, Command
  <2>2. CASE ~CastDone(x)
    <3> DEFINE u == roomOwner[task[x].room]
               t == [task[x] EXCEPT !.pc = "castMembers", !.owner = u,
                                    !.found = Null, !.parts = {}]
    <3>1. Set(x, t) /\ UNCHANGED joined /\ task[x].pc = "castOwner"
      BY <1>2, <2>2 DEF CastOwner, At
    <3>2. u \in Rids \cup {Null} /\ "castMembers" \in Locations
      BY <1>1, <3>1 DEF RedisTypeOK, WellFormed, Locations
    <3>3. /\ t \in TaskStates /\ t.pc = "castMembers"
          /\ t.room = task[x].room /\ t.sock = task[x].sock
      BY <1>1, <3>2 DEF WellFormed, TaskStates
    <3>4. WellFormed(t)
      BY <1>1, <3>1, <3>3 DEF WellFormed, BeforeInfo
    <3>5. TasksOK'
      BY <1>1, <3>1, <3>4, SetKeepsTasks
    <3> QED  BY <1>1, <1>2, <3>1, <3>5 DEF CastOwner, SocketsOK, Kept, Command
  <2> QED  BY <2>1, <2>2
<1>3. CASE CastMembers(x)
  <2> DEFINE t == [task[x] EXCEPT !.pc = "castReady", !.todo = roomMembers[task[x].room]]
  <2>1. /\ task[x].pc = "castMembers" /\ Set(x, t)
        /\ "castReady" \in Locations /\ task[x].room \in Rooms
    BY <1>1, <1>3 DEF CastMembers, At, WellFormed, Locations
  <2>2. /\ t \in TaskStates /\ t.pc = "castReady"
        /\ t.room = task[x].room /\ t.sock = task[x].sock
    BY <1>1, <2>1 DEF WellFormed, TaskStates, RedisTypeOK
  <2>3. WellFormed(t)
    BY <1>1, <2>1, <2>2 DEF WellFormed, BeforeInfo
  <2> QED  BY <1>1, <1>3, <2>1, <2>3, SetKeepsTasks, ReadsAreKept DEF CastMembers, Kept
<1>4. CASE CastReady(x)
  <2>1. CASE CastDone(x)
    <3>1. TasksOK' /\ joined' \in [Sockets -> SUBSET Rooms]
      BY <1>1, <1>4, <2>1, DoneKeeps DEF CastReady, At
    <3> QED  BY <1>1, <1>4, <3>1 DEF CastReady, SocketsOK, Kept, Command
  <2>2. CASE ~CastDone(x)
    <3> DEFINE t == [task[x] EXCEPT !.pc = "castInfo", !.ready = roomReady[task[x].room]]
    <3>1. Set(x, t) /\ UNCHANGED joined /\ task[x].pc = "castReady"
      BY <1>4, <2>2 DEF CastReady, At
    <3>2. "castInfo" \in Locations /\ task[x].room \in Rooms
      BY <1>1, <3>1 DEF WellFormed, Locations
    <3>3. /\ t \in TaskStates /\ t.pc = "castInfo"
          /\ t.room = task[x].room /\ t.sock = task[x].sock
      BY <1>1, <3>2 DEF WellFormed, TaskStates, RedisTypeOK
    <3>4. WellFormed(t)
      BY <1>1, <3>1, <3>3 DEF WellFormed, BeforeInfo
    <3>5. TasksOK'
      BY <1>1, <3>1, <3>4, SetKeepsTasks
    <3> QED  BY <1>1, <1>4, <3>1, <3>5 DEF CastReady, SocketsOK, Kept, Command
  <2> QED  BY <2>1, <2>2
<1>5. CASE CastInfo(x)
  <2> PICK m \in task[x].todo :
        LET t == Sorted(task[x], m) IN
        IF t.todo # {} THEN Set(x, t) /\ UNCHANGED <<view, joined>>
                       ELSE view' = Delivered(t) /\ CastDone(x)
    BY <1>5 DEF CastInfo
  <2> DEFINE t == Sorted(task[x], m)
  <2>1. task[x].pc = "castInfo" /\ m \in Sockets
    BY <1>1, <1>5 DEF CastInfo, At, WellFormed, TaskStates
  <2>2. t \in TaskStates
    BY <1>1, <2>1 DEF WellFormed, TaskStates, Sorted
  <2>3. /\ t.pc = "castInfo" /\ t.room = task[x].room /\ t.sock = task[x].sock
    BY <1>1, <2>1 DEF WellFormed, TaskStates, Sorted
  <2>4. WellFormed(t)
    BY <1>1, <2>1, <2>2, <2>3 DEF WellFormed, BeforeInfo
  <2>5. CASE t.todo # {}
    <3>1. TasksOK'
      BY <1>1, <2>4, <2>5, SetKeepsTasks
    <3> QED  BY <1>1, <1>5, <2>5, <3>1 DEF CastInfo, SocketsOK, Kept, Command
  <2>6. CASE t.todo = {}
    <3>1. TasksOK' /\ joined' \in [Sockets -> SUBSET Rooms]
      BY <1>1, <2>1, <2>6, DoneKeeps
    <3>2. [room |-> t.room, parts |-> t.parts, ready |-> t.parts \cap t.ready] \in Lists
      BY <2>2, <2>4, <2>3 DEF WellFormed, TaskStates, Lists
    <3>3. view' \in [Sockets -> Lists \cup {Null}]
      BY <1>1, <2>6, <3>2 DEF Delivered, SocketsOK
    <3> QED  BY <1>1, <1>5, <3>1, <3>3 DEF CastInfo, SocketsOK, Kept, Command
  <2> QED  BY <2>5, <2>6
<1> QED  BY <1>2, <1>3, <1>4, <1>5 DEF Broadcast

LEMMA GoneKeeps ==
  ASSUME IInv, NEW x \in Tasks, Gone(x)
  PROVE  Kept
<1>1. RedisTypeOK /\ SocketsOK /\ TasksOK /\ WellFormed(task[x])
  BY DEF IInv, TasksOK
<1>2. CASE GoneInfo(x)
  <2> DEFINE info == socketInfo[task[x].sock]
             t == [task[x] EXCEPT !.pc = "goneReady", !.room = info.roomId, !.arg = info.role]
  <2>1. task[x].pc = "goneInfo" /\ task[x].sock \in Sockets
    BY <1>1, <1>2 DEF GoneInfo, At, WellFormed
  <2>2. CASE info = Null
    <3>1. TasksOK'
      BY <1>1, <1>2, <2>2, FinishedKeepsTasks DEF GoneInfo
    <3> QED  BY <1>1, <1>2, <2>2, <3>1 DEF GoneInfo, LeaveRoom, SocketsOK, Kept, Command
  <2>3. CASE info # Null
    <3>1. Set(x, t) /\ UNCHANGED joined
      BY <1>2, <2>3 DEF GoneInfo
    <3>2. info.roomId \in Rooms /\ info.role \in Args /\ "goneReady" \in Locations
      BY <1>1, <2>1, <2>3, InfosAreTyped DEF Args, Locations
    <3>3. t \in TaskStates /\ t.pc = "goneReady" /\ t.room \in Rooms /\ t.sock \in Sockets
      BY <1>1, <2>1, <3>2 DEF WellFormed, TaskStates
    <3>4. WellFormed(t)
      BY <3>3 DEF WellFormed, BeforeInfo
    <3>5. TasksOK'
      BY <1>1, <3>1, <3>4, SetKeepsTasks
    <3> QED  BY <1>1, <1>2, <3>1, <3>5 DEF GoneInfo, SocketsOK, Kept, Command
  <2> QED  BY <2>2, <2>3
<1>3. ASSUME task[x].pc \in {"goneReady", "goneMember", "goneDelete"}
      PROVE  task[x].room \in Rooms /\ task[x].sock \in Sockets
  BY <1>1, <1>3 DEF WellFormed
<1>4. CASE GoneReady(x)
  <2>1. TasksOK'
    BY <1>1, <1>4, GoKeepsTasks DEF GoneReady, At, Locations, BeforeInfo
  <2> QED  BY <1>1, <1>3, <1>4, <2>1, WritesAreKept, WritesAreCommands DEF GoneReady, At, Kept
<1>5. CASE GoneMember(x)
  <2>1. TasksOK'
    BY <1>1, <1>5, GoKeepsTasks DEF GoneMember, At, Locations, BeforeInfo
  <2> QED  BY <1>1, <1>3, <1>5, <2>1, WritesAreKept, WritesAreCommands DEF GoneMember, At, Kept
<1>6. CASE GoneDelete(x)
  <2>1. CASE task[x].arg = "owner"
    <3>1. TasksOK'
      BY <1>1, <1>6, <2>1, GoKeepsTasks DEF GoneDelete, At, Locations, BeforeInfo
    <3> QED  BY <1>1, <1>3, <1>6, <3>1, WritesAreKept, WritesAreCommands DEF GoneDelete, At, Kept
  <2>2. CASE task[x].arg # "owner"
    <3>1. task[x].then \in {"end", "activity", "leave"}
      BY <1>1 DEF WellFormed, TaskStates
    <3>2. TasksOK'
      BY <1>1, <1>3, <1>6, <2>2, <3>1, CastKeepsTasks DEF GoneDelete, At
    <3> QED  BY <1>1, <1>3, <1>6, <3>2, WritesAreKept, WritesAreCommands DEF GoneDelete, At, Kept
  <2> QED  BY <2>1, <2>2
<1> QED  BY <1>2, <1>4, <1>5, <1>6 DEF Gone

LEMMA LeaveKeeps ==
  ASSUME IInv, NEW x \in Tasks, Leave(x)
  PROVE  Kept
<1>1. RedisTypeOK /\ SocketsOK /\ TasksOK /\ WellFormed(task[x])
  BY DEF IInv, TasksOK
<1>2. CASE LeaveInfo(x)
  <2> DEFINE l == IF task[x].arg = "owner" THEN "leaveMember" ELSE "goneInfo"
             n == IF task[x].arg = "owner" THEN task[x].then ELSE "leave"
             t == [task[x] EXCEPT !.pc = l, !.then = n, !.home = task[x].room]
  <2>1. task[x].room \in Rooms /\ task[x].sock \in Sockets
    BY <1>1, <1>2 DEF LeaveInfo, At, WellFormed
  <2>2. t \in TaskStates
    <3>1. l \in Locations /\ n \in {"end", "activity", "leave"}
      BY <1>1 DEF WellFormed, TaskStates, Locations
    <3> HIDE DEF l, n
    <3> QED  BY <1>1, <2>1, <3>1 DEF WellFormed, TaskStates
  <2>3. /\ t.pc \in {"leaveMember", "goneInfo"}
        /\ t.room = task[x].room /\ t.sock = task[x].sock
    BY <1>1 DEF WellFormed, TaskStates
  <2>4. WellFormed(t)
    BY <2>1, <2>2, <2>3 DEF WellFormed, BeforeInfo
  <2>5. TasksOK'
    BY <1>1, <1>2, <2>4, SetKeepsTasks, EndKeepsTasks DEF LeaveInfo
  <2> QED  BY <1>1, <1>2, <2>5, ReadsAreKept DEF LeaveInfo, Kept
<1>3. ASSUME task[x].pc \in {"leaveMember", "leaveDelete", "leaveOwner"}
      PROVE  task[x].room \in Rooms /\ task[x].sock \in Sockets
  BY <1>1, <1>3 DEF WellFormed
<1>4. CASE LeaveMember(x)
  <2>1. TasksOK'
    BY <1>1, <1>4, GoKeepsTasks DEF LeaveMember, At, Locations, BeforeInfo
  <2> QED  BY <1>1, <1>3, <1>4, <2>1, WritesAreKept, WritesAreCommands DEF LeaveMember, At, Kept
<1>5. CASE LeaveDelete(x)
  <2>1. TasksOK'
    BY <1>1, <1>5, GoKeepsTasks DEF LeaveDelete, At, Locations, BeforeInfo
  <2> QED  BY <1>1, <1>3, <1>5, <2>1, WritesAreKept, WritesAreCommands DEF LeaveDelete, At, Kept
<1>6. CASE LeaveOwner(x)
  <2>1. TasksOK'
    BY <1>1, <1>6, GoKeepsTasks DEF LeaveOwner, At, Locations, BeforeInfo
  <2>2. Command
    BY <1>3, <1>6, WritesAreCommands DEF LeaveOwner, At
  <2> QED  BY <1>1, <1>6, <2>1, <2>2 DEF LeaveOwner, SocketsOK, Kept
<1> QED  BY <1>2, <1>4, <1>5, <1>6 DEF Leave

LEMMA SettingsKeep ==
  ASSUME IInv, NEW x \in Tasks, Settings(x)
  PROVE  Kept
<1>1. RedisTypeOK /\ SocketsOK /\ TasksOK /\ WellFormed(task[x])
  BY DEF IInv, TasksOK
<1>2. ASSUME task[x].pc \in {"toggleInfo", "toggleWrite", "nickInfo", "nickSet",
                             "configOwner", "configSet"}
      PROVE  task[x].room \in Rooms /\ task[x].sock \in Sockets
  BY <1>1, <1>2 DEF WellFormed
<1>3. CASE ToggleInfo(x)
  <2>1. TasksOK'
    BY <1>1, <1>3, GoKeepsTasks, EndKeepsTasks DEF ToggleInfo, At, Locations, BeforeInfo
  <2> QED  BY <1>1, <1>3, <2>1, ReadsAreKept DEF ToggleInfo, Kept
<1>4. CASE ToggleWrite(x)
  <2>1. TasksOK'
    BY <1>1, <1>2, <1>4, CastKeepsTasks DEF ToggleWrite, At
  <2> QED  BY <1>1, <1>2, <1>4, <2>1, WritesAreKept, WritesAreCommands DEF ToggleWrite, At, Kept
<1>5. CASE NickInfo(x)
  <2> DEFINE info == socketInfo[task[x].sock]
             t == [task[x] EXCEPT !.pc = "nickSet", !.info = info]
  <2>1. CASE info = Null
    BY <1>1, <1>2, <1>5, <2>1, CastKeepsTasks, ReadsAreKept DEF NickInfo, At, Kept
  <2>2. CASE info # Null
    <3>1. Set(x, t) /\ info \in SocketInfos /\ "nickSet" \in Locations
      BY <1>1, <1>2, <1>5, <2>2, InfosAreTyped DEF NickInfo, At, Locations
    <3>2. /\ t \in TaskStates /\ t.pc = "nickSet" /\ t.info = info
          /\ t.room = task[x].room /\ t.sock = task[x].sock
      BY <1>1, <3>1 DEF WellFormed, TaskStates
    <3>3. WellFormed(t)
      BY <1>2, <1>5, <3>1, <3>2 DEF NickInfo, At, WellFormed, BeforeInfo
    <3> QED  BY <1>1, <1>5, <3>1, <3>3, SetKeepsTasks, ReadsAreKept DEF NickInfo, Kept
  <2> QED  BY <2>1, <2>2
<1>6. CASE NickSet(x)
  <2>1. TasksOK'
    BY <1>1, <1>2, <1>6, CastKeepsTasks DEF NickSet, At
  <2>2. task[x].info \in SocketInfos
    BY <1>1, <1>6 DEF NickSet, At, WellFormed
  <2> QED  BY <1>1, <1>2, <1>6, <2>1, <2>2, WritesAreKept, WritesAreCommands DEF NickSet, At, Kept
<1>7. CASE ConfigOwner(x)
  <2>1. TasksOK'
    BY <1>1, <1>7, GoKeepsTasks, EndKeepsTasks DEF ConfigOwner, At, Locations, BeforeInfo
  <2> QED  BY <1>1, <1>7, <2>1, ReadsAreKept DEF ConfigOwner, Kept
<1>8. CASE ConfigSet(x)
  <2>1. TasksOK'
    BY <1>1, <1>8, GoKeepsTasks DEF ConfigSet, At, Locations, BeforeInfo
  <2> QED  BY <1>1, <1>2, <1>8, <2>1, WritesAreKept, WritesAreCommands DEF ConfigSet, At, Kept
<1> QED  BY <1>3, <1>4, <1>5, <1>6, <1>7, <1>8 DEF Settings

LEMMA NextKickKeeps ==
  ASSUME SocketsOK, TasksOK, NEW x \in Tasks, NEW t, WellFormed(t),
         t.pc \in {"delMembers", "delInfo"}, KickNext(x, t)
  PROVE  /\ TasksOK'
         /\ conn' \in [Sockets -> BOOLEAN] /\ joined' \in [Sockets -> SUBSET Rooms]
<1>1. t \in TaskStates /\ t.room \in Rooms /\ t.sock \in Sockets
  BY DEF WellFormed
<1>2. CASE t.todo = {}
  <2> DEFINE u == [t EXCEPT !.pc = "delOwnInfo", !.found = Null]
  <2>1. "delOwnInfo" \in Locations
    BY DEF Locations
  <2>2. u \in TaskStates /\ u.pc = "delOwnInfo" /\ u.room = t.room /\ u.sock = t.sock
    BY <1>1, <2>1 DEF TaskStates
  <2>3. WellFormed(u)
    BY <1>1, <2>2 DEF WellFormed, BeforeInfo
  <2>4. Set(x, u) /\ UNCHANGED <<conn, joined>>
    BY <1>2 DEF KickNext
  <2> QED  BY <2>3, <2>4, SetKeepsTasks DEF SocketsOK
<1>3. CASE t.todo # {}
  <2> PICK m \in t.todo :
        Kick(x, m, [t EXCEPT !.pc = "delInfo", !.found = m, !.todo = @ \ {m}])
    BY <1>3 DEF KickNext
  <2> DEFINE u == [t EXCEPT !.pc = "delInfo", !.found = m, !.todo = @ \ {m}]
  <2>1. "delInfo" \in Locations /\ m \in Sockets
    BY <1>1 DEF Locations, TaskStates
  <2>2. /\ u \in TaskStates /\ u.pc = "delInfo" /\ u.found = m
        /\ u.room = t.room /\ u.sock = t.sock
    BY <1>1, <2>1 DEF TaskStates
  <2>3. WellFormed(u)
    BY <1>1, <2>1, <2>2 DEF WellFormed, BeforeInfo
  <2> QED  BY <2>1, <2>3, KickKeeps
<1> QED  BY <1>2, <1>3

LEMMA DeleteKeeps ==
  ASSUME IInv, NEW x \in Tasks, Delete(x)
  PROVE  Kept
<1>1. RedisTypeOK /\ SocketsOK /\ TasksOK /\ WellFormed(task[x])
  BY DEF IInv, TasksOK
<1>2. ASSUME task[x].pc \in Deletion
      PROVE  task[x].room \in Rooms /\ task[x].sock \in Sockets
  BY <1>1, <1>2 DEF WellFormed, Deletion
<1>3. CASE DelOwner(x)
  <2>1. TasksOK'
    BY <1>1, <1>3, GoKeepsTasks, EndKeepsTasks DEF DelOwner, At, Locations, BeforeInfo
  <2> QED  BY <1>1, <1>3, <2>1, ReadsAreKept DEF DelOwner, Kept
<1>4. CASE DelMembers(x)
  <2> DEFINE M == roomMembers[task[x].room] \ {task[x].sock}
             t == [task[x] EXCEPT !.todo = M]
  <2>1. /\ task[x].pc = "delMembers" /\ KickNext(x, t)
        /\ task[x].room \in Rooms /\ task[x].sock \in Sockets
    BY <1>2, <1>4 DEF DelMembers, At, Deletion
  <2>2. M \in SUBSET Sockets
    BY <1>1, <2>1 DEF RedisTypeOK
  <2>3. /\ t \in TaskStates /\ t.pc = "delMembers"
        /\ t.room = task[x].room /\ t.sock = task[x].sock
    <3> HIDE DEF M
    <3> QED  BY <1>1, <2>1, <2>2 DEF WellFormed, TaskStates
  <2>4. WellFormed(t)
    BY <2>1, <2>3 DEF WellFormed, BeforeInfo
  <2>5. /\ TasksOK'
        /\ conn' \in [Sockets -> BOOLEAN] /\ joined' \in [Sockets -> SUBSET Rooms]
    <3> HIDE DEF t
    <3> QED  BY <1>1, <2>1, <2>3, <2>4, NextKickKeeps
  <2> QED  BY <1>1, <1>4, <2>5 DEF DelMembers, SocketsOK, Kept, Command
<1>5. CASE DelInfo(x)
  <2>1. task[x].pc = "delInfo" /\ task[x].found \in Sockets
    BY <1>1, <1>5 DEF DelInfo, At, WellFormed
  <2>2. /\ TasksOK'
        /\ conn' \in [Sockets -> BOOLEAN] /\ joined' \in [Sockets -> SUBSET Rooms]
    BY <1>1, <1>5, <2>1, NextKickKeeps DEF DelInfo
  <2>3. Command
    BY <1>2, <1>5, <2>1, WritesAreCommands DEF DelInfo, Deletion
  <2> QED  BY <1>1, <1>5, <2>2, <2>3 DEF DelInfo, SocketsOK, Kept
<1>6. CASE DelOwnInfo(x)
  <2>1. TasksOK'
    BY <1>1, <1>6, GoKeepsTasks DEF DelOwnInfo, At, Locations, BeforeInfo
  <2>2. Command
    BY <1>2, <1>6, WritesAreCommands DEF DelOwnInfo, At, Deletion
  <2> QED  BY <1>1, <1>6, <2>1, <2>2 DEF DelOwnInfo, SocketsOK, Kept
<1>7. CASE DelRoom(x)
  <2> DEFINE r == task[x].room
             k == DeletionOrder[task[x].next]
             t == [task[x] EXCEPT !.next = @ + 1]
  <2>1. /\ task[x].pc = "delRoom" /\ r \in Rooms /\ task[x].sock \in Sockets
        /\ task[x].next \in 1..Len(DeletionOrder) /\ Len(DeletionOrder) = 7
    BY <1>1, <1>2, <1>7 DEF DelRoom, At, Deletion, WellFormed, TaskStates, DeletionOrder
  <2>2. k \in DeletedKeys \cup {"token"}
    BY <2>1 DEF DeletionOrder, DeletedKeys
  <2>3. Command
    BY <1>7, <2>1, <2>2 DEF DelRoom, Command, RoomDeletion
  <2>4. CASE task[x].next = Len(DeletionOrder)
    <3>1. TasksOK'
      BY <1>1, <1>7, <2>4, EndKeepsTasks DEF DelRoom
    <3> QED  BY <1>1, <1>7, <2>1, <2>3, <3>1 DEF DelRoom, sockVars, SocketsOK, Kept
  <2>5. CASE task[x].next # Len(DeletionOrder)
    <3>1. task[x].next + 1 \in 1..Len(DeletionOrder)
      BY <2>1, <2>5
    <3>2. /\ t \in TaskStates /\ t.pc = "delRoom"
          /\ t.room = task[x].room /\ t.sock = task[x].sock
      BY <1>1, <2>1, <3>1 DEF WellFormed, TaskStates
    <3>3. WellFormed(t)
      BY <2>1, <3>2 DEF WellFormed, BeforeInfo
    <3>4. TasksOK'
      BY <1>1, <1>7, <2>5, <3>3, SetKeepsTasks DEF DelRoom
    <3> QED  BY <1>1, <1>7, <2>1, <2>3, <2>5, <3>4 DEF DelRoom, sockVars, SocketsOK, Kept
  <2> QED  BY <2>4, <2>5
<1> QED  BY <1>3, <1>4, <1>5, <1>6, <1>7 DEF Delete

LEMMA OwnerSearchKeeps ==
  ASSUME IInv, NEW x \in Tasks,
         ActiveOwner(x) \/ ActiveMembers(x) \/ ActiveInfo(x) \/ DropMember(x) \/ DropInfo(x)
  PROVE  Kept
<1>1. RedisTypeOK /\ SocketsOK /\ TasksOK /\ WellFormed(task[x]) /\ task[x] \in TaskStates
  BY DEF IInv, TasksOK, WellFormed
<1>2. /\ task[x].pc \in {"activeOwner", "activeMembers", "activeInfo", "dropMember", "dropInfo"}
      /\ task[x].room \in Rooms /\ task[x].sock \in Sockets
      /\ task[x].rid \in Rids /\ task[x].arg \in Roles
  BY <1>1 DEF ActiveOwner, ActiveMembers, ActiveInfo, DropMember, DropInfo, At,
              WellFormed, BeforeInfo
<1>3. {"ensureOwner", "activeMembers", "activeInfo", "dropMember", "dropInfo"} \subseteq Locations
  BY DEF Locations
<1>4. CASE ActiveOwner(x)
  <2> DEFINE u == roomOwner[task[x].room]
             t == [task[x] EXCEPT !.pc = "activeMembers", !.owner = u]
  <2>1. u \in Rids \cup {Null}
    BY <1>1, <1>2 DEF RedisTypeOK
  <2>2. /\ t \in TaskStates /\ t.pc = "activeMembers"
        /\ t.room = task[x].room /\ t.sock = task[x].sock
        /\ t.rid = task[x].rid /\ t.arg = task[x].arg
    BY <1>1, <1>3, <2>1 DEF TaskStates
  <2>3. WellFormed(t)
    BY <1>2, <2>2 DEF WellFormed
  <2>4. TasksOK'
    BY <1>1, <1>2, <1>3, <1>4, <2>3, SetKeepsTasks, GoKeepsTasks DEF ActiveOwner, BeforeInfo
  <2> QED  BY <1>1, <1>4, <2>4, ReadsAreKept DEF ActiveOwner, Kept
<1>5. CASE ActiveMembers(x)
  <2> DEFINE m == roomMembers[task[x].room]
             t == [task[x] EXCEPT !.pc = "activeInfo", !.todo = m]
  <2>1. m \in SUBSET Sockets
    BY <1>1, <1>2 DEF RedisTypeOK
  <2>2. /\ t \in TaskStates /\ t.pc = "activeInfo"
        /\ t.room = task[x].room /\ t.sock = task[x].sock
        /\ t.rid = task[x].rid /\ t.arg = task[x].arg
    BY <1>1, <1>3, <2>1 DEF TaskStates
  <2>3. WellFormed(t)
    BY <1>2, <2>2 DEF WellFormed
  <2>4. TasksOK'
    BY <1>1, <1>2, <1>3, <1>5, <2>3, SetKeepsTasks, GoKeepsTasks DEF ActiveMembers, BeforeInfo
  <2> QED  BY <1>1, <1>5, <2>4, ReadsAreKept DEF ActiveMembers, Kept
<1>6. CASE ActiveInfo(x)
  <2> DEFINE owns(m) == socketInfo[m] # Null /\ socketInfo[m].rid = task[x].owner
             f(m) == IF owns(m) /\ task[x].found = Null THEN m ELSE task[x].found
             t(m) == [task[x] EXCEPT !.todo = @ \ {m}, !.found = f(m)]
  <2> PICK m \in task[x].todo :
        IF t(m).todo # {} THEN Set(x, t(m)) /\ UNCHANGED <<conn, joined>>
        ELSE IF f(m) = Null
          THEN Set(x, [t(m) EXCEPT !.pc = "ensureOwner"]) /\ UNCHANGED <<conn, joined>>
          ELSE Kick(x, f(m), [t(m) EXCEPT !.pc = "dropMember"])
    BY <1>6 DEF ActiveInfo
  <2>1. task[x].pc = "activeInfo" /\ f(m) \in Sockets \cup {Null}
    BY <1>1, <1>6 DEF ActiveInfo, At, TaskStates
  <2>2. /\ t(m) \in TaskStates /\ t(m).pc = "activeInfo" /\ t(m).found = f(m)
        /\ t(m).room = task[x].room /\ t(m).sock = task[x].sock
        /\ t(m).rid = task[x].rid /\ t(m).arg = task[x].arg
    <3> HIDE DEF f
    <3> QED  BY <1>1, <2>1 DEF TaskStates
  <2>3. ASSUME NEW l \in {"ensureOwner", "dropMember"},
               l = "dropMember" => f(m) \in Sockets
        PROVE  WellFormed([t(m) EXCEPT !.pc = l])
    <3> HIDE DEF t, f
    <3>1. l \in Locations
      BY <1>3
    <3>2. /\ [t(m) EXCEPT !.pc = l] \in TaskStates
          /\ [t(m) EXCEPT !.pc = l].pc = l
          /\ [t(m) EXCEPT !.pc = l].found = f(m)
          /\ [t(m) EXCEPT !.pc = l].room = task[x].room
          /\ [t(m) EXCEPT !.pc = l].sock = task[x].sock
          /\ [t(m) EXCEPT !.pc = l].rid = task[x].rid
          /\ [t(m) EXCEPT !.pc = l].arg = task[x].arg
      BY <2>2, <3>1 DEF TaskStates
    <3> QED  BY <1>2, <2>3, <3>2 DEF WellFormed
  <2>4. WellFormed(t(m))
    BY <1>2, <2>2 DEF WellFormed
  <2>5. /\ TasksOK'
        /\ conn' \in [Sockets -> BOOLEAN] /\ joined' \in [Sockets -> SUBSET Rooms]
    <3> HIDE DEF t, f
    <3>1. CASE t(m).todo # {}
      BY <1>1, <2>4, <3>1, SetKeepsTasks DEF SocketsOK
    <3>2. CASE t(m).todo = {} /\ f(m) = Null
      <4>1. WellFormed([t(m) EXCEPT !.pc = "ensureOwner"])
        BY <2>3
      <4> QED  BY <1>1, <3>2, <4>1, SetKeepsTasks DEF SocketsOK
    <3>3. CASE t(m).todo = {} /\ f(m) # Null
      <4>1. f(m) \in Sockets
        BY <2>1, <3>3
      <4>2. WellFormed([t(m) EXCEPT !.pc = "dropMember"])
        BY <2>3, <4>1
      <4> QED  BY <1>1, <3>3, <4>1, <4>2, KickKeeps
    <3> QED  BY <3>1, <3>2, <3>3
  <2> QED  BY <1>1, <1>6, <2>5 DEF ActiveInfo, SocketsOK, Kept, Command
<1>7. CASE DropMember(x)
  <2>1. task[x].pc = "dropMember" /\ task[x].found \in Sockets
    BY <1>1, <1>7 DEF DropMember, At, WellFormed
  <2>2. TasksOK'
    BY <1>1, <1>3, <1>7, <2>1, GoKeepsTasks DEF DropMember, BeforeInfo
  <2> QED  BY <1>1, <1>2, <1>7, <2>1, <2>2, WritesAreKept, WritesAreCommands DEF DropMember, Kept
<1>8. CASE DropInfo(x)
  <2> DEFINE t == [task[x] EXCEPT !.pc = "ensureOwner", !.found = Null]
  <2>1. task[x].pc = "dropInfo" /\ task[x].found \in Sockets
    BY <1>1, <1>8 DEF DropInfo, At, WellFormed
  <2>2. /\ t \in TaskStates /\ t.pc = "ensureOwner"
        /\ t.room = task[x].room /\ t.sock = task[x].sock
        /\ t.rid = task[x].rid /\ t.arg = task[x].arg
    BY <1>1, <1>3 DEF TaskStates
  <2>3. WellFormed(t)
    BY <1>2, <2>2 DEF WellFormed
  <2>4. TasksOK'
    BY <1>1, <1>8, <2>3, SetKeepsTasks DEF DropInfo
  <2> QED  BY <1>1, <1>2, <1>8, <2>1, <2>4, WritesAreKept, WritesAreCommands DEF DropInfo, Kept
<1> QED  BY <1>4, <1>5, <1>6, <1>7, <1>8

LEMMA JoinKeeps ==
  ASSUME IInv, NEW x \in Tasks, Join(x)
  PROVE  Kept
<1>1. RedisTypeOK /\ SocketsOK /\ TasksOK /\ WellFormed(task[x]) /\ task[x] \in TaskStates
  BY DEF IInv, TasksOK, WellFormed
<1>2. ASSUME task[x].pc \in BeforeInfo
      PROVE  /\ task[x].room \in Rooms /\ task[x].sock \in Sockets
             /\ task[x].rid \in Rids /\ task[x].arg \in Roles
  BY <1>1, <1>2 DEF WellFormed, BeforeInfo
<1>3. CASE CheckToken(x)
  <2>1. TasksOK'
    BY <1>1, <1>3, GoKeepsTasks, EndKeepsTasks DEF CheckToken, At, Locations, BeforeInfo
  <2> QED  BY <1>1, <1>3, <2>1, ReadsAreKept DEF CheckToken, Kept
<1>4. CASE TakeOwnerRid(x)
  <2> DEFINE r == task[x].room
             t == [task[x] EXCEPT !.pc = "activeOwner", !.rid = r]
  <2>1. /\ task[x].pc = "joinOwner" /\ r \in Rids /\ "activeOwner" \in Locations
        /\ r \in Rooms /\ task[x].sock \in Sockets /\ task[x].arg \in Roles
    BY <1>2, <1>4, RoomAssumption DEF TakeOwnerRid, At, BeforeInfo, Locations
  <2>2. /\ t \in TaskStates /\ t.pc = "activeOwner" /\ t.rid = r
        /\ t.room = task[x].room /\ t.sock = task[x].sock /\ t.arg = task[x].arg
    BY <1>1, <2>1 DEF TaskStates
  <2>3. WellFormed(t)
    BY <2>1, <2>2 DEF WellFormed
  <2>4. TasksOK' /\ rid' \in [Sockets -> Rids]
    BY <1>1, <1>4, <2>1, <2>3, SetKeepsTasks, EndKeepsTasks DEF TakeOwnerRid, SocketsOK
  <2> QED  BY <1>1, <1>4, <2>4 DEF TakeOwnerRid, SocketsOK, Kept, Command
<1>5. CASE EnsureOwner(x)
  <2>1. TasksOK' /\ joined' \in [Sockets -> SUBSET Rooms]
    BY <1>1, <1>5, GoKeepsTasks, EnterKeeps
       DEF EnsureOwner, At, Locations, BeforeInfo, SocketsOK
  <2> QED  BY <1>1, <1>5, <2>1 DEF EnsureOwner, SocketsOK, Kept, Command
<1>6. CASE RecordOwner(x)
  <2>1. TasksOK' /\ joined' \in [Sockets -> SUBSET Rooms]
    BY <1>1, <1>6, EnterKeeps DEF RecordOwner, At, BeforeInfo
  <2>2. Command
    BY <1>2, <1>6, WritesAreCommands DEF RecordOwner, At, BeforeInfo
  <2> QED  BY <1>1, <1>6, <2>1, <2>2 DEF RecordOwner, SocketsOK, Kept
<1>7. CASE CheckRoom(x)
  <2>1. TasksOK' /\ joined' \in [Sockets -> SUBSET Rooms]
    BY <1>1, <1>7, EndKeepsTasks, EnterKeeps DEF CheckRoom, At, BeforeInfo, SocketsOK
  <2> QED  BY <1>1, <1>7, <2>1 DEF CheckRoom, SocketsOK, Kept, Command
<1>8. CASE AddMember(x)
  <2>1. TasksOK'
    BY <1>1, <1>8, GoKeepsTasks DEF AddMember, At, Locations, BeforeInfo
  <2>2. Command /\ role' \in [Sockets -> Roles \cup {"none"}]
    BY <1>1, <1>2, <1>8, WritesAreCommands DEF AddMember, At, BeforeInfo, SocketsOK
  <2> QED  BY <1>1, <1>8, <2>1, <2>2 DEF AddMember, SocketsOK, Kept
<1>9. CASE RecordInfo(x)
  <2>1. TasksOK'
    BY <1>1, <1>9, GoKeepsTasks DEF RecordInfo, At, Locations, BeforeInfo
  <2>2. [roomId |-> task[x].room, rid |-> task[x].rid, role |-> task[x].arg] \in SocketInfos
    BY <1>2, <1>9 DEF RecordInfo, At, BeforeInfo, SocketInfos
  <2>3. Command
    BY <1>2, <1>9, <2>2, WritesAreCommands DEF RecordInfo, At, BeforeInfo
  <2> QED  BY <1>1, <1>9, <2>1, <2>3, WritesAreKept DEF RecordInfo, Kept
<1>10. CASE EnsureConfig(x)
  <2>1. TasksOK'
    BY <1>1, <1>10, GoKeepsTasks DEF EnsureConfig, At, Locations, BeforeInfo
  <2>2. task[x].room \in Rooms /\ task[x].sock \in Sockets /\ 1 \in WinnersCounts
    BY <1>1, <1>10, RoomAssumption DEF EnsureConfig, WellFormed
  <2>3. Command
    BY <1>10, <2>2, WritesAreCommands DEF EnsureConfig, Command
  <2> QED  BY <1>1, <1>10, <2>1, <2>3, WritesAreKept DEF EnsureConfig, Kept
<1> QED
  BY <1>3, <1>4, <1>5, <1>6, <1>7, <1>8, <1>9, <1>10, OwnerSearchKeeps DEF Join
-----------------------------------------------------------------------------
(***************************************************************************)
(* The theorems.                                                           *)
(***************************************************************************)
LEMMA ArrivalKeeps ==
  ASSUME IInv, NEW c \in Calls, Arrive(c)
  PROVE  Kept
<1>1. SocketsOK /\ TasksOK /\ c \in Tasks
  BY DEF IInv, Tasks
<1> PICK q \in Inputs :
      Set(c, IF FirstAwait(q) = "done" THEN Ended ELSE
               [NoTask EXCEPT !.pc = FirstAwait(q), !.sock = q.sock,
                  !.room = q.room, !.rid = rid[q.sock],
                  !.arg = IF q.kind = "leave" THEN role[q.sock] ELSE q.arg])
  BY DEF Arrive
<1> DEFINE l == FirstAwait(q)
           u == rid[q.sock]
           a == IF q.kind = "leave" THEN role[q.sock] ELSE q.arg
           t == [NoTask EXCEPT !.pc = l, !.sock = q.sock, !.room = q.room,
                               !.rid = u, !.arg = a]
<1>2. /\ q.sock \in Sockets /\ q.room \in Rooms /\ q.kind \in Kinds /\ q.arg \in Args
      /\ q.kind = "join" => q.arg \in Roles \cup {"none"}
  BY RoomAssumption DEF InputData
<1>3. u \in Rids /\ a \in Args
  BY <1>1, <1>2 DEF SocketsOK, Args
<1>4. /\ l \in {"joinToken", "joinConfig", "leaveInfo", "toggleInfo", "nickInfo",
               "configOwner", "delOwner", "done"}
      /\ l \in {"joinToken", "joinConfig"} => q.kind = "join" /\ q.arg \in Roles
  BY <1>2, RolesAssumption DEF FirstAwait, Kinds
<1>5. l \in Locations
  BY <1>4 DEF Locations
<1>6. NoTask \in TaskStates
  BY EndedIsWellFormed DEF WellFormed
<1>7. ASSUME l # "done" PROVE WellFormed(t)
  <2>1. l \in BeforeInfo => a \in Roles
    BY <1>2, <1>4 DEF BeforeInfo
  <2>2. l \notin {"dropMember", "dropInfo", "delInfo", "nickSet"}
    BY <1>4
  <2> HIDE DEF l, u, a
  <2>3. /\ t \in TaskStates /\ t.pc = l /\ t.sock = q.sock /\ t.room = q.room
        /\ t.rid = u /\ t.arg = a
    BY <1>2, <1>3, <1>5, <1>6 DEF TaskStates
  <2> QED  BY <1>2, <1>3, <2>1, <2>2, <2>3 DEF WellFormed
<1>8. TasksOK'
  BY <1>1, <1>7, EndKeepsTasks, SetKeepsTasks
<1> QED  BY <1>1, <1>8, ReadsAreKept DEF Arrive, Kept

LEMMA LossKeeps ==
  ASSUME IInv, NEW s \in Sockets, Drop(s)
  PROVE  Kept
<1>1. SocketsOK /\ TasksOK /\ s \in Tasks
  BY DEF IInv, Tasks
<1>2. TasksOK'
  BY <1>1, DisconnectionIsWellFormed, SetKeepsTasks DEF Drop, Set
<1> QED  BY <1>1, <1>2 DEF Drop, SocketsOK, Kept, Command

LEMMA StepKeeps == IInv /\ Next => Kept
<1> SUFFICES ASSUME IInv, Next PROVE Kept
  OBVIOUS
<1>1. ASSUME NEW x \in Tasks, Run(x) PROVE Kept
  BY <1>1, ControlKeeps, JoinKeeps, BroadcastKeeps, GoneKeeps, LeaveKeeps,
     SettingsKeep, DeleteKeeps DEF Run
<1> QED  BY <1>1, ArrivalKeeps, LossKeeps DEF Next

LEMMA InitKeeps == Init => IInv
<1> SUFFICES ASSUME Init PROVE IInv
  OBVIOUS
<1>1. rid \in [Sockets -> Rids] /\ \A s \in Sockets : SeatedRole(s) \in Roles
  BY RoomAssumption, RolesAssumption DEF Init, SeatedRole
<1>2. RedisTypeOK
  <2>1. socketInfo \in [Sockets -> SocketInfos \cup {Null}]
    BY <1>1, RoomAssumption DEF Init, SocketInfos
  <2>2. roomOwner \in [Rooms -> Rids \cup {Null}]
    BY RoomAssumption DEF Init
  <2>3. roomMembers \in [Rooms -> SUBSET Sockets] /\ roomReady \in [Rooms -> SUBSET Sockets]
    BY RoomAssumption DEF Init
  <2> QED  BY <2>1, <2>2, <2>3 DEF Init, RedisTypeOK
<1>3. SocketsOK
  <2>1. Listed(Home) \subseteq Sockets
    BY <1>2, RoomAssumption DEF Listed, RedisTypeOK
  <2>2. Roster(Home) \in Lists
    BY <2>1, RoomAssumption DEF Roster, Lists
  <2> QED  BY <1>1, <2>2, RoomAssumption DEF Init, SocketsOK
<1>4. TasksOK
  BY EndedIsWellFormed DEF Init, TasksOK, WellFormed
<1> QED  BY <1>2, <1>3, <1>4 DEF IInv

LEMMA StutterKeeps == IInv /\ UNCHANGED vars => IInv' /\ UNCHANGED redisVars
  BY DEF IInv, vars, sockVars, redisVars, RedisTypeOK, SocketsOK, TasksOK, WellFormed

\* Whatever handlers overlap, the keys stay well typed, and no handler goes on
\* without the socket, room, found connection or info that its step needs.
THEOREM RoomsTyped == Spec => []IInv
<1>1. IInv /\ [Next]_vars => IInv'
  BY StepKeeps, StutterKeeps, CommandsAreTyped DEF Kept, IInv
<1> QED  BY <1>1, InitKeeps, PTL DEF Spec

\* Type correctness of the room handlers (TypeOK), for every set of roles and
\* winnersCounts that clients may send.
THEOREM RoomTypeCorrect == Spec => []TypeOK
<1>1. IInv => TypeOK
  BY DEF IInv, SocketsOK, TasksOK, TypeOK
<1> QED  BY <1>1, RoomsTyped, PTL

\* The room handlers are an environment that Spin allows for, so that what is
\* proved of a spin holds beside any of their interleavings: they issue only
\* RoomCommands and, for a room that is deleted, the DELs of deleteRoom.
THEOREM RoomsKeepSpinEnvironment == Spec => KeepsSpinEnvironment
<1>1. IInv /\ [Next]_vars => [RoomCommand \/ RoomDeletion]_redisVars
  BY StepKeeps, StutterKeeps DEF Kept, Command
<1> QED  BY <1>1, RoomsTyped, PTL DEF Spec, KeepsSpinEnvironment
=============================================================================
