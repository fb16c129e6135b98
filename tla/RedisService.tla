---------------------------- MODULE RedisService ----------------------------
(***************************************************************************)
(* The Redis keys the room and spin handlers share, and the RedisService   *)
(* methods that touch them (src/src/common/redis/redis.service.ts).        *)
(*                                                                         *)
(* There is one variable per key family, and one operator per method that  *)
(* writes.  A write is an action that is complete for these variables: it  *)
(* says what happens to its own key and frames the other families, so a    *)
(* handler's step is one of them plus the handler's own control state.     *)
(* A read is just the variable.  An absent key is Null; SADD/SREM of a set *)
(* key is a set, and an absent set key is the empty set.                   *)
(***************************************************************************)
EXTENDS Naturals, FiniteSets

CONSTANTS
  Rooms,          \* room ids
  Sockets,        \* socket.io connection ids
  Rids,           \* the rid a socket carries in socket.data
  Roles,          \* what clients join as: "owner", "participant", and anything
                  \* else, since the gateway does not validate its DTOs
  Requests,       \* client-chosen requestId values
  Spins,          \* one element per handleSpinRequest call; also its spinId
  WinnersCounts,  \* the winnersCount values a room may be configured with; 0
                  \* stands for those that selectRandom takes for none
  Null            \* an absent key

ASSUME NullAssumption ==
  /\ Null \notin Rids \cup Spins \cup WinnersCounts
  /\ WinnersCounts \subseteq Nat

ASSUME SocketsAssumption == IsFiniteSet(Sockets)

ASSUME RolesAssumption == {"owner", "participant"} \subseteq Roles

SocketInfos == [roomId : Rooms, rid : Rids, role : Roles]

ASSUME NullInfoAssumption == Null \notin SocketInfos

VARIABLES
  roomConfig,   \* room:config:{room}, the winnersCount of it
  roomOwner,    \* room:owner:{room}
  roomMembers,  \* room:members:{room}
  roomReady,    \* room:ready:{room}
  socketInfo,   \* room:socket:{socket}
  spinLock,     \* lock:spin:{room}, the spinId that took it
  idem,         \* idem:spin:{room}:{request}, the spinId that was recorded
  roomState     \* room:state:{room}, lastSpin.spinId of it

redisVars == <<roomConfig, roomOwner, roomMembers, roomReady, socketInfo,
               spinLock, idem, roomState>>

RedisTypeOK ==
  /\ roomConfig \in [Rooms -> WinnersCounts \cup {Null}]
  /\ roomOwner \in [Rooms -> Rids \cup {Null}]
  /\ roomMembers \in [Rooms -> SUBSET Sockets]
  /\ roomReady \in [Rooms -> SUBSET Sockets]
  /\ socketInfo \in [Sockets -> SocketInfos \cup {Null}]
  /\ spinLock \in [Rooms -> Spins \cup {Null}]
  /\ idem \in [Rooms \X Requests -> Spins \cup {Null}]
  /\ roomState \in [Rooms -> Spins \cup {Null}]

(***************************************************************************)
(* Room registry.                                                          *)
(***************************************************************************)
SetRoomConfig(r, c) ==
  /\ roomConfig' = [roomConfig EXCEPT ![r] = c]
  /\ UNCHANGED <<roomOwner, roomMembers, roomReady, socketInfo, spinLock,
                 idem, roomState>>

\* SET ... NX: an owner that is already recorded stays.
SetRoomOwner(r, rid) ==
  /\ roomOwner' = [roomOwner EXCEPT ![r] = IF @ = Null THEN rid ELSE @]
  /\ UNCHANGED <<roomConfig, roomMembers, roomReady, socketInfo, spinLock,
                 idem, roomState>>

ClearRoomOwner(r) ==
  /\ roomOwner' = [roomOwner EXCEPT ![r] = Null]
  /\ UNCHANGED <<roomConfig, roomMembers, roomReady, socketInfo, spinLock,
                 idem, roomState>>

AddRoomMember(r, s) ==
  /\ roomMembers' = [roomMembers EXCEPT ![r] = @ \cup {s}]
  /\ UNCHANGED <<roomConfig, roomOwner, roomReady, socketInfo, spinLock,
                 idem, roomState>>

RemoveRoomMember(r, s) ==
  /\ roomMembers' = [roomMembers EXCEPT ![r] = @ \ {s}]
  /\ UNCHANGED <<roomConfig, roomOwner, roomReady, socketInfo, spinLock,
                 idem, roomState>>

SetParticipantReady(r, s) ==
  /\ roomReady' = [roomReady EXCEPT ![r] = @ \cup {s}]
  /\ UNCHANGED <<roomConfig, roomOwner, roomMembers, socketInfo, spinLock,
                 idem, roomState>>

RemoveParticipantReady(r, s) ==
  /\ roomReady' = [roomReady EXCEPT ![r] = @ \ {s}]
  /\ UNCHANGED <<roomConfig, roomOwner, roomMembers, socketInfo, spinLock,
                 idem, roomState>>

SetSocketInfo(s, info) ==
  /\ socketInfo' = [socketInfo EXCEPT ![s] = info]
  /\ UNCHANGED <<roomConfig, roomOwner, roomMembers, roomReady, spinLock,
                 idem, roomState>>

RemoveSocketInfo(s) ==
  /\ socketInfo' = [socketInfo EXCEPT ![s] = Null]
  /\ UNCHANGED <<roomConfig, roomOwner, roomMembers, roomReady, spinLock,
                 idem, roomState>>

(***************************************************************************)
(* One DEL of the deleteRoom pipeline.  The pipeline is not a transaction, *)
(* so commands of another connection may come between two of its DELs.     *)
(* idem:spin:* and room:socket:* are not among the keys it deletes.        *)
(***************************************************************************)
DeletedKeys == {"config", "owner", "members", "ready", "state", "lock"}

DeleteRoomKey(r, k) ==
  /\ roomConfig' = IF k = "config" THEN [roomConfig EXCEPT ![r] = Null] ELSE roomConfig
  /\ roomOwner' = IF k = "owner" THEN [roomOwner EXCEPT ![r] = Null] ELSE roomOwner
  /\ roomMembers' = IF k = "members" THEN [roomMembers EXCEPT ![r] = {}] ELSE roomMembers
  /\ roomReady' = IF k = "ready" THEN [roomReady EXCEPT ![r] = {}] ELSE roomReady
  /\ roomState' = IF k = "state" THEN [roomState EXCEPT ![r] = Null] ELSE roomState
  /\ spinLock' = IF k = "lock" THEN [spinLock EXCEPT ![r] = Null] ELSE spinLock
  /\ UNCHANGED <<socketInfo, idem>>

\* What the room handlers may do to the keys, one command at a time.
RoomCommand ==
  \/ \E r \in Rooms, s \in Sockets :
       \/ AddRoomMember(r, s) \/ RemoveRoomMember(r, s)
       \/ SetParticipantReady(r, s) \/ RemoveParticipantReady(r, s)
  \/ \E s \in Sockets :
       \/ RemoveSocketInfo(s)
       \/ \E info \in SocketInfos : SetSocketInfo(s, info)
  \/ \E r \in Rooms :
       \/ \E c \in WinnersCounts : SetRoomConfig(r, c)
       \/ \E u \in Rids : SetRoomOwner(r, u)
       \/ ClearRoomOwner(r)

RoomDeletion == \E r \in Rooms, k \in DeletedKeys : DeleteRoomKey(r, k)

(***************************************************************************)
(* Spin lock, idempotency keys and room state.                             *)
(***************************************************************************)
SetLock(r, v) ==
  /\ spinLock' = [spinLock EXCEPT ![r] = v]
  /\ UNCHANGED <<roomConfig, roomOwner, roomMembers, roomReady, socketInfo,
                 idem, roomState>>

\* SET ... NX sent with the NX condition ignored: every SET takes the lock.
LockIsFreeIgnoringNX(r) == TRUE

\* The NX condition of acquireSpinLock, which is also its result.
LockIsFree(r) == spinLock[r] = Null

AcquireSpinLock(r, t) ==
  IF LockIsFree(r) THEN SetLock(r, t) ELSE UNCHANGED redisVars

\* A release that is a plain DEL.
ReleaseWithoutOwnerCheck(r, t) == SetLock(r, Null)

\* The Lua script: DEL only when the stored value is the caller's spinId.
ReleaseSpinLock(r, t) ==
  IF spinLock[r] = t THEN SetLock(r, Null) ELSE UNCHANGED redisVars

\* PX 10000: Redis drops the lock, whoever holds it.
SpinLockExpires(r) == spinLock[r] # Null /\ SetLock(r, Null)

\* Recording the key only when it is absent would keep the spinId of the
\* first spin; recording nothing loses it.
SetIdempotencyNothing(r, q, t) == UNCHANGED redisVars

SetIdempotency(r, q, t) ==
  /\ idem' = [idem EXCEPT ![<<r, q>>] = t]
  /\ UNCHANGED <<roomConfig, roomOwner, roomMembers, roomReady, socketInfo,
                 spinLock, roomState>>

\* EX 30: Redis forgets the request.
IdempotencyExpires(r, q) ==
  /\ idem[<<r, q>>] # Null
  /\ idem' = [idem EXCEPT ![<<r, q>>] = Null]
  /\ UNCHANGED <<roomConfig, roomOwner, roomMembers, roomReady, socketInfo,
                 spinLock, roomState>>

SetRoomState(r, t) ==
  /\ roomState' = [roomState EXCEPT ![r] = t]
  /\ UNCHANGED <<roomConfig, roomOwner, roomMembers, roomReady, socketInfo,
                 spinLock, idem>>
=============================================================================
