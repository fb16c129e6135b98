-------------------------------- MODULE Spin --------------------------------
(***************************************************************************)
(* RouletteService.handleSpinRequest                                       *)
(* (src/src/modules/roulette/roulette.service.ts).                         *)
(*                                                                         *)
(* Every element of Spins is one call of the handler.  A step of a call is *)
(* one Redis command together with the continuation that runs when its     *)
(* reply arrives: whatever the handler does up to its next await, emits    *)
(* included.  Between two steps of a call anything may happen: steps of    *)
(* other calls (of this process or of another instance behind the same     *)
(* Redis), a command issued by another handler, a key that expires.        *)
(*                                                                         *)
(* pc[t] names the command call t issues next:                             *)
(*                                                                         *)
(*   owner -> idem -> lock -> members -> ready -> config -> info           *)
(*         -> setIdem -> activity -> state -> release -> done              *)
(*                                                                         *)
(* The three reads of the Promise.all go out on one connection in that     *)
(* order.  The commands from members to state are the body of the try; its *)
(* finally is release.                                                     *)
(***************************************************************************)
EXTENDS RedisService

CONSTANTS
  LocksExpire,     \* may the spin lock (10 s) expire?
  RequestsExpire,  \* may idempotency keys (30 s) expire?
  MaxOthers,       \* bound: commands of other handlers in a behaviour
  MaxFaults        \* bound: rejected commands, lost replies and crashes

ASSUME BoundAssumption ==
  /\ LocksExpire \in BOOLEAN /\ RequestsExpire \in BOOLEAN
  /\ MaxOthers \in Nat
  /\ MaxFaults \in Nat

VARIABLES
  pc,         \* where each call is
  req,        \* the room, rid and requestId the call was made with
  seen,       \* the call's local variables: what its reads returned
  answer,     \* the reason of spin:rejected, "error", or "ok"
  announced,  \* what the call broadcast as spin:resolved / spin:result
  others,     \* commands of other handlers so far
  faults,     \* faults so far
  overrun,    \* history: calls that lost the lock before their release
  stayed,     \* history: sockets in the room ever since the call got the lock
  waiting,    \* history: participants not ready ever since then
  latest      \* history: the last spin announced in each room

spinVars == <<pc, req, seen, answer, announced>>
historyVars == <<overrun, stayed, waiting, latest>>
vars == <<redisVars, spinVars, others, faults, historyVars>>

Locations == {"idle", "owner", "idem", "lock", "members", "ready", "config",
              "info", "setIdem", "activity", "state", "release", "done",
              "crashed"}

TryBlock == {"members", "ready", "config", "info", "setIdem", "activity",
             "state"}

Answers == {"none", "NOT_OWNER", "IDEMPOTENT_REPLAY", "ALREADY_SPINNING",
            "NO_MEMBERS", "NOT_ALL_READY", "ROOM_NOT_FOUND", "error", "ok"}

RequestData == [roomId : Rooms, rid : Rids, requestId : Requests]

Views == [members : SUBSET Sockets, ready : SUBSET Sockets,
          config : WinnersCounts \cup {Null},
          todo : SUBSET Sockets,          \* GETs of the batch still to come
          lost : SUBSET Sockets,          \* GETs of the batch that failed
          active : SUBSET Sockets,        \* activeSocketIds
          participants : SUBSET Sockets]  \* participantSocketIds

NoView == [members |-> {}, ready |-> {}, config |-> Null, todo |-> {},
           lost |-> {}, active |-> {}, participants |-> {}]

Announcements == [active : SUBSET Sockets, winners : SUBSET Sockets]

ASSUME NullAnnouncementAssumption == Null \notin Announcements

RoomOf(t) == req[t].roomId

\* Call t is between its acquireSpinLock and its releaseSpinLock.
Critical(t) == pc[t] \in TryBlock \cup {"release"}

InRoom(r, s) ==
  s \in roomMembers[r] /\ socketInfo[s] # Null /\ socketInfo[s].roomId = r

Unready(r, s) ==
  InRoom(r, s) /\ socketInfo[s].role = "participant" /\ s \notin roomReady[r]

TypeOK ==
  /\ RedisTypeOK
  /\ pc \in [Spins -> Locations]
  /\ req \in [Spins -> RequestData]
  /\ seen \in [Spins -> Views]
  /\ answer \in [Spins -> Answers]
  /\ announced \in [Spins -> Announcements \cup {Null}]
  /\ others \in 0..MaxOthers
  /\ faults \in 0..MaxFaults
  /\ overrun \in SUBSET Spins
  /\ stayed \in [Spins -> SUBSET Sockets]
  /\ waiting \in [Spins -> SUBSET Sockets]
  /\ latest \in [Rooms -> Spins \cup {Null}]

(***************************************************************************)
(* Rooms that createRoom, room:join and room:config:set have filled:       *)
(* configured, owned, and every member with its socket info; only          *)
(* participants are ready.                                                 *)
(***************************************************************************)
InitRedis ==
  /\ roomConfig \in [Rooms -> WinnersCounts]
  /\ roomOwner \in [Rooms -> Rids]
  /\ socketInfo \in [Sockets -> SocketInfos \cup {Null}]
  /\ \A s \in Sockets : socketInfo[s] # Null =>
       (socketInfo[s].role = "owner") = (socketInfo[s].rid = roomOwner[socketInfo[s].roomId])
  /\ roomMembers = [r \in Rooms |->
       {s \in Sockets : socketInfo[s] # Null /\ socketInfo[s].roomId = r}]
  /\ roomReady \in [Rooms -> SUBSET Sockets]
  /\ \A r \in Rooms : \A s \in roomReady[r] :
       s \in roomMembers[r] /\ socketInfo[s].role = "participant"
  /\ spinLock = [r \in Rooms |-> Null]
  /\ idem = [k \in Rooms \X Requests |-> Null]
  /\ roomState = [r \in Rooms |-> Null]

Init ==
  /\ InitRedis
  /\ pc = [t \in Spins |-> "idle"]
  /\ req \in [Spins -> RequestData]
  /\ seen = [t \in Spins |-> NoView]
  /\ answer = [t \in Spins |-> "none"]
  /\ announced = [t \in Spins |-> Null]
  /\ others = 0
  /\ faults = 0
  /\ overrun = {}
  /\ stayed = [t \in Spins |-> {}]
  /\ waiting = [t \in Spins |-> {}]
  /\ latest = [r \in Rooms |-> Null]
-----------------------------------------------------------------------------
(***************************************************************************)
(* Control flow of a call.                                                 *)
(***************************************************************************)
Goto(t, l) == pc' = [pc EXCEPT ![t] = l] /\ UNCHANGED answer

\* Emit an answer and go on at l.
AnswerAt(t, a, l) ==
  /\ pc' = [pc EXCEPT ![t] = l]
  /\ answer' = [answer EXCEPT ![t] = a]

\* A return that leaves the client without an answer.
LeaveTrySilently(t, a) ==
  /\ Goto(t, "release")
  /\ seen' = [seen EXCEPT ![t] = NoView]

\* A return that bypasses the finally block.
LeaveTryUnreleased(t, a) ==
  /\ AnswerAt(t, a, "done")
  /\ seen' = [seen EXCEPT ![t] = NoView]

\* A return or a throw out of the try block: the locals go, finally runs.
LeaveTry(t, a) ==
  /\ AnswerAt(t, a, "release")
  /\ seen' = [seen EXCEPT ![t] = NoView]

See(t, v) == seen' = [seen EXCEPT ![t] = v]

NothingAnnounced == UNCHANGED <<announced, latest>>

\* The client's spin:request arrives.
Submit(t) ==
  /\ pc[t] = "idle"
  /\ Goto(t, "owner")
  /\ UNCHANGED <<redisVars, seen>> /\ NothingAnnounced

CheckOwner(t) ==
  /\ pc[t] = "owner"
  /\ IF roomOwner[RoomOf(t)] = req[t].rid
       THEN Goto(t, "idem")
       ELSE AnswerAt(t, "NOT_OWNER", "done")
  /\ UNCHANGED <<redisVars, seen>> /\ NothingAnnounced

\* Recording the request as soon as it passes the check, before it is known
\* whether the spin will happen.
CheckIdempotencyRecording(t) ==
  /\ pc[t] = "idem"
  /\ IF idem[<<RoomOf(t), req[t].requestId>>] = Null
       THEN Goto(t, "lock") /\ SetIdempotency(RoomOf(t), req[t].requestId, t)
       ELSE AnswerAt(t, "IDEMPOTENT_REPLAY", "done") /\ UNCHANGED redisVars
  /\ UNCHANGED seen /\ NothingAnnounced

CheckIdempotency(t) ==
  /\ pc[t] = "idem"
  /\ IF idem[<<RoomOf(t), req[t].requestId>>] = Null
       THEN Goto(t, "lock")
       ELSE AnswerAt(t, "IDEMPOTENT_REPLAY", "done")
  /\ UNCHANGED <<redisVars, seen>> /\ NothingAnnounced

AcquireLock(t) ==
  /\ pc[t] = "lock"
  /\ AcquireSpinLock(RoomOf(t), t)
  /\ IF LockIsFree(RoomOf(t))
       THEN Goto(t, "members")
       ELSE AnswerAt(t, "ALREADY_SPINNING", "done")
  /\ UNCHANGED seen /\ NothingAnnounced

ReadMembers(t) ==
  /\ pc[t] = "members"
  /\ LET m == roomMembers[RoomOf(t)]
     IN  See(t, [seen[t] EXCEPT !.members = m, !.todo = m])
  /\ Goto(t, "ready")
  /\ UNCHANGED redisVars /\ NothingAnnounced

ReadReady(t) ==
  /\ pc[t] = "ready"
  /\ See(t, [seen[t] EXCEPT !.ready = roomReady[RoomOf(t)]])
  /\ Goto(t, "config")
  /\ UNCHANGED redisVars /\ NothingAnnounced

\* A verdict that looks at the winners before the participants.
VerdictWithoutReadyCheck(v) ==
  IF v.active = {} THEN "NO_MEMBERS"
  ELSE IF v.config = Null THEN "ROOM_NOT_FOUND"
  ELSE "ok"

\* A verdict that would spin for nobody.
VerdictWithoutMembersCheck(v) ==
  IF ~(v.participants \subseteq v.ready) THEN "NOT_ALL_READY"
  ELSE IF v.config = Null THEN "ROOM_NOT_FOUND"
  ELSE "ok"

\* What the handler decides from its reads.
Verdict(v) ==
  IF v.active = {} THEN "NO_MEMBERS"
  ELSE IF ~(v.participants \subseteq v.ready) THEN "NOT_ALL_READY"
  ELSE IF v.config = Null THEN "ROOM_NOT_FOUND"
  ELSE "ok"

\* The continuation of the last read.
Decide(t, v) ==
  \/ Verdict(v) = "ok" /\ See(t, v) /\ Goto(t, "setIdem")
  \/ Verdict(v) # "ok" /\ LeaveTry(t, Verdict(v))

\* getSocketInfoBatch of an empty list sends no command.
ReadConfig(t) ==
  /\ pc[t] = "config"
  /\ LET v == [seen[t] EXCEPT !.config = roomConfig[RoomOf(t)]]
     IN  IF v.todo = {} THEN Decide(t, v)
                        ELSE See(t, v) /\ Goto(t, "info")
  /\ UNCHANGED redisVars /\ NothingAnnounced

\* The users are counted, by rid, instead of their sockets.
WithInfoOfRids(v, s, info, r) ==
  LET here == info # Null /\ info.roomId = r
  IN  [v EXCEPT !.todo = @ \ {s}, !.active = IF here THEN @ \cup {info.rid} ELSE @]

\* Only participants are counted as active.
WithInfoOfParticipants(v, s, info, r) ==
  LET here == info # Null /\ info.roomId = r /\ info.role = "participant"
  IN  [v EXCEPT !.todo = @ \ {s},
                !.active = IF here THEN @ \cup {s} ELSE @,
                !.participants = IF here THEN @ \cup {s} ELSE @]

\* The filter loop applied to one reply: info of s, or Null.
WithInfo(v, s, info, r) ==
  LET here == info # Null /\ info.roomId = r
  IN  [v EXCEPT !.todo = @ \ {s},
                !.active = IF here THEN @ \cup {s} ELSE @,
                !.participants = IF here /\ info.role = "participant"
                                   THEN @ \cup {s} ELSE @]

AfterInfo(t, v) ==
  IF v.todo = {} THEN Decide(t, v)
                 ELSE See(t, v) /\ UNCHANGED <<pc, answer>>

\* One GET of the batch.
ReadInfo(t) ==
  /\ pc[t] = "info"
  /\ \E s \in seen[t].todo :
       AfterInfo(t, WithInfo(seen[t], s, socketInfo[s], RoomOf(t)))
  /\ UNCHANGED redisVars /\ NothingAnnounced

\* A GET of the batch that failed counts as an absent key: its entry is Null.
LoseInfo(t) ==
  /\ pc[t] = "info"
  /\ \E s \in seen[t].todo :
       AfterInfo(t, WithInfo([seen[t] EXCEPT !.lost = @ \cup {s}], s, Null,
                             RoomOf(t)))
  /\ UNCHANGED redisVars /\ NothingAnnounced

\* selectRandom(activeSocketIds, k): any k of them, where k is Math.min of the
\* winnersCount and their number.  A winnersCount that is no number (0, see
\* WinnersCounts) makes k NaN, and slice(0, NaN) is empty.
Draws(v) ==
  LET k == IF v.config < Cardinality(v.active) THEN v.config
                                               ELSE Cardinality(v.active)
  IN  {W \in SUBSET v.active : Cardinality(W) = k}

\* Record the request, then broadcast spin:resolved, the outcomes and
\* spin:result without awaiting anything in between.
RecordAndAnnounce(t) ==
  /\ pc[t] = "setIdem"
  /\ SetIdempotency(RoomOf(t), req[t].requestId, t)
  /\ \E W \in Draws(seen[t]) :
       announced' = [announced EXCEPT ![t] = [active |-> seen[t].active, winners |-> W]]
  /\ latest' = [latest EXCEPT ![RoomOf(t)] = t]
  /\ See(t, NoView)
  /\ Goto(t, "activity")

\* setRoomLastActivity: the time stamp itself is not modelled.
TouchActivity(t) ==
  /\ pc[t] = "activity"
  /\ Goto(t, "state")
  /\ UNCHANGED <<redisVars, seen>> /\ NothingAnnounced

SaveState(t) ==
  /\ pc[t] = "state"
  /\ SetRoomState(RoomOf(t), t)
  /\ AnswerAt(t, "ok", "release")
  /\ UNCHANGED seen /\ NothingAnnounced

ReleaseLock(t) ==
  /\ pc[t] = "release"
  /\ ReleaseSpinLock(RoomOf(t), t)
  /\ Goto(t, "done")
  /\ UNCHANGED seen /\ NothingAnnounced

Step(t) ==
  \/ Submit(t) \/ CheckOwner(t) \/ CheckIdempotency(t) \/ AcquireLock(t)
  \/ ReadMembers(t) \/ ReadReady(t) \/ ReadConfig(t) \/ ReadInfo(t)
  \/ RecordAndAnnounce(t) \/ TouchActivity(t) \/ SaveState(t) \/ ReleaseLock(t)
-----------------------------------------------------------------------------
(***************************************************************************)
(* Faults of a call.                                                       *)
(***************************************************************************)
\* How the handler takes the rejection of the command it awaits: outside the
\* try it throws, inside it the finally runs; a failed read of the ready set
\* is caught and counts as the empty set, which seen already holds.
Rejected(t) ==
  CASE pc[t] \in {"owner", "idem", "lock", "release"} ->
         AnswerAt(t, "error", "done") /\ UNCHANGED seen
    [] pc[t] = "ready" -> Goto(t, "config") /\ UNCHANGED seen
    [] pc[t] \in TryBlock \ {"ready", "info"} -> LeaveTry(t, "error")

\* The command is rejected and was not executed.
CommandFails(t) ==
  /\ pc[t] \in Locations \ {"idle", "info", "done", "crashed"}
  /\ Rejected(t)
  /\ UNCHANGED redisVars /\ NothingAnnounced

\* A write is executed, but its reply is lost and the command rejected.
ReplyLost(t) ==
  /\ \/ pc[t] = "lock" /\ AcquireSpinLock(RoomOf(t), t)
     \/ pc[t] = "setIdem" /\ SetIdempotency(RoomOf(t), req[t].requestId, t)
     \/ pc[t] = "state" /\ SetRoomState(RoomOf(t), t)
     \/ pc[t] = "release" /\ ReleaseSpinLock(RoomOf(t), t)
  /\ Rejected(t)
  /\ NothingAnnounced

\* The process that runs the call dies.
Crash(t) ==
  /\ pc[t] \notin {"idle", "done", "crashed"}
  /\ Goto(t, "crashed")
  /\ See(t, NoView)
  /\ UNCHANGED redisVars /\ NothingAnnounced

Fault(t) == CommandFails(t) \/ ReplyLost(t) \/ LoseInfo(t) \/ Crash(t)
-----------------------------------------------------------------------------
(***************************************************************************)
(* The rest of the system, one Redis command at a time: what join, leave,  *)
(* disconnect, ready:toggle, config:set and room:delete can do to the keys *)
(* a spin reads, in any order.                                             *)
(***************************************************************************)
Other == RoomCommand /\ UNCHANGED overrun

\* A DEL of somebody's deleteRoom; it also takes the lock from its holder.
OtherDeletes ==
  \E r \in Rooms, k \in DeletedKeys :
    /\ DeleteRoomKey(r, k)
    /\ overrun' = IF k = "lock" THEN overrun \cup ({spinLock[r]} \ {Null})
                                ELSE overrun

LockExpires(r) ==
  /\ LocksExpire
  /\ SpinLockExpires(r)
  /\ overrun' = overrun \cup {spinLock[r]}

RequestForgotten ==
  /\ RequestsExpire
  /\ \E r \in Rooms, q \in Requests : IdempotencyExpires(r, q)
  /\ UNCHANGED overrun

Expire == (\E r \in Rooms : LockExpires(r)) \/ RequestForgotten
-----------------------------------------------------------------------------
(***************************************************************************)
(* The histories stayed and waiting follow every call that has the lock.   *)
(***************************************************************************)
Observe ==
  /\ stayed' = [t \in Spins |->
       IF Critical(t)'
         THEN {s \in Sockets : InRoom(RoomOf(t), s)' /\ (Critical(t) => s \in stayed[t])}
         ELSE {}]
  /\ waiting' = [t \in Spins |->
       IF Critical(t)'
         THEN {s \in Sockets : Unready(RoomOf(t), s)' /\ (Critical(t) => s \in waiting[t])}
         ELSE {}]

Run(t) == Step(t) /\ UNCHANGED <<req, others, faults, overrun>> /\ Observe

Next ==
  \/ \E t \in Spins : Run(t)
  \/ /\ \E t \in Spins : Fault(t)
     /\ faults < MaxFaults /\ faults' = faults + 1
     /\ UNCHANGED <<req, others, overrun>> /\ Observe
  \/ /\ Other \/ OtherDeletes
     /\ others < MaxOthers /\ others' = others + 1
     /\ UNCHANGED <<spinVars, faults, latest>> /\ Observe
  \/ /\ Expire
     /\ UNCHANGED <<spinVars, others, faults, latest>> /\ Observe

Spec == Init /\ [][Next]_vars

\* Redis answers or rejects every command, and Node runs the continuation.
\* Nothing makes a fault or another command happen, or a key expire in time.
Fairness == \A t \in Spins : WF_vars(pc[t] # "idle" /\ Run(t))

FairSpec == Spec /\ Fairness
-----------------------------------------------------------------------------
(***************************************************************************)
(* Properties.                                                             *)
(***************************************************************************)
\* A call inside its critical section whose lock was not taken away by its
\* TTL or by deleteRoom holds the lock of its room: no other call's release
\* or acquisition can cost it the lock (compare-and-delete, SET NX).
LockHeld ==
  \A t \in Spins : Critical(t) /\ t \notin overrun => spinLock[RoomOf(t)] = t

\* Two calls are inside the critical section of one room only if one of them
\* has overrun its lock.
MutualExclusion ==
  \A t, u \in Spins :
    /\ t # u /\ RoomOf(t) = RoomOf(u)
    /\ Critical(t) /\ Critical(u)
    => t \in overrun \/ u \in overrun

\* What the call is, seen from outside: its turn is its critical section.
Stage(l) ==
  CASE l \in {"idle", "owner", "idem", "lock"} -> "asked"
    [] l \in TryBlock \cup {"release"} -> "running"
    [] l \in {"done", "crashed"} -> "over"

Contract == INSTANCE SpinContract WITH
  Calls   <- Spins,
  None    <- Null,
  room    <- [t \in Spins |-> RoomOf(t)],
  stage   <- [t \in Spins |-> Stage(pc[t])],
  lapsed  <- overrun,
  outcome <- announced,
  Counts  <- WinnersCounts

\* The handler implements the contract: the spins of a room take turns unless a
\* lock was overrun, and each announces at most once, never for nobody, and as
\* many winners as a winnersCount wants and there are sockets to draw from,
\* however its reads were torn and whatever failed.
ImplementsContract == Contract!Spec

Announces(t) == announced[t] = Null /\ announced'[t] # Null

\* A participant who is in the room and not ready from the moment the lock is
\* taken up to the announcement stops the spin, whatever else changes between
\* the handler's reads, unless the GET of its socket info failed.
NoSpinPastWaitingParticipant ==
  [][\A t \in Spins : Announces(t) => waiting[t] \subseteq seen[t].lost]_vars

\* Why both hold.  While a call holds the lock, the sockets it still has to
\* look up, has counted or has lost include every socket that stayed, and the
\* same of the participants; no one who waited is in the ready set it read.
ReadsCover(t) ==
  /\ stayed[t] \subseteq {s \in Sockets : InRoom(RoomOf(t), s)}
  /\ waiting[t] \subseteq {s \in Sockets : Unready(RoomOf(t), s)}
  /\ pc[t] \in {"idle", "owner", "idem", "lock", "members"} => seen[t] = NoView
  /\ waiting[t] \cap seen[t].ready = {}
  /\ pc[t] \in {"ready", "config", "info", "setIdem"} =>
       /\ stayed[t] \subseteq seen[t].todo \cup seen[t].active \cup seen[t].lost
       /\ waiting[t] \subseteq seen[t].todo \cup seen[t].participants \cup seen[t].lost
  /\ pc[t] = "setIdem" =>
       seen[t].todo = {} /\ seen[t].participants \subseteq seen[t].ready

ReadsCoverRoom == \A t \in Spins : ReadsCover(t)

\* A socket that is in the room from the moment the lock is taken up to the
\* announcement is dealt an outcome, unless the GET of its info failed.
NoMemberLeftOut ==
  [][\A t \in Spins :
       Announces(t) => stayed[t] \subseteq announced'[t].active \cup seen[t].lost]_vars

SameRequest(t, u) ==
  RoomOf(t) = RoomOf(u) /\ req[t].requestId = req[u].requestId

\* A request that was announced is never let through to the lock again by a
\* retry that checks afterwards, as long as the key has not expired.
RetryIsRecognised ==
  [][~RequestsExpire => \A t, u \in Spins :
       announced[u] # Null /\ SameRequest(t, u) /\ pc[t] = "idem"
       => pc'[t] # "lock"]_vars

\* A retry is told IDEMPOTENT_REPLAY only if the request has been announced,
\* when no command failed and no process died.
ReplayIsOfAnnounced ==
  faults = 0 => \A t \in Spins : answer[t] = "IDEMPOTENT_REPLAY" =>
    \E u \in Spins : SameRequest(t, u) /\ announced[u] # Null

\* When no call is in the critical section of a room, none overran its lock
\* and none failed, room:state names the spin announced last in the room, or is
\* gone because a deleteRoom came by: a client that joins now is never shown
\* the lastSpin of a spin older than the one the others saw last.
LatestSpinShown ==
  \A r \in Rooms :
    /\ faults = 0
    /\ \A t \in Spins : RoomOf(t) = r => ~Critical(t) /\ t \notin overrun
    => \/ roomState[r] = latest[r]
       \/ roomState[r] = Null /\ others > 0

\* The lock of room r names a call that is not in the critical section of r.
Stranded(r) ==
  spinLock[r] # Null /\ ~(Critical(spinLock[r]) /\ RoomOf(spinLock[r]) = r)

\* A room is left locked with no call running, until PX unlocks it, only by a
\* call whose process dies, or whose command on the lock itself fails.  Every
\* other way out of handleSpinRequest, be it one of its returns or a rejected
\* command, goes through the finally and gives the lock back.
LocksAreReleased ==
  [][\A r \in Rooms : Stranded(r)' /\ ~Stranded(r) =>
       LET t == spinLock'[r]
       IN  /\ faults' > faults
           /\ pc'[t] = "crashed" \/ pc[t] \in {"lock", "release"}]_vars

\* Every request is answered, unless its process dies.
EveryRequestAnswered ==
  \A t \in Spins : pc[t] = "owner" ~> pc[t] = "crashed" \/ answer[t] # "none"

(***************************************************************************)
(* What the documentation says, and the code does not keep.                *)
(***************************************************************************)
\* A request is spun at most once (README.md:39, README.md:79).
NoRequestSpunTwice ==
  \A t, u \in Spins :
    t # u /\ SameRequest(t, u) => announced[t] = Null \/ announced[u] = Null
=============================================================================
