----------------------------- MODULE SpinProofs -----------------------------
(***************************************************************************)
(* Proofs about Spin, for every set of calls, rooms, sockets, requests and *)
(* every bound on faults and on commands of other handlers: the lock, the  *)
(* reads, which retries are recognised, which spin room:state shows, and   *)
(* that Spin implements SpinContract.                                      *)
(***************************************************************************)
EXTENDS Spin, TLAPS, FiniteSetTheorems

(***************************************************************************)
(* Type correctness.                                                       *)
(***************************************************************************)
\* Every write of RedisService keeps the keys well typed.
LEMMA SetWritesAreTyped ==
  ASSUME RedisTypeOK, NEW r \in Rooms, NEW s \in Sockets,
         \/ AddRoomMember(r, s) \/ RemoveRoomMember(r, s)
         \/ SetParticipantReady(r, s) \/ RemoveParticipantReady(r, s)
  PROVE  RedisTypeOK'
  BY DEF AddRoomMember, RemoveRoomMember, SetParticipantReady,
         RemoveParticipantReady, RedisTypeOK

LEMMA InfoWritesAreTyped ==
  ASSUME RedisTypeOK, NEW s \in Sockets,
         RemoveSocketInfo(s) \/ \E info \in SocketInfos : SetSocketInfo(s, info)
  PROVE  RedisTypeOK'
  BY DEF SetSocketInfo, RemoveSocketInfo, RedisTypeOK

LEMMA RoomWritesAreTyped ==
  ASSUME RedisTypeOK, NEW r \in Rooms,
         \/ \E c \in WinnersCounts : SetRoomConfig(r, c)
         \/ \E u \in Rids : SetRoomOwner(r, u)
         \/ ClearRoomOwner(r)
         \/ \E k \in DeletedKeys : DeleteRoomKey(r, k)
  PROVE  RedisTypeOK'
<1>1. CASE \E k \in DeletedKeys : DeleteRoomKey(r, k)
  BY <1>1 DEF DeleteRoomKey, RedisTypeOK
<1> QED  BY <1>1 DEF SetRoomConfig, SetRoomOwner, ClearRoomOwner, RedisTypeOK

LEMMA LockWritesAreTyped ==
  ASSUME RedisTypeOK, NEW r \in Rooms,
         \/ \E t \in Spins : AcquireSpinLock(r, t) \/ ReleaseSpinLock(r, t)
         \/ SpinLockExpires(r)
  PROVE  RedisTypeOK'
  BY DEF AcquireSpinLock, ReleaseSpinLock, SpinLockExpires, SetLock,
         LockIsFree, redisVars, RedisTypeOK

LEMMA RecordWritesAreTyped ==
  ASSUME RedisTypeOK, NEW r \in Rooms,
         \/ \E q \in Requests, t \in Spins : SetIdempotency(r, q, t)
         \/ \E q \in Requests : IdempotencyExpires(r, q)
         \/ \E t \in Spins : SetRoomState(r, t)
  PROVE  RedisTypeOK'
  BY DEF SetIdempotency, IdempotencyExpires, SetRoomState, RedisTypeOK

\* The handler's control state and locals, which the steps of a call write.
CallTypeOK ==
  /\ pc \in [Spins -> Locations]
  /\ seen \in [Spins -> Views]
  /\ answer \in [Spins -> Answers]
  /\ announced \in [Spins -> Announcements \cup {Null}]
  /\ latest \in [Rooms -> Spins \cup {Null}]

LEMMA NoViewIsTyped == NoView \in Views
  BY DEF NoView, Views

LEMMA MembersAreTyped ==
  ASSUME NEW v \in Views, NEW M \in SUBSET Sockets
  PROVE  [v EXCEPT !.members = M, !.todo = M] \in Views
  BY DEF Views

LEMMA InfoIsTyped ==
  ASSUME NEW v \in Views, NEW s \in Sockets, NEW info, NEW r
  PROVE  /\ WithInfo(v, s, info, r) \in Views
         /\ [v EXCEPT !.lost = @ \cup {s}] \in Views
  BY DEF WithInfo, Views

LEMMA DecideIsTyped ==
  ASSUME CallTypeOK, NEW t \in Spins, NEW v \in Views, Decide(t, v),
         NothingAnnounced
  PROVE  CallTypeOK'
<1>1. Verdict(v) \in Answers
  BY DEF Verdict, Answers
<1> QED
  BY <1>1, NoViewIsTyped
     DEF CallTypeOK, Decide, See, Goto, LeaveTry, AnswerAt, NothingAnnounced,
         Locations

LEMMA AfterInfoIsTyped ==
  ASSUME CallTypeOK, NEW t \in Spins, NEW v \in Views, AfterInfo(t, v),
         NothingAnnounced
  PROVE  CallTypeOK'
  BY DecideIsTyped DEF AfterInfo, CallTypeOK, See, NothingAnnounced

LEMMA StepIsTyped ==
  ASSUME TypeOK, NEW t \in Spins, Step(t)
  PROVE  RedisTypeOK' /\ CallTypeOK'
<1>1. /\ RedisTypeOK /\ CallTypeOK
      /\ RoomOf(t) \in Rooms /\ req[t].requestId \in Requests
  BY DEF TypeOK, CallTypeOK, RoomOf, RequestData
<1>2. UNCHANGED redisVars => RedisTypeOK'
  BY <1>1 DEF redisVars, RedisTypeOK
<1>3. CASE Submit(t)
  BY <1>1, <1>2, <1>3
     DEF Submit, Goto, NothingAnnounced, CallTypeOK, Locations
<1>4. CASE CheckOwner(t)
  BY <1>1, <1>2, <1>4
     DEF CheckOwner, Goto, AnswerAt, NothingAnnounced, CallTypeOK, Locations,
         Answers
<1>5. CASE CheckIdempotency(t)
  BY <1>1, <1>2, <1>5
     DEF CheckIdempotency, Goto, AnswerAt, NothingAnnounced, CallTypeOK,
         Locations, Answers
<1>6. CASE AcquireLock(t)
  <2>1. RedisTypeOK'
    BY <1>1, <1>6, LockWritesAreTyped DEF AcquireLock
  <2>2. CallTypeOK'
    BY <1>1, <1>6
       DEF AcquireLock, Goto, AnswerAt, NothingAnnounced, CallTypeOK,
           Locations, Answers
  <2> QED  BY <2>1, <2>2
<1>7. CASE ReadMembers(t)
  <2> DEFINE v == [seen[t] EXCEPT !.members = roomMembers[RoomOf(t)],
                                  !.todo = roomMembers[RoomOf(t)]]
  <2>1. v \in Views
    <3>1. seen[t] \in Views /\ roomMembers[RoomOf(t)] \in SUBSET Sockets
      BY <1>1 DEF CallTypeOK, RedisTypeOK
    <3> QED  BY <3>1, MembersAreTyped
  <2>2. See(t, v) /\ Goto(t, "ready") /\ NothingAnnounced
    BY <1>7 DEF ReadMembers
  <2> HIDE DEF v
  <2>3. CallTypeOK'
    BY <1>1, <2>1, <2>2 DEF See, Goto, NothingAnnounced, CallTypeOK, Locations
  <2> QED  BY <1>2, <1>7, <2>3 DEF ReadMembers
<1>8. CASE ReadReady(t)
  <2>1. [seen[t] EXCEPT !.ready = roomReady[RoomOf(t)]] \in Views
    BY <1>1 DEF CallTypeOK, RedisTypeOK, Views
  <2> QED
    BY <1>1, <1>2, <1>8, <2>1
       DEF ReadReady, See, Goto, NothingAnnounced, CallTypeOK, Locations
<1>9. CASE ReadConfig(t)
  <2> DEFINE v == [seen[t] EXCEPT !.config = roomConfig[RoomOf(t)]]
  <2>1. v \in Views
    BY <1>1 DEF CallTypeOK, RedisTypeOK, Views
  <2>2. CASE v.todo = {}
    <3>1. Decide(t, v) /\ NothingAnnounced
      BY <1>9, <2>2 DEF ReadConfig
    <3> QED  BY <1>1, <1>2, <1>9, <2>1, <3>1, DecideIsTyped DEF ReadConfig
  <2>3. CASE v.todo # {}
    <3>1. See(t, v) /\ Goto(t, "info") /\ NothingAnnounced
      BY <1>9, <2>3 DEF ReadConfig
    <3> HIDE DEF v
    <3>2. CallTypeOK'
      BY <1>1, <2>1, <3>1
         DEF See, Goto, NothingAnnounced, CallTypeOK, Locations
    <3> QED  BY <1>2, <1>9, <3>2 DEF ReadConfig
  <2> QED  BY <2>2, <2>3
<1>10. CASE ReadInfo(t)
  <2>1. PICK s \in seen[t].todo :
          AfterInfo(t, WithInfo(seen[t], s, socketInfo[s], RoomOf(t)))
    BY <1>10 DEF ReadInfo
  <2>2. seen[t] \in Views /\ s \in Sockets
    BY <1>1, <2>1 DEF CallTypeOK, Views
  <2>3. WithInfo(seen[t], s, socketInfo[s], RoomOf(t)) \in Views
    BY <2>2, InfoIsTyped
  <2> QED  BY <1>1, <1>2, <1>10, <2>1, <2>3, AfterInfoIsTyped DEF ReadInfo
<1>11. CASE RecordAndAnnounce(t)
  <2>1. RedisTypeOK'
    BY <1>1, <1>11, RecordWritesAreTyped DEF RecordAndAnnounce
  <2>2. PICK W \in Draws(seen[t]) :
          announced' = [announced EXCEPT ![t] = [active |-> seen[t].active, winners |-> W]]
    BY <1>11 DEF RecordAndAnnounce
  <2>3. [active |-> seen[t].active, winners |-> W] \in Announcements
    BY <1>1 DEF CallTypeOK, Views, Draws, Announcements
  <2>4. CallTypeOK'
    BY <1>1, <1>11, <2>2, <2>3, NoViewIsTyped
       DEF RecordAndAnnounce, See, Goto, CallTypeOK, Locations
  <2> QED  BY <2>1, <2>4
<1>12. CASE TouchActivity(t)
  BY <1>1, <1>2, <1>12
     DEF TouchActivity, Goto, NothingAnnounced, CallTypeOK, Locations
<1>13. CASE SaveState(t)
  <2>1. RedisTypeOK'
    BY <1>1, <1>13, RecordWritesAreTyped DEF SaveState
  <2>2. CallTypeOK'
    BY <1>1, <1>13
       DEF SaveState, AnswerAt, NothingAnnounced, CallTypeOK, Locations, Answers
  <2> QED  BY <2>1, <2>2
<1>14. CASE ReleaseLock(t)
  <2>1. RedisTypeOK'
    BY <1>1, <1>14, LockWritesAreTyped DEF ReleaseLock
  <2>2. CallTypeOK'
    BY <1>1, <1>14
       DEF ReleaseLock, Goto, NothingAnnounced, CallTypeOK, Locations
  <2> QED  BY <2>1, <2>2
<1> QED
  BY <1>3, <1>4, <1>5, <1>6, <1>7, <1>8, <1>9, <1>10, <1>11, <1>12, <1>13,
     <1>14 DEF Step

LEMMA FaultIsTyped ==
  ASSUME TypeOK, NEW t \in Spins, Fault(t)
  PROVE  RedisTypeOK' /\ CallTypeOK'
<1>1. /\ RedisTypeOK /\ CallTypeOK
      /\ RoomOf(t) \in Rooms /\ req[t].requestId \in Requests
  BY DEF TypeOK, CallTypeOK, RoomOf, RequestData
<1>2. UNCHANGED redisVars => RedisTypeOK'
  BY <1>1 DEF redisVars, RedisTypeOK
<1>3. ASSUME Rejected(t), NothingAnnounced,
             pc[t] \in Locations \ {"idle", "info", "done", "crashed"}
      PROVE  CallTypeOK'
  BY <1>1, <1>3, NoViewIsTyped
     DEF Rejected, LeaveTry, AnswerAt, Goto, NothingAnnounced, CallTypeOK,
         Locations, Answers, TryBlock
<1>4. CASE CommandFails(t)
  BY <1>2, <1>3, <1>4 DEF CommandFails
<1>5. CASE ReplyLost(t)
  <2>1. RedisTypeOK'
    BY <1>1, <1>5, LockWritesAreTyped, RecordWritesAreTyped DEF ReplyLost
  <2>2. pc[t] \in {"lock", "setIdem", "state", "release"}
    BY <1>5 DEF ReplyLost
  <2> QED  BY <1>3, <1>5, <2>1, <2>2 DEF ReplyLost, Locations
<1>6. CASE LoseInfo(t)
  <2>1. PICK s \in seen[t].todo :
          AfterInfo(t, WithInfo([seen[t] EXCEPT !.lost = @ \cup {s}], s, Null,
                                RoomOf(t)))
    BY <1>6 DEF LoseInfo
  <2>2. seen[t] \in Views /\ s \in Sockets
    BY <1>1, <2>1 DEF CallTypeOK, Views
  <2>3. [seen[t] EXCEPT !.lost = @ \cup {s}] \in Views
    BY <2>2, InfoIsTyped
  <2>4. WithInfo([seen[t] EXCEPT !.lost = @ \cup {s}], s, Null, RoomOf(t)) \in Views
    BY <2>2, <2>3, InfoIsTyped
  <2> QED  BY <1>1, <1>2, <1>6, <2>1, <2>4, AfterInfoIsTyped DEF LoseInfo
<1>7. CASE Crash(t)
  BY <1>1, <1>2, <1>7, NoViewIsTyped
     DEF Crash, Goto, See, NothingAnnounced, CallTypeOK, Locations
<1> QED  BY <1>4, <1>5, <1>6, <1>7 DEF Fault

LEMMA EnvironmentIsTyped ==
  ASSUME TypeOK, Other \/ OtherDeletes \/ Expire
  PROVE  RedisTypeOK' /\ overrun' \in SUBSET Spins
<1>1. RedisTypeOK /\ overrun \in SUBSET Spins /\ spinLock \in [Rooms -> Spins \cup {Null}]
  BY DEF TypeOK, RedisTypeOK
<1>2. CASE Other
  BY <1>1, <1>2, SetWritesAreTyped, InfoWritesAreTyped, RoomWritesAreTyped DEF Other, RoomCommand
<1>3. CASE OtherDeletes
  BY <1>1, <1>3, RoomWritesAreTyped DEF OtherDeletes
<1>4. CASE Expire
  <2>1. ASSUME NEW r \in Rooms, LockExpires(r)
        PROVE  RedisTypeOK' /\ overrun' \in SUBSET Spins
    BY <1>1, <2>1, LockWritesAreTyped DEF LockExpires, SpinLockExpires
  <2>2. CASE RequestForgotten
    BY <1>1, <2>2, RecordWritesAreTyped DEF RequestForgotten
  <2> QED  BY <1>4, <2>1, <2>2 DEF Expire
<1> QED  BY <1>2, <1>3, <1>4

LEMMA ObserveIsTyped ==
  ASSUME Observe
  PROVE  /\ stayed' \in [Spins -> SUBSET Sockets]
         /\ waiting' \in [Spins -> SUBSET Sockets]
  BY DEF Observe

LEMMA TypeStep == TypeOK /\ [Next]_vars => TypeOK'
<1> SUFFICES ASSUME TypeOK, [Next]_vars PROVE TypeOK'
  OBVIOUS
<1>1. ASSUME NEW t \in Spins, Run(t) PROVE TypeOK'
  BY <1>1, StepIsTyped, ObserveIsTyped DEF Run, TypeOK, CallTypeOK
<1>2. ASSUME NEW t \in Spins, Fault(t), faults < MaxFaults,
             faults' = faults + 1, UNCHANGED <<req, others, overrun>>, Observe
      PROVE  TypeOK'
  <2>1. faults' \in 0..MaxFaults
    BY <1>2, BoundAssumption DEF TypeOK
  <2> QED  BY <1>2, <2>1, FaultIsTyped, ObserveIsTyped DEF TypeOK, CallTypeOK
<1>3. ASSUME Other \/ OtherDeletes, others < MaxOthers, others' = others + 1,
             UNCHANGED <<spinVars, faults, latest>>, Observe
      PROVE  TypeOK'
  <2>1. others' \in 0..MaxOthers
    BY <1>3, BoundAssumption DEF TypeOK
  <2> QED  BY <1>3, <2>1, EnvironmentIsTyped, ObserveIsTyped DEF TypeOK, spinVars
<1>4. ASSUME Expire, UNCHANGED <<spinVars, others, faults, latest>>, Observe
      PROVE  TypeOK'
  BY <1>4, EnvironmentIsTyped, ObserveIsTyped DEF TypeOK, spinVars
<1>5. CASE UNCHANGED vars
  BY <1>5 DEF TypeOK, RedisTypeOK, vars, redisVars, spinVars, historyVars
<1> QED  BY <1>1, <1>2, <1>3, <1>4, <1>5 DEF Next

\* Every reachable state is well typed: no key, local variable or answer takes
\* a value outside its domain, in any interleaving and under any faults.
THEOREM TypeCorrect == Spec => []TypeOK
<1>1. Init => TypeOK
  BY NoViewIsTyped, BoundAssumption
     DEF Init, InitRedis, TypeOK, RedisTypeOK, Locations, Answers
<1> QED  BY <1>1, TypeStep, PTL DEF Spec

(***************************************************************************)
(* The lock.  LockHeld is inductive given TypeOK: the calls are told apart *)
(* by their spinId, a lock is only taken when it is free (SET NX) and only *)
(* dropped by its own call (compare and delete), by its TTL or by a        *)
(* deleteRoom, and the last two put the call into overrun.                 *)
(***************************************************************************)
\* A step that leaves the lock alone and lets nobody in keeps LockHeld.
LEMMA NobodyEnters ==
  ASSUME LockHeld, UNCHANGED <<spinLock, req, overrun>>,
         \A u \in Spins : Critical(u)' => Critical(u)
  PROVE  LockHeld'
  BY DEF LockHeld, RoomOf

\* Where a call that runs goes: into the critical section only by acquiring.
LEMMA StepStaysOut ==
  ASSUME TypeOK, NEW t \in Spins, Step(t) \/ Fault(t), ~AcquireLock(t)
  PROVE  \A u \in Spins : Critical(u)' => Critical(u)
<1>1. pc \in [Spins -> Locations]
  BY DEF TypeOK
<1>2. ASSUME NEW l \in Locations, pc' = [pc EXCEPT ![t] = l],
             Critical(t) \/ l \notin TryBlock \cup {"release"}
      PROVE  \A u \in Spins : Critical(u)' => Critical(u)
  BY <1>1, <1>2 DEF Critical
<1>3. CASE Submit(t) \/ CheckOwner(t) \/ CheckIdempotency(t)
  BY <1>1, <1>3
     DEF Submit, CheckOwner, CheckIdempotency, Goto, AnswerAt, Critical, TryBlock
<1>4. CASE ReadMembers(t) \/ ReadReady(t)
  BY <1>1, <1>4 DEF ReadMembers, ReadReady, Goto, Critical, TryBlock
<1>5. ASSUME NEW v, pc[t] \in {"config", "info"}, Decide(t, v)
      PROVE  \A u \in Spins : Critical(u)' => Critical(u)
  BY <1>1, <1>5 DEF Decide, LeaveTry, Goto, AnswerAt, Critical, TryBlock
<1>6. CASE ReadConfig(t)
  BY <1>1, <1>5, <1>6 DEF ReadConfig, Goto, Critical, TryBlock
<1>7. ASSUME NEW v, pc[t] = "info", AfterInfo(t, v)
      PROVE  \A u \in Spins : Critical(u)' => Critical(u)
  BY <1>5, <1>7 DEF AfterInfo, Critical
<1>8. CASE ReadInfo(t) \/ LoseInfo(t)
  BY <1>7, <1>8 DEF ReadInfo, LoseInfo
<1>9. CASE RecordAndAnnounce(t) \/ TouchActivity(t) \/ SaveState(t) \/ ReleaseLock(t)
  BY <1>1, <1>9
     DEF RecordAndAnnounce, TouchActivity, SaveState, ReleaseLock, Goto,
         AnswerAt, Critical, TryBlock
<1>10. CASE CommandFails(t) \/ ReplyLost(t)
  <2>1. /\ Rejected(t)
        /\ pc[t] \in Locations \ {"idle", "info", "done", "crashed"}
    BY <1>10 DEF CommandFails, ReplyLost, Locations
  <2> QED
    BY <1>1, <2>1
       DEF Rejected, LeaveTry, Goto, AnswerAt, Critical, TryBlock, Locations
<1>11. CASE Crash(t)
  BY <1>1, <1>11 DEF Crash, Goto, Critical, TryBlock
<1> QED
  BY <1>3, <1>4, <1>6, <1>8, <1>9, <1>10, <1>11 DEF Step, Fault

\* The steps that leave the lock alone.
LEMMA LockUntouched ==
  ASSUME NEW t \in Spins, Step(t) \/ Fault(t),
         ~AcquireLock(t), ~ReleaseLock(t), ~ReplyLost(t)
  PROVE  UNCHANGED spinLock
  BY DEF Step, Fault, Submit, CheckOwner, CheckIdempotency, ReadMembers,
         ReadReady, ReadConfig, ReadInfo, RecordAndAnnounce, SetIdempotency,
         TouchActivity, SaveState, SetRoomState, CommandFails, LoseInfo, Crash,
         redisVars

\* An acquisition costs no holder its lock.
LEMMA AcquireKeeps ==
  ASSUME TypeOK, LockHeld, NEW t \in Spins, AcquireSpinLock(RoomOf(t), t),
         NEW u \in Spins, Critical(u), u \notin overrun
  PROVE  spinLock'[RoomOf(u)] = u
<1>1. RoomOf(t) \in Rooms /\ RoomOf(u) \in Rooms
  BY DEF TypeOK, RoomOf, RequestData
<1>2. spinLock[RoomOf(u)] = u /\ u # Null
  BY NullAssumption DEF LockHeld
<1> QED
  BY <1>1, <1>2
     DEF TypeOK, RedisTypeOK, AcquireSpinLock, LockIsFree, SetLock, redisVars

\* A release costs no holder but the caller its lock.
LEMMA ReleaseKeeps ==
  ASSUME TypeOK, LockHeld, NEW t \in Spins, ReleaseSpinLock(RoomOf(t), t),
         NEW u \in Spins, Critical(u), u \notin overrun, u # t
  PROVE  spinLock'[RoomOf(u)] = u
<1>1. RoomOf(t) \in Rooms /\ RoomOf(u) \in Rooms
  BY DEF TypeOK, RoomOf, RequestData
<1>2. spinLock[RoomOf(u)] = u
  BY DEF LockHeld
<1> QED
  BY <1>1, <1>2 DEF TypeOK, RedisTypeOK, ReleaseSpinLock, SetLock, redisVars

LEMMA CallKeepsLock ==
  ASSUME TypeOK, LockHeld, NEW t \in Spins, Step(t) \/ Fault(t),
         UNCHANGED <<req, overrun>>
  PROVE  LockHeld'
<1>0. pc \in [Spins -> Locations] /\ RoomOf(t) \in Rooms
  BY DEF TypeOK, RoomOf, RequestData
<1>1. CASE AcquireLock(t)
  <2> SUFFICES ASSUME NEW u \in Spins, Critical(u)', u \notin overrun
               PROVE  spinLock'[RoomOf(u)] = u
    BY DEF LockHeld, RoomOf
  <2>1. CASE Critical(u)
    BY <1>1, <2>1, AcquireKeeps DEF AcquireLock
  <2>2. CASE ~Critical(u)
    <3>1. u = t /\ LockIsFree(RoomOf(t))
      BY <1>0, <1>1, <2>2
         DEF AcquireLock, Goto, AnswerAt, Critical, TryBlock
    <3> QED
      BY <1>0, <1>1, <3>1
         DEF AcquireLock, AcquireSpinLock, SetLock, TypeOK, RedisTypeOK
  <2> QED  BY <2>1, <2>2
<1>2. CASE ReleaseLock(t)
  <2> SUFFICES ASSUME NEW u \in Spins, Critical(u)', u \notin overrun
               PROVE  spinLock'[RoomOf(u)] = u
    BY DEF LockHeld, RoomOf
  <2>1. u # t /\ Critical(u)
    BY <1>0, <1>2 DEF ReleaseLock, Goto, Critical, TryBlock
  <2> QED  BY <1>2, <2>1, ReleaseKeeps DEF ReleaseLock
<1>3. CASE ReplyLost(t)
  <2> SUFFICES ASSUME NEW u \in Spins, Critical(u)', u \notin overrun
               PROVE  spinLock'[RoomOf(u)] = u
    BY DEF LockHeld, RoomOf
  <2>1. Critical(u)
    <3>1. ~AcquireLock(t) \/ AcquireLock(t)
      OBVIOUS
    <3>2. CASE ~AcquireLock(t)
      BY <1>3, <3>2, StepStaysOut DEF Fault
    <3>3. CASE AcquireLock(t)
      BY <1>0, <1>3, <3>3
         DEF ReplyLost, AcquireLock, Rejected, AnswerAt, Critical, TryBlock
    <3> QED  BY <3>2, <3>3
  <2>2. CASE pc[t] = "lock"
    BY <1>3, <2>1, <2>2, AcquireKeeps DEF ReplyLost
  <2>3. CASE pc[t] = "release"
    <3>1. u # t
      BY <1>0, <1>3, <2>3 DEF ReplyLost, Rejected, AnswerAt, Critical, TryBlock
    <3> QED  BY <1>3, <2>1, <2>3, <3>1, ReleaseKeeps DEF ReplyLost
  <2>4. CASE pc[t] \in {"setIdem", "state"}
    BY <1>3, <2>1, <2>4 DEF ReplyLost, SetIdempotency, SetRoomState, LockHeld
  <2> QED  BY <1>3, <2>2, <2>3, <2>4 DEF ReplyLost
<1>4. CASE ~AcquireLock(t) /\ ~ReleaseLock(t) /\ ~ReplyLost(t)
  BY <1>4, NobodyEnters, StepStaysOut, LockUntouched
<1> QED  BY <1>1, <1>2, <1>3, <1>4

LEMMA EnvironmentKeepsLock ==
  ASSUME TypeOK, LockHeld, Other \/ OtherDeletes \/ Expire, UNCHANGED <<pc, req>>
  PROVE  LockHeld'
<1>1. CASE Other
  BY <1>1
     DEF Other, RoomCommand, AddRoomMember, RemoveRoomMember,
         SetParticipantReady, RemoveParticipantReady, RemoveSocketInfo,
         SetSocketInfo, SetRoomConfig, SetRoomOwner, ClearRoomOwner, LockHeld,
         Critical, RoomOf
<1>2. CASE OtherDeletes
  <2>1. PICK r \in Rooms, k \in DeletedKeys :
          /\ DeleteRoomKey(r, k)
          /\ overrun' = IF k = "lock" THEN overrun \cup ({spinLock[r]} \ {Null})
                                      ELSE overrun
    BY <1>2 DEF OtherDeletes
  <2>2. spinLock' = IF k = "lock" THEN [spinLock EXCEPT ![r] = Null] ELSE spinLock
    BY <2>1 DEF DeleteRoomKey
  <2> QED
    BY <2>1, <2>2, NullAssumption DEF LockHeld, Critical, RoomOf, TypeOK, RedisTypeOK
<1>3. CASE Expire
  <2>1. ASSUME NEW r \in Rooms, LockExpires(r) PROVE LockHeld'
    BY <2>1
       DEF LockExpires, SpinLockExpires, SetLock, LockHeld, Critical, RoomOf,
           TypeOK, RedisTypeOK
  <2>2. CASE RequestForgotten
    BY <2>2 DEF RequestForgotten, IdempotencyExpires, LockHeld, Critical, RoomOf
  <2> QED  BY <1>3, <2>1, <2>2 DEF Expire
<1> QED  BY <1>1, <1>2, <1>3

LEMMA LockStep == TypeOK /\ LockHeld /\ [Next]_vars => LockHeld'
<1> SUFFICES ASSUME TypeOK, LockHeld, [Next]_vars PROVE LockHeld'
  OBVIOUS
<1>1. ASSUME NEW t \in Spins, Run(t) PROVE LockHeld'
  BY <1>1, CallKeepsLock DEF Run
<1>2. ASSUME NEW t \in Spins, Fault(t), UNCHANGED <<req, overrun>>
      PROVE  LockHeld'
  BY <1>2, CallKeepsLock
<1>3. CASE (Other \/ OtherDeletes \/ Expire) /\ UNCHANGED spinVars
  BY <1>3, EnvironmentKeepsLock DEF spinVars
<1>4. CASE UNCHANGED vars
  BY <1>4 DEF vars, redisVars, spinVars, historyVars, LockHeld, Critical, RoomOf
<1> QED  BY <1>1, <1>2, <1>3, <1>4 DEF Next

\* handleSpinRequest holds its lock until it releases it, unless the lock's TTL
\* or a deleteRoom takes it away: no other call can.
THEOREM LockIsHeld == Spec => []LockHeld
<1>1. Init => LockHeld
  BY DEF Init, LockHeld, Critical, TryBlock
<1> QED  BY <1>1, LockStep, TypeCorrect, PTL DEF Spec

\* Two spins of a room are in their critical sections at once only when one of
\* them has overrun its lock.
THEOREM SpinsExclude == Spec => []MutualExclusion
<1>1. LockHeld => MutualExclusion
  BY DEF LockHeld, MutualExclusion
<1> QED  BY <1>1, LockIsHeld, PTL

(***************************************************************************)
(* What a spin read.  The handler's reads are taken at different times     *)
(* while other handlers write, so nothing relates them to each other; what *)
(* survives is a relation between each read and the sockets that did not   *)
(* change since the lock was taken (stayed, waiting), and that one,        *)
(* ReadsCoverRoom, is inductive.                                           *)
(***************************************************************************)
LEMMA Observed ==
  ASSUME Observe, UNCHANGED req, NEW t \in Spins
  PROVE  /\ stayed'[t] \subseteq {s \in Sockets : InRoom(RoomOf(t), s)'}
         /\ waiting'[t] \subseteq {s \in Sockets : Unready(RoomOf(t), s)'}
         /\ Critical(t) => stayed'[t] \subseteq stayed[t] /\ waiting'[t] \subseteq waiting[t]
         /\ ~Critical(t)' => stayed'[t] = {} /\ waiting'[t] = {}
  BY DEF Observe, RoomOf

\* A call that does not run keeps its relation, whatever happens to the keys.
LEMMA BystanderCovers ==
  ASSUME NEW t \in Spins, ReadsCover(t), Observe, UNCHANGED req,
         pc'[t] = pc[t], seen'[t] = seen[t]
  PROVE  ReadsCover(t)'
<1>1. Critical(t)' = Critical(t)
  BY DEF Critical
<1>2. \/ stayed'[t] \subseteq stayed[t] /\ waiting'[t] \subseteq waiting[t]
      \/ stayed'[t] = {} /\ waiting'[t] = {}
  BY <1>1, Observed
<1>3. /\ stayed'[t] \subseteq {s \in Sockets : InRoom(RoomOf(t), s)'}
      /\ waiting'[t] \subseteq {s \in Sockets : Unready(RoomOf(t), s)'}
  BY Observed
<1>4. RoomOf(t)' = RoomOf(t)
  BY DEF RoomOf
<1> QED  BY <1>2, <1>3, <1>4 DEF ReadsCover, InRoom, Unready

\* The running call, outside the try block or leaving it.
LEMMA OutsideCovers ==
  ASSUME Observe, UNCHANGED req, NEW t \in Spins, seen'[t] = NoView,
         pc'[t] \notin {"ready", "config", "info", "setIdem"}
  PROVE  ReadsCover(t)'
<1>1. /\ stayed'[t] \subseteq {s \in Sockets : InRoom(RoomOf(t), s)'}
      /\ waiting'[t] \subseteq {s \in Sockets : Unready(RoomOf(t), s)'}
  BY Observed
<1>2. RoomOf(t)' = RoomOf(t) /\ NoView.ready = {}
  BY DEF RoomOf, NoView
<1> QED  BY <1>1, <1>2 DEF ReadsCover, InRoom, Unready

\* The running call between the reads and the announcement: v is what it has
\* read after this step.
LEMMA InsideCovers ==
  ASSUME Observe, UNCHANGED req, NEW t \in Spins, NEW v, seen'[t] = v,
         pc'[t] \in {"ready", "config", "info", "setIdem"},
         waiting'[t] \cap v.ready = {},
         stayed'[t] \subseteq v.todo \cup v.active \cup v.lost,
         waiting'[t] \subseteq v.todo \cup v.participants \cup v.lost,
         pc'[t] = "setIdem" => v.todo = {} /\ v.participants \subseteq v.ready
  PROVE  ReadsCover(t)'
<1>1. /\ stayed'[t] \subseteq {s \in Sockets : InRoom(RoomOf(t), s)'}
      /\ waiting'[t] \subseteq {s \in Sockets : Unready(RoomOf(t), s)'}
  BY Observed
<1>2. RoomOf(t)' = RoomOf(t)
  BY DEF RoomOf
<1> QED  BY <1>1, <1>2 DEF ReadsCover, InRoom, Unready

LEMMA DecideCovers ==
  ASSUME TypeOK, Observe, UNCHANGED req, NEW t \in Spins, NEW v, Decide(t, v),
         waiting'[t] \cap v.ready = {}, v.todo = {},
         stayed'[t] \subseteq v.active \cup v.lost,
         waiting'[t] \subseteq v.participants \cup v.lost
  PROVE  ReadsCover(t)'
<1>0. pc \in [Spins -> Locations] /\ seen \in [Spins -> Views]
  BY DEF TypeOK
<1>1. CASE Verdict(v) = "ok" /\ See(t, v) /\ Goto(t, "setIdem")
  <2>1. v.participants \subseteq v.ready
    BY <1>1 DEF Verdict
  <2>2. seen'[t] = v /\ pc'[t] = "setIdem"
    BY <1>0, <1>1 DEF See, Goto
  <2> QED  BY <2>1, <2>2, InsideCovers
<1>2. CASE LeaveTry(t, Verdict(v))
  <2>1. seen'[t] = NoView /\ pc'[t] = "release"
    BY <1>0, <1>2 DEF LeaveTry, AnswerAt
  <2> QED  BY <2>1, OutsideCovers
<1> QED  BY <1>1, <1>2 DEF Decide

LEMMA AfterInfoCovers ==
  ASSUME TypeOK, Observe, UNCHANGED req, NEW t \in Spins, NEW v,
         pc[t] = "info", AfterInfo(t, v),
         waiting'[t] \cap v.ready = {},
         stayed'[t] \subseteq v.todo \cup v.active \cup v.lost,
         waiting'[t] \subseteq v.todo \cup v.participants \cup v.lost
  PROVE  ReadsCover(t)'
<1>1. CASE v.todo = {}
  BY <1>1, DecideCovers DEF AfterInfo
<1>2. CASE v.todo # {}
  <2>1. seen'[t] = v /\ pc'[t] = "info"
    BY <1>2 DEF AfterInfo, See, TypeOK
  <2> QED  BY <2>1, InsideCovers
<1> QED  BY <1>1, <1>2

LEMMA RunnerCovers ==
  ASSUME TypeOK, NEW t \in Spins, ReadsCover(t), Step(t) \/ Fault(t),
         UNCHANGED req, Observe
  PROVE  ReadsCover(t)'
<1>0. /\ pc \in [Spins -> Locations] /\ seen \in [Spins -> Views]
      /\ seen[t] \in Views
  BY DEF TypeOK
<1> DEFINE inside == {"ready", "config", "info", "setIdem"}
<1>1. /\ stayed'[t] \subseteq {s \in Sockets : InRoom(RoomOf(t), s)'}
      /\ waiting'[t] \subseteq {s \in Sockets : Unready(RoomOf(t), s)'}
      /\ Critical(t) => stayed'[t] \subseteq stayed[t] /\ waiting'[t] \subseteq waiting[t]
      /\ ~Critical(t)' => stayed'[t] = {} /\ waiting'[t] = {}
  BY Observed
<1>2. RoomOf(t)' = RoomOf(t)
  BY DEF RoomOf
\* The view is kept and the call is not between its reads afterwards.
<1>3. ASSUME seen'[t] = seen[t], pc'[t] \notin inside,
             pc'[t] \in {"owner", "idem", "lock", "members"} => seen[t] = NoView,
             pc'[t] # "idle",
             Critical(t) \/ seen[t] = NoView
      PROVE  ReadsCover(t)'
  <2>1. waiting'[t] \cap seen'[t].ready = {}
    BY <1>1, <1>3 DEF ReadsCover, NoView
  <2> QED  BY <1>1, <1>2, <1>3, <2>1 DEF ReadsCover, InRoom, Unready
<1>4. CASE Submit(t) \/ CheckOwner(t) \/ CheckIdempotency(t) \/ AcquireLock(t)
  <2>1. seen' = seen /\ seen[t] = NoView
    BY <1>4
       DEF Submit, CheckOwner, CheckIdempotency, AcquireLock, ReadsCover
  <2>2. pc'[t] \in {"owner", "idem", "lock", "members", "done"}
    BY <1>0, <1>4
       DEF Submit, CheckOwner, CheckIdempotency, AcquireLock, Goto, AnswerAt
  <2> QED  BY <1>3, <2>1, <2>2
<1>5. CASE ReadMembers(t)
  <2> DEFINE v == [seen[t] EXCEPT !.members = roomMembers[RoomOf(t)],
                                  !.todo = roomMembers[RoomOf(t)]]
  <2>1. seen'[t] = v /\ pc'[t] = "ready"
    BY <1>0, <1>5 DEF ReadMembers, See, Goto
  <2>2. seen[t] = NoView
    BY <1>5 DEF ReadMembers, ReadsCover
  <2>3. v.todo = roomMembers[RoomOf(t)] /\ v.ready = {}
    BY <2>2 DEF NoView
  <2>4. roomMembers' = roomMembers
    BY <1>5 DEF ReadMembers, redisVars
  <2>5. stayed'[t] \subseteq v.todo /\ waiting'[t] \subseteq v.todo
    BY <1>1, <1>2, <2>3, <2>4 DEF InRoom, Unready
  <2> HIDE DEF v
  <2> QED  BY <2>1, <2>3, <2>5, InsideCovers
<1>6. CASE ReadReady(t)
  <2> DEFINE v == [seen[t] EXCEPT !.ready = roomReady[RoomOf(t)]]
  <2>1. seen'[t] = v /\ pc'[t] = "config"
    BY <1>0, <1>6 DEF ReadReady, See, Goto
  <2>2. /\ v.ready = roomReady[RoomOf(t)] /\ v.todo = seen[t].todo
        /\ v.active = seen[t].active /\ v.lost = seen[t].lost
        /\ v.participants = seen[t].participants
    BY <1>0 DEF Views
  <2>3. roomReady' = roomReady
    BY <1>6 DEF ReadReady, redisVars
  <2>4. waiting'[t] \cap v.ready = {}
    BY <1>1, <1>2, <2>2, <2>3 DEF Unready
  <2>5. Critical(t) /\ pc[t] = "ready"
    BY <1>6 DEF ReadReady, Critical, TryBlock
  <2>6. /\ stayed'[t] \subseteq v.todo \cup v.active \cup v.lost
        /\ waiting'[t] \subseteq v.todo \cup v.participants \cup v.lost
    BY <1>1, <2>2, <2>5 DEF ReadsCover
  <2> HIDE DEF v
  <2> QED  BY <2>1, <2>4, <2>6, InsideCovers
<1>7. CASE ReadConfig(t)
  <2> DEFINE v == [seen[t] EXCEPT !.config = roomConfig[RoomOf(t)]]
  <2>1. /\ v.ready = seen[t].ready /\ v.todo = seen[t].todo
        /\ v.active = seen[t].active /\ v.lost = seen[t].lost
        /\ v.participants = seen[t].participants
    BY <1>0 DEF Views
  <2>2. Critical(t) /\ pc[t] = "config"
    BY <1>7 DEF ReadConfig, Critical, TryBlock
  <2>3. /\ waiting'[t] \cap v.ready = {}
        /\ stayed'[t] \subseteq v.todo \cup v.active \cup v.lost
        /\ waiting'[t] \subseteq v.todo \cup v.participants \cup v.lost
    BY <1>1, <2>1, <2>2 DEF ReadsCover
  <2>4. IF v.todo = {} THEN Decide(t, v) ELSE See(t, v) /\ Goto(t, "info")
    BY <1>7 DEF ReadConfig
  <2> HIDE DEF v
  <2>5. CASE v.todo = {}
    BY <2>3, <2>4, <2>5, DecideCovers
  <2>6. CASE v.todo # {}
    <3>1. seen'[t] = v /\ pc'[t] = "info"
      BY <1>0, <2>4, <2>6 DEF See, Goto
    <3> QED  BY <2>3, <3>1, InsideCovers
  <2> QED  BY <2>5, <2>6
<1>8. CASE ReadInfo(t)
  <2>1. PICK s \in seen[t].todo :
          AfterInfo(t, WithInfo(seen[t], s, socketInfo[s], RoomOf(t)))
    BY <1>8 DEF ReadInfo
  <2> DEFINE v == WithInfo(seen[t], s, socketInfo[s], RoomOf(t))
             here == socketInfo[s] # Null /\ socketInfo[s].roomId = RoomOf(t)
  <2>2. /\ v.ready = seen[t].ready /\ v.lost = seen[t].lost
        /\ v.todo = seen[t].todo \ {s}
        /\ v.active = IF here THEN seen[t].active \cup {s} ELSE seen[t].active
        /\ v.participants = IF here /\ socketInfo[s].role = "participant"
                              THEN seen[t].participants \cup {s}
                              ELSE seen[t].participants
    BY <1>0 DEF WithInfo, Views
  <2>3. Critical(t) /\ pc[t] = "info" /\ socketInfo' = socketInfo
    BY <1>8 DEF ReadInfo, Critical, TryBlock, redisVars
  <2>4. /\ waiting'[t] \subseteq waiting[t] /\ stayed'[t] \subseteq stayed[t]
        /\ waiting[t] \cap seen[t].ready = {}
        /\ stayed[t] \subseteq seen[t].todo \cup seen[t].active \cup seen[t].lost
        /\ waiting[t] \subseteq seen[t].todo \cup seen[t].participants \cup seen[t].lost
    BY <1>1, <2>3 DEF ReadsCover
  <2>5. /\ s \in stayed'[t] => here
        /\ s \in waiting'[t] => here /\ socketInfo[s].role = "participant"
    BY <1>1, <1>2, <2>3 DEF InRoom, Unready
  <2> HIDE DEF v, here
  <2>6. /\ waiting'[t] \cap v.ready = {}
        /\ stayed'[t] \subseteq v.todo \cup v.active \cup v.lost
        /\ waiting'[t] \subseteq v.todo \cup v.participants \cup v.lost
    BY <2>2, <2>4, <2>5
  <2> QED  BY <2>1, <2>3, <2>6, AfterInfoCovers DEF v
<1>9. CASE LoseInfo(t)
  <2>1. PICK s \in seen[t].todo :
          AfterInfo(t, WithInfo([seen[t] EXCEPT !.lost = @ \cup {s}], s, Null, RoomOf(t)))
    BY <1>9 DEF LoseInfo
  <2> DEFINE v == WithInfo([seen[t] EXCEPT !.lost = @ \cup {s}], s, Null, RoomOf(t))
  <2>2. /\ v.ready = seen[t].ready /\ v.lost = seen[t].lost \cup {s}
        /\ v.todo = seen[t].todo \ {s} /\ v.active = seen[t].active
        /\ v.participants = seen[t].participants
    BY <1>0 DEF WithInfo, Views
  <2>3. Critical(t) /\ pc[t] = "info"
    BY <1>9 DEF LoseInfo, Critical, TryBlock
  <2>4. /\ waiting'[t] \cap v.ready = {}
        /\ stayed'[t] \subseteq v.todo \cup v.active \cup v.lost
        /\ waiting'[t] \subseteq v.todo \cup v.participants \cup v.lost
    BY <1>1, <2>2, <2>3 DEF ReadsCover
  <2> HIDE DEF v
  <2> QED  BY <2>1, <2>3, <2>4, AfterInfoCovers DEF v
<1>10. CASE RecordAndAnnounce(t)
  BY <1>0, <1>10, OutsideCovers DEF RecordAndAnnounce, See, Goto
<1>11. CASE TouchActivity(t) \/ SaveState(t) \/ ReleaseLock(t)
  <2>1. seen' = seen /\ pc'[t] \in {"state", "release", "done"} /\ Critical(t)
    BY <1>0, <1>11
       DEF TouchActivity, SaveState, ReleaseLock, Goto, AnswerAt, Critical, TryBlock
  <2> QED  BY <1>3, <2>1
<1>12. CASE CommandFails(t) \/ ReplyLost(t)
  <2>1. Rejected(t) /\ pc[t] \in Locations \ {"idle", "info", "done", "crashed"}
    BY <1>12 DEF CommandFails, ReplyLost, Locations
  <2>2. CASE pc[t] \in {"owner", "idem", "lock", "release"}
    <3>1. seen' = seen /\ pc'[t] = "done"
      BY <1>0, <2>1, <2>2 DEF Rejected, AnswerAt, TryBlock
    <3>2. Critical(t) \/ seen[t] = NoView
      BY <2>2 DEF ReadsCover, Critical
    <3> QED  BY <1>3, <3>1, <3>2
  <2>3. CASE pc[t] = "ready"
    <3>1. seen' = seen /\ pc'[t] = "config" /\ Critical(t)
      BY <1>0, <2>1, <2>3 DEF Rejected, Goto, Critical, TryBlock
    <3> QED  BY <1>1, <2>3, <3>1, InsideCovers DEF ReadsCover
  <2>4. CASE pc[t] \in TryBlock \ {"ready", "info"}
    <3>1. LeaveTry(t, "error")
      BY <2>1, <2>4 DEF Rejected, TryBlock
    <3> QED  BY <1>0, <3>1, OutsideCovers DEF LeaveTry, AnswerAt
  <2> QED  BY <2>1, <2>2, <2>3, <2>4 DEF Locations, TryBlock
<1>13. CASE Crash(t)
  BY <1>0, <1>13, OutsideCovers DEF Crash, Goto, See
<1> QED
  BY <1>4, <1>5, <1>6, <1>7, <1>8, <1>9, <1>10, <1>11, <1>12, <1>13 DEF Step, Fault

\* A step or a fault of one call leaves the other calls where they are.
LEMMA OneCallMoves ==
  ASSUME TypeOK, NEW t \in Spins, NEW u \in Spins, u # t, Step(t) \/ Fault(t)
  PROVE  pc'[u] = pc[u] /\ seen'[u] = seen[u]
<1>0. pc \in [Spins -> Locations] /\ seen \in [Spins -> Views]
  BY DEF TypeOK
<1>1. ASSUME NEW v, Decide(t, v)
      PROVE  pc'[u] = pc[u] /\ seen'[u] = seen[u]
  BY <1>0, <1>1 DEF Decide, LeaveTry, Goto, AnswerAt, See
<1>2. ASSUME NEW v, AfterInfo(t, v)
      PROVE  pc'[u] = pc[u] /\ seen'[u] = seen[u]
  BY <1>0, <1>1, <1>2 DEF AfterInfo, See
<1>3. CASE ReadInfo(t) \/ LoseInfo(t)
  BY <1>2, <1>3 DEF ReadInfo, LoseInfo
<1>4. CASE ReadConfig(t)
  BY <1>0, <1>1, <1>4 DEF ReadConfig, See, Goto
<1>5. CASE Submit(t) \/ CheckOwner(t) \/ CheckIdempotency(t) \/ AcquireLock(t)
  BY <1>0, <1>5
     DEF Submit, CheckOwner, CheckIdempotency, AcquireLock, Goto, AnswerAt
<1>6. CASE ReadMembers(t) \/ ReadReady(t) \/ RecordAndAnnounce(t)
  BY <1>0, <1>6 DEF ReadMembers, ReadReady, RecordAndAnnounce, Goto, See
<1>7. CASE TouchActivity(t) \/ SaveState(t) \/ ReleaseLock(t) \/ Crash(t)
  BY <1>0, <1>7
     DEF TouchActivity, SaveState, ReleaseLock, Crash, Goto, AnswerAt, See
<1>8. CASE CommandFails(t) \/ ReplyLost(t)
  <2>1. Rejected(t) /\ pc[t] \in Locations \ {"idle", "info", "done", "crashed"}
    BY <1>8 DEF CommandFails, ReplyLost, Locations
  <2>2. CASE pc[t] \in {"owner", "idem", "lock", "release"}
    BY <1>0, <2>1, <2>2 DEF Rejected, AnswerAt, TryBlock
  <2>3. CASE pc[t] = "ready"
    BY <1>0, <2>1, <2>3 DEF Rejected, Goto, TryBlock
  <2>4. CASE pc[t] \in TryBlock \ {"ready", "info"}
    BY <1>0, <2>1, <2>4 DEF Rejected, LeaveTry, AnswerAt, TryBlock
  <2> QED  BY <2>1, <2>2, <2>3, <2>4 DEF Locations, TryBlock
<1> QED
  BY <1>3, <1>4, <1>5, <1>6, <1>7, <1>8 DEF Step, Fault

LEMMA CoverStep == TypeOK /\ ReadsCoverRoom /\ [Next]_vars => ReadsCoverRoom'
<1> SUFFICES ASSUME TypeOK, ReadsCoverRoom, [Next]_vars, NEW u \in Spins
             PROVE  ReadsCover(u)'
  BY DEF ReadsCoverRoom
<1>0. ReadsCover(u) /\ pc \in [Spins -> Locations] /\ seen \in [Spins -> Views]
  BY DEF ReadsCoverRoom, TypeOK
<1>1. ASSUME NEW t \in Spins, Step(t) \/ Fault(t), UNCHANGED req, Observe
      PROVE  ReadsCover(u)'
  <2>1. CASE u = t
    BY <1>0, <1>1, <2>1, RunnerCovers
  <2>2. CASE u # t
    <3>1. pc'[u] = pc[u] /\ seen'[u] = seen[u]
      BY <1>0, <1>1, <2>2, OneCallMoves
    <3> QED  BY <1>0, <1>1, <3>1, BystanderCovers
  <2> QED  BY <2>1, <2>2
<1>2. CASE UNCHANGED spinVars /\ Observe
  BY <1>0, <1>2, BystanderCovers DEF spinVars
<1>3. CASE UNCHANGED vars
  BY <1>0, <1>3
     DEF vars, redisVars, spinVars, historyVars, ReadsCover, InRoom, Unready, RoomOf
<1> QED  BY <1>1, <1>2, <1>3 DEF Next, Run

\* Whatever happens between its reads, what a spin has read covers the sockets
\* that stayed in the room and the participants that were waiting since it took
\* the lock.
THEOREM ReadsAreFaithful == Spec => []ReadsCoverRoom
<1>1. Init => ReadsCoverRoom
  BY DEF Init, ReadsCoverRoom, ReadsCover, NoView
<1> QED  BY <1>1, CoverStep, TypeCorrect, PTL DEF Spec

\* An announcement is made by RecordAndAnnounce only.
LEMMA WhoAnnounces ==
  ASSUME TypeOK, [Next]_vars, NEW t \in Spins, Announces(t)
  PROVE  RecordAndAnnounce(t)
<1>1. announced' # announced
  BY DEF Announces
<1>2. PICK u \in Spins : RecordAndAnnounce(u)
  BY <1>1
     DEF Next, Run, Step, Fault, Submit, CheckOwner, CheckIdempotency,
         AcquireLock, ReadMembers, ReadReady, ReadConfig, ReadInfo,
         TouchActivity, SaveState, ReleaseLock, CommandFails, ReplyLost,
         LoseInfo, Crash, NothingAnnounced, spinVars, vars
<1>3. u = t
  BY <1>2 DEF RecordAndAnnounce, Announces, TypeOK
<1> QED  BY <1>2, <1>3

\* The ready check cannot be raced by a participant who simply is not ready: if
\* one is in the room and unready from the acquisition of the lock to the
\* announcement, there is no announcement unless its socket info was lost.
THEOREM WaitingParticipantsBlock == Spec => NoSpinPastWaitingParticipant
<1>1. TypeOK /\ ReadsCoverRoom /\ [Next]_vars
      => [\A t \in Spins : Announces(t) => waiting[t] \subseteq seen[t].lost]_vars
  <2> SUFFICES ASSUME TypeOK, ReadsCoverRoom, [Next]_vars, NEW t \in Spins, Announces(t)
               PROVE  waiting[t] \subseteq seen[t].lost
    OBVIOUS
  <2>1. pc[t] = "setIdem" /\ ReadsCover(t)
    BY WhoAnnounces DEF RecordAndAnnounce, ReadsCoverRoom
  <2> QED  BY <2>1 DEF ReadsCover
<1> QED  BY <1>1, TypeCorrect, ReadsAreFaithful, PTL DEF Spec, NoSpinPastWaitingParticipant

\* Every socket that stays in the room from the acquisition of the lock to the
\* announcement is dealt an outcome unless its socket info was lost.
THEOREM MembersAreDealtIn == Spec => NoMemberLeftOut
<1>1. TypeOK /\ ReadsCoverRoom /\ [Next]_vars
      => [\A t \in Spins :
            Announces(t) => stayed[t] \subseteq announced'[t].active \cup seen[t].lost]_vars
  <2> SUFFICES ASSUME TypeOK, ReadsCoverRoom, [Next]_vars, NEW t \in Spins, Announces(t)
               PROVE  stayed[t] \subseteq announced'[t].active \cup seen[t].lost
    OBVIOUS
  <2>1. RecordAndAnnounce(t) /\ ReadsCover(t)
    BY WhoAnnounces DEF ReadsCoverRoom
  <2>2. announced'[t].active = seen[t].active
    BY <2>1 DEF RecordAndAnnounce, TypeOK
  <2> QED  BY <2>1, <2>2 DEF ReadsCover, RecordAndAnnounce
<1> QED  BY <1>1, TypeCorrect, ReadsAreFaithful, PTL DEF Spec, NoMemberLeftOut
-----------------------------------------------------------------------------
(***************************************************************************)
(* Retries.  The key of a request is written in the step that announces it *)
(* (Recorded), and without faults in no other one (Backed).                *)
(***************************************************************************)
KeyOf(t) == <<RoomOf(t), req[t].requestId>>

\* While keys do not expire, every announced request has one.
Recorded ==
  ~RequestsExpire => \A u \in Spins : announced[u] # Null => idem[KeyOf(u)] # Null

\* Without faults, every key is that of a call that announced, and so is every
\* key a replay was refused for.
Backed ==
  faults = 0 =>
    /\ \A k \in Rooms \X Requests : idem[k] # Null =>
         \E u \in Spins : KeyOf(u) = k /\ announced[u] # Null
    /\ ReplayIsOfAnnounced

LEMMA KeysAreKeys ==
  ASSUME TypeOK, NEW t \in Spins
  PROVE  KeyOf(t) \in Rooms \X Requests
  BY DEF TypeOK, KeyOf, RoomOf, RequestData

\* Only recording and expiry write the keys.
LEMMA WhichStepRecords ==
  ASSUME NEW t \in Spins, Step(t)
  PROVE  \/ idem' = idem
         \/ RecordAndAnnounce(t) /\ idem' = [idem EXCEPT ![KeyOf(t)] = t]
<1>1. CASE Submit(t) \/ CheckOwner(t) \/ CheckIdempotency(t) \/ AcquireLock(t)
             \/ ReadMembers(t) \/ ReadReady(t) \/ ReadConfig(t) \/ ReadInfo(t)
  BY <1>1
     DEF Submit, CheckOwner, CheckIdempotency, AcquireLock, AcquireSpinLock,
         SetLock, ReadMembers, ReadReady, ReadConfig, ReadInfo, redisVars
<1>2. CASE RecordAndAnnounce(t)
  BY <1>2 DEF RecordAndAnnounce, SetIdempotency, KeyOf
<1>3. CASE TouchActivity(t) \/ SaveState(t) \/ ReleaseLock(t)
  BY <1>3
     DEF TouchActivity, SaveState, SetRoomState, ReleaseLock, ReleaseSpinLock,
         SetLock, redisVars
<1> QED  BY <1>1, <1>2, <1>3 DEF Step

LEMMA WhichFaultRecords ==
  ASSUME NEW t \in Spins, Fault(t)
  PROVE  \/ idem' = idem
         \/ idem' = [idem EXCEPT ![KeyOf(t)] = t]
  BY DEF Fault, CommandFails, ReplyLost, LoseInfo, Crash, AcquireSpinLock,
         SetLock, SetIdempotency, SetRoomState, ReleaseSpinLock, redisVars, KeyOf

LEMMA WhoRecords ==
  ASSUME TypeOK, NEW t \in Spins, Step(t) \/ Fault(t)
  PROVE  \/ idem' = idem
         \/ idem' = [idem EXCEPT ![KeyOf(t)] = t]
  BY WhichStepRecords, WhichFaultRecords

LEMMA EnvironmentRecordsNothing ==
  ASSUME Other \/ OtherDeletes \/ Expire
  PROVE  \/ idem' = idem
         \/ RequestsExpire /\ \E k \in Rooms \X Requests : idem' = [idem EXCEPT ![k] = Null]
<1>1. CASE Other
  BY <1>1
     DEF Other, RoomCommand, AddRoomMember, RemoveRoomMember,
         SetParticipantReady, RemoveParticipantReady, RemoveSocketInfo,
         SetSocketInfo, SetRoomConfig, SetRoomOwner, ClearRoomOwner
<1>2. CASE OtherDeletes
  BY <1>2 DEF OtherDeletes, DeleteRoomKey
<1>3. CASE Expire
  BY <1>3
     DEF Expire, LockExpires, SpinLockExpires, SetLock, RequestForgotten,
         IdempotencyExpires
<1> QED  BY <1>1, <1>2, <1>3

LEMMA RecordedStep == TypeOK /\ Recorded /\ [Next]_vars => Recorded'
<1> SUFFICES ASSUME TypeOK, Recorded, [Next]_vars, ~RequestsExpire,
                    NEW u \in Spins, announced'[u] # Null
             PROVE  idem'[KeyOf(u)'] # Null
  BY DEF Recorded
<1>0. /\ KeyOf(u) \in Rooms \X Requests /\ KeyOf(u)' = KeyOf(u)
      /\ idem \in [Rooms \X Requests -> Spins \cup {Null}]
  BY KeysAreKeys DEF TypeOK, RedisTypeOK, Next, Run, spinVars, vars, KeyOf, RoomOf
<1>1. CASE announced[u] # Null
  <2>1. idem[KeyOf(u)] # Null
    BY <1>1 DEF Recorded
  <2>2. ASSUME NEW t \in Spins, Step(t) \/ Fault(t) PROVE idem'[KeyOf(u)] # Null
    BY <1>0, <2>1, <2>2, WhoRecords, NullAssumption
  <2>3. CASE Other \/ OtherDeletes \/ Expire
    BY <1>0, <2>1, <2>3, EnvironmentRecordsNothing
  <2>4. CASE UNCHANGED vars
    BY <1>0, <2>1, <2>4 DEF vars, redisVars
  <2> QED  BY <1>0, <2>2, <2>3, <2>4 DEF Next, Run
<1>2. CASE announced[u] = Null
  <2>1. RecordAndAnnounce(u)
    BY <1>2, WhoAnnounces DEF Announces
  <2>2. idem' = [idem EXCEPT ![KeyOf(u)] = u]
    BY <2>1 DEF RecordAndAnnounce, SetIdempotency, KeyOf
  <2> QED  BY <1>0, <2>2, NullAssumption
<1> QED  BY <1>1, <1>2

\* A retry that is checked after its request was announced is turned away, as
\* long as the key lives: the check and the announcement cannot miss each other
\* then, whatever failed.
THEOREM RetriesAreRecognised == Spec => RetryIsRecognised
<1>1. Init => Recorded
  BY DEF Init, Recorded
<1>2. TypeOK /\ Recorded /\ [Next]_vars
      => [~RequestsExpire => \A t, u \in Spins :
            announced[u] # Null /\ SameRequest(t, u) /\ pc[t] = "idem"
            => pc'[t] # "lock"]_vars
  <2> SUFFICES ASSUME TypeOK, Recorded, [Next]_vars, ~RequestsExpire,
                      NEW t \in Spins, NEW u \in Spins, announced[u] # Null,
                      SameRequest(t, u), pc[t] = "idem", pc'[t] = "lock"
               PROVE  FALSE
    OBVIOUS
  <2>1. idem[KeyOf(t)] # Null
    BY DEF Recorded, SameRequest, KeyOf
  <2>2. Step(t) \/ Fault(t)
    BY OneCallMoves DEF Next, Run, spinVars, vars
  <2>3. ~Fault(t)
    <3>1. ~Rejected(t)
      BY DEF Rejected, AnswerAt, TryBlock, TypeOK
    <3> QED
      BY <3>1 DEF Fault, CommandFails, ReplyLost, LoseInfo, Crash, Goto, TypeOK
  <2>4. CheckIdempotency(t)
    BY <2>2, <2>3
       DEF Step, Submit, CheckOwner, AcquireLock, ReadMembers, ReadReady,
           ReadConfig, ReadInfo, RecordAndAnnounce, TouchActivity, SaveState,
           ReleaseLock
  <2> QED  BY <2>1, <2>4 DEF CheckIdempotency, AnswerAt, KeyOf, TypeOK
<1> QED
  BY <1>1, <1>2, RecordedStep, TypeCorrect, PTL DEF Spec, RetryIsRecognised

\* The steps that answer IDEMPOTENT_REPLAY.
LEMMA WhoRefusesReplays ==
  ASSUME TypeOK, NEW t \in Spins, Step(t), NEW u \in Spins,
         answer'[u] = "IDEMPOTENT_REPLAY"
  PROVE  answer[u] = "IDEMPOTENT_REPLAY" \/ (u = t /\ idem[KeyOf(t)] # Null)
<1>0. answer \in [Spins -> Answers]
  BY DEF TypeOK
<1>1. ASSUME NEW v, Decide(t, v) PROVE answer[u] = "IDEMPOTENT_REPLAY"
  BY <1>0, <1>1 DEF Decide, LeaveTry, Goto, AnswerAt, Verdict
<1>2. CASE CheckIdempotency(t)
  BY <1>0, <1>2 DEF CheckIdempotency, Goto, AnswerAt, KeyOf
<1>3. CASE Submit(t) \/ CheckOwner(t) \/ AcquireLock(t) \/ ReadMembers(t) \/ ReadReady(t)
  BY <1>0, <1>3
     DEF Submit, CheckOwner, AcquireLock, ReadMembers, ReadReady, Goto, AnswerAt
<1>4. CASE ReadConfig(t) \/ ReadInfo(t)
  BY <1>0, <1>1, <1>4 DEF ReadConfig, ReadInfo, AfterInfo, Goto
<1>5. CASE RecordAndAnnounce(t) \/ TouchActivity(t) \/ SaveState(t) \/ ReleaseLock(t)
  BY <1>0, <1>5
     DEF RecordAndAnnounce, TouchActivity, SaveState, ReleaseLock, Goto, AnswerAt
<1> QED  BY <1>2, <1>3, <1>4, <1>5 DEF Step

LEMMA AnnouncesSomething ==
  ASSUME TypeOK, NEW t \in Spins, RecordAndAnnounce(t)
  PROVE  announced'[t] # Null
<1>1. PICK W \in Draws(seen[t]) :
        announced' = [announced EXCEPT ![t] = [active |-> seen[t].active, winners |-> W]]
  BY DEF RecordAndAnnounce
<1>2. [active |-> seen[t].active, winners |-> W] \in Announcements
  BY DEF TypeOK, Views, Draws, Announcements
<1> QED  BY <1>1, <1>2, NullAnnouncementAssumption DEF TypeOK

\* What was announced stays announced.
LEMMA AnnouncementsStay ==
  ASSUME TypeOK, [Next]_vars, NEW u \in Spins, announced[u] # Null
  PROVE  announced'[u] # Null
<1>1. CASE announced' = announced
  BY <1>1
<1>2. ASSUME NEW t \in Spins, RecordAndAnnounce(t) PROVE announced'[u] # Null
  <2>1. CASE u = t
    BY <1>2, <2>1, AnnouncesSomething
  <2>2. CASE u # t
    BY <1>2, <2>2 DEF RecordAndAnnounce, TypeOK
  <2> QED  BY <2>1, <2>2
<1> QED
  BY <1>1, <1>2
     DEF Next, Run, Step, Fault, Submit, CheckOwner, CheckIdempotency,
         AcquireLock, ReadMembers, ReadReady, ReadConfig, ReadInfo,
         TouchActivity, SaveState, ReleaseLock, CommandFails, ReplyLost,
         LoseInfo, Crash, NothingAnnounced, spinVars, vars

LEMMA BackedStep == TypeOK /\ Backed /\ [Next]_vars => Backed'
<1> SUFFICES ASSUME TypeOK, Backed, [Next]_vars, faults' = 0
             PROVE  /\ \A k \in Rooms \X Requests : idem'[k] # Null =>
                         \E u \in Spins : KeyOf(u)' = k /\ announced'[u] # Null
                    /\ ReplayIsOfAnnounced'
  BY DEF Backed
<1>0. /\ \A u \in Spins : KeyOf(u)' = KeyOf(u) /\ KeyOf(u) \in Rooms \X Requests
      /\ idem \in [Rooms \X Requests -> Spins \cup {Null}]
      /\ \A t, u \in Spins : SameRequest(t, u) <=> KeyOf(t) = KeyOf(u)
      /\ \A t, u \in Spins : SameRequest(t, u)' <=> KeyOf(t) = KeyOf(u)
  BY KeysAreKeys
     DEF TypeOK, RedisTypeOK, Next, Run, spinVars, vars, KeyOf, RoomOf, SameRequest
<1>1. /\ faults = 0
      /\ \/ \E t \in Spins : Step(t)
         \/ (Other \/ OtherDeletes \/ Expire) /\ UNCHANGED spinVars
         \/ UNCHANGED vars
  BY DEF TypeOK, Next, Run, vars
<1>2. /\ \A k \in Rooms \X Requests : idem[k] # Null =>
           \E u \in Spins : KeyOf(u) = k /\ announced[u] # Null
      /\ \A t \in Spins : answer[t] = "IDEMPOTENT_REPLAY" =>
           \E u \in Spins : KeyOf(t) = KeyOf(u) /\ announced[u] # Null
  BY <1>0, <1>1 DEF Backed, ReplayIsOfAnnounced
<1>3. \A k \in Rooms \X Requests : idem'[k] # Null =>
        \E u \in Spins : KeyOf(u)' = k /\ announced'[u] # Null
  <2> SUFFICES ASSUME NEW k \in Rooms \X Requests, idem'[k] # Null
               PROVE  \E u \in Spins : KeyOf(u) = k /\ announced'[u] # Null
    BY <1>0
  <2>1. CASE idem[k] # Null
    BY <1>2, <2>1, AnnouncementsStay
  <2>2. CASE idem[k] = Null
    <3>1. PICK t \in Spins : Step(t)
      BY <1>0, <1>1, <2>2, EnvironmentRecordsNothing DEF vars, redisVars
    <3>2. k = KeyOf(t) /\ RecordAndAnnounce(t)
      BY <1>0, <2>2, <3>1, WhichStepRecords
    <3> QED  BY <3>2, AnnouncesSomething
  <2> QED  BY <2>1, <2>2
<1>4. ReplayIsOfAnnounced'
  <2> SUFFICES ASSUME NEW t \in Spins, answer'[t] = "IDEMPOTENT_REPLAY"
               PROVE  \E u \in Spins : KeyOf(t) = KeyOf(u) /\ announced'[u] # Null
    BY <1>0 DEF ReplayIsOfAnnounced
  <2>1. answer[t] = "IDEMPOTENT_REPLAY" \/ idem[KeyOf(t)] # Null
    BY <1>1, WhoRefusesReplays DEF vars, spinVars
  <2> QED  BY <1>0, <1>2, <2>1, AnnouncementsStay
<1> QED  BY <1>3, <1>4

\* When nothing failed, a client is told IDEMPOTENT_REPLAY only about a spin
\* that everybody was shown.
THEOREM ReplaysWereAnnounced == Spec => []ReplayIsOfAnnounced
<1>1. Init => Backed
  BY DEF Init, InitRedis, Backed, ReplayIsOfAnnounced
<1>2. Backed => ReplayIsOfAnnounced
  BY DEF Backed, ReplayIsOfAnnounced
<1> QED  BY <1>1, <1>2, BackedStep, TypeCorrect, PTL DEF Spec
-----------------------------------------------------------------------------
(***************************************************************************)
(* room:state is the spin announced last.  It is stored two commands after *)
(* the announcement, so that LatestSpinShown says nothing of the time in   *)
(* between; Shown does.                                                    *)
(***************************************************************************)
\* Announced, and not stored yet.
Storing(t) == pc[t] \in {"activity", "state"}

NoneOverran(r) == \A t \in Spins : RoomOf(t) = r => t \notin overrun

StateIsLatest(r) ==
  \/ roomState[r] = latest[r]
  \/ roomState[r] = Null /\ others > 0

\* Without faults and overruns, the one call that is storing announced last,
\* and when none is, the state is the latest spin.
Shown ==
  faults = 0 => \A r \in Rooms : NoneOverran(r) =>
    /\ \A t \in Spins : RoomOf(t) = r /\ Storing(t) => latest[r] = t
    /\ (\A t \in Spins : RoomOf(t) = r => ~Storing(t)) => StateIsLatest(r)

LEMMA StoringIsCritical == \A t \in Spins : Storing(t) => Critical(t)
  BY DEF Storing, Critical, TryBlock

\* The steps that neither announce nor store.
LEMMA OthersStoreNothing ==
  ASSUME TypeOK, NEW t \in Spins, Step(t), ~RecordAndAnnounce(t), ~SaveState(t)
  PROVE  /\ UNCHANGED <<roomState, latest>>
         /\ \A u \in Spins : Storing(u)' = Storing(u)
<1>0. pc \in [Spins -> Locations]
  BY DEF TypeOK
<1>1. ASSUME NEW v, Decide(t, v), pc[t] \in {"config", "info"}
      PROVE  \A u \in Spins : Storing(u)' = Storing(u)
  BY <1>0, <1>1 DEF Decide, LeaveTry, Goto, AnswerAt, Storing
<1>2. CASE Submit(t) \/ CheckOwner(t) \/ CheckIdempotency(t)
  BY <1>0, <1>2
     DEF Submit, CheckOwner, CheckIdempotency, Goto, AnswerAt, Storing,
         NothingAnnounced, redisVars
<1>3. CASE AcquireLock(t)
  BY <1>0, <1>3
     DEF AcquireLock, AcquireSpinLock, SetLock, Goto, AnswerAt, Storing,
         NothingAnnounced, redisVars
<1>4. CASE ReadMembers(t) \/ ReadReady(t)
  BY <1>0, <1>4
     DEF ReadMembers, ReadReady, Goto, Storing, NothingAnnounced, redisVars
<1>5. CASE ReadConfig(t) \/ ReadInfo(t)
  BY <1>0, <1>1, <1>5
     DEF ReadConfig, ReadInfo, AfterInfo, Goto, Storing, NothingAnnounced, redisVars
<1>6. CASE TouchActivity(t)
  BY <1>0, <1>6 DEF TouchActivity, Goto, Storing, NothingAnnounced, redisVars
<1>7. CASE ReleaseLock(t)
  BY <1>0, <1>7
     DEF ReleaseLock, ReleaseSpinLock, SetLock, Goto, Storing,
         NothingAnnounced, redisVars
<1> QED  BY <1>2, <1>3, <1>4, <1>5, <1>6, <1>7 DEF Step

\* Other commands: only a deleteRoom touches the state, and clears it.
LEMMA EnvironmentStoresNothing ==
  ASSUME TypeOK, NEW r \in Rooms,
         \/ (Other \/ OtherDeletes) /\ others' = others + 1
         \/ Expire /\ UNCHANGED others
  PROVE  /\ roomState'[r] = roomState[r] \/ (roomState'[r] = Null /\ others' > 0)
         /\ overrun \subseteq overrun'
         /\ others' \in Nat /\ others' >= others
<1>0. others \in Nat
  BY BoundAssumption DEF TypeOK
<1>1. CASE Other /\ others' = others + 1
  BY <1>0, <1>1
     DEF Other, RoomCommand, AddRoomMember, RemoveRoomMember,
         SetParticipantReady, RemoveParticipantReady, RemoveSocketInfo,
         SetSocketInfo, SetRoomConfig, SetRoomOwner, ClearRoomOwner
<1>2. CASE OtherDeletes /\ others' = others + 1
  <2>1. PICK s \in Rooms, k \in DeletedKeys :
          /\ DeleteRoomKey(s, k)
          /\ overrun' = IF k = "lock" THEN overrun \cup ({spinLock[s]} \ {Null})
                                      ELSE overrun
    BY <1>2 DEF OtherDeletes
  <2>2. roomState'[r] = roomState[r] \/ roomState'[r] = Null
    BY <2>1 DEF DeleteRoomKey, TypeOK, RedisTypeOK
  <2>3. overrun \subseteq overrun'
    BY <2>1
  <2>4. others' > 0 /\ others' \in Nat /\ others' >= others
    BY <1>0, <1>2
  <2> QED  BY <2>2, <2>3, <2>4
<1>3. CASE Expire /\ UNCHANGED others
  <2>1. roomState' = roomState /\ overrun \subseteq overrun'
    BY <1>3
       DEF Expire, LockExpires, SpinLockExpires, SetLock, RequestForgotten,
           IdempotencyExpires
  <2> QED  BY <1>0, <1>3, <2>1
<1> QED  BY <1>1, <1>2, <1>3

LEMMA ShownStep == TypeOK /\ MutualExclusion /\ Shown /\ [Next]_vars => Shown'
<1> SUFFICES ASSUME TypeOK, MutualExclusion, Shown, [Next]_vars, faults' = 0,
                    NEW r \in Rooms, NoneOverran(r)'
             PROVE  /\ \A t \in Spins : RoomOf(t)' = r /\ Storing(t)' => latest'[r] = t
                    /\ (\A t \in Spins : RoomOf(t)' = r => ~Storing(t)') => StateIsLatest(r)'
  BY DEF Shown
<1>0. /\ \A t \in Spins : RoomOf(t)' = RoomOf(t) /\ RoomOf(t) \in Rooms
      /\ pc \in [Spins -> Locations] /\ latest \in [Rooms -> Spins \cup {Null}]
      /\ roomState \in [Rooms -> Spins \cup {Null}]
      /\ others \in Nat
  BY BoundAssumption
     DEF TypeOK, RedisTypeOK, RequestData, Next, Run, spinVars, vars, RoomOf
<1>1. /\ faults = 0
      /\ \/ \E t \in Spins : Step(t) /\ UNCHANGED <<others, overrun>>
         \/ /\ \/ (Other \/ OtherDeletes) /\ others' = others + 1
               \/ Expire /\ UNCHANGED others
            /\ UNCHANGED <<pc, latest>>
         \/ UNCHANGED vars
  BY DEF TypeOK, Next, Run, vars, spinVars
<1>2. ASSUME NoneOverran(r)
      PROVE  /\ \A t \in Spins : RoomOf(t) = r /\ Storing(t) => latest[r] = t
             /\ (\A t \in Spins : RoomOf(t) = r => ~Storing(t)) => StateIsLatest(r)
  BY <1>1, <1>2 DEF Shown
<1>3. ASSUME NEW t \in Spins, Step(t), UNCHANGED <<others, overrun>>
      PROVE  /\ \A u \in Spins : RoomOf(u)' = r /\ Storing(u)' => latest'[r] = u
             /\ (\A u \in Spins : RoomOf(u)' = r => ~Storing(u)') => StateIsLatest(r)'
  <2>0. NoneOverran(r)
    BY <1>0, <1>3 DEF NoneOverran
  <2>1. CASE RecordAndAnnounce(t)
    <3>1. /\ pc' = [pc EXCEPT ![t] = "activity"]
          /\ latest' = [latest EXCEPT ![RoomOf(t)] = t]
          /\ UNCHANGED roomState /\ pc[t] = "setIdem"
      BY <2>1 DEF RecordAndAnnounce, SetIdempotency, Goto
    <3>2. CASE RoomOf(t) = r
      <4>1. \A u \in Spins : u # t /\ RoomOf(u) = r => ~Storing(u)
        BY <2>0, <3>1, <3>2, StoringIsCritical
           DEF MutualExclusion, NoneOverran, Critical, TryBlock
      <4>2. \A u \in Spins : u # t /\ RoomOf(u) = r => ~Storing(u)'
        BY <1>0, <3>1, <4>1 DEF Storing
      <4>3. Storing(t)' /\ latest'[r] = t
        BY <1>0, <3>1, <3>2 DEF Storing
      <4> QED  BY <1>0, <3>2, <4>2, <4>3
    <3>3. CASE RoomOf(t) # r
      <4>1. \A u \in Spins : RoomOf(u) = r => (Storing(u)' <=> Storing(u))
        BY <1>0, <3>1, <3>3 DEF Storing
      <4>2. latest'[r] = latest[r] /\ roomState'[r] = roomState[r]
        BY <1>0, <3>1, <3>3
      <4> QED  BY <1>0, <1>2, <1>3, <2>0, <4>1, <4>2 DEF StateIsLatest
    <3> QED  BY <3>2, <3>3
  <2>2. CASE SaveState(t)
    <3>1. /\ pc' = [pc EXCEPT ![t] = "release"]
          /\ roomState' = [roomState EXCEPT ![RoomOf(t)] = t]
          /\ UNCHANGED latest /\ Storing(t)
      BY <2>2 DEF SaveState, SetRoomState, AnswerAt, NothingAnnounced, Storing
    <3>2. CASE RoomOf(t) = r
      <4>1. latest'[r] = t /\ roomState'[r] = t
        BY <1>0, <1>2, <2>0, <3>1, <3>2
      <4>2. \A u \in Spins : RoomOf(u) = r /\ Storing(u)' => Storing(u)
        BY <1>0, <3>1 DEF Storing
      <4> QED  BY <1>0, <1>2, <2>0, <3>1, <4>1, <4>2 DEF StateIsLatest
    <3>3. CASE RoomOf(t) # r
      <4>1. \A u \in Spins : RoomOf(u) = r => (Storing(u)' <=> Storing(u))
        BY <1>0, <3>1, <3>3 DEF Storing
      <4>2. latest'[r] = latest[r] /\ roomState'[r] = roomState[r]
        BY <1>0, <3>1, <3>3
      <4> QED  BY <1>0, <1>2, <1>3, <2>0, <4>1, <4>2 DEF StateIsLatest
    <3> QED  BY <3>2, <3>3
  <2>3. CASE ~RecordAndAnnounce(t) /\ ~SaveState(t)
    <3>1. UNCHANGED <<roomState, latest>> /\ \A u \in Spins : Storing(u)' = Storing(u)
      BY <1>3, <2>3, OthersStoreNothing
    <3> QED  BY <1>0, <1>2, <1>3, <2>0, <3>1 DEF StateIsLatest
  <2> QED  BY <2>1, <2>2, <2>3
<1>4. CASE /\ \/ (Other \/ OtherDeletes) /\ others' = others + 1
              \/ Expire /\ UNCHANGED others
           /\ UNCHANGED <<pc, latest>>
  <2>1. /\ roomState'[r] = roomState[r] \/ (roomState'[r] = Null /\ others' > 0)
        /\ overrun \subseteq overrun'
        /\ others' \in Nat /\ others' >= others
    BY <1>4, EnvironmentStoresNothing
  <2>2. NoneOverran(r)
    BY <1>0, <1>4, <2>1 DEF NoneOverran
  <2> QED  BY <1>0, <1>2, <1>4, <2>1, <2>2 DEF StateIsLatest, Storing
<1>5. CASE UNCHANGED vars
  <2>1. UNCHANGED <<pc, req, overrun, roomState, latest, others>>
    BY <1>5 DEF vars, spinVars, redisVars, historyVars
  <2>2. NoneOverran(r)
    BY <1>0, <2>1 DEF NoneOverran
  <2> QED  BY <1>0, <1>2, <2>1, <2>2 DEF StateIsLatest, Storing
<1> QED  BY <1>1, <1>3, <1>4, <1>5

\* Between spins, when none failed or overran its lock, a client that joins is
\* shown the spin the room saw last, in whatever order two spins announced and
\* stored it; after a deleteRoom it may be shown none.
THEOREM LatestIsShown == Spec => []LatestSpinShown
<1>1. Init => Shown
  BY DEF Init, InitRedis, Shown, Storing, StateIsLatest
<1>2. Shown => LatestSpinShown
  <2> SUFFICES ASSUME Shown, NEW r \in Rooms, faults = 0,
                      \A t \in Spins : RoomOf(t) = r => ~Critical(t) /\ t \notin overrun
               PROVE  roomState[r] = latest[r] \/ (roomState[r] = Null /\ others > 0)
    BY DEF LatestSpinShown
  <2>1. NoneOverran(r) /\ \A t \in Spins : RoomOf(t) = r => ~Storing(t)
    BY StoringIsCritical DEF NoneOverran
  <2> QED  BY <2>1 DEF Shown, StateIsLatest
<1> QED  BY <1>1, <1>2, ShownStep, TypeCorrect, SpinsExclude, PTL DEF Spec
-----------------------------------------------------------------------------
(***************************************************************************)
(* Spin implements SpinContract.  The refinement mapping reads pc, overrun *)
(* and announced.  Two facts make its steps legal: LockHeld (nobody begins *)
(* while another has its turn) and Prepared (an announcement is the first  *)
(* of its call and comes from a verdict "ok", so it is for somebody).       *)
(***************************************************************************)
Asking == {"idle", "owner", "idem", "lock"}
BeforeAnnouncement == Asking \cup {"members", "ready", "config", "info", "setIdem"}

\* A call has announced nothing before RecordAndAnnounce, reaches it only with
\* the verdict "ok", and has no lock before it asked for it.
Prepared ==
  \A t \in Spins :
    /\ pc[t] \in BeforeAnnouncement => announced[t] = Null
    /\ pc[t] = "setIdem" => Verdict(seen[t]) = "ok"
    /\ pc[t] \in Asking => \A r \in Rooms : spinLock[r] # t

LEMMA DecideGoes ==
  ASSUME TypeOK, NEW t \in Spins, NEW v, Decide(t, v)
  PROVE  \/ pc'[t] = "setIdem" /\ Verdict(v) = "ok" /\ seen'[t] = v
         \/ pc'[t] = "release"
  BY DEF Decide, See, Goto, LeaveTry, AnswerAt, TypeOK

\* Where the next command of a call can be, after a step or a fault.
LEMMA Whereto ==
  ASSUME TypeOK, NEW t \in Spins, Step(t) \/ Fault(t)
  PROVE  /\ pc'[t] \in BeforeAnnouncement => pc[t] \in BeforeAnnouncement
         /\ pc'[t] \in Asking => pc[t] \in Asking \ {"lock"}
         /\ pc'[t] = "setIdem" => Verdict(seen'[t]) = "ok"
<1>0. pc \in [Spins -> Locations] /\ seen \in [Spins -> Views]
  BY DEF TypeOK
<1>1. CASE Submit(t) \/ CheckOwner(t) \/ CheckIdempotency(t) \/ AcquireLock(t)
  BY <1>0, <1>1
     DEF Submit, CheckOwner, CheckIdempotency, AcquireLock, Goto, AnswerAt,
         BeforeAnnouncement, Asking
<1>2. CASE ReadMembers(t) \/ ReadReady(t)
  BY <1>0, <1>2 DEF ReadMembers, ReadReady, Goto, BeforeAnnouncement, Asking
<1>3. CASE ReadConfig(t)
  BY <1>0, <1>3, DecideGoes DEF ReadConfig, Goto, BeforeAnnouncement, Asking
<1>4. CASE ReadInfo(t) \/ LoseInfo(t)
  BY <1>0, <1>4, DecideGoes
     DEF ReadInfo, LoseInfo, AfterInfo, BeforeAnnouncement, Asking
<1>5. CASE RecordAndAnnounce(t) \/ TouchActivity(t) \/ SaveState(t)
             \/ ReleaseLock(t) \/ Crash(t)
  BY <1>0, <1>5
     DEF RecordAndAnnounce, TouchActivity, SaveState, ReleaseLock, Crash, Goto,
         AnswerAt, BeforeAnnouncement, Asking
<1>6. CASE CommandFails(t) \/ ReplyLost(t)
  <2>1. Rejected(t) /\ pc[t] \in Locations \ {"idle", "info", "done", "crashed"}
    BY <1>6 DEF CommandFails, ReplyLost, Locations
  <2>2. CASE pc[t] \in {"owner", "idem", "lock", "release"}
    BY <1>0, <2>1, <2>2 DEF Rejected, AnswerAt, TryBlock, BeforeAnnouncement, Asking
  <2>3. CASE pc[t] = "ready"
    BY <1>0, <2>1, <2>3 DEF Rejected, Goto, TryBlock, BeforeAnnouncement, Asking
  <2>4. CASE pc[t] \in TryBlock \ {"ready", "info"}
    BY <1>0, <2>1, <2>4
       DEF Rejected, LeaveTry, AnswerAt, TryBlock, BeforeAnnouncement, Asking
  <2> QED  BY <2>1, <2>2, <2>3, <2>4 DEF Locations, TryBlock
<1> QED
  BY <1>1, <1>2, <1>3, <1>4, <1>5, <1>6 DEF Step, Fault

\* A lock comes to name a call only by that call's own acquisition.
LEMMA WhoLocks ==
  ASSUME TypeOK, NEW t \in Spins, Step(t) \/ Fault(t),
         NEW u \in Spins, NEW r \in Rooms, spinLock'[r] = u
  PROVE  spinLock[r] = u \/ (u = t /\ pc[t] = "lock")
<1>0. RoomOf(t) \in Rooms /\ spinLock \in [Rooms -> Spins \cup {Null}] /\ u # Null
  BY NullAssumption DEF TypeOK, RoomOf, RequestData, RedisTypeOK
<1>1. CASE AcquireSpinLock(RoomOf(t), t) /\ pc[t] = "lock"
  BY <1>0, <1>1 DEF AcquireSpinLock, SetLock, redisVars
<1>2. CASE ReleaseSpinLock(RoomOf(t), t)
  BY <1>0, <1>2 DEF ReleaseSpinLock, SetLock, redisVars
<1>3. CASE UNCHANGED spinLock
  BY <1>3
<1>4. CASE ReplyLost(t)
  BY <1>1, <1>2, <1>3, <1>4 DEF ReplyLost, SetIdempotency, SetRoomState
<1>5. CASE AcquireLock(t) \/ ReleaseLock(t)
  BY <1>1, <1>2, <1>5 DEF AcquireLock, ReleaseLock
<1> QED  BY <1>3, <1>4, <1>5, LockUntouched

LEMMA EnvironmentLocksNobody ==
  ASSUME TypeOK, Other \/ OtherDeletes \/ Expire,
         NEW u \in Spins, NEW r \in Rooms, spinLock'[r] = u
  PROVE  spinLock[r] = u
<1>0. spinLock \in [Rooms -> Spins \cup {Null}] /\ u # Null
  BY NullAssumption DEF TypeOK, RedisTypeOK
<1>1. CASE Other
  BY <1>1
     DEF Other, RoomCommand, AddRoomMember, RemoveRoomMember,
         SetParticipantReady, RemoveParticipantReady, RemoveSocketInfo,
         SetSocketInfo, SetRoomConfig, SetRoomOwner, ClearRoomOwner
<1>2. CASE OtherDeletes
  BY <1>0, <1>2 DEF OtherDeletes, DeleteRoomKey
<1>3. CASE Expire
  BY <1>0, <1>3
     DEF Expire, LockExpires, SpinLockExpires, SetLock, RequestForgotten,
         IdempotencyExpires
<1> QED  BY <1>1, <1>2, <1>3

\* Which steps take a call out of its critical section.
LEMMA WaysOut ==
  ASSUME TypeOK, NEW t \in Spins, Step(t) \/ Fault(t), Critical(t), ~Critical(t)'
  PROVE  /\ Step(t) => ReleaseLock(t)
         /\ Fault(t) => pc'[t] = "crashed" \/ pc[t] = "release"
<1>0. pc \in [Spins -> Locations]
  BY DEF TypeOK
<1>1. ~(Submit(t) \/ CheckOwner(t) \/ CheckIdempotency(t) \/ AcquireLock(t))
  BY DEF Submit, CheckOwner, CheckIdempotency, AcquireLock, Critical, TryBlock
<1>2. ~(ReadMembers(t) \/ ReadReady(t) \/ RecordAndAnnounce(t) \/ TouchActivity(t)
         \/ SaveState(t))
  BY <1>0
     DEF ReadMembers, ReadReady, RecordAndAnnounce, TouchActivity, SaveState, Goto,
         AnswerAt, Critical, TryBlock
<1>3. ASSUME NEW v, Decide(t, v) PROVE FALSE
  BY <1>0, <1>3 DEF Decide, LeaveTry, Goto, AnswerAt, Critical, TryBlock
<1>4. ~ReadConfig(t)
  BY <1>0, <1>3 DEF ReadConfig, Goto, Critical, TryBlock
<1>5. ASSUME NEW v, AfterInfo(t, v) PROVE FALSE
  BY <1>3, <1>5 DEF AfterInfo, Critical
<1>6. ~(ReadInfo(t) \/ LoseInfo(t))
  BY <1>5 DEF ReadInfo, LoseInfo
<1>7. ASSUME CommandFails(t) \/ ReplyLost(t) PROVE pc[t] = "release"
  <2>1. Rejected(t)
    BY <1>7 DEF CommandFails, ReplyLost
  <2>2. CASE pc[t] = "ready"
    BY <1>0, <2>1, <2>2 DEF Rejected, Goto, Critical, TryBlock
  <2>3. CASE pc[t] \in TryBlock \ {"ready", "info"}
    BY <1>0, <2>1, <2>3 DEF Rejected, LeaveTry, AnswerAt, Critical, TryBlock
  <2>4. pc[t] # "info"
    BY <1>7 DEF CommandFails, ReplyLost
  <2> QED  BY <2>2, <2>3, <2>4 DEF Critical
<1>8. Crash(t) => pc'[t] = "crashed"
  BY <1>0 DEF Crash, Goto
<1> QED  BY <1>1, <1>2, <1>4, <1>6, <1>7, <1>8 DEF Step, Fault

\* One call's step strands a lock only when it crashes, or fails at the lock.
LEMMA StrandedByFault ==
  ASSUME TypeOK, NEW t \in Spins, Step(t) \/ Fault(t), UNCHANGED req,
         NEW r \in Rooms, Stranded(r)', ~Stranded(r)
  PROVE  /\ ~Step(t) /\ spinLock'[r] = t
         /\ pc'[t] = "crashed" \/ pc[t] \in {"lock", "release"}
<1>0. /\ pc \in [Spins -> Locations] /\ spinLock \in [Rooms -> Spins \cup {Null}]
      /\ RoomOf(t) \in Rooms
  BY DEF TypeOK, RedisTypeOK, RoomOf, RequestData
<1>1. /\ spinLock'[r] # Null
      /\ ~(/\ pc'[spinLock'[r]] \in TryBlock \cup {"release"}
           /\ req'[spinLock'[r]].roomId = r)
  BY DEF Stranded, Critical, RoomOf
<1>2. spinLock'[r] \in Spins
  <2>1. spinLock' \in [Rooms -> Spins \cup {Null}]
    BY StepIsTyped, FaultIsTyped DEF RedisTypeOK
  <2> QED  BY <1>1, <2>1
<1>3. PICK u \in Spins : spinLock'[r] = u
  BY <1>2
<1>4. ~(Critical(u)' /\ RoomOf(u) = r)
  BY <1>1, <1>3 DEF Critical, RoomOf
<1>5. CASE spinLock[r] = u
  <2>1. Critical(u) /\ RoomOf(u) = r
    BY <1>5, NullAssumption DEF Stranded
  <2>2. ~Critical(u)'
    BY <1>4, <2>1
  <2>3. u = t
    BY <2>1, <2>2, OneCallMoves DEF Critical
  <2>4. ~ReleaseLock(t)
    <3>1. SUFFICES ASSUME ReleaseLock(t) PROVE spinLock'[r] # t
      BY <1>3, <2>3
    <3> QED
      BY <1>0, <1>5, <2>1, <2>3, <3>1, NullAssumption
         DEF ReleaseLock, ReleaseSpinLock, SetLock
  <2> QED  BY <1>3, <2>1, <2>2, <2>3, <2>4, WaysOut
<1>6. CASE spinLock[r] # u
  <2>1. u = t /\ pc[t] = "lock"
    BY <1>3, <1>6, WhoLocks
  <2>2. ~AcquireLock(t)
    <3>1. SUFFICES ASSUME AcquireLock(t) PROVE FALSE
      OBVIOUS
    <3>2. LockIsFree(RoomOf(t)) /\ RoomOf(t) = r
      BY <1>0, <1>3, <1>6, <2>1, <3>1 DEF AcquireLock, AcquireSpinLock, SetLock, redisVars
    <3>3. Critical(t)'
      BY <1>0, <3>1, <3>2 DEF AcquireLock, Goto, Critical, TryBlock
    <3> QED  BY <1>4, <2>1, <3>2, <3>3
  <2>3. Step(t) => AcquireLock(t)
    BY <2>1
       DEF Step, Submit, CheckOwner, CheckIdempotency, ReadMembers, ReadReady, ReadConfig,
           ReadInfo, RecordAndAnnounce, TouchActivity, SaveState, ReleaseLock
  <2> QED  BY <1>3, <2>1, <2>2, <2>3
<1> QED  BY <1>5, <1>6

\* Nobody else strands a lock.
LEMMA NotStrandedElsewhere ==
  ASSUME TypeOK, UNCHANGED <<pc, req>>,
         (Other \/ OtherDeletes \/ Expire) \/ UNCHANGED vars,
         NEW r \in Rooms, ~Stranded(r)
  PROVE  ~Stranded(r)'
<1>0. spinLock \in [Rooms -> Spins \cup {Null}]
  BY DEF TypeOK, RedisTypeOK
<1>1. spinLock'[r] \in {spinLock[r], Null}
  <2>1. spinLock' \in [Rooms -> Spins \cup {Null}]
    BY <1>0, EnvironmentIsTyped DEF RedisTypeOK, vars, redisVars
  <2>2. CASE Other \/ OtherDeletes \/ Expire
    BY <2>1, <2>2, EnvironmentLocksNobody
  <2>3. CASE UNCHANGED vars
    BY <2>3 DEF vars, redisVars
  <2> QED  BY <2>2, <2>3
<1> QED  BY <1>1 DEF Stranded, Critical, RoomOf

\* Every way out of the critical section gives the lock back, except a crash and
\* a failing release; and only the acquisition whose reply is lost takes a lock
\* without entering it.
THEOREM LocksAreGivenBack == Spec => LocksAreReleased
<1>1. TypeOK /\ [Next]_vars
      => [\A r \in Rooms : Stranded(r)' /\ ~Stranded(r) =>
            LET t == spinLock'[r]
            IN  /\ faults' > faults
                /\ pc'[t] = "crashed" \/ pc[t] \in {"lock", "release"}]_vars
  <2> SUFFICES ASSUME TypeOK, [Next]_vars, NEW r \in Rooms, Stranded(r)', ~Stranded(r)
               PROVE  /\ faults' > faults
                      /\ \/ pc'[spinLock'[r]] = "crashed"
                         \/ pc[spinLock'[r]] \in {"lock", "release"}
    OBVIOUS
  <2>1. faults \in Nat
    BY BoundAssumption DEF TypeOK
  <2>2. ASSUME NEW t \in Spins, Run(t) PROVE FALSE
    <3>1. Step(t) /\ UNCHANGED req
      BY <2>2 DEF Run
    <3> QED  BY <3>1, StrandedByFault
  <2>3. ASSUME NEW t \in Spins, Fault(t), UNCHANGED req, faults' = faults + 1
        PROVE  /\ faults' > faults
               /\ \/ pc'[spinLock'[r]] = "crashed"
                  \/ pc[spinLock'[r]] \in {"lock", "release"}
    BY <2>1, <2>3, StrandedByFault
  <2>4. CASE (Other \/ OtherDeletes \/ Expire) /\ UNCHANGED spinVars
    BY <2>4, NotStrandedElsewhere DEF spinVars
  <2>5. CASE UNCHANGED vars
    BY <2>5, NotStrandedElsewhere DEF vars, spinVars
  <2> QED  BY <2>2, <2>3, <2>4, <2>5 DEF Next
<1> QED  BY <1>1, TypeCorrect, PTL DEF Spec, LocksAreReleased

LEMMA PreparedStep == TypeOK /\ Prepared /\ [Next]_vars => Prepared'
<1> SUFFICES ASSUME TypeOK, Prepared, [Next]_vars, NEW u \in Spins
             PROVE  /\ pc'[u] \in BeforeAnnouncement => announced'[u] = Null
                    /\ pc'[u] = "setIdem" => Verdict(seen'[u]) = "ok"
                    /\ pc'[u] \in Asking => \A r \in Rooms : spinLock'[r] # u
  BY DEF Prepared, Verdict
<1>0. /\ pc[u] \in BeforeAnnouncement => announced[u] = Null
      /\ pc[u] = "setIdem" => Verdict(seen[u]) = "ok"
      /\ pc[u] \in Asking => \A r \in Rooms : spinLock[r] # u
      /\ pc \in [Spins -> Locations]
      /\ announced \in [Spins -> Announcements \cup {Null}]
  BY DEF Prepared, TypeOK
<1>1. pc'[u] \in BeforeAnnouncement => announced'[u] = Null
  <2> SUFFICES ASSUME pc'[u] \in BeforeAnnouncement, announced'[u] # Null PROVE FALSE
    OBVIOUS
  <2>1. pc[u] \in BeforeAnnouncement
    BY <1>0, Whereto, OneCallMoves DEF Next, Run, spinVars, vars
  <2>2. RecordAndAnnounce(u)
    BY <1>0, <2>1, WhoAnnounces DEF Announces
  <2> QED  BY <1>0, <2>2 DEF RecordAndAnnounce, Goto, BeforeAnnouncement, Asking
<1>2. pc'[u] = "setIdem" => Verdict(seen'[u]) = "ok"
  <2>1. CASE \E t \in Spins : Step(t) \/ Fault(t)
    BY <1>0, <2>1, Whereto, OneCallMoves
  <2>2. CASE UNCHANGED <<pc, seen>>
    BY <1>0, <2>2
  <2> QED  BY <2>1, <2>2 DEF Next, Run, spinVars, vars
<1>3. pc'[u] \in Asking => \A r \in Rooms : spinLock'[r] # u
  <2>1. ASSUME NEW t \in Spins, Step(t) \/ Fault(t), pc'[u] \in Asking, NEW r \in Rooms
        PROVE  spinLock'[r] # u
    <3>1. pc[u] \in Asking /\ (u = t => pc[t] # "lock")
      BY <2>1, Whereto, OneCallMoves
    <3> QED  BY <1>0, <2>1, <3>1, WhoLocks
  <2>2. CASE (Other \/ OtherDeletes \/ Expire) /\ UNCHANGED pc
    BY <1>0, <2>2, EnvironmentLocksNobody
  <2>3. CASE UNCHANGED vars
    BY <1>0, <2>3 DEF vars, redisVars, spinVars
  <2> QED  BY <2>1, <2>2, <2>3 DEF Next, Run, spinVars
<1> QED  BY <1>1, <1>2, <1>3

LEMMA PreparedAlways == Spec => []Prepared
<1>1. Init => Prepared
  BY NullAssumption DEF Init, InitRedis, Prepared, BeforeAnnouncement, Asking
<1> QED  BY <1>1, PreparedStep, TypeCorrect, PTL DEF Spec

\* What is drawn out of a verdict "ok" is an outcome of the contract.
LEMMA DrawsAreOutcomes ==
  ASSUME NEW v \in Views, Verdict(v) = "ok", NEW W \in Draws(v)
  PROVE  [active |-> v.active, winners |-> W] \in Contract!Outcomes
<1>1. v.active # {} /\ v.active \subseteq Sockets /\ v.config \in WinnersCounts
  BY DEF Verdict, Views
<1>2. Contract!IsDraw(W, v.active, v.config) /\ W \subseteq Sockets
  BY <1>1 DEF Draws, Contract!IsDraw, Contract!Cardinality, Cardinality
<1> QED  BY <1>1, <1>2 DEF Contract!Outcomes

(***************************************************************************)
(* The refinement.                                                         *)
(***************************************************************************)
AbstractRoom == [t \in Spins |-> RoomOf(t)]
AbstractStage == [t \in Spins |-> Stage(pc[t])]

LEMMA Stages ==
  /\ \A l \in Asking : Stage(l) = "asked"
  /\ \A l \in TryBlock \cup {"release"} : Stage(l) = "running"
  /\ \A l \in {"done", "crashed"} : Stage(l) = "over"
  BY DEF Stage, Asking, TryBlock

\* The mapped variables stay as they are.
Stutters ==
  /\ AbstractRoom' = AbstractRoom /\ AbstractStage' = AbstractStage
  /\ UNCHANGED <<overrun, announced>>

LEMMA StutterMaps ==
  ASSUME Stutters PROVE UNCHANGED Contract!contractVars
  BY DEF Stutters, Contract!contractVars, AbstractRoom, AbstractStage

\* Only the stage of t changes: the shape of Begin, Refuse and End.
Moves(t, l) ==
  /\ AbstractRoom' = AbstractRoom
  /\ AbstractStage' = [AbstractStage EXCEPT ![t] = l]
  /\ UNCHANGED <<overrun, announced>>

LEMMA MoveMaps ==
  ASSUME NEW t \in Spins, NEW l, Moves(t, l)
  PROVE  Contract!Enter(t, l)
  BY DEF Moves, Contract!Enter, AbstractRoom, AbstractStage

\* A step or a fault of t moves t, and t alone.
LEMMA OneStageMoves ==
  ASSUME TypeOK, NEW t \in Spins, Step(t) \/ Fault(t),
         UNCHANGED <<req, overrun>>, UNCHANGED announced
  PROVE  Moves(t, Stage(pc'[t]))
<1>1. \A u \in Spins : u # t => pc'[u] = pc[u]
  BY OneCallMoves
<1>2. AbstractStage' = [AbstractStage EXCEPT ![t] = Stage(pc'[t])]
  BY <1>1 DEF AbstractStage
<1>3. AbstractRoom' = AbstractRoom
  BY DEF AbstractRoom, RoomOf
<1> QED  BY <1>2, <1>3 DEF Moves

\* How a stage can change.
LEMMA StageOrder ==
  ASSUME TypeOK, NEW t \in Spins, Step(t) \/ Fault(t)
  PROVE  /\ Stage(pc[t]) \in {"asked", "running"}
         /\ \/ Stage(pc'[t]) = Stage(pc[t])
            \/ Stage(pc'[t]) = "over"
            \/ Stage(pc'[t]) = "running" /\ AcquireLock(t) /\ LockIsFree(RoomOf(t))
<1>0. pc \in [Spins -> Locations] /\ pc[t] \in Locations
  BY DEF TypeOK
<1>1. pc[t] \notin {"done", "crashed"}
  BY DEF Step, Fault, Submit, CheckOwner, CheckIdempotency, AcquireLock,
         ReadMembers, ReadReady, ReadConfig, ReadInfo, RecordAndAnnounce,
         TouchActivity, SaveState, ReleaseLock, CommandFails, ReplyLost,
         LoseInfo, Crash
<1>2. Critical(t) <=> Stage(pc[t]) = "running"
  BY <1>0 DEF Critical, Stage, Locations, TryBlock
<1>3. pc'[t] \in Locations
  <2>1. CallTypeOK'
    BY StepIsTyped, FaultIsTyped
  <2> QED  BY <2>1 DEF CallTypeOK
<1>4. Stage(pc'[t]) = "running" => pc'[t] \in TryBlock \cup {"release"}
  BY <1>3 DEF Stage, Locations, TryBlock
<1>5. Stage(pc'[t]) = "asked" => pc'[t] \in Asking
  BY <1>3 DEF Stage, Locations, TryBlock, Asking
<1>6. Stage(pc[t]) \in {"asked", "running"} /\ Stage(pc'[t]) \in {"asked", "running", "over"}
  BY <1>0, <1>1, <1>3 DEF Stage, Locations, TryBlock
<1>7. CASE Stage(pc'[t]) = "asked"
  BY <1>5, <1>7, Whereto, Stages
<1>8. CASE Stage(pc'[t]) = "running" /\ ~AcquireLock(t)
  BY <1>2, <1>4, <1>6, <1>8, StepStaysOut DEF Critical
<1>9. CASE Stage(pc'[t]) = "running" /\ AcquireLock(t)
  <2>1. LockIsFree(RoomOf(t)) \/ pc'[t] = "done"
    BY <1>0, <1>9 DEF AcquireLock, AnswerAt
  <2> QED  BY <1>4, <1>6, <1>9, <2>1 DEF TryBlock
<1> QED  BY <1>6, <1>7, <1>8, <1>9

LEMMA AcquireMaps ==
  ASSUME TypeOK, LockHeld, NEW t \in Spins, AcquireLock(t), LockIsFree(RoomOf(t)),
         Moves(t, "running")
  PROVE  Contract!Begin(t)
<1>1. AbstractStage[t] = "asked"
  BY Stages DEF AcquireLock, AbstractStage, Asking
<1>2. ASSUME NEW u \in Spins, RoomOf(u) = RoomOf(t), Stage(pc[u]) = "running"
      PROVE  u \in overrun
  <2>1. Critical(u)
    BY <1>2 DEF TypeOK, Stage, Critical, Locations, TryBlock
  <2> QED  BY <1>2, <2>1, NullAssumption DEF LockHeld, LockIsFree
<1> QED
  BY <1>1, <1>2, MoveMaps DEF Contract!Begin, Contract!HasTurn, AbstractStage, AbstractRoom

LEMMA AnnounceMaps ==
  ASSUME TypeOK, Prepared, NEW t \in Spins, RecordAndAnnounce(t),
         UNCHANGED <<req, overrun>>
  PROVE  Contract!Announce(t)
<1>1. PICK W \in Draws(seen[t]) :
        announced' = [announced EXCEPT ![t] = [active |-> seen[t].active, winners |-> W]]
  BY DEF RecordAndAnnounce
<1>2. pc[t] = "setIdem" /\ pc'[t] = "activity" /\ seen[t] \in Views
  BY DEF RecordAndAnnounce, Goto, TypeOK
<1>3. announced[t] = Null /\ Verdict(seen[t]) = "ok"
  BY <1>2 DEF Prepared, BeforeAnnouncement
<1>4. [active |-> seen[t].active, winners |-> W] \in Contract!Outcomes
  BY <1>2, <1>3, DrawsAreOutcomes
<1>5. AbstractRoom' = AbstractRoom
  BY DEF AbstractRoom, RoomOf
<1>6. AbstractStage' = AbstractStage
  <2>1. \A u \in Spins : u # t => pc'[u] = pc[u]
    BY OneCallMoves DEF Step
  <2>2. Stage(pc'[t]) = Stage(pc[t])
    BY <1>2, Stages DEF TryBlock
  <2> QED  BY <2>1, <2>2 DEF AbstractStage
<1>7. AbstractStage[t] = "running"
  BY <1>2 DEF AbstractStage, Stage, TryBlock
<1> QED
  BY <1>1, <1>3, <1>4, <1>5, <1>6, <1>7
     DEF Contract!Announce, AbstractRoom, AbstractStage

LEMMA CallMaps ==
  ASSUME TypeOK, LockHeld, Prepared, NEW t \in Spins, Step(t) \/ Fault(t),
         UNCHANGED <<req, overrun>>
  PROVE  [Contract!Next]_Contract!contractVars
<1>1. CASE RecordAndAnnounce(t)
  BY <1>1, AnnounceMaps DEF Contract!Next
<1>2. CASE ~RecordAndAnnounce(t)
  <2>1. UNCHANGED announced
    BY <1>2
       DEF Step, Fault, Submit, CheckOwner, CheckIdempotency, AcquireLock,
           ReadMembers, ReadReady, ReadConfig, ReadInfo, TouchActivity,
           SaveState, ReleaseLock, CommandFails, ReplyLost, LoseInfo, Crash,
           NothingAnnounced
  <2>2. Moves(t, Stage(pc'[t]))
    BY <2>1, OneStageMoves
  <2>3. AbstractStage[t] = Stage(pc[t]) /\ AbstractStage \in [Spins -> {AbstractStage[u] : u \in Spins}]
    BY DEF AbstractStage
  <2>4. CASE Stage(pc'[t]) = Stage(pc[t])
    BY <2>2, <2>3, <2>4, StutterMaps DEF Moves, Stutters
  <2>5. CASE Stage(pc'[t]) = "over" /\ Stage(pc[t]) \in {"asked", "running"}
    BY <2>2, <2>3, <2>5, MoveMaps
       DEF Contract!Next, Contract!Refuse, Contract!End, AbstractStage
  <2>6. CASE Stage(pc'[t]) = "running" /\ AcquireLock(t) /\ LockIsFree(RoomOf(t))
    BY <2>2, <2>6, AcquireMaps DEF Contract!Next
  <2> QED  BY <2>4, <2>5, <2>6, StageOrder
<1> QED  BY <1>1, <1>2

\* Who loses its turn has begun: a lock names a call that asked for it.
LEMMA LapseMaps ==
  ASSUME TypeOK, Prepared, NEW r \in Rooms, spinLock[r] # Null,
         overrun' = overrun \cup {spinLock[r]}, UNCHANGED <<pc, req, announced>>
  PROVE  Contract!Next
<1>1. spinLock[r] \in Spins /\ pc[spinLock[r]] \in Locations \ Asking
  BY DEF TypeOK, RedisTypeOK, Prepared
<1>2. AbstractStage[spinLock[r]] # "asked"
  BY <1>1, Stages DEF AbstractStage, Locations, Asking, TryBlock
<1>3. AbstractRoom' = AbstractRoom /\ AbstractStage' = AbstractStage
  BY DEF AbstractRoom, AbstractStage, RoomOf
<1>4. Contract!Lapse(spinLock[r])
  BY <1>2, <1>3 DEF Contract!Lapse, AbstractRoom, AbstractStage
<1> QED  BY <1>1, <1>4 DEF Contract!Next

LEMMA EnvironmentMaps ==
  ASSUME TypeOK, Prepared, Other \/ OtherDeletes \/ Expire,
         UNCHANGED <<pc, req, announced>>
  PROVE  [Contract!Next]_Contract!contractVars
<1>1. CASE UNCHANGED overrun
  <2>1. AbstractRoom' = AbstractRoom /\ AbstractStage' = AbstractStage
    BY DEF AbstractRoom, AbstractStage, RoomOf
  <2> QED  BY <1>1, <2>1, StutterMaps DEF Stutters
<1>2. CASE OtherDeletes
  <2>1. PICK r \in Rooms, k \in DeletedKeys :
          overrun' = IF k = "lock" THEN overrun \cup ({spinLock[r]} \ {Null})
                                   ELSE overrun
    BY <1>2 DEF OtherDeletes
  <2> QED  BY <1>1, <2>1, LapseMaps
<1>3. CASE Expire
  BY <1>1, <1>3, LapseMaps DEF Expire, LockExpires, SpinLockExpires, RequestForgotten
<1> QED  BY <1>1, <1>2, <1>3 DEF Other

\* The spins of a room take turns unless a lock is overrun, and each announces
\* at most one outcome, with as many winners among those who take part as some
\* winnersCount wants: whatever the handler's reads saw and whatever failed.
THEOREM SpinImplementsContract == Spec => ImplementsContract
<1>1. Init => Contract!Init
  BY Stages DEF Init, Contract!Init, RoomOf, RequestData, Asking
<1>2. TypeOK /\ LockHeld /\ Prepared /\ [Next]_vars => [Contract!Next]_Contract!contractVars
  <2> SUFFICES ASSUME TypeOK, LockHeld, Prepared, [Next]_vars
               PROVE  [Contract!Next]_Contract!contractVars
    OBVIOUS
  <2>1. ASSUME NEW t \in Spins, Step(t) \/ Fault(t), UNCHANGED <<req, overrun>>
        PROVE  [Contract!Next]_Contract!contractVars
    BY <2>1, CallMaps
  <2>2. CASE (Other \/ OtherDeletes \/ Expire) /\ UNCHANGED spinVars
    BY <2>2, EnvironmentMaps DEF spinVars
  <2>3. CASE UNCHANGED vars
    <3>1. Stutters
      BY <2>3 DEF Stutters, vars, spinVars, historyVars, AbstractRoom, AbstractStage, RoomOf
    <3> QED  BY <3>1, StutterMaps
  <2> QED  BY <2>1, <2>2, <2>3 DEF Next, Run
<1> QED
  BY <1>1, <1>2, TypeCorrect, LockIsHeld, PreparedAlways, PTL
     DEF Spec, ImplementsContract, Contract!Spec
=============================================================================
