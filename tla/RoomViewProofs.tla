--------------------------- MODULE RoomViewProofs ---------------------------
(***************************************************************************)
(* The owner's screen, for every set of sockets and any number of requests *)
(* in one server process: when no handler runs, the last                   *)
(* room:participants that reached the connected owner says who takes part  *)
(* and who is ready.  OwnerSeesTheRoom is about orderly clients and any    *)
(* number of owner connections, OwnerSeesTheCrowd about clients that wait  *)
(* for nothing and one owner connection; both are about one room.          *)
(*                                                                         *)
(* Every handler that changes what is shown broadcasts after its change,   *)
(* but the reads of a broadcast are four commands, and other handlers      *)
(* write in between.  In one process the commands are a queue, so that     *)
(* broadcasts end in the order in which they began: the one that began     *)
(* last has read nothing that has changed since (Fresh), or the handler    *)
(* that changed it has still to broadcast (Pending).                       *)
(***************************************************************************)
EXTENDS RoomSingleInstance, RoomRegistryProofs, SequenceTheorems

(***************************************************************************)
(* The queue.                                                              *)
(***************************************************************************)
Distinct(q) == \A i, j \in DOMAIN q : q[i] = q[j] => i = j

Waits(q, x) == \E i \in DOMAIN q : q[i] = x

\* y is behind x in q.
Behind(q, x, y) == \E i, j \in DOMAIN q : i < j /\ q[i] = x /\ q[j] = y

\* The queue has the tasks that run, each once.
QueueOK ==
  /\ queue \in Seq(Tasks) /\ Distinct(queue)
  /\ \A x \in Tasks : Running(x) <=> Waits(queue, x)

LEMMA HeadIsFirst ==
  ASSUME NEW q \in Seq(Tasks), q # <<>>, Distinct(q)
  PROVE  /\ Head(q) \in Tasks /\ Waits(q, Head(q))
         /\ \A u : ~Behind(q, u, Head(q))
         /\ \A u : Waits(q, u) /\ u # Head(q) => Behind(q, Head(q), u)
<1>1. Len(q) \in Nat \ {0} /\ DOMAIN q = 1..Len(q)
  BY EmptySeq, LenProperties
<1>2. Head(q) = q[1] /\ Head(q) \in Tasks /\ 1 \in DOMAIN q
  BY <1>1, HeadTailProperties
<1> QED  BY <1>1, <1>2 DEF Distinct, Waits, Behind

LEMMA TailOfQueue ==
  ASSUME NEW q \in Seq(Tasks), q # <<>>, Distinct(q)
  PROVE  /\ Tail(q) \in Seq(Tasks) /\ Distinct(Tail(q))
         /\ \A u : Waits(Tail(q), u) <=> Waits(q, u) /\ u # Head(q)
         /\ \A t, u : t # Head(q) => (Behind(Tail(q), t, u) <=> Behind(q, t, u))
<1>1. Len(q) \in Nat \ {0} /\ DOMAIN q = 1..Len(q) /\ Head(q) = q[1]
  BY EmptySeq, LenProperties
<1>2. /\ Tail(q) \in Seq(Tasks) /\ DOMAIN Tail(q) = 1..(Len(q) - 1)
      /\ \A i \in 1..(Len(q) - 1) : Tail(q)[i] = q[i + 1]
  BY HeadTailProperties, LenProperties
<1>3. Distinct(Tail(q))
  BY <1>1, <1>2 DEF Distinct
<1>4. ASSUME NEW u PROVE Waits(Tail(q), u) <=> Waits(q, u) /\ u # Head(q)
  <2>1. ASSUME Waits(Tail(q), u) PROVE Waits(q, u) /\ u # Head(q)
    <3>1. PICK i \in 1..(Len(q) - 1) : q[i + 1] = u
      BY <1>2, <2>1 DEF Waits
    <3> QED  BY <1>1, <3>1 DEF Waits, Distinct
  <2>2. ASSUME Waits(q, u), u # Head(q) PROVE Waits(Tail(q), u)
    <3>1. PICK i \in 1..Len(q) : q[i] = u /\ i # 1
      BY <1>1, <2>2 DEF Waits
    <3>2. i - 1 \in 1..(Len(q) - 1) /\ Tail(q)[i - 1] = u
      BY <1>1, <1>2, <3>1
    <3> QED  BY <1>2, <3>2 DEF Waits
  <2> QED  BY <2>1, <2>2
<1>5. ASSUME NEW t, NEW u, t # Head(q)
      PROVE  Behind(Tail(q), t, u) <=> Behind(q, t, u)
  <2>1. ASSUME Behind(Tail(q), t, u) PROVE Behind(q, t, u)
    <3>1. PICK i, j \in 1..(Len(q) - 1) : i < j /\ q[i + 1] = t /\ q[j + 1] = u
      BY <1>2, <2>1 DEF Behind
    <3>2. i + 1 \in DOMAIN q /\ j + 1 \in DOMAIN q /\ i + 1 < j + 1
      BY <1>1, <3>1
    <3> QED  BY <3>1, <3>2 DEF Behind
  <2>2. ASSUME Behind(q, t, u) PROVE Behind(Tail(q), t, u)
    <3>1. PICK i, j \in 1..Len(q) : i < j /\ q[i] = t /\ q[j] = u /\ i # 1
      BY <1>1, <1>5, <2>2 DEF Behind
    <3>2. /\ i - 1 \in 1..(Len(q) - 1) /\ Tail(q)[i - 1] = t
          /\ j - 1 \in 1..(Len(q) - 1) /\ Tail(q)[j - 1] = u
          /\ i - 1 < j - 1
      BY <1>1, <1>2, <3>1
    <3> QED  BY <1>2, <3>2 DEF Behind
  <2> QED  BY <2>1, <2>2
<1> QED  BY <1>2, <1>3, <1>4, <1>5

LEMMA JoinedQueue ==
  ASSUME NEW q \in Seq(Tasks), Distinct(q), NEW t \in Tasks, ~Waits(q, t)
  PROVE  /\ Append(q, t) \in Seq(Tasks) /\ Distinct(Append(q, t))
         /\ \A u : Waits(Append(q, t), u) <=> Waits(q, u) \/ u = t
         /\ \A u : Behind(Append(q, t), u, t) <=> Waits(q, u)
         /\ \A u, v : v # t => (Behind(Append(q, t), u, v) <=> Behind(q, u, v))
<1>1. Len(q) \in Nat /\ DOMAIN q = 1..Len(q)
  BY LenProperties
<1>2. /\ Append(q, t) \in Seq(Tasks) /\ DOMAIN Append(q, t) = 1..(Len(q) + 1)
      /\ \A i \in 1..Len(q) : Append(q, t)[i] = q[i]
      /\ Append(q, t)[Len(q) + 1] = t
  BY AppendProperties, LenProperties
<1> HIDE DEF Waits, Behind
<1>3. Distinct(Append(q, t))
  BY <1>1, <1>2 DEF Distinct, Waits
<1>4. \A u : Waits(Append(q, t), u) <=> Waits(q, u) \/ u = t
  BY <1>1, <1>2 DEF Waits
<1>5. ASSUME NEW u PROVE Behind(Append(q, t), u, t) <=> Waits(q, u)
  BY <1>1, <1>2 DEF Waits, Behind
<1>6. ASSUME NEW u, NEW v, v # t
      PROVE  Behind(Append(q, t), u, v) <=> Behind(q, u, v)
  BY <1>1, <1>2, <1>6 DEF Waits, Behind
<1> QED  BY <1>2, <1>3, <1>4, <1>5, <1>6
-----------------------------------------------------------------------------
(***************************************************************************)
(* What a step of task x does to the others: it may disconnect socket k,   *)
(* whose handler starts.                                                   *)
(***************************************************************************)
Disconnects(x, k) ==
  /\ conn[k] /\ conn' = [conn EXCEPT ![k] = FALSE]
  /\ \A y \in Tasks : y # x /\ y # k => task'[y] = task[y]
  /\ k # x => task'[k] = Disconnection(k)

LEMMA KickDisconnects ==
  ASSUME IInv, NEW x \in Tasks, NEW k \in Sockets, NEW t, Kick(x, k, t)
  PROVE  \/ OthersStay(x) /\ conn' = conn
         \/ \E s \in Sockets : Disconnects(x, s)
<1>0. DOMAIN task = Tasks /\ Sockets \subseteq Tasks
  BY CallsAreTasks DEF IInv, TasksOK
<1>1. CASE conn[k] /\ Host[k] = Host[t.sock]
  <2>1. /\ conn' = [conn EXCEPT ![k] = FALSE]
        /\ task' = [task EXCEPT ![x] = t, ![k] = Disconnection(k)]
    BY <1>1 DEF Kick
  <2>2. /\ \A y \in Tasks : y # x /\ y # k => task'[y] = task[y]
        /\ k # x => task'[k] = Disconnection(k)
    BY <1>0, <2>1
  <2> QED  BY <1>1, <2>1, <2>2 DEF Disconnects
<1>2. CASE ~(conn[k] /\ Host[k] = Host[t.sock])
  BY <1>0, <1>2 DEF Kick, Set, OthersStay
<1> QED  BY <1>1, <1>2

LEMMA WhoMoves ==
  ASSUME IInv, NEW x \in Tasks, Run(x)
  PROVE  \/ OthersStay(x) /\ conn' = conn
         \/ \E s \in Sockets : Disconnects(x, s)
<1>0. DOMAIN task = Tasks /\ task[x] \in TaskStates
  BY DEF IInv, TasksOK
<1>1. CASE PassThrough(x) \/ ReplyState(x) \/ Close(x)
  BY <1>0, <1>1
     DEF PassThrough, ReplyState, Close, Go, Cast, Set, Finished, ReadsOnly, OnlyRedis,
         sockVars, OthersStay
<1>2. CASE Join(x) /\ ~ActiveInfo(x)
  BY <1>0, <1>2
     DEF Join, CheckToken, TakeOwnerRid, ActiveOwner, ActiveMembers, DropMember, DropInfo,
         EnsureOwner, RecordOwner, CheckRoom, EnterRoom, AddMember, RecordInfo, EnsureConfig,
         Go, Set, ReadsOnly, OnlyRedis, sockVars, OthersStay
<1>3. CASE ActiveInfo(x)
  <2>1. PICK m \in task[x].todo :
          LET owns == socketInfo[m] # Null /\ socketInfo[m].rid = task[x].owner
              f == IF owns /\ task[x].found = Null THEN m ELSE task[x].found
              t == [task[x] EXCEPT !.todo = @ \ {m}, !.found = f]
          IN  IF t.todo # {} THEN Set(x, t) /\ UNCHANGED <<conn, joined>>
              ELSE IF f = Null
                THEN Set(x, [t EXCEPT !.pc = "ensureOwner"]) /\ UNCHANGED <<conn, joined>>
                ELSE Kick(x, f, [t EXCEPT !.pc = "dropMember"])
    BY <1>3 DEF ActiveInfo
  <2> DEFINE owns == socketInfo[m] # Null /\ socketInfo[m].rid = task[x].owner
             f == IF owns /\ task[x].found = Null THEN m ELSE task[x].found
             t == [task[x] EXCEPT !.todo = @ \ {m}, !.found = f]
  <2>2. m \in Sockets /\ f \in Sockets \cup {Null}
    BY <1>0 DEF TaskStates
  <2> HIDE DEF f
  <2>3. CASE (Set(x, t) \/ Set(x, [t EXCEPT !.pc = "ensureOwner"])) /\ UNCHANGED conn
    BY <1>0, <2>3 DEF Set, OthersStay
  <2>4. CASE f # Null /\ Kick(x, f, [t EXCEPT !.pc = "dropMember"])
    BY <2>2, <2>4, KickDisconnects
  <2> QED  BY <2>1, <2>3, <2>4 DEF f
<1>4. CASE Broadcast(x)
  BY <1>0, <1>4
     DEF Broadcast, CastOwner, CastMembers, CastReady, CastInfo, CastDone, Go, Set, Finished,
         ReadsOnly, OnlyRedis, sockVars, OthersStay
<1>5. CASE Gone(x)
  BY <1>0, <1>5
     DEF Gone, GoneInfo, GoneReady, GoneMember, GoneDelete, Go, Cast, Set, Finished,
         OnlyRedis, sockVars, OthersStay
<1>6. CASE Leave(x)
  BY <1>0, <1>6
     DEF Leave, LeaveInfo, LeaveMember, LeaveDelete, LeaveOwner, Go, Set, ReadsOnly, OnlyRedis,
         sockVars, OthersStay
<1>7. CASE Settings(x)
  BY <1>0, <1>7
     DEF Settings, ToggleInfo, ToggleWrite, NickInfo, NickSet, ConfigOwner, ConfigSet, Go,
         Cast, Set, ReadsOnly, OnlyRedis, sockVars, OthersStay
<1>8. CASE Delete(x) /\ ~DelMembers(x) /\ ~DelInfo(x)
  BY <1>0, <1>8
     DEF Delete, DelOwner, DelOwnInfo, DelRoom, Go, Set, ReadsOnly, OnlyRedis, sockVars,
         OthersStay
<1>9. ASSUME NEW t, t.todo \subseteq Sockets, KickNext(x, t)
      PROVE  \/ OthersStay(x) /\ conn' = conn
             \/ \E s \in Sockets : Disconnects(x, s)
  <2>1. CASE t.todo = {}
    BY <1>0, <1>9, <2>1 DEF KickNext, Set, OthersStay
  <2>2. CASE t.todo # {}
    <3>1. PICK m \in t.todo :
            Kick(x, m, [t EXCEPT !.pc = "delInfo", !.found = m, !.todo = @ \ {m}])
      BY <1>9, <2>2 DEF KickNext
    <3>2. m \in Sockets
      BY <1>9
    <3> QED  BY <3>1, <3>2, KickDisconnects
  <2> QED  BY <2>1, <2>2
<1>10. CASE DelInfo(x)
  <2>1. KickNext(x, task[x]) /\ task[x].todo \subseteq Sockets
    BY <1>0, <1>10 DEF DelInfo, TaskStates
  <2> QED  BY <1>9, <2>1
<1>11. CASE DelMembers(x)
  <2> DEFINE t == [task[x] EXCEPT !.todo = roomMembers[task[x].room] \ {task[x].sock}]
  <2>1. KickNext(x, t)
    BY <1>11 DEF DelMembers
  <2>2. task[x].room \in Rooms
    BY <1>11 DEF IInv, TasksOK, WellFormed, DelMembers, At
  <2>3. t.todo \subseteq Sockets
    BY <1>0, <2>2 DEF TaskStates, IInv, RedisTypeOK
  <2> HIDE DEF t
  <2> QED  BY <1>9, <2>1, <2>3
<1> QED
  BY <1>1, <1>2, <1>3, <1>4, <1>5, <1>6, <1>7, <1>8, <1>10, <1>11 DEF Run

LEMMA RunsWhileRunning ==
  ASSUME NEW x \in Tasks, Run(x)
  PROVE  Running(x)
<1>1. PassThrough(x) \/ ReplyState(x) \/ Close(x) \/ Broadcast(x) \/ Gone(x) => Running(x)
  BY DEF PassThrough, Onward, ReplyState, Close, Broadcast, CastOwner, CastMembers, CastReady,
         CastInfo, Gone, GoneInfo, GoneReady, GoneMember, GoneDelete, At, Running
<1>2. Join(x) => Running(x)
  BY DEF Join, CheckToken, TakeOwnerRid, ActiveOwner, ActiveMembers, ActiveInfo, DropMember,
         DropInfo, EnsureOwner, RecordOwner, CheckRoom, AddMember, RecordInfo, EnsureConfig,
         At, Running
<1>3. Leave(x) \/ Settings(x) \/ Delete(x) => Running(x)
  BY DEF Leave, LeaveInfo, LeaveMember, LeaveDelete, LeaveOwner, Settings, ToggleInfo,
         ToggleWrite, NickInfo, NickSet, ConfigOwner, ConfigSet, Delete, DelOwner,
         DelMembers, DelInfo, DelOwnInfo, DelRoom, At, Running
<1> QED  BY <1>1, <1>2, <1>3 DEF Run

\* The handler of a lost socket cleans up, broadcasts, and refreshes the keys.
LEMMA LostHandler ==
  ASSUME IInv, Invariants, NEW x \in Sockets, Run(x)
  PROVE  PassThrough(x) \/ Close(x) \/ Broadcast(x) \/ Gone(x)
<1>1. task[x].pc \in Going \cup Casting \cup Touching
  BY LossFacts, RunsWhileRunning, CallsAreTasks
<1>2. ~ReplyState(x) /\ ~Join(x)
  BY <1>1
     DEF ReplyState, Join, CheckToken, TakeOwnerRid, ActiveOwner, ActiveMembers, ActiveInfo,
         DropMember, DropInfo, EnsureOwner, RecordOwner, CheckRoom, AddMember, RecordInfo,
         EnsureConfig, At, Going, Casting, Touching
<1>3. ~Leave(x) /\ ~Settings(x) /\ ~Delete(x)
  BY <1>1
     DEF Leave, LeaveInfo, LeaveMember, LeaveDelete, LeaveOwner, Settings, ToggleInfo,
         ToggleWrite, NickInfo, NickSet, ConfigOwner, ConfigSet, Delete, DelOwner,
         DelMembers, DelInfo, DelOwnInfo, DelRoom, At, Going, Casting, Touching
<1> QED  BY <1>2, <1>3 DEF Run

\* While a pipeline is answered, nobody else moves.
LEMMA PipelineMovesAlone ==
  ASSUME IInv, NEW x \in Tasks, Run(x), InPipeline(x)
  PROVE  OthersStay(x)
<1>0. DOMAIN task = Tasks /\ task[x] \in TaskStates
  BY DEF IInv, TasksOK
<1>1. ASSUME NEW f \in Sockets, NEW t, t.pc \notin {"activeInfo", "castInfo", "delRoom"},
             Kick(x, f, t)
      PROVE  task'[x].pc \notin {"activeInfo", "castInfo", "delRoom"}
  <2>1. task'[x] = t \/ task'[x] = Disconnection(f)
    BY <1>0, <1>1, CallsAreTasks DEF Kick, Set
  <2> QED  BY <1>1, <2>1 DEF Disconnection, NoTask
<1>2. CASE task[x].pc = "activeInfo"
  <2>1. ActiveInfo(x)
    BY <1>2
       DEF Run, PassThrough, Onward, ReplyState, Close, Join, CheckToken, TakeOwnerRid,
           ActiveOwner, ActiveMembers, DropMember, DropInfo, EnsureOwner, RecordOwner,
           CheckRoom, AddMember, RecordInfo, EnsureConfig, Broadcast, CastOwner, CastMembers,
           CastReady, CastInfo, Gone, GoneInfo, GoneReady, GoneMember, GoneDelete, Leave,
           LeaveInfo, LeaveMember, LeaveDelete, LeaveOwner, Settings, ToggleInfo,
           ToggleWrite, NickInfo, NickSet, ConfigOwner, ConfigSet, Delete, DelOwner,
           DelMembers, DelInfo, DelOwnInfo, DelRoom, At
  <2>2. PICK m \in task[x].todo :
          LET owns == socketInfo[m] # Null /\ socketInfo[m].rid = task[x].owner
              f == IF owns /\ task[x].found = Null THEN m ELSE task[x].found
              t == [task[x] EXCEPT !.todo = @ \ {m}, !.found = f]
          IN  IF t.todo # {} THEN Set(x, t)
              ELSE IF f = Null
                THEN Set(x, [t EXCEPT !.pc = "ensureOwner"])
                ELSE Kick(x, f, [t EXCEPT !.pc = "dropMember"])
    BY <2>1 DEF ActiveInfo
  <2> DEFINE owns == socketInfo[m] # Null /\ socketInfo[m].rid = task[x].owner
             f == IF owns /\ task[x].found = Null THEN m ELSE task[x].found
             t == [task[x] EXCEPT !.todo = @ \ {m}, !.found = f]
  <2>3. f \in Sockets \cup {Null} /\ [t EXCEPT !.pc = "dropMember"].pc = "dropMember"
    BY <1>0 DEF TaskStates
  <2>4. (f # Null /\ Kick(x, f, [t EXCEPT !.pc = "dropMember"])) =>
          task'[x].pc # "activeInfo"
    <3> HIDE DEF f, t
    <3> QED  BY <1>1, <2>3
  <2>5. Set(x, t) \/ Set(x, [t EXCEPT !.pc = "ensureOwner"])
    BY <1>2, <2>2, <2>4 DEF InPipeline
  <2> QED  BY <1>0, <2>5 DEF Set, OthersStay
<1>3. CASE task[x].pc = "castInfo"
  <2>1. CastInfo(x)
    BY <1>3
       DEF Run, PassThrough, Onward, ReplyState, Close, Join, CheckToken, TakeOwnerRid,
           ActiveOwner, ActiveMembers, ActiveInfo, DropMember, DropInfo, EnsureOwner,
           RecordOwner, CheckRoom, AddMember, RecordInfo, EnsureConfig, Broadcast, CastOwner,
           CastMembers, CastReady, Gone, GoneInfo, GoneReady, GoneMember, GoneDelete, Leave,
           LeaveInfo, LeaveMember, LeaveDelete, LeaveOwner, Settings, ToggleInfo,
           ToggleWrite, NickInfo, NickSet, ConfigOwner, ConfigSet, Delete, DelOwner,
           DelMembers, DelInfo, DelOwnInfo, DelRoom, At
  <2> QED  BY <1>0, <2>1 DEF CastInfo, CastDone, Go, Set, Finished, OthersStay
<1>4. CASE task[x].pc = "delRoom"
  <2>1. DelRoom(x)
    BY <1>4
       DEF Run, PassThrough, Onward, ReplyState, Close, Join, CheckToken, TakeOwnerRid,
           ActiveOwner, ActiveMembers, ActiveInfo, DropMember, DropInfo, EnsureOwner,
           RecordOwner, CheckRoom, AddMember, RecordInfo, EnsureConfig, Broadcast, CastOwner,
           CastMembers, CastReady, CastInfo, Gone, GoneInfo, GoneReady, GoneMember,
           GoneDelete, Leave, LeaveInfo, LeaveMember, LeaveDelete, LeaveOwner, Settings,
           ToggleInfo, ToggleWrite, NickInfo, NickSet, ConfigOwner, ConfigSet, Delete,
           DelOwner, DelMembers, DelInfo, DelOwnInfo, At
  <2> QED  BY <1>0, <2>1 DEF DelRoom, Set, OthersStay
<1> QED  BY <1>2, <1>3, <1>4 DEF InPipeline
-----------------------------------------------------------------------------
(***************************************************************************)
(* What the queue and the screen rely on, whoever the clients are: one     *)
(* identity per socket, one owner in the room, broadcasts about Home, and  *)
(* disconnect handlers that run for lost connections.                      *)
(***************************************************************************)
Casts(x) == task[x].pc \in Casting

Seating ==
  /\ AtMostOne(OwnerMembers)
  /\ \A s \in Sockets : socketInfo[s] \in {Null, InfoOf(s)}
  /\ \A x \in Tasks : Casts(x) => task[x].room = Home
  /\ \A s \in Sockets : Running(s) => ~conn[s]

LEMMA OrderGivesSeating ==
  ASSUME RegistryInv
  PROVE  Seating
<1>0. IInv /\ Invariants
  BY DEF RegistryInv, Invariants
<1>1. ASSUME NEW x \in Tasks, Casts(x) PROVE task[x].room = Home
  <2>1. Running(x) /\ task[x].pc # "goneInfo"
    BY <1>1 DEF Casts, Casting, Running
  <2>2. CASE x \in Calls
    BY <1>0, <2>1, <2>2, CallFacts
  <2>3. CASE x \in Sockets
    BY <1>0, <2>1, <2>3, LossFacts
  <2> QED  BY <2>2, <2>3 DEF Tasks
<1> QED
  BY <1>1 DEF Seating, RegistryInv, Ownership, Order, Identity, LossesOK, LossOK

LEMMA OrderGivesSeatingPrimed == RegistryInv' => Seating'
<1>1. RegistryInv => Seating
  BY OrderGivesSeating
<1> QED  BY <1>1, PTL

(***************************************************************************)
(* The steps of the queue.                                                 *)
(***************************************************************************)
\* The order of the tasks that do not move stays.
OrderStays(M) ==
  \A y, z \in Tasks : y \notin M /\ z \notin M /\ Behind(queue, y, z) => Behind(queue', y, z)

LEMMA JoinsQueue ==
  ASSUME QueueOK, NEW t \in Tasks, ~Running(t), Running(t)',
         OthersStay(t), queue' = Append(queue, t)
  PROVE  QueueOK' /\ OrderStays({t})
<1>1. ~Waits(queue, t)
  BY DEF QueueOK
<1>2. /\ Append(queue, t) \in Seq(Tasks) /\ Distinct(Append(queue, t))
      /\ \A u : Waits(Append(queue, t), u) <=> Waits(queue, u) \/ u = t
      /\ \A u, v : v # t => (Behind(Append(queue, t), u, v) <=> Behind(queue, u, v))
  BY <1>1, JoinedQueue DEF QueueOK
<1>3. ASSUME NEW y \in Tasks PROVE Running(y)' <=> Running(y) \/ y = t
  BY DEF OthersStay, Running
<1>4. QueueOK'
  BY <1>2, <1>3 DEF QueueOK
<1> QED  BY <1>2, <1>4 DEF OrderStays

LEMMA StaysInQueue ==
  ASSUME QueueOK, NEW x \in Tasks, Running(x) <=> Running(x)', OthersStay(x), queue' = queue
  PROVE  QueueOK' /\ OrderStays({x})
<1>1. ASSUME NEW y \in Tasks PROVE Running(y)' <=> Running(y)
  BY DEF OthersStay, Running
<1> QED  BY <1>1 DEF QueueOK, OrderStays

\* The disconnect handler that starts queues before the task that started it.
LEMMA WhoStarts ==
  ASSUME IInv, Seating, NEW x \in Tasks, Run(x)
  PROVE  \/ Started = <<>> /\ OthersStay(x) /\ conn' = conn
         \/ \E s \in Sockets : /\ s # x /\ ~Running(s) /\ task'[s] = Disconnection(s)
                               /\ Started = <<s>> /\ Disconnects(x, s)
<1>0. Running(x) /\ Sockets \subseteq Tasks
  BY RunsWhileRunning, CallsAreTasks
<1>1. CASE OthersStay(x) /\ conn' = conn
  <2>1. \A s \in Sockets : ~Starts(s)
    BY <1>0, <1>1 DEF Starts, OthersStay, Running
  <2> QED  BY <1>1, <2>1 DEF Started
<1>2. ASSUME NEW s \in Sockets, Disconnects(x, s)
      PROVE  /\ s # x /\ ~Running(s) /\ task'[s] = Disconnection(s)
             /\ Started = <<s>>
  <2>1. ~Running(s)
    BY <1>2 DEF Disconnects, Seating
  <2>2. s # x /\ task'[s] = Disconnection(s)
    BY <1>0, <1>2, <2>1 DEF Disconnects
  <2>3. Running(s)'
    BY <2>2 DEF Running, Disconnection, NoTask
  <2>4. \A u \in Sockets : Starts(u) <=> u = s
    BY <1>0, <1>2, <2>1, <2>3 DEF Starts, Disconnects, Running
  <2>5. Started = <<s>>
    BY <2>4 DEF Started
  <2> QED  BY <2>1, <2>2, <2>5
<1> QED
  BY <1>1, <1>2, WhoMoves

\* Task x, which is served, goes to the end of the queue or stays in front.
LEMMA ServeQueues ==
  ASSUME IInv, Seating, QueueOK, NEW x \in Tasks, Serve(x)
  PROVE  /\ QueueOK' /\ Running(x)
         /\ \A u : ~Behind(queue, u, x)
         /\ InPipeline(x) => queue' = queue
         /\ Running(x)' /\ ~InPipeline(x) =>
              \A u : Waits(queue', u) /\ u # x => Behind(queue', u, x)
         /\ \A y, z \in Tasks :
              y # x /\ Running(z) /\ Behind(queue, y, z) => Behind(queue', y, z)
<1>0. queue # <<>> /\ x = Head(queue) /\ Run(x) /\ Running(x) /\ queue \in Seq(Tasks)
  BY RunsWhileRunning DEF Serve, QueueOK
<1>1. \A u : ~Behind(queue, u, x)
  BY <1>0, HeadIsFirst DEF QueueOK
<1>2. CASE InPipeline(x)
  <2>1. OthersStay(x) /\ queue' = queue
    BY <1>0, <1>2, PipelineMovesAlone DEF Serve
  <2>2. Running(x)'
    BY <1>2 DEF InPipeline, Running
  <2> QED  BY <1>0, <1>1, <1>2, <2>1, <2>2, StaysInQueue DEF OrderStays
<1>3. CASE ~InPipeline(x)
  <2> DEFINE q1 == Tail(queue)
             q2 == q1 \o Started
             end == IF Running(x)' THEN <<x>> ELSE <<>>
  <2>1. queue' = q2 \o end
    BY <1>3 DEF Serve
  <2>2. /\ q1 \in Seq(Tasks) /\ Distinct(q1)
        /\ \A u : Waits(q1, u) <=> Waits(queue, u) /\ u # x
        /\ \A t, u : t # x => (Behind(q1, t, u) <=> Behind(queue, t, u))
    BY <1>0, TailOfQueue DEF QueueOK
  <2> HIDE DEF q1
  <2>3. /\ q2 \in Seq(Tasks) /\ Distinct(q2) /\ ~Waits(q2, x)
        /\ \A y \in Tasks : y # x => (Running(y)' <=> Waits(q2, y))
        /\ \A y, z \in Tasks : y # x /\ Running(z) /\ Behind(queue, y, z) => Behind(q2, y, z)
    <3>1. CASE Started = <<>> /\ OthersStay(x)
      <4>1. q2 = q1
        BY <2>2, <3>1, ConcatEmptySeq
      <4>2. \A y \in Tasks : y # x => (Running(y)' <=> Running(y))
        BY <3>1 DEF OthersStay, Running
      <4> QED  BY <2>2, <4>1, <4>2 DEF QueueOK
    <3>2. ASSUME NEW s \in Sockets, s # x, ~Running(s), task'[s] = Disconnection(s),
                 Started = <<s>>, Disconnects(x, s)
          PROVE  <2>3
      <4>1. s \in Tasks /\ ~Waits(q1, s)
        BY <2>2, <3>2, CallsAreTasks DEF QueueOK
      <4>2. q2 = Append(q1, s)
        BY <2>2, <3>2, <4>1, AppendIsConcat
      <4>3. /\ Append(q1, s) \in Seq(Tasks) /\ Distinct(Append(q1, s))
            /\ \A u : Waits(Append(q1, s), u) <=> Waits(q1, u) \/ u = s
            /\ \A u, v : v # s => (Behind(Append(q1, s), u, v) <=> Behind(q1, u, v))
        BY <2>2, <4>1, JoinedQueue
      <4>4. Running(s)'
        BY <3>2 DEF Running, Disconnection, NoTask
      <4>5. \A y \in Tasks : y # x /\ y # s => (Running(y)' <=> Running(y))
        BY <3>2 DEF Disconnects, Running
      <4> HIDE DEF q2
      <4>6. q2 \in Seq(Tasks) /\ Distinct(q2) /\ ~Waits(q2, x)
        BY <2>2, <3>2, <4>2, <4>3
      <4>7. \A y \in Tasks : y # x => (Running(y)' <=> Waits(q2, y))
        BY <2>2, <3>2, <4>2, <4>3, <4>4, <4>5 DEF QueueOK
      <4>8. \A y, z \in Tasks : y # x /\ Running(z) /\ Behind(queue, y, z) => Behind(q2, y, z)
        BY <2>2, <3>2, <4>2, <4>3
      <4> QED  BY <4>6, <4>7, <4>8
    <3> QED  BY <1>0, <3>1, <3>2, WhoStarts
  <2> HIDE DEF q2
  <2>4. CASE ~Running(x)'
    <3>1. queue' = q2
      BY <2>1, <2>3, <2>4, ConcatEmptySeq
    <3> QED  BY <1>0, <1>1, <1>3, <2>3, <2>4, <3>1 DEF QueueOK
  <2>5. CASE Running(x)'
    <3>1. queue' = Append(q2, x)
      BY <2>1, <2>3, <2>5, AppendIsConcat
    <3>2. /\ Append(q2, x) \in Seq(Tasks) /\ Distinct(Append(q2, x))
          /\ \A u : Waits(Append(q2, x), u) <=> Waits(q2, u) \/ u = x
          /\ \A u : Behind(Append(q2, x), u, x) <=> Waits(q2, u)
          /\ \A u, v : v # x => (Behind(Append(q2, x), u, v) <=> Behind(q2, u, v))
      BY <2>3, JoinedQueue
    <3>3. QueueOK'
      BY <2>3, <2>5, <3>1, <3>2 DEF QueueOK
    <3>4. \A u : Waits(queue', u) /\ u # x => Behind(queue', u, x)
      BY <3>1, <3>2
    <3>5. \A y, z \in Tasks :
            y # x /\ Running(z) /\ Behind(queue, y, z) => Behind(queue', y, z)
      BY <1>1, <2>3, <3>1, <3>2
    <3> QED  BY <1>0, <1>1, <1>3, <3>3, <3>4, <3>5
  <2> QED  BY <2>4, <2>5
<1> QED  BY <1>2, <1>3
-----------------------------------------------------------------------------
(***************************************************************************)
(* What is shown, and who has to show it.                                  *)
(***************************************************************************)
\* A handler that changes what is shown and has still to broadcast.
Pending(x) ==
  \/ task[x].pc \in {"addMember", "setInfo", "replyOwner", "replyConfig", "defaultConfig",
                     "replyTitle", "replyState"}
  \/ task[x].pc \in {"goneMember", "goneDelete"} /\ task[x].sock \notin OwnerSockets

\* How far a broadcast is, and which of two broadcasts ends first.
Round(x) ==
  CASE task[x].pc = "castOwner" -> 1 [] task[x].pc = "castMembers" -> 2
    [] task[x].pc = "castReady" -> 3 [] task[x].pc = "castInfo" -> 4

Sooner(y, x) == Round(x) < Round(y) \/ (Round(x) = Round(y) /\ Behind(queue, y, x))

\* The sockets that are participants if they are members.
Present == {u \in Sockets \ OwnerSockets : Registered(u)}

\* What a broadcast has read is what Redis has, and what the owner on socket s
\* is to be shown.
Fresh(x, s) ==
  LET t == task[x]
      m == roomMembers[Home] IN
  /\ t.pc # "castOwner" => t.owner = Home
  /\ t.pc \in {"castMembers", "castReady"} => t.found = Null /\ t.parts = {}
  /\ t.pc = "castReady" => t.todo = m
  /\ t.pc = "castInfo" => /\ t.todo \subseteq m /\ t.todo # {}
                          /\ t.ready = roomReady[Home]
                          /\ t.parts = (m \ t.todo) \cap Present
                          /\ t.found = IF s \in t.todo THEN Null ELSE s

\* Socket s is the connected owner of the room, which nobody is deleting.
Watches(s) ==
  /\ s \in OwnerSockets /\ conn[s] /\ Member(s) /\ Registered(s)
  /\ roomOwner[Home] = Home /\ ~Doomed

Last(x) == \A y \in Tasks : Casts(y) /\ y # x => Sooner(y, x)

\* The owner's screen is right, or the last broadcast to end will make it so,
\* or there will be a later one.
ViewOK ==
  \A s \in Sockets : Watches(s) =>
    \/ \E x \in Tasks : Pending(x)
    \/ \E x \in Tasks : Casts(x) /\ Fresh(x, s) /\ Last(x)
    \/ view[s] = Roster(Home) /\ \A x \in Tasks : ~Casts(x)

\* The handler of a lost socket knows the role of its socket.
LossArg ==
  \A s \in Sockets : task[s].pc \in {"goneReady", "goneMember", "goneDelete"} =>
    task[s].arg = SeatedRole(s)

ViewInv == RegistryInv /\ QueueOK /\ LossArg /\ ViewOK

(***************************************************************************)
(* The steps of a broadcast.                                               *)
(***************************************************************************)
LEMMA CastEnds ==
  ASSUME IInv, NEW x \in Tasks, CastDone(x)
  PROVE  OthersStay(x) /\ task'[x].pc \in {"activity", "idle", "done"}
<1>1. CASE Go(x, "activity")
  BY <1>1, GoMoves DEF Locations
<1>2. CASE task' = Finished(x)
  BY <1>2, EndMoves DEF Running
<1> QED  BY <1>1, <1>2 DEF CastDone

\* The reply about member m.
InfoRead(x, m) ==
  LET t == Sorted(task[x], m) IN
  \/ t.todo # {} /\ task'[x] = t /\ OthersStay(x) /\ view' = view
  \/ t.todo = {} /\ view' = Delivered(t) /\ CastDone(x)

LEMMA InfoIsRead ==
  ASSUME IInv, NEW x \in Tasks, CastInfo(x)
  PROVE  \E m \in task[x].todo : InfoRead(x, m)
<1>0. DOMAIN task = Tasks
  BY DEF IInv, TasksOK
<1> HIDE DEF Sorted
<1>1. PICK m \in task[x].todo :
        IF Sorted(task[x], m).todo # {}
          THEN Set(x, Sorted(task[x], m)) /\ UNCHANGED <<view, joined>>
          ELSE view' = Delivered(Sorted(task[x], m)) /\ CastDone(x)
  BY DEF CastInfo
<1>2. InfoRead(x, m)
  BY <1>0, <1>1 DEF InfoRead, Set, OthersStay
<1> QED  BY <1>2

LEMMA SortedParts ==
  ASSUME IInv, NEW x \in Tasks, NEW m
  PROVE  LET t == Sorted(task[x], m)
             info == socketInfo[m] IN
         /\ t.todo = task[x].todo \ {m}
         /\ t.found = IF info # Null /\ info.rid = task[x].owner THEN m ELSE task[x].found
         /\ t.parts = IF info # Null /\ info.rid # task[x].owner /\ info.role = "participant"
                        THEN task[x].parts \cup {m} ELSE task[x].parts
         /\ t.pc = task[x].pc /\ t.owner = task[x].owner /\ t.ready = task[x].ready
         /\ t.sock = task[x].sock /\ t.room = task[x].room
<1>1. task[x] \in TaskStates
  BY DEF IInv, TasksOK
<1> QED  BY <1>1 DEF Sorted, TaskStates

LEMMA CastMovesOn ==
  ASSUME IInv, NEW x \in Tasks, Broadcast(x)
  PROVE  /\ OthersStay(x) /\ Casts(x)
         /\ task'[x].pc \in {"castMembers", "castReady", "castInfo", "activity", "idle", "done"}
<1>0. DOMAIN task = Tasks /\ task[x] \in TaskStates
  BY DEF IInv, TasksOK
<1>1. Casts(x)
  BY DEF Broadcast, CastOwner, CastMembers, CastReady, CastInfo, At, Casts, Casting
<1>2. CASE CastDone(x)
  BY <1>1, <1>2, CastEnds
<1>3. CASE CastInfo(x)
  <2>1. task[x].pc = "castInfo"
    BY <1>3 DEF CastInfo, At
  <2>2. PICK m \in task[x].todo : InfoRead(x, m)
    BY <1>3, InfoIsRead
  <2>3. Sorted(task[x], m).pc = "castInfo"
    BY <2>1, SortedParts
  <2> QED  BY <1>1, <1>2, <2>2, <2>3 DEF InfoRead
<1>4. CASE ~CastDone(x) /\ ~CastInfo(x)
  BY <1>0, <1>1, <1>4
     DEF Broadcast, CastOwner, CastMembers, CastReady, Set, OthersStay, TaskStates
<1> QED  BY <1>2, <1>3, <1>4

LEMMA LossArgKept ==
  ASSUME IInv, Invariants, LossArg, Next
  PROVE  LossArg'
<1> SUFFICES ASSUME NEW s \in Sockets,
                    task'[s].pc \in {"goneReady", "goneMember", "goneDelete"}
             PROVE  task'[s].arg = SeatedRole(s)
  BY DEF LossArg
<1>0. s \in Tasks /\ DOMAIN task = Tasks /\ task[s] \in TaskStates
  BY CallsAreTasks DEF IInv, TasksOK
<1>1. ASSUME task'[s] = task[s] PROVE task'[s].arg = SeatedRole(s)
  BY <1>1 DEF LossArg
<1>2. ASSUME NEW c \in Calls, Arrive(c) PROVE task'[s] = task[s]
  BY <1>0, <1>2, CallsAreTasks DEF Arrive, Set
<1>3. ASSUME NEW u \in Sockets, Drop(u) PROVE task'[s] = task[s]
  <2>1. task' = [task EXCEPT ![u] = Disconnection(u)]
    BY <1>3 DEF Drop
  <2>2. Disconnection(u).pc = "goneInfo"
    BY DEF Disconnection, NoTask
  <2> QED  BY <1>0, <2>1, <2>2
<1>4. ASSUME NEW x \in Tasks, Run(x), x # s PROVE task'[s] = task[s]
  <2>1. Disconnection(s).pc = "goneInfo"
    BY DEF Disconnection, NoTask
  <2>2. CASE OthersStay(x)
    BY <1>0, <1>4, <2>2 DEF OthersStay
  <2>3. ASSUME NEW u \in Sockets, Disconnects(x, u) PROVE task'[s] = task[s]
    BY <1>0, <1>4, <2>1, <2>3 DEF Disconnects
  <2> QED  BY <1>4, <2>2, <2>3, WhoMoves
<1>5. ASSUME Run(s) PROVE task'[s].arg = SeatedRole(s)
  <2>1. Running(s) /\ task[s].sock = s
    BY <1>0, <1>5, LossFacts, RunsWhileRunning
  <2>2. ~PassThrough(s)
    BY <1>0 DEF PassThrough, Onward, Go, Set, TaskStates
  <2>3. ~Close(s)
    BY <1>0 DEF Close, Finished, Ended, NoTask
  <2>4. ~Broadcast(s)
    BY <1>0, CastMovesOn
  <2>5. CASE GoneInfo(s)
    <3>1. socketInfo[s] # Null
      BY <1>0, <2>1, <2>5, EndMoves DEF GoneInfo, Running
    <3>2. task'[s].arg = socketInfo[s].role
      <4> DEFINE t == [task[s] EXCEPT !.pc = "goneReady", !.room = socketInfo[s].roomId,
                                      !.arg = socketInfo[s].role]
      <4>1. task' = [task EXCEPT ![s] = t]
        BY <2>1, <2>5, <3>1 DEF GoneInfo, Set
      <4>2. t.arg = socketInfo[s].role
        BY <1>0 DEF TaskStates
      <4> HIDE DEF t
      <4> QED  BY <1>0, <4>1, <4>2
    <3>3. socketInfo[s] = InfoOf(s)
      BY <3>1 DEF Invariants, Order, Identity
    <3> QED  BY <3>2, <3>3 DEF InfoOf
  <2>6. CASE GoneReady(s) \/ GoneMember(s)
    <3>1. task'[s].arg = task[s].arg /\ task[s].pc \in {"goneReady", "goneMember"}
      BY <1>0, <2>6 DEF GoneReady, GoneMember, Go, Set, At, TaskStates
    <3> QED  BY <3>1 DEF LossArg
  <2>7. ~GoneDelete(s)
    BY <1>0 DEF GoneDelete, Go, Cast, Set, TaskStates
  <2> QED  BY <1>5, <2>2, <2>3, <2>4, <2>5, <2>6, <2>7, LostHandler DEF Gone
<1> QED  BY <1>1, <1>2, <1>3, <1>4, <1>5 DEF Next
-----------------------------------------------------------------------------
(***************************************************************************)
(* What a step does to what is shown.                                      *)
(***************************************************************************)
Steady ==
  /\ roomMembers'[Home] = roomMembers[Home] /\ roomReady'[Home] = roomReady[Home]
  /\ Present' = Present
  /\ \A s \in Sockets : Watches(s)' => Watches(s)

Unwatched == \A s \in Sockets : ~Watches(s)

\* Task x moves beside the broadcasts.
Beside(x) == /\ Steady /\ view' = view
             /\ ~Pending(x) /\ ~Casts(x) /\ ~Casts(x)'

Outcome(x) ==
  \/ Unwatched' \/ Pending(x)' \/ task'[x].pc = "castOwner"
  \/ Beside(x) \/ (Steady /\ Broadcast(x))

LEMMA NoOwnerNoWatch ==
  ASSUME OwnerMembers' = {} \/ Doomed'
  PROVE  Unwatched'
  BY DEF Unwatched, Watches, OwnerMembers, Member

LEMMA DoomStays ==
  ASSUME IInv, NEW x \in Tasks, Run(x), Doomed,
         task[x].pc \notin {"delInfo", "delOwnInfo", "delRoom"}
  PROVE  Doomed'
<1>1. PICK c \in Calls : task[c].pc \in {"delInfo", "delOwnInfo", "delRoom"}
  BY DEF Doomed
<1>2. task'[c] = task[c]
  BY <1>1, WhoMoves, CallsAreTasks DEF OthersStay, Disconnects
<1> QED  BY <1>1, <1>2 DEF Doomed

LEMMA NobodyReconnects ==
  ASSUME IInv, NEW x \in Tasks, Run(x), NEW s \in Sockets, conn'[s]
  PROVE  conn[s]
  BY WhoMoves DEF Disconnects, IInv, SocketsOK

LEMMA SteadyStep ==
  ASSUME IInv, NEW x \in Tasks, Run(x),
         roomMembers'[Home] = roomMembers[Home], roomReady'[Home] = roomReady[Home],
         roomOwner' = roomOwner,
         \A u \in Sockets : u \notin OwnerSockets \/ conn[u] =>
           (Registered(u)' <=> Registered(u)),
         task[x].pc \notin {"delInfo", "delOwnInfo", "delRoom"}
  PROVE  Steady
<1>1. Present' = Present
  BY DEF Present
<1>2. ASSUME NEW s \in Sockets, Watches(s)' PROVE Watches(s)
  <2>1. conn[s] /\ ~Doomed
    BY <1>2, NobodyReconnects, DoomStays DEF Watches
  <2> QED  BY <1>2, <2>1 DEF Watches, Member
<1> QED  BY <1>1, <1>2 DEF Steady

LEMMA ReadsShow ==
  ASSUME IInv, NEW x \in Tasks, Run(x),
         UNCHANGED <<roomMembers, roomReady, roomOwner, socketInfo, view>>,
         task[x].pc \notin {"delInfo", "delOwnInfo", "delRoom"}, ~Pending(x), ~Casts(x),
         task'[x].pc = "castOwner" \/ ~Casts(x)'
  PROVE  Outcome(x)
<1>1. Steady
  BY SteadyStep DEF Registered
<1> QED  BY <1>1 DEF Outcome, Beside

LEMMA ControlShows ==
  ASSUME IInv, NEW x \in Tasks, PassThrough(x) \/ ReplyState(x) \/ Close(x)
  PROVE  Outcome(x)
<1>0. DOMAIN task = Tasks /\ task[x] \in TaskStates /\ Run(x)
  BY DEF IInv, TasksOK, Run
<1>1. UNCHANGED <<roomMembers, roomReady, roomOwner, socketInfo, view>>
  BY DEF PassThrough, ReplyState, Close, ReadsOnly, OnlyRedis, redisVars
<1>2. CASE PassThrough(x)
  <2>1. \/ task[x].pc = "replyOwner" /\ task'[x].pc = "replyConfig"
        \/ task[x].pc = "replyTitle" /\ task'[x].pc = "replyState"
        \/ task[x].pc = "ttlMembers" /\ task'[x].pc = "ttlExpire"
    BY <1>0, <1>2 DEF PassThrough, Onward, Go, Set, TaskStates
  <2> QED
    BY <1>0, <1>1, <2>1, ReadsShow DEF Pending, Casts, Casting, Outcome
<1>3. CASE ReplyState(x)
  <2>1. task'[x].pc = "castOwner"
    BY <1>0, <1>3 DEF ReplyState, Cast, Set, TaskStates
  <2> QED  BY <2>1 DEF Outcome
<1>4. CASE Close(x)
  <2>1. task'[x].pc \in {"idle", "done"}
    BY <1>4, EndMoves DEF Close, Running
  <2>2. task[x].pc \in {"activity", "ttlExpire"}
    BY <1>4 DEF Close
  <2> QED  BY <1>0, <1>1, <2>1, <2>2, ReadsShow DEF Pending, Casts, Casting
<1> QED  BY <1>2, <1>3, <1>4

LEMMA BroadcastShows ==
  ASSUME IInv, NEW x \in Tasks, Broadcast(x)
  PROVE  Steady
<1>1. Run(x) /\ task[x].pc \notin {"delInfo", "delOwnInfo", "delRoom"}
  BY CastMovesOn DEF Run, Casts, Casting
<1>2. UNCHANGED <<roomMembers, roomReady, roomOwner, socketInfo>>
  BY DEF Broadcast, CastOwner, CastMembers, CastReady, CastInfo, ReadsOnly, redisVars
<1> QED  BY <1>1, <1>2, SteadyStep DEF Registered

\* The read with which a departure or a deletion begins.
LEMMA FirstReadShows ==
  ASSUME IInv, NEW x \in Tasks, Run(x), GoneInfo(x) \/ LeaveInfo(x) \/ DelOwner(x)
  PROVE  Outcome(x)
<1>0. DOMAIN task = Tasks /\ task[x] \in TaskStates
  BY DEF IInv, TasksOK
<1>1. /\ UNCHANGED <<roomMembers, roomReady, roomOwner, socketInfo, view>>
      /\ task[x].pc \in {"goneInfo", "leaveInfo", "delOwner"}
  BY DEF GoneInfo, LeaveInfo, DelOwner, At, ReadsOnly, OnlyRedis, redisVars
<1> DEFINE info == socketInfo[task[x].sock]
           g == [task[x] EXCEPT !.pc = "goneReady", !.room = info.roomId, !.arg = info.role]
           l == [task[x] EXCEPT
                   !.pc = IF task[x].arg = "owner" THEN "leaveMember" ELSE "goneInfo",
                   !.then = IF task[x].arg = "owner" THEN @ ELSE "leave",
                   !.home = task[x].room]
<1>2. g.pc = "goneReady" /\ l.pc \in {"leaveMember", "goneInfo"}
  BY <1>0 DEF TaskStates
<1>3. \/ task' = Finished(x) \/ Set(x, Ended) \/ Set(x, g) \/ Set(x, l)
      \/ Go(x, "delMembers")
  BY DEF GoneInfo, LeaveInfo, DelOwner
<1> HIDE DEF g, l
<1>4. task'[x].pc \in {"goneReady", "leaveMember", "goneInfo", "delMembers", "idle", "done"}
  BY <1>0, <1>2, <1>3, EndMoves, GoMoves DEF Set, Running, Locations
<1> QED  BY <1>1, <1>4, ReadsShow DEF Pending, Casts, Casting

\* The steps of a join up to socket.join show nothing, but for the search for
\* the connection to replace, which ends with no owner in the room.
LEMMA SearchShows ==
  ASSUME IInv, IInv', NEW x \in Tasks, Run(x),
         \/ CheckToken(x) \/ TakeOwnerRid(x) \/ ActiveOwner(x) \/ ActiveMembers(x)
         \/ ActiveInfo(x) \/ EnsureOwner(x) \/ CheckRoom(x)
  PROVE  Outcome(x)
<1>0. DOMAIN task = Tasks /\ task[x] \in TaskStates /\ task'[x] \in TaskStates
  BY DEF IInv, TasksOK
<1>1. UNCHANGED <<roomMembers, roomReady, roomOwner, socketInfo, view>>
  BY DEF CheckToken, TakeOwnerRid, ActiveOwner, ActiveMembers, ActiveInfo, EnsureOwner,
         CheckRoom, ReadsOnly, OnlyRedis, redisVars
<1>2. task[x].pc \in {"joinToken", "joinOwner", "activeOwner", "activeMembers", "activeInfo",
                      "ensureOwner", "joinConfig"}
  BY DEF CheckToken, TakeOwnerRid, ActiveOwner, ActiveMembers, ActiveInfo, EnsureOwner,
         CheckRoom, At
<1>3. ~Casts(x)'
  <2>1. CASE CheckToken(x) \/ TakeOwnerRid(x) \/ ActiveOwner(x) \/ ActiveMembers(x)
                \/ EnsureOwner(x) \/ CheckRoom(x)
    <3>1. ASSUME Set(x, Ended) PROVE ~Casts(x)'
      BY <1>0, <3>1, EndMoves DEF Running, Casts, Casting
    <3>2. ASSUME NEW l \in Locations, Go(x, l), l \notin Casting PROVE ~Casts(x)'
      BY <1>0, <3>2, GoMoves DEF Casts
    <3>3. ASSUME NEW t, Set(x, t), t.pc \notin Casting PROVE ~Casts(x)'
      BY <1>0, <3>3 DEF Set, Casts
    <3>4. CASE CheckToken(x) \/ EnsureOwner(x) \/ CheckRoom(x)
      BY <3>1, <3>2, <3>4
         DEF CheckToken, EnsureOwner, CheckRoom, EnterRoom, Locations, Casting
    <3>5. CASE TakeOwnerRid(x)
      <4> DEFINE t == [task[x] EXCEPT !.pc = "activeOwner", !.rid = task[x].room]
      <4>1. t.pc = "activeOwner"
        BY <1>0 DEF TaskStates
      <4>2. Set(x, Ended) \/ Set(x, t)
        BY <3>5 DEF TakeOwnerRid
      <4> HIDE DEF t
      <4> QED  BY <3>1, <3>3, <4>1, <4>2 DEF Casting
    <3>6. CASE ActiveOwner(x)
      <4> DEFINE t == [task[x] EXCEPT !.pc = "activeMembers", !.owner = roomOwner[task[x].room]]
      <4>1. t.pc = "activeMembers"
        BY <1>0 DEF TaskStates
      <4>2. Go(x, "ensureOwner") \/ Set(x, t)
        BY <3>6 DEF ActiveOwner
      <4> HIDE DEF t
      <4> QED  BY <3>2, <3>3, <4>1, <4>2 DEF Casting, Locations
    <3>7. CASE ActiveMembers(x)
      <4> DEFINE t == [task[x] EXCEPT !.pc = "activeInfo", !.todo = roomMembers[task[x].room]]
      <4>1. t.pc = "activeInfo"
        BY <1>0 DEF TaskStates
      <4>2. Go(x, "ensureOwner") \/ Set(x, t)
        BY <3>7 DEF ActiveMembers
      <4> HIDE DEF t
      <4> QED  BY <3>2, <3>3, <4>1, <4>2 DEF Casting, Locations
    <3> QED  BY <2>1, <3>4, <3>5, <3>6, <3>7
  <2>2. CASE ActiveInfo(x)
    <3>1. PICK m \in task[x].todo :
            LET owns == socketInfo[m] # Null /\ socketInfo[m].rid = task[x].owner
                f == IF owns /\ task[x].found = Null THEN m ELSE task[x].found
                t == [task[x] EXCEPT !.todo = @ \ {m}, !.found = f]
            IN  IF t.todo # {} THEN Set(x, t)
                ELSE IF f = Null
                  THEN Set(x, [t EXCEPT !.pc = "ensureOwner"])
                  ELSE Kick(x, f, [t EXCEPT !.pc = "dropMember"])
      BY <2>2 DEF ActiveInfo
    <3> DEFINE owns == socketInfo[m] # Null /\ socketInfo[m].rid = task[x].owner
               f == IF owns /\ task[x].found = Null THEN m ELSE task[x].found
               t == [task[x] EXCEPT !.todo = @ \ {m}, !.found = f]
    <3>2. /\ t.pc = "activeInfo" /\ [t EXCEPT !.pc = "ensureOwner"].pc = "ensureOwner"
          /\ [t EXCEPT !.pc = "dropMember"].pc = "dropMember"
      BY <1>0, <2>2 DEF TaskStates, ActiveInfo, At
    <3>3. Disconnection(f).pc = "goneInfo"
      BY DEF Disconnection, NoTask
    <3>4. task'[x] \in {t, [t EXCEPT !.pc = "ensureOwner"], [t EXCEPT !.pc = "dropMember"],
                        Disconnection(f)}
      <4> HIDE DEF f, t
      <4> QED  BY <1>0, <3>1 DEF Set, Kick, f, t
    <3> QED  BY <3>2, <3>3, <3>4 DEF Casts, Casting
  <2> QED  BY <2>1, <2>2
<1> QED  BY <1>0, <1>1, <1>2, <1>3, ReadsShow DEF Pending, Casts, Casting

\* Where a request can only stand while the room has no owner.
LEMMA NobodyWatches ==
  ASSUME RegistryInv', NEW x \in Calls,
         \/ task'[x].pc \in {"dropInfo", "ensureOwner", "setOwner", "leaveDelete", "leaveOwner",
                             "delInfo", "delOwnInfo", "delRoom"}
         \/ task'[x].pc = "addMember" /\ task'[x].sock \in OwnerSockets
  PROVE  Unwatched'
<1>1. Running(x)'
  BY DEF Running
<1>2. OwnerMembers' = {} \/ Doomed'
  BY <1>1 DEF RegistryInv, Ownership, OwnerOK, Doomed
<1> QED  BY <1>2, NoOwnerNoWatch

LEMMA JoinShows ==
  ASSUME RegistryInv, RegistryInv', NEW x \in Calls, Run(x),
         \/ DropMember(x) \/ DropInfo(x) \/ RecordOwner(x) \/ AddMember(x) \/ RecordInfo(x)
         \/ EnsureConfig(x)
  PROVE  Outcome(x)
<1>0. /\ IInv /\ Invariants /\ DOMAIN task = Tasks /\ x \in Tasks /\ task[x] \in TaskStates
      /\ Running(x)
  BY CallsAreTasks, RunsWhileRunning DEF RegistryInv, Invariants, IInv, TasksOK
<1>1. ASSUME NEW l \in Locations, Go(x, l) PROVE task'[x].pc = l /\ task'[x].sock = task[x].sock
  BY <1>0, <1>1, GoMoves DEF KeepsAll, Keeps
<1>2. CASE DropMember(x)
  <2>1. task'[x].pc = "dropInfo"
    BY <1>1, <1>2 DEF DropMember, Locations
  <2> QED  BY <2>1, NobodyWatches DEF Outcome
<1>3. CASE DropInfo(x)
  <2> DEFINE t == [task[x] EXCEPT !.pc = "ensureOwner", !.found = Null]
  <2>1. t.pc = "ensureOwner"
    BY <1>0 DEF TaskStates
  <2>2. task'[x] = t
    BY <1>0, <1>3 DEF DropInfo, Set
  <2> HIDE DEF t
  <2> QED  BY <2>1, <2>2, NobodyWatches DEF Outcome
<1>4. CASE RecordOwner(x)
  <2>1. task'[x].pc = "addMember" /\ task'[x].sock = task[x].sock /\ task[x].pc = "setOwner"
    BY <1>1, <1>4 DEF RecordOwner, EnterRoom, Locations, At
  <2>2. task[x].sock \in OwnerSockets
    BY <1>0, <2>1, CallFacts DEF CallOK, Replacing
  <2> QED  BY <2>1, <2>2, NobodyWatches DEF Outcome
<1>5. CASE AddMember(x)
  BY <1>1, <1>5 DEF AddMember, Locations, Outcome, Pending
<1>6. CASE RecordInfo(x)
  BY <1>1, <1>6 DEF RecordInfo, Locations, Outcome, Pending
<1>7. CASE EnsureConfig(x)
  BY <1>1, <1>7 DEF EnsureConfig, Locations, Outcome, Pending
<1> QED  BY <1>2, <1>3, <1>4, <1>5, <1>6, <1>7

LEMMA LeaveShows ==
  ASSUME RegistryInv, RegistryInv', NEW x \in Calls, Run(x), Leave(x)
  PROVE  Outcome(x)
<1>0. /\ IInv /\ Invariants /\ DOMAIN task = Tasks /\ x \in Tasks /\ task[x] \in TaskStates
      /\ Running(x)
  BY CallsAreTasks, RunsWhileRunning DEF RegistryInv, Invariants, IInv, TasksOK
<1>1. ASSUME NEW l \in Locations, Go(x, l) PROVE task'[x].pc = l
  BY <1>0, <1>1, GoMoves
<1>2. CASE LeaveInfo(x)
  BY <1>0, <1>2, FirstReadShows
<1>3. CASE LeaveMember(x)
  BY <1>1, <1>3, NobodyWatches DEF LeaveMember, Locations, Outcome
<1>4. CASE LeaveDelete(x)
  BY <1>1, <1>4, NobodyWatches DEF LeaveDelete, Locations, Outcome
<1>5. CASE LeaveOwner(x)
  <2>1. task[x].pc = "leaveOwner" /\ roomMembers' = roomMembers
    BY <1>5 DEF LeaveOwner, At, ClearRoomOwner
  <2>2. OwnerMembers = {}
    BY <1>0, <2>1, CallFacts DEF OwnerOK
  <2>3. OwnerMembers' = {}
    BY <2>1, <2>2 DEF OwnerMembers
  <2> QED  BY <2>3, NoOwnerNoWatch DEF Outcome
<1> QED  BY <1>2, <1>3, <1>4, <1>5 DEF Leave

LEMMA SettingsShow ==
  ASSUME IInv, NEW x \in Tasks, Run(x), Settings(x)
  PROVE  Outcome(x)
<1>0. DOMAIN task = Tasks /\ task[x] \in TaskStates /\ task[x].room \in Rooms
  BY DEF IInv, TasksOK, WellFormed, Settings, ToggleInfo, ToggleWrite, NickInfo, NickSet,
         ConfigOwner, ConfigSet, At
<1>1. ASSUME NEW l \in Locations, Go(x, l) PROVE task'[x].pc = l
  BY <1>0, <1>1, GoMoves
<1>2. ASSUME Cast(x, task[x].room, "activity") PROVE task'[x].pc = "castOwner"
  BY <1>0, <1>2, CastMoves
<1>3. CASE ToggleWrite(x) \/ NickSet(x)
  BY <1>2, <1>3 DEF ToggleWrite, NickSet, Outcome
<1>4. CASE ToggleInfo(x) \/ NickInfo(x) \/ ConfigOwner(x) \/ ConfigSet(x)
  <2>1. /\ UNCHANGED <<roomMembers, roomReady, roomOwner, socketInfo, view>>
        /\ task[x].pc \in {"toggleInfo", "nickInfo", "configOwner", "configSet"}
    BY <1>4
       DEF ToggleInfo, NickInfo, ConfigOwner, ConfigSet, SetRoomConfig, At, ReadsOnly,
           OnlyRedis, redisVars
  <2> DEFINE t == [task[x] EXCEPT !.pc = "nickSet", !.info = socketInfo[task[x].sock]]
  <2>2. t.pc = "nickSet"
    BY <1>0 DEF TaskStates
  <2>3. \/ Set(x, Ended) \/ Set(x, t) \/ Cast(x, task[x].room, "activity")
        \/ Go(x, "toggleWrite") \/ Go(x, "configSet") \/ Go(x, "activity")
    BY <1>4 DEF ToggleInfo, NickInfo, ConfigOwner, ConfigSet
  <2> HIDE DEF t
  <2>4. task'[x].pc \in {"toggleWrite", "configSet", "activity", "nickSet", "castOwner", "idle",
                         "done"}
    <3>1. Set(x, Ended) \/ Set(x, t) => task'[x].pc \in {"nickSet", "idle", "done"}
      BY <1>0, <2>2, EndMoves DEF Set, Running
    <3> QED  BY <1>1, <1>2, <2>3, <3>1 DEF Locations
  <2> QED  BY <1>0, <2>1, <2>4, ReadsShow DEF Pending, Casts, Casting
<1> QED  BY <1>3, <1>4 DEF Settings

\* The next member is disconnected, or there is none.
LEMMA KickGoesOn ==
  ASSUME IInv, NEW x \in Calls, NEW t \in TaskStates, KickNext(x, t)
  PROVE  /\ task'[x].pc \in {"delInfo", "delOwnInfo"}
         /\ task'[x].room = t.room /\ task'[x].next = t.next /\ task'[x].sock = t.sock
<1>0. DOMAIN task = Tasks /\ x \in Tasks /\ x \notin Sockets /\ t.todo \subseteq Sockets
  BY CallsAreTasks DEF IInv, TasksOK, TaskStates
<1>1. CASE t.todo = {}
  <2> DEFINE u == [t EXCEPT !.pc = "delOwnInfo", !.found = Null]
  <2>1. u.pc = "delOwnInfo" /\ u.room = t.room /\ u.next = t.next /\ u.sock = t.sock
    BY DEF TaskStates
  <2>2. Set(x, u)
    BY <1>1 DEF KickNext
  <2> HIDE DEF u
  <2> QED  BY <1>0, <2>1, <2>2 DEF Set
<1>2. CASE t.todo # {}
  <2> DEFINE u(m) == [t EXCEPT !.pc = "delInfo", !.found = m, !.todo = @ \ {m}]
  <2>1. PICK m \in t.todo : Kick(x, m, u(m))
    BY <1>2 DEF KickNext
  <2>2. u(m).pc = "delInfo" /\ u(m).room = t.room /\ u(m).next = t.next /\ u(m).sock = t.sock
    BY DEF TaskStates
  <2>3. m # x
    BY <1>0
  <2> HIDE DEF u
  <2>4. task'[x] = u(m)
    BY <1>0, <2>1, <2>3 DEF Kick, Set
  <2> QED  BY <2>2, <2>4
<1> QED  BY <1>1, <1>2

LEMMA DeleteShows ==
  ASSUME RegistryInv, RegistryInv', NEW x \in Calls, Run(x), Delete(x)
  PROVE  Outcome(x)
<1>0. /\ IInv /\ Invariants /\ DOMAIN task = Tasks /\ x \in Tasks /\ task[x] \in TaskStates
      /\ Running(x) /\ task[x].room = Home /\ Home \in Rooms
      /\ x \notin Sockets /\ roomMembers[Home] \subseteq Sockets /\ task[x].todo \subseteq Sockets
  <2>1. IInv /\ Invariants /\ DOMAIN task = Tasks /\ x \in Tasks /\ task[x] \in TaskStates
    BY CallsAreTasks DEF RegistryInv, Invariants, IInv, TasksOK
  <2>2. Running(x) /\ task[x].room = Home /\ Home \in Rooms
    BY <2>1, CallFacts, RunsWhileRunning
  <2>3. roomMembers[Home] \subseteq Sockets /\ task[x].todo \subseteq Sockets
    BY <2>1, <2>2 DEF IInv, RedisTypeOK, TaskStates
  <2> QED  BY <2>1, <2>2, <2>3, CallsAreTasks
<1>1. ASSUME NEW l \in Locations, Go(x, l) PROVE task'[x].pc = l
  BY <1>0, <1>1, GoMoves
<1>3. CASE DelOwner(x)
  BY <1>0, <1>3, FirstReadShows
<1>4. CASE DelMembers(x)
  <2> DEFINE t == [task[x] EXCEPT !.todo = roomMembers[task[x].room] \ {task[x].sock}]
  <2>1. KickNext(x, t)
    BY <1>4 DEF DelMembers
  <2>2. t \in TaskStates /\ t.todo \subseteq Sockets
    BY <1>0 DEF TaskStates
  <2> HIDE DEF t
  <2>3. task'[x].pc \in {"delInfo", "delOwnInfo"}
    BY <1>0, <2>1, <2>2, KickGoesOn
  <2> QED  BY <2>3, NobodyWatches DEF Outcome
<1>5. CASE DelInfo(x)
  <2>1. task'[x].pc \in {"delInfo", "delOwnInfo"}
    BY <1>0, <1>5, KickGoesOn DEF DelInfo
  <2> QED  BY <2>1, NobodyWatches DEF Outcome
<1>6. CASE DelOwnInfo(x)
  BY <1>1, <1>6, NobodyWatches DEF DelOwnInfo, Locations, Outcome
<1>7. CASE DelRoom(x)
  <2>1. CASE task[x].next = Len(DeletionOrder)
    <3>1. Home \in deleted'
      BY <1>0, <1>7, <2>1 DEF DelRoom
    <3>2. roomMembers'[Home] = {}
      BY <3>1 DEF RegistryInv, Deletions, KeysGone
    <3>3. OwnerMembers' = {}
      BY <3>2 DEF OwnerMembers
    <3> QED  BY <3>3, NoOwnerNoWatch DEF Outcome
  <2>2. CASE task[x].next # Len(DeletionOrder)
    <3>1. task[x].pc = "delRoom" /\ Set(x, [task[x] EXCEPT !.next = @ + 1])
      BY <1>7, <2>2 DEF DelRoom, At
    <3>2. task'[x].pc = "delRoom"
      BY <1>0, <3>1 DEF Set, TaskStates
    <3> QED  BY <3>2, NobodyWatches DEF Outcome
  <2> QED  BY <2>1, <2>2
<1> QED  BY <1>3, <1>4, <1>5, <1>6, <1>7 DEF Delete

\* The clean-up of a participant ends in a broadcast; that of an owner takes
\* nothing that is shown to another.
LEMMA GoneShows ==
  ASSUME RegistryInv, RegistryInv', LossArg, NEW x \in Tasks, Run(x), Gone(x)
  PROVE  Outcome(x)
<1>0. /\ IInv /\ Invariants /\ DOMAIN task = Tasks /\ task[x] \in TaskStates /\ Running(x)
  BY RunsWhileRunning DEF RegistryInv, Invariants, IInv, TasksOK
<1>1. /\ task[x].pc \in Going
      /\ view' = view /\ roomOwner' = roomOwner
  BY DEF Gone, GoneInfo, GoneReady, GoneMember, GoneDelete, At, Going, OnlyRedis, redisVars,
         RemoveParticipantReady, RemoveRoomMember, RemoveSocketInfo
<1>2. /\ task[x].sock \in Sockets
      /\ task[x].pc # "goneInfo" => task[x].room = Home /\ task[x].arg = SeatedRole(task[x].sock)
      /\ task[x].sock \in OwnerSockets => x \in Sockets /\ task[x].sock = x /\ ~conn[x]
      /\ Home \in Rooms
  <2>1. CASE x \in Calls
    BY <1>0, <1>1, <2>1, CallFacts DEF CallOK, Going
  <2>2. CASE x \in Sockets
    BY <1>0, <1>1, <2>2, LossFacts DEF LossArg, Going
  <2> QED  BY <2>1, <2>2 DEF Tasks
<1>3. ASSUME NEW l \in Locations, Go(x, l) PROVE task'[x].pc = l /\ task'[x].sock = task[x].sock
  BY <1>0, <1>3, GoMoves DEF KeepsAll, Keeps
<1>4. CASE GoneInfo(x)
  BY <1>0, <1>4, FirstReadShows
<1>5. CASE GoneReady(x)
  <2>1. task[x].pc = "goneReady" /\ task'[x].pc = "goneMember" /\ task'[x].sock = task[x].sock
    BY <1>3, <1>5 DEF GoneReady, At, Locations
  <2>2. CASE task[x].sock \notin OwnerSockets
    BY <2>1, <2>2 DEF Outcome, Pending
  <2>3. CASE task[x].sock \in OwnerSockets
    <3>1. ~Ready(x)
      BY <1>0, <1>2, <2>3, LossFacts DEF ConnectionOK
    <3>2. roomReady' = [roomReady EXCEPT ![Home] = @ \ {x}] /\ UNCHANGED <<roomMembers, socketInfo>>
      BY <1>2, <1>5, <2>1, <2>3 DEF GoneReady, RemoveParticipantReady
    <3>3. roomReady'[Home] = roomReady[Home]
      BY <1>0, <1>2, <3>1, <3>2 DEF Ready, IInv, RedisTypeOK
    <3>4. Steady
      BY <1>0, <1>1, <2>1, <3>2, <3>3, SteadyStep DEF Registered
    <3> QED  BY <1>1, <2>1, <3>4 DEF Outcome, Beside, Pending, Casts, Casting
  <2> QED  BY <2>2, <2>3
<1>6. CASE GoneMember(x)
  <2>1. task[x].pc = "goneMember" /\ task'[x].pc = "goneDelete" /\ task'[x].sock = task[x].sock
    BY <1>3, <1>6 DEF GoneMember, At, Locations
  <2>2. CASE task[x].sock \notin OwnerSockets
    BY <2>1, <2>2 DEF Outcome, Pending
  <2>3. CASE task[x].sock \in OwnerSockets
    <3>1. /\ roomMembers' = [roomMembers EXCEPT ![Home] = @ \ {x}]
          /\ UNCHANGED <<roomReady, socketInfo>>
      BY <1>2, <1>6, <2>1, <2>3 DEF GoneMember, RemoveRoomMember
    <3>2. roomMembers'[Home] = roomMembers[Home] \ {x}
      BY <1>0, <1>2, <3>1 DEF IInv, RedisTypeOK
    <3>3. CASE Member(x)
      <4>1. OwnerMembers' = {}
        BY <1>2, <2>3, <3>2, <3>3 DEF Member, OwnerMembers, RegistryInv, Ownership, AtMostOne
      <4> QED  BY <4>1, NoOwnerNoWatch DEF Outcome
    <3>4. CASE ~Member(x)
      <4>1. roomMembers'[Home] = roomMembers[Home]
        BY <3>2, <3>4 DEF Member
      <4>2. Steady
        BY <1>0, <1>1, <2>1, <3>1, <4>1, SteadyStep DEF Registered
      <4> QED  BY <1>1, <2>1, <2>3, <4>2 DEF Outcome, Beside, Pending, Casts, Casting
    <3> QED  BY <3>3, <3>4
  <2> QED  BY <2>2, <2>3
<1>7. CASE GoneDelete(x)
  <2>1. task[x].pc = "goneDelete" /\ task[x].room = Home
    BY <1>2, <1>7 DEF GoneDelete, At
  <2>2. CASE task[x].sock \notin OwnerSockets
    <3>1. Cast(x, Home, task[x].then)
      BY <1>2, <1>7, <2>1, <2>2 DEF GoneDelete, SeatedRole
    <3>2. task'[x].pc = "castOwner"
      BY <1>0, <1>2, <3>1, CastMoves
    <3> QED  BY <3>2 DEF Outcome
  <2>3. CASE task[x].sock \in OwnerSockets
    <3>1. task'[x].pc = "ttlMembers"
      BY <1>2, <1>3, <1>7, <2>1, <2>3 DEF GoneDelete, SeatedRole, Locations
    <3>2. socketInfo' = [socketInfo EXCEPT ![x] = Null] /\ UNCHANGED <<roomMembers, roomReady>>
      BY <1>2, <1>7, <2>3 DEF GoneDelete, RemoveSocketInfo
    <3>3. \A u \in Sockets : u # x => socketInfo'[u] = socketInfo[u]
      BY <1>0, <3>2 DEF IInv, RedisTypeOK
    <3>4. Steady
      BY <1>0, <1>1, <1>2, <2>1, <2>3, <3>2, <3>3, SteadyStep DEF Registered
    <3> QED  BY <1>1, <2>1, <2>3, <3>1, <3>4 DEF Outcome, Beside, Pending, Casts, Casting
  <2> QED  BY <2>2, <2>3
<1> QED  BY <1>4, <1>5, <1>6, <1>7 DEF Gone

LEMMA RunShows ==
  ASSUME RegistryInv, RegistryInv', LossArg, NEW x \in Tasks, Run(x)
  PROVE  Outcome(x)
<1>0. IInv /\ IInv' /\ Invariants
  BY DEF RegistryInv, Invariants
<1>1. CASE PassThrough(x) \/ ReplyState(x) \/ Close(x)
  BY <1>0, <1>1, ControlShows
<1>2. CASE Broadcast(x)
  BY <1>0, <1>2, BroadcastShows DEF Outcome
<1>3. CASE Gone(x)
  BY <1>3, GoneShows
<1>4. CASE x \in Calls
  BY <1>0, <1>1, <1>2, <1>3, <1>4, CallsAreTasks, SearchShows, JoinShows, LeaveShows,
     SettingsShow, DeleteShows
     DEF Run, Join
<1>5. CASE x \in Sockets
  BY <1>0, <1>1, <1>2, <1>3, <1>5, LostHandler
<1> QED  BY <1>4, <1>5 DEF Tasks
-----------------------------------------------------------------------------
(***************************************************************************)
(* The screen.                                                             *)
(***************************************************************************)
Shown(m, ready) ==
  [room |-> Home, parts |-> m \cap Present, ready |-> m \cap Present \cap ready]

LEMMA RosterIs ==
  IInv /\ Seating /\ roomOwner[Home] = Home =>
    Roster(Home) = Shown(roomMembers[Home], roomReady[Home])
<1> SUFFICES ASSUME IInv, Seating, roomOwner[Home] = Home
             PROVE  Roster(Home) = Shown(roomMembers[Home], roomReady[Home])
  OBVIOUS
<1>1. roomMembers[Home] \subseteq Sockets
  BY RoomAssumption DEF IInv, RedisTypeOK
<1>2. ASSUME NEW s \in Sockets
      PROVE  (/\ socketInfo[s] # Null /\ socketInfo[s].role = "participant"
              /\ socketInfo[s].rid # roomOwner[Home]) <=> s \in Present
  <2>1. socketInfo[s] \in {Null, InfoOf(s)}
    BY DEF Seating
  <2>2. InfoOf(s).role = SeatedRole(s) /\ InfoOf(s).rid = RidOf(s)
    BY DEF InfoOf
  <2>3. CASE s \in OwnerSockets
    BY <2>1, <2>2, <2>3 DEF SeatedRole, Present
  <2>4. CASE s \notin OwnerSockets
    <3>1. s # Home
      BY RoomAssumption
    <3> QED  BY <2>1, <2>2, <2>4, <3>1 DEF SeatedRole, RidOf, Present, Registered
  <2> QED  BY <2>3, <2>4
<1>3. Listed(Home) = roomMembers[Home] \cap Present
  BY <1>1, <1>2 DEF Listed
<1> QED  BY <1>3 DEF Roster, Shown

LEMMA RosterIsPrimed ==
  (IInv /\ Seating /\ roomOwner[Home] = Home =>
     Roster(Home) = Shown(roomMembers[Home], roomReady[Home]))'
  BY RosterIs, PTL

LEMMA RosterStays ==
  ASSUME IInv, IInv', Seating, Seating', Steady, NEW s \in Sockets, Watches(s)'
  PROVE  Watches(s) /\ Roster(Home)' = Roster(Home)
<1>1. Watches(s) /\ roomOwner[Home] = Home /\ roomOwner'[Home] = Home
  BY DEF Steady, Watches
<1> QED  BY <1>1, RosterIs, RosterIsPrimed DEF Steady, Shown

LEMMA FreshStays ==
  ASSUME Steady, NEW z \in Tasks, task'[z] = task[z], NEW s, Fresh(z, s)
  PROVE  Fresh(z, s)'
  BY DEF Steady, Fresh

\* A step beside the broadcasts, of the tasks in M.
LEMMA ViewStays ==
  ASSUME IInv, IInv', Seating, Seating', ViewOK, Steady, view' = view,
         NEW M \in SUBSET Tasks,
         \A y \in Tasks \ M : task'[y] = task[y],
         \A y \in M : ~Pending(y) /\ ~Casts(y) /\ ~Casts(y)',
         \A y, z \in Tasks \ M : Running(z) /\ Behind(queue, y, z) => Behind(queue', y, z)
  PROVE  ViewOK'
<1> SUFFICES ASSUME NEW s \in Sockets, Watches(s)'
             PROVE  \/ \E x \in Tasks : Pending(x)'
                    \/ \E x \in Tasks : Casts(x)' /\ Fresh(x, s)' /\ Last(x)'
                    \/ view'[s] = Roster(Home)' /\ \A x \in Tasks : ~Casts(x)'
  BY DEF ViewOK
<1>1. Watches(s) /\ Roster(Home)' = Roster(Home)
  BY RosterStays
<1>2. \A y \in Tasks : Casts(y)' => y \notin M /\ Casts(y) /\ Round(y)' = Round(y)
  BY DEF Casts, Round
<1>3. ASSUME NEW z \in Tasks, Pending(z) PROVE Pending(z)'
  BY <1>3 DEF Pending
<1>4. ASSUME NEW z \in Tasks, Casts(z), Fresh(z, s), Last(z)
      PROVE  Casts(z)' /\ Fresh(z, s)' /\ Last(z)'
  <2>1. z \notin M /\ task'[z] = task[z]
    BY <1>4
  <2>2. Casts(z)' /\ Running(z) /\ Round(z)' = Round(z)
    BY <1>4, <2>1 DEF Casts, Casting, Running, Round
  <2>3. Fresh(z, s)'
    BY <1>4, <2>1, FreshStays
  <2>4. ASSUME NEW y \in Tasks, Casts(y)', y # z PROVE Sooner(y, z)'
    <3>1. Casts(y) /\ y \notin M /\ Round(y)' = Round(y)
      BY <1>2, <2>4
    <3>2. Sooner(y, z)
      BY <1>4, <2>4, <3>1 DEF Last
    <3>3. Behind(queue, y, z) => Behind(queue, y, z)'
      BY <2>1, <2>2, <3>1 DEF Behind
    <3> HIDE DEF Round, Behind
    <3> QED  BY <2>2, <3>1, <3>2, <3>3 DEF Sooner
  <2> QED  BY <2>2, <2>3, <2>4 DEF Last
<1> QED  BY <1>1, <1>2, <1>3, <1>4 DEF ViewOK

LEMMA RoundsGrow ==
  ASSUME IInv, NEW x \in Tasks, Broadcast(x), Casts(x)'
  PROVE  Round(x)' = Round(x) + 1 \/ (InPipeline(x) /\ Round(x)' = Round(x))
<1>0. DOMAIN task = Tasks /\ task[x] \in TaskStates
  BY DEF IInv, TasksOK
<1>1. ASSUME CastDone(x) PROVE FALSE
  BY <1>1, CastEnds DEF Casts, Casting
<1>2. CASE CastOwner(x)
  <2> DEFINE t == [task[x] EXCEPT !.pc = "castMembers", !.owner = roomOwner[task[x].room],
                                  !.found = Null, !.parts = {}]
  <2>1. t.pc = "castMembers"
    BY <1>0 DEF TaskStates
  <2>2. task[x].pc = "castOwner" /\ Set(x, t)
    BY <1>1, <1>2 DEF CastOwner, At
  <2> HIDE DEF t
  <2> QED  BY <1>0, <2>1, <2>2 DEF Set, Round
<1>3. CASE CastMembers(x)
  <2> DEFINE t == [task[x] EXCEPT !.pc = "castReady", !.todo = roomMembers[task[x].room]]
  <2>1. t.pc = "castReady"
    BY <1>0 DEF TaskStates
  <2>2. task[x].pc = "castMembers" /\ Set(x, t)
    BY <1>3 DEF CastMembers, At
  <2> HIDE DEF t
  <2> QED  BY <1>0, <2>1, <2>2 DEF Set, Round
<1>4. CASE CastReady(x)
  <2> DEFINE t == [task[x] EXCEPT !.pc = "castInfo", !.ready = roomReady[task[x].room]]
  <2>1. t.pc = "castInfo"
    BY <1>0 DEF TaskStates
  <2>2. task[x].pc = "castReady" /\ Set(x, t)
    BY <1>1, <1>4 DEF CastReady, At
  <2> HIDE DEF t
  <2> QED  BY <1>0, <2>1, <2>2 DEF Set, Round
<1>5. CASE CastInfo(x)
  <2>1. task[x].pc = "castInfo"
    BY <1>5 DEF CastInfo, At
  <2>2. PICK m \in task[x].todo : InfoRead(x, m)
    BY <1>0, <1>5, InfoIsRead
  <2>3. Sorted(task[x], m).pc = "castInfo"
    BY <2>1, SortedParts
  <2>4. task'[x].pc = "castInfo"
    BY <1>1, <2>2, <2>3 DEF InfoRead
  <2> QED  BY <2>1, <2>4 DEF InPipeline, Round
<1> QED  BY <1>2, <1>3, <1>4, <1>5 DEF Broadcast

\* A broadcast that has read what Redis has goes on to read what Redis has, and
\* in the end delivers it.
LEMMA FreshMoves ==
  ASSUME IInv, Seating, OneProcess, Steady, NEW x \in Tasks, Broadcast(x),
         NEW s \in Sockets, Watches(s), Fresh(x, s)
  PROVE  \/ Casts(x)' /\ Fresh(x, s)'
         \/ ~Casts(x)' /\ view'[s] = Roster(Home) /\ task[x].pc = "castInfo"
<1>0. /\ DOMAIN task = Tasks /\ task[x] \in TaskStates
      /\ Casts(x) /\ OthersStay(x)
  BY CastMovesOn DEF IInv, TasksOK
<1>1. task[x].room = Home /\ task[x].sock \in Sockets /\ Home \in Rooms
  BY <1>0, RoomAssumption DEF Seating, IInv, TasksOK, WellFormed, Casts, Casting
<1>2. /\ roomOwner[Home] = Home /\ Home # Null
      /\ roomMembers[Home] \subseteq Sockets /\ roomReady[Home] \subseteq Sockets
      /\ s \in roomMembers[Home] /\ s \in OwnerMembers /\ Registered(s)
  BY <1>0, <1>1, RoomAssumption DEF Watches, IInv, RedisTypeOK, OwnerMembers, Member
<1>3. /\ Present' = Present /\ roomMembers'[Home] = roomMembers[Home]
      /\ roomReady'[Home] = roomReady[Home]
  BY DEF Steady
<1>4. CASE CastOwner(x)
  <2> DEFINE t == [task[x] EXCEPT !.pc = "castMembers", !.owner = Home, !.found = Null,
                                  !.parts = {}]
  <2>1. t.pc = "castMembers" /\ t.owner = Home /\ t.found = Null /\ t.parts = {}
    BY <1>0 DEF TaskStates
  <2>2. task' = [task EXCEPT ![x] = t]
    BY <1>1, <1>2, <1>4 DEF CastOwner, Set
  <2> HIDE DEF t
  <2>3. task'[x] = t
    BY <1>0, <2>2
  <2> QED  BY <2>1, <2>3 DEF Casts, Casting, Fresh
<1>5. CASE CastMembers(x)
  <2> DEFINE t == [task[x] EXCEPT !.pc = "castReady", !.todo = roomMembers[Home]]
  <2>1. /\ t.pc = "castReady" /\ t.todo = roomMembers[Home] /\ t.owner = task[x].owner
        /\ t.found = task[x].found /\ t.parts = task[x].parts
    BY <1>0 DEF TaskStates
  <2>2. task' = [task EXCEPT ![x] = t] /\ task[x].pc = "castMembers"
    BY <1>1, <1>5 DEF CastMembers, Set, At
  <2> HIDE DEF t
  <2>3. task'[x] = t
    BY <1>0, <2>2
  <2> QED  BY <1>3, <2>1, <2>2, <2>3 DEF Casts, Casting, Fresh
<1>6. CASE CastReady(x)
  <2>1. /\ task[x].pc = "castReady" /\ task[x].todo = roomMembers[Home]
        /\ task[x].found = Null /\ task[x].parts = {} /\ task[x].owner = Home
    BY <1>6 DEF CastReady, At, Fresh
  <2> DEFINE t == [task[x] EXCEPT !.pc = "castInfo", !.ready = roomReady[Home]]
  <2>2. /\ t.pc = "castInfo" /\ t.ready = roomReady[Home] /\ t.owner = task[x].owner
        /\ t.todo = task[x].todo /\ t.found = task[x].found /\ t.parts = task[x].parts
    BY <1>0 DEF TaskStates
  <2>3. task' = [task EXCEPT ![x] = t]
    BY <1>1, <1>2, <1>6, <2>1 DEF CastReady, Set
  <2> HIDE DEF t
  <2>4. task'[x] = t
    BY <1>0, <2>3
  <2>5. Fresh(x, s)'
    BY <1>2, <1>3, <2>1, <2>2, <2>4 DEF Fresh
  <2> QED  BY <2>2, <2>4, <2>5 DEF Casts, Casting
<1>7. CASE CastInfo(x)
  <2>1. /\ task[x].pc = "castInfo" /\ task[x].owner = Home
        /\ task[x].todo \subseteq roomMembers[Home]
        /\ task[x].ready = roomReady[Home]
        /\ task[x].parts = (roomMembers[Home] \ task[x].todo) \cap Present
        /\ task[x].found = IF s \in task[x].todo THEN Null ELSE s
    BY <1>7 DEF CastInfo, At, Fresh
  <2>2. PICK m \in task[x].todo : InfoRead(x, m)
    BY <1>0, <1>7, InfoIsRead
  <2> DEFINE t == Sorted(task[x], m)
             todo == task[x].todo \ {m}
  <2>3. m \in roomMembers[Home] /\ m \in Sockets
    BY <1>2, <2>1
  <2>4. socketInfo[m] # Null /\ socketInfo[m].rid = Home <=> m = s
    <3>1. socketInfo[m] \in {Null, InfoOf(m)} /\ socketInfo[s] \in {Null, InfoOf(s)}
      BY <2>3 DEF Seating
    <3>2. InfoOf(m).rid = RidOf(m) /\ InfoOf(s).rid = Home
      BY DEF InfoOf, RidOf, Watches
    <3>3. RidOf(m) = Home <=> m \in OwnerSockets
      BY <2>3, RoomAssumption DEF RidOf
    <3>4. m \in OwnerSockets => m = s
      BY <1>2, <2>3 DEF OwnerMembers, Seating, AtMostOne
    <3> QED  BY <1>2, <3>1, <3>2, <3>3, <3>4 DEF Registered, Watches
  <2>5. (socketInfo[m] # Null /\ socketInfo[m].rid # Home /\ socketInfo[m].role = "participant")
          <=> m \in Present
    <3>1. socketInfo[m] \in {Null, InfoOf(m)}
      BY <2>3 DEF Seating
    <3>2. InfoOf(m).rid = RidOf(m) /\ InfoOf(m).role = SeatedRole(m)
      BY DEF InfoOf
    <3>3. RidOf(m) = Home <=> m \in OwnerSockets
      BY <2>3, RoomAssumption DEF RidOf
    <3> QED  BY <2>3, <3>1, <3>2, <3>3 DEF SeatedRole, Present, Registered
  <2>6. /\ t.todo = todo /\ t.pc = "castInfo" /\ t.owner = Home /\ t.ready = roomReady[Home]
        /\ t.found = IF m = s THEN m ELSE task[x].found
        /\ t.parts = IF m \in Present THEN task[x].parts \cup {m} ELSE task[x].parts
        /\ t.sock = task[x].sock /\ t.room = Home
    <3>1. LET info == socketInfo[m] IN
          /\ t.todo = task[x].todo \ {m}
          /\ t.found = IF info # Null /\ info.rid = task[x].owner THEN m ELSE task[x].found
          /\ t.parts = IF info # Null /\ info.rid # task[x].owner /\ info.role = "participant"
                         THEN task[x].parts \cup {m} ELSE task[x].parts
          /\ t.pc = task[x].pc /\ t.owner = task[x].owner /\ t.ready = task[x].ready
          /\ t.sock = task[x].sock /\ t.room = task[x].room
      BY <1>0, SortedParts
    <3> HIDE DEF t
    <3> QED  BY <1>1, <2>1, <2>4, <2>5, <3>1
  <2>7. /\ t.parts = (roomMembers[Home] \ todo) \cap Present
        /\ t.found = IF s \in todo THEN Null ELSE s
        /\ todo \subseteq roomMembers[Home]
    BY <2>1, <2>3, <2>6
  <2> HIDE DEF t
  <2>8. CASE t.todo # {}
    <3>1. task'[x] = t
      BY <2>2, <2>8 DEF InfoRead, t
    <3>2. Fresh(x, s)'
      BY <1>3, <2>6, <2>7, <2>8, <3>1 DEF Fresh
    <3> QED  BY <2>6, <3>1, <3>2 DEF Casts, Casting
  <2>9. CASE t.todo = {}
    <3>1. view' = Delivered(t) /\ CastDone(x)
      BY <2>2, <2>9 DEF InfoRead, t
    <3>2. ~Casts(x)'
      BY <1>0, <3>1, CastEnds DEF Casts, Casting
    <3>3. t.found = s /\ t.parts = roomMembers[Home] \cap Present
      BY <2>6, <2>7, <2>9
    <3>4. s # Null /\ conn[s] /\ Host[s] = Host[t.sock]
      BY <1>1, <2>6, RoomAssumption DEF Watches, OneProcess
    <3>5. view'[s] = [room |-> Home, parts |-> t.parts, ready |-> t.parts \cap roomReady[Home]]
      BY <1>0, <2>6, <3>1, <3>3, <3>4 DEF Delivered, IInv, SocketsOK
    <3>6. view'[s] = Roster(Home)
      BY <1>2, <3>3, <3>5, RosterIs DEF Shown
    <3> QED  BY <2>1, <3>2, <3>6
  <2> QED  BY <2>8, <2>9
<1> QED  BY <1>4, <1>5, <1>6, <1>7 DEF Broadcast

Rounds == 1..4

LEMMA RoundsAre ==
  ASSUME NEW x \in Tasks, Casts(x)
  PROVE  /\ Round(x) \in Rounds /\ (task[x].pc = "castOwner" => Round(x) = 1)
         /\ (task[x].pc = "castInfo" => Round(x) = 4)
  BY DEF Casts, Casting, Round, Rounds

LEMMA RoundsArePrimed ==
  ASSUME NEW x \in Tasks, Casts(x)'
  PROVE  Round(x)' \in Rounds /\ (task'[x].pc = "castOwner" => Round(x)' = 1)
  BY DEF Casts, Casting, Round, Rounds

\* A broadcast goes on, which may be the last.
LEMMA BroadcastKeepsView ==
  ASSUME IInv, IInv', Seating, Seating', OneProcess, QueueOK, ViewOK, NEW x \in Tasks,
         Serve(x), Broadcast(x)
  PROVE  ViewOK'
<1>0. Steady /\ OthersStay(x) /\ Casts(x)
  BY BroadcastShows, CastMovesOn
<1>1. /\ QueueOK' /\ \A u : ~Behind(queue, u, x)
      /\ InPipeline(x) => queue' = queue
      /\ Running(x)' /\ ~InPipeline(x) =>
           \A u : Waits(queue', u) /\ u # x => Behind(queue', u, x)
      /\ \A y, z \in Tasks :
           y # x /\ Running(z) /\ Behind(queue, y, z) => Behind(queue', y, z)
  BY <1>0, ServeQueues
<1>2. ASSUME NEW y \in Tasks, y # x
      PROVE  /\ task'[y] = task[y] /\ Casts(y)' = Casts(y) /\ Pending(y)' = Pending(y)
             /\ Round(y)' = Round(y) /\ Running(y)' = Running(y)
  BY <1>0, <1>2 DEF OthersStay, Casts, Pending, Round, Running
<1> SUFFICES ASSUME NEW s \in Sockets, Watches(s)'
             PROVE  \/ \E y \in Tasks : Pending(y)'
                    \/ \E y \in Tasks : Casts(y)' /\ Fresh(y, s)' /\ Last(y)'
                    \/ view'[s] = Roster(Home)' /\ \A y \in Tasks : ~Casts(y)'
  BY DEF ViewOK
<1>3. Watches(s) /\ Roster(Home)' = Roster(Home)
  BY <1>0, RosterStays
<1>4. CASE \E z \in Tasks : Pending(z)
  <2>1. ~Pending(x)
    BY <1>0 DEF Pending, Casts, Casting
  <2> QED  BY <1>2, <1>4, <2>1
<1>5. ASSUME NEW z \in Tasks, z # x, Casts(z), Fresh(z, s), Last(z)
      PROVE  Casts(z)' /\ Fresh(z, s)' /\ Last(z)'
  <2>1. Casts(z)' /\ Fresh(z, s)' /\ Running(z) /\ Round(z)' = Round(z) /\ Round(z) \in Rounds
    BY <1>0, <1>2, <1>5, FreshStays, RoundsAre DEF Casts, Casting, Running
  <2>2. ASSUME NEW y \in Tasks, Casts(y)', y # z PROVE Sooner(y, z)'
    <3>1. Casts(y) /\ Sooner(y, z) /\ Round(y) \in Rounds
      BY <1>0, <1>2, <1>5, <2>2, RoundsAre DEF Last
    <3>2. CASE y # x
      <4>1. Behind(queue, y, z) => Behind(queue, y, z)'
        BY <1>1, <2>1, <3>2 DEF Behind
      <4> HIDE DEF Round, Behind
      <4> QED  BY <1>2, <2>1, <3>1, <3>2, <4>1 DEF Sooner
    <3>3. CASE y = x
      <4>1. Round(x)' = Round(x) + 1 \/ (queue' = queue /\ Round(x)' = Round(x))
        BY <1>0, <1>1, <2>2, <3>3, RoundsGrow
      <4>2. queue' = queue /\ Behind(queue, y, z) => Behind(queue, y, z)'
        BY DEF Behind
      <4> HIDE DEF Round, Behind
      <4> QED  BY <2>1, <3>1, <3>3, <4>1, <4>2 DEF Sooner, Rounds
    <3> QED  BY <3>2, <3>3
  <2> QED  BY <2>1, <2>2 DEF Last
<1>6. CASE Fresh(x, s) /\ Last(x)
  <2>1. ASSUME NEW y \in Tasks, y # x, Casts(y) PROVE Round(x) < Round(y)
    <3> HIDE DEF Round, Behind
    <3> QED  BY <1>1, <1>6, <2>1 DEF Last, Sooner
  <2>2. CASE Casts(x)' /\ Fresh(x, s)'
    <3>1. ASSUME NEW y \in Tasks, Casts(y)', y # x PROVE Sooner(y, x)'
      <4>1. /\ Casts(y) /\ Running(y)' /\ Round(y)' = Round(y) /\ Round(x) < Round(y)
            /\ Round(y) \in Rounds /\ Round(x) \in Rounds
        BY <1>0, <1>2, <2>1, <3>1, RoundsAre DEF Casts, Casting, Running
      <4>2. CASE Round(x)' = Round(x)
        <5> HIDE DEF Round, Behind
        <5> QED  BY <4>1, <4>2 DEF Sooner
      <4>3. CASE Round(x)' # Round(x)
        <5>1. Round(x)' = Round(x) + 1 /\ ~InPipeline(x)
          <6>1. InPipeline(x) => Round(x)' = Round(x)
            BY DEF InPipeline, Round
          <6> QED  BY <1>0, <2>2, <4>3, <6>1, RoundsGrow
        <5>2. Waits(queue', y) /\ Running(x)'
          BY <1>1, <2>2, <4>1 DEF QueueOK, Casts, Casting, Running
        <5>3. Behind(queue, y, x)'
          BY <1>1, <3>1, <5>1, <5>2 DEF Behind
        <5> HIDE DEF Round, Behind
        <5> QED  BY <4>1, <5>1, <5>3 DEF Sooner, Rounds
      <4> QED  BY <4>2, <4>3
    <3> QED  BY <2>2, <3>1 DEF Last
  <2>3. CASE ~Casts(x)' /\ view'[s] = Roster(Home) /\ task[x].pc = "castInfo"
    <3>1. ASSUME NEW y \in Tasks, y # x PROVE ~Casts(y)'
      <4>1. Casts(y) => Round(y) \in Rounds /\ 4 < Round(y)
        BY <1>0, <2>1, <2>3, <3>1, RoundsAre
      <4> HIDE DEF Round
      <4> QED  BY <1>2, <3>1, <4>1 DEF Rounds
    <3> QED  BY <1>3, <2>3, <3>1
  <2> QED  BY <1>0, <1>3, <1>6, <2>2, <2>3, FreshMoves
<1>7. ~(\A y \in Tasks : ~Casts(y))
  BY <1>0
<1> QED  BY <1>3, <1>4, <1>5, <1>6, <1>7 DEF ViewOK

\* A broadcast begins, and no other will end later.
LEMMA BroadcastBegins ==
  ASSUME IInv, Seating, QueueOK, NEW x \in Tasks, Serve(x), task'[x].pc = "castOwner"
  PROVE  ViewOK'
<1>1. /\ Running(x)' /\ ~InPipeline(x) /\ Casts(x)'
      /\ \A s : Fresh(x, s)'
  BY DEF Running, InPipeline, Casts, Casting, Fresh
<1>2. QueueOK' /\ \A u : Waits(queue', u) /\ u # x => Behind(queue', u, x)
  BY <1>1, ServeQueues
<1>3. ASSUME NEW y \in Tasks, Casts(y)', y # x PROVE Sooner(y, x)'
  <2>1. Running(y)'
    BY <1>3 DEF Casts, Casting, Running
  <2>2. Behind(queue, y, x)'
    BY <1>2, <1>3, <2>1 DEF QueueOK, Behind
  <2>3. Round(x)' = 1 /\ Round(y)' \in Rounds
    BY <1>1, <1>3, RoundsArePrimed
  <2> HIDE DEF Round, Behind
  <2> QED  BY <2>2, <2>3 DEF Sooner, Rounds
<1> QED  BY <1>1, <1>3 DEF ViewOK, Last

LEMMA NotRunning ==
  ASSUME NEW x \in Tasks, ~Running(x)
  PROVE  ~Pending(x) /\ ~Casts(x)
  BY DEF Running, Pending, Casts, Casting

LEMMA ServeKeepsView ==
  ASSUME IInv, IInv', Seating, Seating', OneProcess, QueueOK, ViewOK, NEW x \in Tasks,
         Serve(x), Outcome(x)
  PROVE  ViewOK'
<1>0. Run(x)
  BY DEF Serve
<1>1. \A y, z \in Tasks :
        y # x /\ Running(z) /\ Behind(queue, y, z) => Behind(queue', y, z)
  BY <1>0, ServeQueues
<1>2. CASE Unwatched' \/ Pending(x)'
  BY <1>2 DEF Unwatched, ViewOK
<1>3. CASE task'[x].pc = "castOwner"
  BY <1>0, <1>3, BroadcastBegins
<1>4. CASE Beside(x)
  <2>1. CASE OthersStay(x)
    <3> DEFINE M == {x}
    <3>1. /\ M \in SUBSET Tasks /\ \A y \in Tasks \ M : task'[y] = task[y]
          /\ \A y \in M : ~Pending(y) /\ ~Casts(y) /\ ~Casts(y)'
      BY <1>4, <2>1 DEF Beside, OthersStay
    <3>2. \A y, z \in Tasks \ M : Running(z) /\ Behind(queue, y, z) => Behind(queue', y, z)
      BY <1>1
    <3> HIDE DEF M
    <3> QED  BY <1>4, <3>1, <3>2, ViewStays DEF Beside
  <2>2. ASSUME NEW s \in Sockets, s # x, ~Running(s), task'[s] = Disconnection(s),
               Disconnects(x, s)
        PROVE  ViewOK'
    <3> DEFINE M == {x, s}
    <3>1. s \in Tasks /\ ~Pending(s) /\ ~Casts(s)
      BY <2>2, CallsAreTasks, NotRunning
    <3>2. ~Casts(s)'
      BY <2>2 DEF Casts, Casting, Disconnection, NoTask
    <3>3. /\ M \in SUBSET Tasks /\ \A y \in Tasks \ M : task'[y] = task[y]
          /\ \A y \in M : ~Pending(y) /\ ~Casts(y) /\ ~Casts(y)'
      BY <1>4, <2>2, <3>1, <3>2 DEF Beside, Disconnects
    <3>4. \A y, z \in Tasks \ M : Running(z) /\ Behind(queue, y, z) => Behind(queue', y, z)
      BY <1>1
    <3> HIDE DEF M
    <3> QED  BY <1>4, <3>3, <3>4, ViewStays DEF Beside
  <2> QED  BY <1>0, <2>1, <2>2, WhoStarts
<1>5. CASE Steady /\ Broadcast(x)
  BY <1>5, BroadcastKeepsView
<1> QED  BY <1>2, <1>3, <1>4, <1>5 DEF Outcome

\* Where the handler of a request begins.
LEMMA RequestsBegin ==
  ASSUME NEW q \in Inputs
  PROVE  FirstAwait(q) \in {"joinToken", "joinConfig", "leaveInfo", "toggleInfo", "nickInfo",
                            "configOwner", "delOwner", "done"}
<1>1. q.kind \in Kinds
  BY RoomAssumption DEF InputData
<1> QED  BY <1>1 DEF FirstAwait, Kinds

LEMMA ArrivalQueues ==
  ASSUME IInv, IInv', Seating, Seating', QueueOK, ViewOK, NEW c \in Calls, FifoArrive(c)
  PROVE  QueueOK' /\ ViewOK'
<1>0. c \in Tasks /\ ~Running(c)
  BY CallsAreTasks DEF FifoArrive, Arrive, At, Running
<1>1. PICK q \in Inputs :
        Set(c, IF FirstAwait(q) = "done" THEN Ended ELSE
                 [NoTask EXCEPT !.pc = FirstAwait(q), !.sock = q.sock,
                    !.room = q.room, !.rid = rid[q.sock],
                    !.arg = IF q.kind = "leave" THEN role[q.sock] ELSE q.arg])
  BY DEF FifoArrive, Arrive
<1> DEFINE t == [NoTask EXCEPT !.pc = FirstAwait(q), !.sock = q.sock,
                    !.room = q.room, !.rid = rid[q.sock],
                    !.arg = IF q.kind = "leave" THEN role[q.sock] ELSE q.arg]
<1>2. t.pc = FirstAwait(q) /\ Ended.pc = "done"
  BY DEF NoTask, Ended
<1> HIDE DEF t
<1>3. /\ OthersStay(c)
      /\ task'[c].pc \in {"joinToken", "joinConfig", "leaveInfo", "toggleInfo", "nickInfo",
                          "configOwner", "delOwner", "done"}
  BY <1>0, <1>1, <1>2, RequestsBegin DEF Set, OthersStay, IInv, TasksOK, t
<1>4. ~Casts(c)' /\ ~Pending(c) /\ ~Casts(c)
  BY <1>0, <1>3, NotRunning DEF Casts, Casting
<1>5. UNCHANGED <<roomMembers, roomReady, roomOwner, socketInfo, conn, view>>
  BY DEF FifoArrive, Arrive, ReadsOnly, OnlyRedis, redisVars, sockVars
<1>6. Steady
  <2>1. Doomed => Doomed'
    <3>1. SUFFICES ASSUME NEW d \in Calls, task[d].pc \in {"delInfo", "delOwnInfo", "delRoom"}
                   PROVE  task'[d] = task[d]
      BY DEF Doomed
    <3>2. d # c
      BY <1>0, <3>1 DEF Running
    <3> QED  BY <1>3, <3>2, CallsAreTasks DEF OthersStay
  <2> QED  BY <1>5, <2>1 DEF Steady, Watches, Member, Registered, Present
<1>7. QueueOK' /\ OrderStays({c})
  <2>1. CASE Running(c)'
    BY <1>0, <1>3, <2>1, JoinsQueue DEF FifoArrive
  <2>2. CASE ~Running(c)'
    BY <1>0, <1>3, <2>2, StaysInQueue DEF FifoArrive
  <2> QED  BY <2>1, <2>2
<1>8. ViewOK'
  <2> DEFINE M == {c}
  <2>1. /\ M \in SUBSET Tasks /\ \A y \in Tasks \ M : task'[y] = task[y]
        /\ \A y \in M : ~Pending(y) /\ ~Casts(y) /\ ~Casts(y)'
    BY <1>0, <1>3, <1>4 DEF OthersStay
  <2>2. \A y, z \in Tasks \ M : Running(z) /\ Behind(queue, y, z) => Behind(queue', y, z)
    BY <1>7 DEF OrderStays
  <2> HIDE DEF M
  <2> QED  BY <1>5, <1>6, <2>1, <2>2, ViewStays
<1> QED  BY <1>7, <1>8

LEMMA LossQueues ==
  ASSUME IInv, IInv', Seating, Seating', QueueOK, ViewOK, NEW s \in Sockets, FifoDrop(s)
  PROVE  QueueOK' /\ ViewOK'
<1>0. s \in Tasks /\ conn[s]
  BY CallsAreTasks DEF FifoDrop, Drop
<1>1. ~Running(s)
  BY <1>0 DEF Seating
<1>2. /\ task' = [task EXCEPT ![s] = Disconnection(s)]
      /\ conn' = [conn EXCEPT ![s] = FALSE]
      /\ UNCHANGED <<roomMembers, roomReady, roomOwner, socketInfo, view>>
  BY DEF FifoDrop, Drop, redisVars
<1>3. task'[s] = Disconnection(s) /\ OthersStay(s)
  BY <1>0, <1>2 DEF IInv, TasksOK, OthersStay
<1>4. Running(s)' /\ ~Casts(s)' /\ ~Pending(s) /\ ~Casts(s)
  BY <1>0, <1>1, <1>3, NotRunning DEF Casts, Casting, Running, Disconnection, NoTask
<1>5. Steady
  <2>1. Doomed => Doomed'
    BY <1>3, CallsAreTasks DEF Doomed, OthersStay
  <2>2. \A u \in Sockets : conn'[u] => conn[u]
    BY <1>0, <1>2 DEF IInv, SocketsOK
  <2> QED  BY <1>2, <2>1, <2>2 DEF Steady, Watches, Member, Registered, Present
<1>6. QueueOK' /\ OrderStays({s})
  BY <1>0, <1>1, <1>3, <1>4, JoinsQueue DEF FifoDrop
<1>7. ViewOK'
  <2> DEFINE M == {s}
  <2>1. /\ M \in SUBSET Tasks /\ \A y \in Tasks \ M : task'[y] = task[y]
        /\ \A y \in M : ~Pending(y) /\ ~Casts(y) /\ ~Casts(y)'
    BY <1>0, <1>3, <1>4 DEF OthersStay
  <2>2. \A y, z \in Tasks \ M : Running(z) /\ Behind(queue, y, z) => Behind(queue', y, z)
    BY <1>6 DEF OrderStays
  <2> HIDE DEF M
  <2> QED  BY <1>2, <1>5, <2>1, <2>2, ViewStays
<1> QED  BY <1>6, <1>7
-----------------------------------------------------------------------------
(***************************************************************************)
(* The theorems.                                                           *)
(***************************************************************************)
\* One server process is a room service: the queue of its Redis connection only
\* takes interleavings away, so what Spec promises holds of it.
THEOREM OneProcessIsARoomService == FifoSpec => Spec
<1>1. FifoInit => Init
  BY DEF FifoInit
<1>2. [FifoNext]_fifoVars => [Next]_vars
  BY DEF FifoNext, FifoArrive, FifoDrop, Serve, Next, fifoVars
<1> QED  BY <1>1, <1>2, PTL DEF FifoSpec, Spec

LEMMA FifoInitIsRight ==
  ASSUME Orderly, FifoInit
  PROVE  ViewInv
<1>1. Init /\ queue = <<>> /\ RegistryInv
  BY InitIsConsistent DEF FifoInit
<1>2. \A x \in Tasks : task[x].pc = "idle" /\ ~Running(x) /\ ~Casts(x)
  BY <1>1 DEF Init, NoTask, Running, Casts, Casting
<1>3. QueueOK
  <2>1. queue \in Seq(Tasks) /\ DOMAIN queue = {}
    BY <1>1
  <2> QED  BY <1>2, <2>1 DEF QueueOK, Distinct, Waits
<1>4. LossArg
  BY <1>2, CallsAreTasks DEF LossArg
<1>5. ASSUME NEW s \in Sockets, Watches(s) PROVE view[s] = Roster(Home)
  <2>1. s \in Seated \cap OwnerSockets
    BY <1>1, <1>5, RoomAssumption DEF Watches, Member, Init
  <2>2. view = [u \in Sockets |->
                  IF u \in Seated \cap OwnerSockets THEN Roster(Home) ELSE Null]
    BY <1>1 DEF Init
  <2> QED  BY <2>1, <2>2
<1>6. ViewOK
  BY <1>2, <1>5 DEF ViewOK
<1> QED  BY <1>1, <1>3, <1>4, <1>6 DEF ViewInv

LEMMA FifoStepIsRight ==
  ASSUME Orderly, OneProcess, ViewInv, [FifoNext]_fifoVars
  PROVE  ViewInv'
<1>1. RegistryInv /\ QueueOK /\ LossArg /\ ViewOK /\ IInv /\ Invariants /\ Seating
  BY OrderGivesSeating DEF ViewInv, RegistryInv, Invariants
<1>2. RegistryInv' /\ IInv' /\ Seating'
  <2>1. [Next]_vars
    BY DEF FifoNext, FifoArrive, FifoDrop, Serve, Next, fifoVars
  <2>2. RegistryInv'
    BY <1>1, <2>1, StepIsConsistent
  <2> QED  BY <2>2, OrderGivesSeatingPrimed DEF RegistryInv
<1>3. CASE UNCHANGED fifoVars
  <2>1. UNCHANGED <<roomMembers, roomReady, roomOwner, socketInfo, conn, task, view, queue>>
    BY <1>3 DEF fifoVars, vars, redisVars, sockVars
  <2>2. QueueOK' /\ LossArg'
    BY <1>1, <2>1 DEF QueueOK, LossArg, Waits, Distinct, Running
  <2>3. Steady
    BY <2>1 DEF Steady, Watches, Member, Registered, Present, Doomed
  <2>4. \A y, z \in Tasks : Behind(queue, y, z) => Behind(queue', y, z)
    BY <2>1
  <2>5. ViewOK'
    <3> DEFINE M == {}
    <3>1. /\ M \in SUBSET Tasks /\ \A y \in Tasks \ M : task'[y] = task[y]
          /\ \A y \in M : ~Pending(y) /\ ~Casts(y) /\ ~Casts(y)'
          /\ \A y, z \in Tasks \ M : Running(z) /\ Behind(queue, y, z) => Behind(queue', y, z)
      BY <2>1, <2>4
    <3> HIDE DEF M
    <3> QED  BY <1>1, <1>2, <2>1, <2>3, <3>1, ViewStays
  <2> QED  BY <1>2, <2>2, <2>5 DEF ViewInv
<1>4. CASE FifoNext
  <2>1. Next
    BY <1>4 DEF FifoNext, FifoArrive, FifoDrop, Serve, Next
  <2>2. LossArg'
    BY <1>1, <2>1, LossArgKept
  <2>3. QueueOK' /\ ViewOK'
    <3>1. ASSUME NEW c \in Calls, FifoArrive(c) PROVE QueueOK' /\ ViewOK'
      BY <1>1, <1>2, <3>1, ArrivalQueues
    <3>2. ASSUME NEW s \in Sockets, FifoDrop(s) PROVE QueueOK' /\ ViewOK'
      BY <1>1, <1>2, <3>2, LossQueues
    <3>3. ASSUME NEW x \in Tasks, Serve(x) PROVE QueueOK' /\ ViewOK'
      <4>1. Outcome(x)
        BY <1>1, <1>2, <3>3, RunShows DEF Serve
      <4> QED  BY <1>1, <1>2, <3>3, <4>1, ServeQueues, ServeKeepsView
    <3> QED  BY <1>4, <3>1, <3>2, <3>3 DEF FifoNext
  <2> QED  BY <1>2, <2>2, <2>3 DEF ViewInv
<1> QED  BY <1>3, <1>4

\* When no handler runs, the last room:participants that reached the connected
\* owner on record says who takes part and who is ready.
THEOREM OwnerSeesTheRoom ==
  ASSUME Orderly, OneProcess
  PROVE  FifoSpec => []OwnerViewIsCurrent
<1>1. FifoInit => ViewInv
  BY FifoInitIsRight
<1>2. ViewInv /\ [FifoNext]_fifoVars => ViewInv'
  BY FifoStepIsRight
<1>3. ViewInv => OwnerViewIsCurrent
  <2> SUFFICES ASSUME ViewInv, Quiescent, NEW r \in Rooms, NEW s \in Sockets, Presides(s, r)
               PROVE  view[s] = Roster(r)
    BY DEF OwnerViewIsCurrent
  <2>1. RegistryInv /\ ViewOK
    BY DEF ViewInv
  <2>2. \A x \in Tasks : ~Pending(x) /\ ~Casts(x)
    BY NotRunning DEF Quiescent
  <2>3. r = Home /\ s \in OwnerMembers /\ rid[s] = Home
    BY <2>1, OwnersAreMembers DEF Presides
  <2>4. ~Doomed
    BY CallsAreTasks DEF Quiescent, Doomed, Running
  <2>5. Watches(s)
    BY <2>3, <2>4 DEF Watches, Presides, Owns, OwnerMembers, Member, Registered
  <2> QED  BY <2>1, <2>2, <2>3, <2>5 DEF ViewOK
<1> QED  BY <1>1, <1>2, <1>3, PTL DEF FifoSpec
-----------------------------------------------------------------------------
(***************************************************************************)
(* Clients that keep to no order.                                          *)
(*                                                                         *)
(* Requests of one socket overlap, the owner leaves while it joins and     *)
(* renames itself, and rooms are deleted meanwhile; but the owner has one  *)
(* connection, and the requests are about one room.  Then the registry may *)
(* be left in disorder, but the list is right whenever the owner presides. *)
(***************************************************************************)
OneOwnerConnection ==
  /\ \A s, u \in OwnerSockets : s = u
  /\ \A q \in Inputs : q.room = Home /\ (q.kind = "join" => q.arg = SeatedRole(q.sock))

Seats ==
  /\ roomOwner[Home] \in {Null, Home}
  /\ \A s \in Sockets : /\ socketInfo[s] \in {Null, InfoOf(s)}
                        /\ role[s] \in {SeatedRole(s), "none"}
                        /\ rid[s] \in {RidOf(s), s}

\* What the run of a handler relies on, step by step.
Fits(t) ==
  /\ t.pc # "goneInfo" => t.room = Home
  /\ t.pc # "delRoom" => t.next = 1
  /\ t.pc \in Asking \cup Replacing \cup Exiting => t.sock \in OwnerSockets
  /\ t.pc = "joinConfig" => t.sock \notin OwnerSockets
  /\ t.pc \in Asking \cup Replacing
               \cup {"joinConfig", "addMember", "setInfo", "leaveInfo", "goneReady",
                     "goneMember", "goneDelete"}
       => t.arg = SeatedRole(t.sock)
  /\ t.pc \in Replacing \cup {"joinConfig", "addMember", "setInfo"} => t.rid = RidOf(t.sock)
  /\ t.pc \in {"activeMembers", "activeInfo"} => t.owner = Home
  /\ t.pc \in Asking \cup Replacing => t.found \in OwnerSockets \cup {Null}
  /\ t.pc \in {"dropMember", "dropInfo"} => ~conn[t.found]
  /\ t.pc = "nickSet" => t.info = InfoOf(t.sock)
  /\ t.pc \in Going /\ t.sock \in OwnerSockets => ~conn[t.sock]

TasksFit == \A x \in Tasks : Running(x) => Fits(task[x])

\* Handlers of sockets run for lost connections, and do what handleDisconnect does.
LossesRun ==
  \A s \in Sockets : Running(s) =>
    ~conn[s] /\ task[s].pc \in Going \cup Casting \cup Touching \cup {"activity"}

\* The DELs of a deletion come one after the other, the owner before the rest.
PipelineOK ==
  \A x \in Tasks : At(x, "delRoom") =>
    /\ task[x].next > 1 => queue # <<>> /\ x = Head(queue)
    /\ task[x].next > 2 => roomOwner[Home] = Null

\* An owner that is about to be a member, or to be no owner.
Undecided ==
  \E x \in Tasks : /\ task[x].pc \in {"addMember", "leaveDelete", "leaveOwner"}
                   /\ task[x].sock \in OwnerSockets

\* The owner is connected and on record and still no member.  It has not joined
\* yet: whoever takes it off the members takes it off the record, too.
Absent(s) == conn[s] /\ ~Member(s) /\ roomOwner[Home] = Home /\ ~Undecided

AbsentAreNew ==
  \A s \in OwnerSockets : Absent(s) =>
    /\ ~Registered(s)
    /\ \A x \in Tasks : task[x].sock = s => task[x].pc \notin {"setInfo", "nickSet"}

CrowdOK == Seats /\ TasksFit /\ LossesRun /\ AbsentAreNew

CrowdInv == IInv /\ CrowdOK /\ PipelineOK /\ QueueOK /\ ViewOK

LEMMA CrowdFacts ==
  ASSUME IInv, CrowdOK, NEW x \in Tasks, Running(x)
  PROVE  /\ DOMAIN task = Tasks /\ task[x] \in TaskStates /\ WellFormed(task[x])
         /\ task[x].sock \in Sockets /\ Home \in Rooms /\ Fits(task[x])
         /\ task[x].pc # "goneInfo" => task[x].room = Home
         /\ x \in Sockets => ~conn[x]
<1>1. task[x] \in TaskStates /\ WellFormed(task[x]) /\ DOMAIN task = Tasks
  BY DEF IInv, TasksOK
<1>2. Fits(task[x])
  BY DEF CrowdOK, TasksFit
<1>3. task[x].sock \in Sockets
  BY <1>1 DEF WellFormed, Running
<1>4. task[x].pc # "goneInfo" => task[x].room = Home
  BY <1>2 DEF Fits
<1> QED  BY <1>1, <1>2, <1>3, <1>4, RoomAssumption DEF CrowdOK, LossesRun

LEMMA CrowdIsSeated ==
  ASSUME IInv, OneOwnerConnection, CrowdOK
  PROVE  Seating
<1>1. AtMostOne(OwnerMembers)
  BY DEF OneOwnerConnection, AtMostOne, OwnerMembers
<1>2. ASSUME NEW x \in Tasks, Casts(x) PROVE task[x].room = Home
  <2>1. Running(x) /\ task[x].pc # "goneInfo"
    BY <1>2 DEF Casts, Casting, Running
  <2> QED  BY <2>1, CrowdFacts
<1> QED  BY <1>1, <1>2 DEF Seating, CrowdOK, Seats, LossesRun

LEMMA CrowdIsSeatedPrimed ==
  ASSUME OneOwnerConnection
  PROVE  IInv' /\ CrowdOK' => Seating'
<1>1. IInv /\ CrowdOK => Seating
  BY CrowdIsSeated
<1> QED  BY <1>1, PTL

(***************************************************************************)
(* Where the handlers are fits what they know.                             *)
(***************************************************************************)
\* The steps at which a handler needs to know nothing but the room.
Bare == Locations \ (Asking \cup Replacing \cup Exiting \cup Going
                       \cup {"joinConfig", "addMember", "setInfo", "leaveInfo", "nickSet",
                             "delRoom"})

LEMMA BareFits ==
  ASSUME NEW x \in Tasks, task'[x].pc \in Bare, task'[x].room = Home, task'[x].next = 1
  PROVE  Fits(task[x])'
  BY DEF Fits, Bare, Replacing, Going

\* A reply sends the task on to such a step.
LEMMA BareMove ==
  ASSUME IInv, CrowdOK, NEW x \in Tasks, Running(x), task[x].pc \notin {"goneInfo", "delRoom"},
         \/ \E l \in Bare : Go(x, l)
         \/ \E then : Cast(x, Home, then)
  PROVE  Fits(task[x])'
<1>0. task[x].room = Home /\ task[x].next = 1 /\ Home \in Rooms
  BY CrowdFacts DEF Fits
<1>1. CASE \E l \in Bare : Go(x, l)
  <2>1. PICK l \in Bare : Go(x, l)
    BY <1>1
  <2>2. KeepsAll(x) /\ task'[x].pc = l
    BY <2>1, GoMoves DEF Bare
  <2> QED  BY <1>0, <2>2, BareFits DEF KeepsAll, Keeps
<1>2. CASE \E then : Cast(x, Home, then)
  <2>1. PICK then : Cast(x, Home, then)
    BY <1>2
  <2>2. Keeps(x) /\ task'[x].pc = "castOwner"
    BY <1>0, <2>1, CastMoves
  <2>3. "castOwner" \in Bare
    BY DEF Bare, Locations, Asking, Replacing, Exiting, Going
  <2> QED  BY <1>0, <2>2, <2>3, BareFits DEF Keeps
<1> QED  BY <1>1, <1>2

LEMMA ControlFits ==
  ASSUME IInv, CrowdOK, NEW x \in Tasks, PassThrough(x) \/ ReplyState(x) \/ Close(x),
         Running(x)'
  PROVE  Fits(task[x])'
<1>0. Run(x) /\ Running(x)
  BY RunsWhileRunning DEF Run
<1>1. CASE PassThrough(x)
  <2>1. \E l \in Bare : Go(x, l)
    BY <1>1 DEF PassThrough, Onward, Bare, Locations, Asking, Replacing, Exiting, Going
  <2>2. task[x].pc \notin {"goneInfo", "delRoom"}
    BY <1>1 DEF PassThrough, Onward
  <2> QED  BY <1>0, <2>1, <2>2, BareMove
<1>2. CASE ReplyState(x)
  <2>1. task[x].pc = "replyState"
    BY <1>2 DEF ReplyState, At
  <2>2. Cast(x, Home, "activity")
    BY <1>0, <1>2, <2>1, CrowdFacts DEF ReplyState
  <2> QED  BY <1>0, <2>1, <2>2, BareMove
<1>3. ~Close(x)
  BY EndMoves DEF Close
<1> QED  BY <1>1, <1>2, <1>3

LEMMA BroadcastFits ==
  ASSUME IInv, CrowdOK, NEW x \in Tasks, Broadcast(x), Running(x)'
  PROVE  Fits(task[x])'
<1>0. /\ Running(x) /\ task[x].pc \in Casting /\ task[x] \in TaskStates /\ DOMAIN task = Tasks
      /\ task[x].room = Home /\ task[x].next = 1
  <2>1. Run(x) /\ Casts(x)
    BY CastMovesOn DEF Run
  <2>2. Running(x) /\ task[x].pc \notin {"goneInfo", "delRoom"}
    BY <2>1 DEF Casts, Casting, Running
  <2> QED  BY <2>1, <2>2, CrowdFacts DEF Fits, Casts
<1>1. Casting \cup {"activity"} \subseteq Bare
  BY DEF Casting, Bare, Locations, Asking, Replacing, Exiting, Going
<1>2. ASSUME CastDone(x) PROVE Fits(task[x])'
  <2>1. Go(x, "activity")
    BY <1>2, EndMoves DEF CastDone
  <2> QED  BY <1>0, <1>1, <2>1, BareMove DEF Casting
<1>3. CASE CastInfo(x)
  <2>1. PICK m \in task[x].todo : InfoRead(x, m)
    BY <1>3, InfoIsRead
  <2>2. ASSUME task'[x] = Sorted(task[x], m) PROVE Fits(task[x])'
    <3>1. /\ Sorted(task[x], m).pc = task[x].pc /\ Sorted(task[x], m).room = Home
          /\ Sorted(task[x], m).next = 1
      BY <1>0 DEF Sorted, TaskStates
    <3> QED  BY <1>0, <1>1, <2>2, <3>1, BareFits
  <2> QED  BY <1>2, <2>1, <2>2 DEF InfoRead
<1>4. CASE ~CastInfo(x) /\ ~CastDone(x)
  <2> DEFINE a(u) == [task[x] EXCEPT !.pc = "castMembers", !.owner = u, !.found = Null,
                                     !.parts = {}]
             b(m) == [task[x] EXCEPT !.pc = "castReady", !.todo = m]
             c(m) == [task[x] EXCEPT !.pc = "castInfo", !.ready = m]
  <2>1. \A u : /\ a(u).pc = "castMembers" /\ a(u).room = Home /\ a(u).next = 1
               /\ b(u).pc = "castReady" /\ b(u).room = Home /\ b(u).next = 1
               /\ c(u).pc = "castInfo" /\ c(u).room = Home /\ c(u).next = 1
    BY <1>0 DEF TaskStates
  <2>2. \E u : Set(x, a(u)) \/ Set(x, b(u)) \/ Set(x, c(u))
    BY <1>4 DEF Broadcast, CastOwner, CastMembers, CastReady
  <2> HIDE DEF a, b, c
  <2>3. task'[x].pc \in Casting /\ task'[x].room = Home /\ task'[x].next = 1
    BY <1>0, <2>1, <2>2 DEF Set, Casting
  <2> QED  BY <1>1, <2>3, BareFits
<1> QED  BY <1>2, <1>3, <1>4

\* Whose info names Home as its rid is the owner's.
LEMMA OwnersHaveTheRid ==
  ASSUME Seats, NEW m \in Sockets, socketInfo[m] # Null, socketInfo[m].rid = Home
  PROVE  m \in OwnerSockets
<1>1. socketInfo[m] = InfoOf(m) /\ InfoOf(m).rid = RidOf(m)
  BY DEF Seats, InfoOf
<1>2. m # Home
  BY RoomAssumption
<1> QED  BY <1>1, <1>2 DEF RidOf

\* The steps that hand on what they know.
LEMMA ForwardMove ==
  ASSUME IInv, CrowdOK, NEW x \in Tasks, Run(x), NEW l \in Locations, Go(x, l),
         \/ task[x].pc = "joinToken" /\ l = "joinOwner"
         \/ task[x].pc \in {"activeOwner", "activeMembers"} /\ l = "ensureOwner"
         \/ task[x].pc = "dropMember" /\ l = "dropInfo"
         \/ task[x].pc = "ensureOwner" /\ l \in {"setOwner", "addMember"}
         \/ task[x].pc \in {"setOwner", "joinConfig"} /\ l = "addMember"
         \/ task[x].pc = "addMember" /\ l = "setInfo"
         \/ task[x].pc = "goneReady" /\ l = "goneMember"
         \/ task[x].pc = "goneMember" /\ l = "goneDelete"
         \/ task[x].pc = "leaveMember" /\ l = "leaveDelete"
         \/ task[x].pc = "leaveDelete" /\ l = "leaveOwner"
         \/ task[x].pc = "delOwnInfo" /\ l = "delRoom"
  PROVE  Fits(task[x])'
<1>1. KeepsAll(x) /\ task'[x].pc = l /\ Running(x) /\ Fits(task[x]) /\ WellFormed(task[x])
      /\ task[x].sock \in Sockets
  BY GoMoves, RunsWhileRunning, CrowdFacts
<1>2. \A u \in Sockets : ~conn[u] => ~conn'[u]
  BY NobodyReconnects
<1>3. task[x].pc = "dropMember" => task[x].found \in Sockets
  BY <1>1 DEF WellFormed
<1> QED
  BY <1>1, <1>2, <1>3 DEF Fits, KeepsAll, Keeps, Asking, Replacing, Exiting, Going

LEMMA OwnerSearchFits ==
  ASSUME IInv, OneProcess, CrowdOK, NEW x \in Tasks, Running(x)',
         \/ TakeOwnerRid(x) \/ ActiveOwner(x) \/ ActiveMembers(x) \/ ActiveInfo(x)
         \/ DropInfo(x)
  PROVE  Fits(task[x])'
<1>0. Run(x) /\ Running(x)
  BY RunsWhileRunning DEF Run, Join
<1>1. /\ DOMAIN task = Tasks /\ task[x] \in TaskStates /\ Fits(task[x]) /\ task[x].room = Home
      /\ task[x].sock \in OwnerSockets /\ RidOf(task[x].sock) = Home
      /\ task[x].next = 1 /\ task[x].arg = SeatedRole(task[x].sock)
      /\ task[x].found \in OwnerSockets \cup {Null}
      /\ task[x].pc # "joinOwner" => task[x].rid = Home
  <2>1. task[x].pc \in {"joinOwner", "activeOwner", "activeMembers", "activeInfo", "dropInfo"}
    BY DEF TakeOwnerRid, ActiveOwner, ActiveMembers, ActiveInfo, DropInfo, At
  <2>2. /\ DOMAIN task = Tasks /\ task[x] \in TaskStates /\ Fits(task[x]) /\ task[x].room = Home
    BY <1>0, <2>1, CrowdFacts
  <2> QED  BY <2>1, <2>2 DEF Fits, Asking, Replacing, RidOf
<1>2. ASSUME NEW t, task'[x] = t, t.pc \in Replacing,
             t.room = Home, t.next = 1, t.sock = task[x].sock, t.rid = Home,
             t.arg = task[x].arg, t.found \in OwnerSockets \cup {Null},
             t.pc \in {"activeMembers", "activeInfo"} => t.owner = Home,
             t.pc \in {"dropMember", "dropInfo"} => ~conn'[t.found]
      PROVE  Fits(task[x])'
  BY <1>1, <1>2 DEF Fits, Asking, Replacing, Exiting, Going
<1>3. ASSUME Set(x, Ended) PROVE FALSE
  BY <1>3, EndMoves
<1>4. CASE TakeOwnerRid(x)
  <2> DEFINE t == [task[x] EXCEPT !.pc = "activeOwner", !.rid = Home]
  <2>1. /\ t.pc = "activeOwner" /\ t.room = Home /\ t.next = 1
        /\ t.sock = task[x].sock /\ t.rid = Home /\ t.arg = task[x].arg
        /\ t.found = task[x].found
    BY <1>1 DEF TaskStates
  <2>2. Set(x, t)
    BY <1>1, <1>3, <1>4 DEF TakeOwnerRid
  <2> HIDE DEF t
  <2>3. task'[x] = t
    BY <1>1, <2>2 DEF Set
  <2> QED  BY <1>1, <1>2, <2>1, <2>3 DEF Replacing
<1>5. CASE ActiveOwner(x)
  <2> DEFINE u == roomOwner[task[x].room]
             t == [task[x] EXCEPT !.pc = "activeMembers", !.owner = u]
  <2>1. task[x].pc = "activeOwner" /\ "ensureOwner" \in Locations
    BY <1>5 DEF ActiveOwner, At, Locations
  <2>2. CASE Go(x, "ensureOwner")
    BY <1>0, <2>1, <2>2, ForwardMove
  <2>3. CASE u # Null /\ Set(x, t)
    <3>1. u = Home
      BY <1>1, <2>3 DEF CrowdOK, Seats
    <3>2. /\ t.pc = "activeMembers" /\ t.room = Home /\ t.next = 1
          /\ t.sock = task[x].sock /\ t.rid = Home /\ t.arg = task[x].arg
          /\ t.found = task[x].found /\ t.owner = Home
      BY <1>1, <2>1, <3>1 DEF TaskStates
    <3> HIDE DEF t, u
    <3>3. task'[x] = t
      BY <1>1, <2>3 DEF Set
    <3> QED  BY <1>1, <1>2, <3>2, <3>3 DEF Replacing
  <2> QED  BY <1>5, <2>2, <2>3 DEF ActiveOwner
<1>6. CASE ActiveMembers(x)
  <2> DEFINE m == roomMembers[task[x].room]
             t == [task[x] EXCEPT !.pc = "activeInfo", !.todo = m]
  <2>1. /\ task[x].pc = "activeMembers" /\ task[x].owner = Home
        /\ "ensureOwner" \in Locations /\ m \subseteq Sockets
    BY <1>1, <1>6, RoomAssumption
       DEF ActiveMembers, At, Locations, IInv, RedisTypeOK, Fits
  <2>2. CASE Go(x, "ensureOwner")
    BY <1>0, <2>1, <2>2, ForwardMove
  <2>3. CASE Set(x, t)
    <3>1. /\ t.pc = "activeInfo" /\ t.room = Home /\ t.next = 1
          /\ t.sock = task[x].sock /\ t.rid = Home /\ t.arg = task[x].arg
          /\ t.found = task[x].found /\ t.owner = Home
      BY <1>1, <2>1 DEF TaskStates
    <3> HIDE DEF t, m
    <3>2. task'[x] = t
      BY <1>1, <2>3 DEF Set
    <3> QED  BY <1>1, <1>2, <3>1, <3>2 DEF Replacing
  <2> QED  BY <1>6, <2>2, <2>3 DEF ActiveMembers
<1>7. CASE ActiveInfo(x)
  <2>1. PICK m \in task[x].todo :
          LET owns == socketInfo[m] # Null /\ socketInfo[m].rid = task[x].owner
              f == IF owns /\ task[x].found = Null THEN m ELSE task[x].found
              t == [task[x] EXCEPT !.todo = @ \ {m}, !.found = f]
          IN  IF t.todo # {} THEN Set(x, t) /\ UNCHANGED <<conn, joined>>
              ELSE IF f = Null
                THEN Set(x, [t EXCEPT !.pc = "ensureOwner"]) /\ UNCHANGED <<conn, joined>>
                ELSE Kick(x, f, [t EXCEPT !.pc = "dropMember"])
    BY <1>7 DEF ActiveInfo
  <2> DEFINE owns == socketInfo[m] # Null /\ socketInfo[m].rid = task[x].owner
             f == IF owns /\ task[x].found = Null THEN m ELSE task[x].found
             t(l) == [task[x] EXCEPT !.pc = l, !.todo = @ \ {m}, !.found = f]
  <2>2. task[x].pc = "activeInfo" /\ task[x].owner = Home /\ m \in Sockets
    BY <1>1, <1>7, <2>1 DEF ActiveInfo, At, Fits, TaskStates
  <2>3. f \in OwnerSockets \cup {Null}
    BY <1>1, <2>2, OwnersHaveTheRid DEF CrowdOK
  <2>4. ASSUME NEW l \in {"activeInfo", "ensureOwner", "dropMember"}
        PROVE  /\ t(l).pc = l /\ t(l).room = Home /\ t(l).next = 1
               /\ t(l).sock = task[x].sock /\ t(l).rid = Home /\ t(l).arg = task[x].arg
               /\ t(l).found = f /\ t(l).owner = Home
    <3> HIDE DEF f
    <3> QED  BY <1>1, <2>2 DEF TaskStates
  <2>5. \/ Set(x, t("activeInfo")) \/ Set(x, t("ensureOwner"))
        \/ f # Null /\ Kick(x, f, t("dropMember"))
    <3>1. /\ [task[x] EXCEPT !.todo = @ \ {m}, !.found = f] = t("activeInfo")
          /\ [[task[x] EXCEPT !.todo = @ \ {m}, !.found = f] EXCEPT !.pc = "ensureOwner"]
               = t("ensureOwner")
          /\ [[task[x] EXCEPT !.todo = @ \ {m}, !.found = f] EXCEPT !.pc = "dropMember"]
               = t("dropMember")
      <4> HIDE DEF f
      <4> QED  BY <1>1, <2>2 DEF TaskStates
    <3> QED  BY <2>1, <3>1
  <2> HIDE DEF f, t
  <2>6. ASSUME NEW l \in {"activeInfo", "ensureOwner"}, Set(x, t(l)) PROVE Fits(task[x])'
    <3>1. task'[x] = t(l)
      BY <1>1, <2>6 DEF Set
    <3> QED  BY <1>2, <2>3, <2>4, <2>6, <3>1 DEF Replacing
  <2>7. CASE f # Null /\ Kick(x, f, t("dropMember"))
    <3>1. f \in Sockets /\ Host[f] = Host[t("dropMember").sock] /\ conn \in [Sockets -> BOOLEAN]
      BY <1>1, <2>3, <2>4, <2>7, RoomAssumption DEF OneProcess, IInv, SocketsOK
    <3>2. conn[f] => f # x
      BY <1>0, <3>1, CrowdFacts
    <3>3. task'[x] = t("dropMember") /\ ~conn'[f]
      BY <1>1, <2>7, <3>1, <3>2 DEF Kick, Set
    <3> QED  BY <1>2, <2>3, <2>4, <3>3 DEF Replacing
  <2> QED  BY <2>5, <2>6, <2>7
<1>8. CASE DropInfo(x)
  <2> DEFINE t == [task[x] EXCEPT !.pc = "ensureOwner", !.found = Null]
  <2>1. task[x].pc = "dropInfo" /\ Set(x, t)
    BY <1>8 DEF DropInfo, At
  <2>2. /\ t.pc = "ensureOwner" /\ t.room = Home /\ t.next = 1
        /\ t.sock = task[x].sock /\ t.rid = Home /\ t.arg = task[x].arg /\ t.found = Null
    BY <1>1, <2>1 DEF TaskStates
  <2> HIDE DEF t
  <2>3. task'[x] = t
    BY <1>1, <2>1 DEF Set
  <2> QED  BY <1>2, <2>2, <2>3 DEF Replacing
<1> QED  BY <1>4, <1>5, <1>6, <1>7, <1>8

LEMMA JoinFits ==
  ASSUME IInv, OneProcess, CrowdOK, NEW x \in Tasks, Join(x), Running(x)'
  PROVE  Fits(task[x])'
<1>0. Run(x) /\ Running(x)
  BY RunsWhileRunning DEF Run
<1>1. ~Set(x, Ended)
  BY EndMoves
<1>2. CASE TakeOwnerRid(x) \/ ActiveOwner(x) \/ ActiveMembers(x) \/ ActiveInfo(x) \/ DropInfo(x)
  BY <1>2, OwnerSearchFits
<1>3. CASE CheckToken(x)
  BY <1>0, <1>1, <1>3, ForwardMove DEF CheckToken, At, Locations
<1>4. CASE DropMember(x)
  BY <1>0, <1>4, ForwardMove DEF DropMember, At, Locations
<1>5. CASE EnsureOwner(x)
  BY <1>0, <1>5, ForwardMove DEF EnsureOwner, EnterRoom, At, Locations
<1>6. CASE RecordOwner(x)
  BY <1>0, <1>6, ForwardMove DEF RecordOwner, EnterRoom, At, Locations
<1>7. CASE CheckRoom(x)
  BY <1>0, <1>1, <1>7, ForwardMove DEF CheckRoom, EnterRoom, At, Locations
<1>8. CASE AddMember(x)
  BY <1>0, <1>8, ForwardMove DEF AddMember, At, Locations
<1>9. CASE RecordInfo(x) \/ EnsureConfig(x)
  <2>1. task[x].pc \in {"setInfo", "replyConfig", "defaultConfig"}
    BY <1>9 DEF RecordInfo, EnsureConfig, At
  <2>2. \E l \in {"replyOwner", "defaultConfig", "replyTitle"} : Go(x, l)
    BY <1>9 DEF RecordInfo, EnsureConfig
  <2>3. {"replyOwner", "defaultConfig", "replyTitle"} \subseteq Bare
    BY DEF Bare, Locations, Asking, Replacing, Exiting, Going
  <2> QED  BY <1>0, <2>1, <2>2, <2>3, BareMove
<1> QED  BY <1>2, <1>3, <1>4, <1>5, <1>6, <1>7, <1>8, <1>9 DEF Join

LEMMA GoneFits ==
  ASSUME IInv, CrowdOK, NEW x \in Tasks, Gone(x), Running(x)'
  PROVE  Fits(task[x])'
<1>0. Run(x) /\ Running(x)
  BY RunsWhileRunning DEF Run
<1>1. /\ DOMAIN task = Tasks /\ task[x] \in TaskStates /\ Fits(task[x])
      /\ task[x].sock \in Sockets /\ Home \in Rooms
      /\ task[x].pc # "goneInfo" => task[x].room = Home
  BY <1>0, CrowdFacts
<1>2. CASE GoneInfo(x)
  <2> DEFINE info == socketInfo[task[x].sock]
             t == [task[x] EXCEPT !.pc = "goneReady", !.room = info.roomId, !.arg = info.role]
  <2>1. task[x].pc = "goneInfo" /\ info # Null /\ Set(x, t)
    BY <1>2, EndMoves DEF GoneInfo, At
  <2>2. info = InfoOf(task[x].sock)
    BY <1>1, <2>1 DEF CrowdOK, Seats
  <2>3. info.roomId = Home /\ info.role = SeatedRole(task[x].sock)
    BY <2>2 DEF InfoOf
  <2>4. /\ t.pc = "goneReady" /\ t.room = info.roomId /\ t.arg = info.role
        /\ t.sock = task[x].sock /\ t.next = task[x].next
    BY <1>1 DEF TaskStates
  <2>5. task'[x] = t
    BY <1>1, <2>1 DEF Set
  <2>6. task[x].next = 1 /\ (task[x].sock \in OwnerSockets => ~conn[task[x].sock])
    BY <1>1, <2>1 DEF Fits, Going
  <2>7. conn'[task[x].sock] => conn[task[x].sock]
    BY <1>0, <1>1, NobodyReconnects
  <2> HIDE DEF t, info
  <2> QED
    BY <2>3, <2>4, <2>5, <2>6, <2>7 DEF Fits, Asking, Replacing, Exiting, Going
<1>3. CASE GoneReady(x) \/ GoneMember(x)
  BY <1>0, <1>3, ForwardMove DEF GoneReady, GoneMember, At, Locations
<1>4. CASE GoneDelete(x)
  <2>1. task[x].pc = "goneDelete"
    BY <1>4 DEF GoneDelete, At
  <2>2. Go(x, "ttlMembers") \/ \E then : Cast(x, Home, then)
    BY <1>1, <1>4, <2>1 DEF GoneDelete
  <2>3. "ttlMembers" \in Bare
    BY DEF Bare, Locations, Asking, Replacing, Exiting, Going
  <2> QED  BY <1>0, <2>1, <2>2, <2>3, BareMove
<1> QED  BY <1>2, <1>3, <1>4 DEF Gone

LEMMA LeaveFits ==
  ASSUME IInv, CrowdOK, NEW x \in Tasks, Leave(x), Running(x)'
  PROVE  Fits(task[x])'
<1>0. Run(x) /\ Running(x)
  BY RunsWhileRunning DEF Run
<1>1. CASE LeaveInfo(x)
  <2> DEFINE t == [task[x] EXCEPT
                     !.pc = IF task[x].arg = "owner" THEN "leaveMember" ELSE "goneInfo",
                     !.then = IF task[x].arg = "owner" THEN @ ELSE "leave",
                     !.home = task[x].room]
  <2>1. task[x].pc = "leaveInfo" /\ Set(x, t)
    BY <1>1, EndMoves DEF LeaveInfo, At
  <2>2. /\ DOMAIN task = Tasks /\ task[x] \in TaskStates /\ task[x].room = Home
        /\ task[x].next = 1 /\ task[x].arg = SeatedRole(task[x].sock)
    BY <1>0, <2>1, CrowdFacts DEF Fits
  <2>3. task[x].arg = "owner" <=> task[x].sock \in OwnerSockets
    BY <2>2 DEF SeatedRole
  <2>4. /\ t.pc = IF task[x].arg = "owner" THEN "leaveMember" ELSE "goneInfo"
        /\ t.room = Home /\ t.next = 1 /\ t.sock = task[x].sock
    BY <2>2 DEF TaskStates
  <2>5. task'[x] = t
    BY <2>1, <2>2 DEF Set
  <2> HIDE DEF t
  <2> QED  BY <2>3, <2>4, <2>5 DEF Fits, Asking, Replacing, Exiting, Going
<1>2. CASE LeaveMember(x) \/ LeaveDelete(x)
  BY <1>0, <1>2, ForwardMove DEF LeaveMember, LeaveDelete, At, Locations
<1>3. CASE LeaveOwner(x)
  <2>1. task[x].pc = "leaveOwner" /\ Go(x, "ttlMembers")
    BY <1>3 DEF LeaveOwner, At
  <2>2. "ttlMembers" \in Bare
    BY DEF Bare, Locations, Asking, Replacing, Exiting, Going
  <2> QED  BY <1>0, <2>1, <2>2, BareMove
<1> QED  BY <1>1, <1>2, <1>3 DEF Leave

LEMMA SettingsFit ==
  ASSUME IInv, CrowdOK, NEW x \in Tasks, Settings(x), Running(x)'
  PROVE  Fits(task[x])'
<1>0. Run(x) /\ Running(x)
  BY RunsWhileRunning DEF Run
<1>1. /\ task[x].pc \in {"toggleInfo", "toggleWrite", "nickInfo", "nickSet", "configOwner",
                         "configSet"}
  BY DEF Settings, ToggleInfo, ToggleWrite, NickInfo, NickSet, ConfigOwner, ConfigSet, At
<1>2. /\ DOMAIN task = Tasks /\ task[x] \in TaskStates /\ Fits(task[x])
      /\ task[x].sock \in Sockets /\ task[x].room = Home /\ task[x].next = 1
  BY <1>0, <1>1, CrowdFacts DEF Fits
<1> DEFINE info == socketInfo[task[x].sock]
           t == [task[x] EXCEPT !.pc = "nickSet", !.info = info]
<1>3. CASE info # Null /\ Set(x, t)
  <2>1. info = InfoOf(task[x].sock)
    BY <1>2, <1>3 DEF CrowdOK, Seats
  <2>2. /\ t.pc = "nickSet" /\ t.info = info /\ t.room = Home /\ t.next = 1
        /\ t.sock = task[x].sock
    BY <1>2 DEF TaskStates
  <2>3. task'[x] = t
    BY <1>2, <1>3 DEF Set
  <2> HIDE DEF t, info
  <2> QED  BY <2>1, <2>2, <2>3 DEF Fits, Asking, Replacing, Exiting, Going
<1>4. CASE \/ Cast(x, Home, "activity")
           \/ \E l \in {"toggleWrite", "configSet", "activity"} : Go(x, l)
  <2>1. {"toggleWrite", "configSet", "activity"} \subseteq Bare
    BY DEF Bare, Locations, Asking, Replacing, Exiting, Going
  <2> QED  BY <1>0, <1>1, <1>4, <2>1, BareMove
<1>5. ~Set(x, Ended)
  BY EndMoves
<1> HIDE DEF t
<1> QED
  BY <1>2, <1>3, <1>4, <1>5
     DEF Settings, ToggleInfo, ToggleWrite, NickInfo, NickSet, ConfigOwner, ConfigSet, t

\* A deletion is a request.
LEMMA DeletersAreCalls ==
  ASSUME CrowdOK, NEW x \in Tasks, Delete(x)
  PROVE  x \in Calls
<1>1. task[x].pc \in Deletion /\ Running(x)
  BY DEF Delete, DelOwner, DelMembers, DelInfo, DelOwnInfo, DelRoom, At, Deletion, Running
<1>2. x \notin Sockets
  BY <1>1 DEF CrowdOK, LossesRun, Going, Casting, Touching, Deletion
<1> QED  BY <1>2 DEF Tasks

LEMMA DeletionGoesOn ==
  ASSUME IInv, CrowdOK, NEW x \in Tasks, DelMembers(x) \/ DelInfo(x)
  PROVE  /\ task'[x].pc \in {"delInfo", "delOwnInfo"}
         /\ task'[x].room = Home /\ task'[x].next = 1 /\ task'[x].sock = task[x].sock
<1>0. x \in Calls /\ task[x].pc \in {"delMembers", "delInfo"} /\ Running(x)
  BY DeletersAreCalls DEF Delete, DelMembers, DelInfo, At, Running
<1>1. /\ DOMAIN task = Tasks /\ task[x] \in TaskStates /\ task[x].room = Home
      /\ task[x].next = 1 /\ Home \in Rooms
  BY <1>0, CrowdFacts DEF Fits
<1>2. CASE DelMembers(x)
  <2> DEFINE t == [task[x] EXCEPT !.todo = roomMembers[Home] \ {task[x].sock}]
  <2>1. KickNext(x, t)
    BY <1>1, <1>2 DEF DelMembers
  <2>2. roomMembers[Home] \subseteq Sockets
    BY <1>1 DEF IInv, RedisTypeOK
  <2>3. t \in TaskStates /\ t.room = Home /\ t.next = 1 /\ t.sock = task[x].sock
    BY <1>1, <2>2 DEF TaskStates
  <2> HIDE DEF t
  <2> QED  BY <1>0, <2>1, <2>3, KickGoesOn
<1>3. CASE DelInfo(x)
  BY <1>0, <1>1, <1>3, KickGoesOn DEF DelInfo
<1> QED  BY <1>2, <1>3

LEMMA DeleteFits ==
  ASSUME IInv, CrowdOK, NEW x \in Tasks, Delete(x), Running(x)'
  PROVE  Fits(task[x])'
<1>0. Run(x) /\ Running(x)
  BY RunsWhileRunning DEF Run
<1>1. {"delMembers", "delInfo", "delOwnInfo"} \subseteq Bare
  BY DEF Bare, Locations, Asking, Replacing, Exiting, Going
<1>2. ~Set(x, Ended)
  BY EndMoves
<1>3. CASE DelOwner(x)
  <2>1. task[x].pc = "delOwner" /\ Go(x, "delMembers")
    BY <1>2, <1>3 DEF DelOwner, At
  <2> QED  BY <1>0, <1>1, <2>1, BareMove
<1>4. CASE DelMembers(x) \/ DelInfo(x)
  BY <1>1, <1>4, DeletionGoesOn, BareFits
<1>5. CASE DelOwnInfo(x)
  BY <1>0, <1>5, ForwardMove DEF DelOwnInfo, At, Locations
<1>6. CASE DelRoom(x)
  <2> DEFINE t == [task[x] EXCEPT !.next = @ + 1]
  <2>1. task[x].pc = "delRoom" /\ Set(x, t)
    BY <1>2, <1>6 DEF DelRoom, At
  <2>2. DOMAIN task = Tasks /\ task[x] \in TaskStates /\ task[x].room = Home
    BY <1>0, <2>1, CrowdFacts
  <2>3. t.pc = "delRoom" /\ t.room = Home
    BY <2>1, <2>2 DEF TaskStates
  <2>4. task'[x] = t
    BY <2>1, <2>2 DEF Set
  <2> HIDE DEF t
  <2> QED  BY <2>3, <2>4 DEF Fits, Asking, Replacing, Exiting, Going
<1> QED  BY <1>3, <1>4, <1>5, <1>6 DEF Delete

LEMMA RunFits ==
  ASSUME IInv, OneProcess, CrowdOK, NEW x \in Tasks, Run(x), Running(x)'
  PROVE  Fits(task[x])'
  BY ControlFits, BroadcastFits, JoinFits, GoneFits, LeaveFits, SettingsFit, DeleteFits DEF Run

LEMMA DisconnectionFits ==
  ASSUME NEW s \in Sockets, task'[s] = Disconnection(s), ~conn'[s]
  PROVE  Fits(task[s])'
<1>1. /\ Disconnection(s).pc = "goneInfo" /\ Disconnection(s).sock = s
      /\ Disconnection(s).next = 1
  BY DEF Disconnection, NoTask
<1> QED  BY <1>1 DEF Fits, Asking, Replacing, Exiting, Going

\* The tasks a step does not move keep what they know.
LEMMA OthersFit ==
  ASSUME IInv, CrowdOK, NEW y \in Tasks, Running(y)', task'[y] = task[y],
         \A s \in Sockets : conn'[s] => conn[s]
  PROVE  Fits(task[y])'
<1>1. Running(y)
  BY DEF Running
<1>2. Fits(task[y]) /\ WellFormed(task[y]) /\ task[y].sock \in Sockets
  BY <1>1, CrowdFacts
<1>3. task[y].pc \in {"dropMember", "dropInfo"} => task[y].found \in Sockets
  BY <1>2 DEF WellFormed
<1> QED  BY <1>2, <1>3 DEF Fits

\* The handler of a lost connection.
LEMMA LossMovesOn ==
  ASSUME IInv, CrowdOK, NEW x \in Sockets, Run(x), Running(x)'
  PROVE  task'[x].pc \in Going \cup Casting \cup Touching \cup {"activity"}
<1>0. /\ x \in Tasks /\ task[x].pc \in Going \cup Casting \cup Touching \cup {"activity"}
      /\ Home \in Rooms /\ DOMAIN task = Tasks /\ task[x] \in TaskStates
      /\ task[x].pc # "goneInfo" => task[x].room = Home
  BY RunsWhileRunning, CallsAreTasks, CrowdFacts DEF CrowdOK, LossesRun
<1>1. ~ReplyState(x) /\ ~Join(x)
  BY <1>0
     DEF ReplyState, Join, CheckToken, TakeOwnerRid, ActiveOwner, ActiveMembers, ActiveInfo,
         DropMember, DropInfo, EnsureOwner, RecordOwner, CheckRoom, AddMember, RecordInfo,
         EnsureConfig, At, Going, Casting, Touching
<1>2. ~Leave(x) /\ ~Settings(x) /\ ~Delete(x)
  BY <1>0
     DEF Leave, LeaveInfo, LeaveMember, LeaveDelete, LeaveOwner, Settings, ToggleInfo,
         ToggleWrite, NickInfo, NickSet, ConfigOwner, ConfigSet, Delete, DelOwner,
         DelMembers, DelInfo, DelOwnInfo, DelRoom, At, Going, Casting, Touching
<1>3. CASE PassThrough(x)
  <2>1. Go(x, "ttlExpire")
    BY <1>0, <1>3 DEF PassThrough, Onward, Going, Casting, Touching
  <2> QED  BY <1>0, <2>1, GoMoves DEF Locations, Touching
<1>4. ~Close(x)
  BY <1>0, EndMoves DEF Close
<1>5. CASE Broadcast(x)
  BY <1>0, <1>5, CastMovesOn DEF Casting, Running
<1>6. CASE GoneInfo(x)
  <2> DEFINE info == socketInfo[task[x].sock]
             t == [task[x] EXCEPT !.pc = "goneReady", !.room = info.roomId, !.arg = info.role]
  <2>1. Set(x, t)
    BY <1>0, <1>6, EndMoves DEF GoneInfo
  <2>2. t.pc = "goneReady"
    BY <1>0 DEF TaskStates
  <2> HIDE DEF t
  <2> QED  BY <1>0, <2>1, <2>2 DEF Set, Going
<1>7. CASE GoneReady(x) \/ GoneMember(x)
  <2>1. Go(x, "goneMember") \/ Go(x, "goneDelete")
    BY <1>7 DEF GoneReady, GoneMember
  <2> QED  BY <1>0, <2>1, GoMoves DEF Locations, Going
<1>8. CASE GoneDelete(x)
  <2>1. Go(x, "ttlMembers") \/ Cast(x, Home, task[x].then)
    BY <1>0, <1>8 DEF GoneDelete, At
  <2> QED  BY <1>0, <2>1, GoMoves, CastMoves DEF Locations, Touching, Casting
<1> QED  BY <1>1, <1>2, <1>3, <1>4, <1>5, <1>6, <1>7, <1>8 DEF Run, Gone

\* The connection of socket y is lost, and its handler starts.
Lost(y) == /\ y \in Sockets /\ ~Running(y) /\ task'[y] = Disconnection(y) /\ ~conn'[y]

LEMMA OthersAre ==
  ASSUME IInv, OneOwnerConnection, CrowdOK, NEW x \in Tasks, Run(x), NEW y \in Tasks, y # x
  PROVE  task'[y] = task[y] \/ Lost(y)
<1>1. CASE OthersStay(x)
  BY <1>1 DEF OthersStay
<1>2. ASSUME NEW s \in Sockets, s # x, ~Running(s), task'[s] = Disconnection(s),
             Disconnects(x, s)
      PROVE  task'[y] = task[y] \/ Lost(y)
  BY <1>2 DEF Disconnects, IInv, SocketsOK, Lost
<1> QED  BY <1>1, <1>2, WhoStarts, CrowdIsSeated

\* A step of task x.
LEMMA RunKeepsTheFit ==
  ASSUME IInv, OneProcess, OneOwnerConnection, CrowdOK, NEW x \in Tasks, Run(x)
  PROVE  TasksFit' /\ LossesRun'
<1>0. Running(x) /\ \A s \in Sockets : conn'[s] => conn[s]
  BY RunsWhileRunning, NobodyReconnects
<1>1. ASSUME NEW y \in Tasks, y # x
      PROVE  task'[y] = task[y] \/ Lost(y)
  BY <1>1, OthersAre
<1>2. TasksFit'
  <2>1. ASSUME NEW y \in Tasks, Running(y)' PROVE Fits(task[y])'
    <3>1. CASE y = x
      BY <2>1, <3>1, RunFits
    <3>2. CASE y # x
      BY <1>0, <1>1, <2>1, <3>2, OthersFit, DisconnectionFits DEF Lost
    <3> QED  BY <3>1, <3>2
  <2> QED  BY <2>1 DEF TasksFit
<1>3. LossesRun'
  <2> SUFFICES ASSUME NEW s \in Sockets, Running(s)'
               PROVE  /\ ~conn'[s]
                      /\ task'[s].pc \in Going \cup Casting \cup Touching \cup {"activity"}
    BY DEF LossesRun
  <2>1. s \in Tasks
    BY CallsAreTasks
  <2>2. CASE s = x
    BY <1>0, <2>2, LossMovesOn DEF CrowdOK, LossesRun
  <2>3. CASE task'[s] = task[s]
    BY <1>0, <2>3 DEF CrowdOK, LossesRun, Running
  <2>4. CASE Lost(s)
    BY <2>4 DEF Lost, Disconnection, NoTask, Going
  <2> QED  BY <1>1, <2>1, <2>2, <2>3, <2>4
<1> QED  BY <1>2, <1>3

(***************************************************************************)
(* Who writes what.                                                        *)
(***************************************************************************)
LEMMA Writers ==
  ASSUME NEW x \in Tasks, Run(x)
  PROVE  /\ \/ roomMembers' = roomMembers
            \/ DropMember(x) \/ AddMember(x) \/ GoneMember(x) \/ LeaveMember(x) \/ DelRoom(x)
         /\ roomOwner' = roomOwner \/ RecordOwner(x) \/ LeaveOwner(x) \/ DelRoom(x)
         /\ \/ socketInfo' = socketInfo
            \/ DropInfo(x) \/ RecordInfo(x) \/ GoneDelete(x) \/ LeaveDelete(x) \/ NickSet(x)
            \/ DelInfo(x) \/ DelOwnInfo(x)
         /\ rid' = rid \/ TakeOwnerRid(x)
         /\ role' = role \/ AddMember(x)
<1>1. CASE PassThrough(x) \/ ReplyState(x) \/ Close(x) \/ Broadcast(x)
  BY <1>1
     DEF PassThrough, ReplyState, Close, Broadcast, CastOwner, CastMembers, CastReady,
         CastInfo, ReadsOnly, OnlyRedis, sockVars, redisVars
<1>2. CASE Join(x)
  BY <1>2
     DEF Join, CheckToken, TakeOwnerRid, ActiveOwner, ActiveMembers, ActiveInfo, DropMember,
         DropInfo, EnsureOwner, RecordOwner, CheckRoom, AddMember, RecordInfo, EnsureConfig,
         ReadsOnly, OnlyRedis, sockVars, redisVars, RemoveRoomMember, RemoveSocketInfo,
         SetRoomOwner, AddRoomMember, SetSocketInfo, SetRoomConfig
<1>3. CASE Gone(x) \/ Leave(x)
  BY <1>3
     DEF Gone, GoneInfo, GoneReady, GoneMember, GoneDelete, Leave, LeaveInfo, LeaveMember,
         LeaveDelete, LeaveOwner, ReadsOnly, OnlyRedis, sockVars, redisVars,
         RemoveParticipantReady, RemoveRoomMember, RemoveSocketInfo, ClearRoomOwner
<1>4. CASE Settings(x) \/ Delete(x)
  BY <1>4
     DEF Settings, ToggleInfo, ToggleWrite, NickInfo, NickSet, ConfigOwner, ConfigSet, Delete,
         DelOwner, DelMembers, DelInfo, DelOwnInfo, DelRoom, ReadsOnly, OnlyRedis, sockVars,
         redisVars, SetParticipantReady, RemoveParticipantReady, SetSocketInfo, SetRoomConfig,
         RemoveSocketInfo, DeleteRoomKey
<1> QED  BY <1>1, <1>2, <1>3, <1>4 DEF Run

LEMMA RunKeepsSeats ==
  ASSUME IInv, CrowdOK, NEW x \in Tasks, Run(x)
  PROVE  Seats'
<1>0. /\ Running(x) /\ DOMAIN task = Tasks /\ task[x] \in TaskStates /\ Fits(task[x])
      /\ task[x].sock \in Sockets /\ Home \in Rooms
      /\ task[x].pc # "goneInfo" => task[x].room = Home
  BY RunsWhileRunning, CrowdFacts
<1>1. roomOwner'[Home] \in {Null, Home}
  <2>1. CASE RecordOwner(x)
    <3>1. task[x].rid = Home
      BY <1>0, <2>1 DEF RecordOwner, At, Fits, Replacing, RidOf
    <3> QED
      BY <1>0, <2>1, <3>1 DEF RecordOwner, At, SetRoomOwner, CrowdOK, Seats, IInv, RedisTypeOK
  <2>2. CASE LeaveOwner(x) \/ DelRoom(x)
    BY <1>0, <2>2
       DEF LeaveOwner, DelRoom, At, ClearRoomOwner, DeleteRoomKey, redisVars, CrowdOK, Seats,
           IInv, RedisTypeOK
  <2>3. CASE roomOwner' = roomOwner
    BY <2>3 DEF CrowdOK, Seats
  <2> QED  BY <2>1, <2>2, <2>3, Writers
<1>2. ASSUME NEW s \in Sockets PROVE socketInfo'[s] \in {Null, InfoOf(s)}
  <2>1. socketInfo[s] \in {Null, InfoOf(s)} /\ DOMAIN socketInfo = Sockets
    BY DEF CrowdOK, Seats, IInv, RedisTypeOK
  <2>2. CASE DropInfo(x) \/ GoneDelete(x) \/ LeaveDelete(x) \/ DelInfo(x) \/ DelOwnInfo(x)
    <3>1. \E u : socketInfo' = [socketInfo EXCEPT ![u] = Null]
      BY <2>2 DEF DropInfo, GoneDelete, LeaveDelete, DelInfo, DelOwnInfo, RemoveSocketInfo
    <3> QED  BY <2>1, <3>1
  <2>3. CASE RecordInfo(x)
    <3>1. /\ task[x].pc = "setInfo" /\ task[x].room = Home /\ task[x].rid = RidOf(task[x].sock)
          /\ task[x].arg = SeatedRole(task[x].sock)
      BY <1>0, <2>3 DEF RecordInfo, At, Fits
    <3>2. socketInfo' = [socketInfo EXCEPT ![task[x].sock] = InfoOf(task[x].sock)]
      BY <2>3, <3>1 DEF RecordInfo, SetSocketInfo, InfoOf
    <3> QED  BY <1>0, <2>1, <3>2
  <2>4. CASE NickSet(x)
    <3>1. task[x].info = InfoOf(task[x].sock)
      BY <1>0, <2>4 DEF NickSet, At, Fits
    <3>2. socketInfo' = [socketInfo EXCEPT ![task[x].sock] = InfoOf(task[x].sock)]
      BY <2>4, <3>1 DEF NickSet, SetSocketInfo
    <3> QED  BY <1>0, <2>1, <3>2
  <2> QED  BY <2>1, <2>2, <2>3, <2>4, Writers
<1>3. ASSUME NEW s \in Sockets PROVE role'[s] \in {SeatedRole(s), "none"}
  <2>1. role[s] \in {SeatedRole(s), "none"} /\ DOMAIN role = Sockets
    BY DEF CrowdOK, Seats, IInv, SocketsOK
  <2>2. CASE AddMember(x)
    <3>1. task[x].arg = SeatedRole(task[x].sock)
      BY <1>0, <2>2 DEF AddMember, At, Fits
    <3> QED  BY <1>0, <2>1, <2>2, <3>1 DEF AddMember
  <2> QED  BY <2>1, <2>2, Writers
<1>4. ASSUME NEW s \in Sockets PROVE rid'[s] \in {RidOf(s), s}
  <2>1. rid[s] \in {RidOf(s), s} /\ DOMAIN rid = Sockets
    BY DEF CrowdOK, Seats, IInv, SocketsOK
  <2>2. CASE TakeOwnerRid(x)
    <3>1. task[x].room = RidOf(task[x].sock)
      BY <1>0, <2>2 DEF TakeOwnerRid, At, Fits, Asking, RidOf
    <3> QED  BY <1>0, <2>1, <2>2, <3>1 DEF TakeOwnerRid
  <2> QED  BY <2>1, <2>2, Writers
<1> QED  BY <1>1, <1>2, <1>3, <1>4 DEF Seats

(***************************************************************************)
(* The owner that is no member.                                            *)
(***************************************************************************)
\* Where a handler can come from.
LEMMA ComesFrom ==
  ASSUME IInv, CrowdOK, NEW x \in Tasks, Run(x),
         task'[x].pc \in {"setInfo", "nickSet", "delRoom"}
  PROVE  /\ task'[x].sock = task[x].sock
         /\ task'[x].pc = "setInfo" => AddMember(x)
         /\ task'[x].pc = "nickSet" => Registered(task[x].sock)
         /\ task'[x].pc = "delRoom" => DelOwnInfo(x) \/ DelRoom(x)
<1>0. /\ Running(x) /\ Running(x)' /\ DOMAIN task = Tasks /\ task[x] \in TaskStates
      /\ Home \in Rooms
      /\ task[x].pc # "goneInfo" => task[x].room = Home
  BY RunsWhileRunning, CrowdFacts DEF Running
<1>1. ~Set(x, Ended) /\ task' # Finished(x)
  BY <1>0, EndMoves
<1>2. ASSUME NEW l \in Locations, l \notin {"setInfo", "nickSet", "delRoom"} PROVE ~Go(x, l)
  BY <1>2, GoMoves
<1>3. ASSUME NEW then PROVE ~Cast(x, Home, then)
  BY <1>0, CastMoves
<1>4. ASSUME NEW t, t.pc \notin {"setInfo", "nickSet", "delRoom"} PROVE ~Set(x, t)
  BY <1>0, <1>4 DEF Set
<1>5. ~PassThrough(x) /\ ~ReplyState(x) /\ ~Close(x)
  BY <1>0, <1>1, <1>2, <1>3 DEF PassThrough, Onward, ReplyState, Close, At, Locations
<1>6. ~Broadcast(x)
  BY CastMovesOn
<1>7. CASE Join(x)
  <2>1. ~TakeOwnerRid(x)
    <3> DEFINE t == [task[x] EXCEPT !.pc = "activeOwner", !.rid = task[x].room]
    <3>1. t.pc = "activeOwner"
      BY <1>0 DEF TaskStates
    <3>2. ~Set(x, t)
      BY <1>4, <3>1
    <3> QED  BY <1>1, <3>2 DEF TakeOwnerRid
  <2>2. ~ActiveOwner(x)
    <3> DEFINE t == [task[x] EXCEPT !.pc = "activeMembers", !.owner = roomOwner[task[x].room]]
    <3>1. t.pc = "activeMembers"
      BY <1>0 DEF TaskStates
    <3>2. ~Set(x, t)
      BY <1>4, <3>1
    <3> QED  BY <1>2, <3>2 DEF ActiveOwner, Locations
  <2>3. ~ActiveMembers(x)
    <3> DEFINE t == [task[x] EXCEPT !.pc = "activeInfo", !.todo = roomMembers[task[x].room]]
    <3>1. t.pc = "activeInfo"
      BY <1>0 DEF TaskStates
    <3>2. ~Set(x, t)
      BY <1>4, <3>1
    <3> QED  BY <1>2, <3>2 DEF ActiveMembers, Locations
  <2>4. ~DropInfo(x)
    <3> DEFINE t == [task[x] EXCEPT !.pc = "ensureOwner", !.found = Null]
    <3>1. t.pc = "ensureOwner"
      BY <1>0 DEF TaskStates
    <3>2. ~Set(x, t)
      BY <1>4, <3>1
    <3> QED  BY <3>2 DEF DropInfo
  <2>5. ~ActiveInfo(x)
    <3> SUFFICES ASSUME ActiveInfo(x) PROVE FALSE
      OBVIOUS
    <3>1. PICK m \in task[x].todo :
            LET owns == socketInfo[m] # Null /\ socketInfo[m].rid = task[x].owner
                f == IF owns /\ task[x].found = Null THEN m ELSE task[x].found
                t == [task[x] EXCEPT !.todo = @ \ {m}, !.found = f]
            IN  IF t.todo # {} THEN Set(x, t)
                ELSE IF f = Null
                  THEN Set(x, [t EXCEPT !.pc = "ensureOwner"])
                  ELSE Kick(x, f, [t EXCEPT !.pc = "dropMember"])
      BY DEF ActiveInfo
    <3> DEFINE owns == socketInfo[m] # Null /\ socketInfo[m].rid = task[x].owner
               f == IF owns /\ task[x].found = Null THEN m ELSE task[x].found
               t == [task[x] EXCEPT !.todo = @ \ {m}, !.found = f]
    <3>2. /\ t.pc = "activeInfo" /\ [t EXCEPT !.pc = "ensureOwner"].pc = "ensureOwner"
          /\ [t EXCEPT !.pc = "dropMember"].pc = "dropMember"
      BY <1>0 DEF TaskStates, ActiveInfo, At
    <3>3. Disconnection(f).pc = "goneInfo"
      BY DEF Disconnection, NoTask
    <3>4. task'[x] \in {t, [t EXCEPT !.pc = "ensureOwner"], [t EXCEPT !.pc = "dropMember"],
                        Disconnection(f)}
      <4> HIDE DEF f, t
      <4> QED  BY <1>0, <3>1 DEF Set, Kick, f, t
    <3> QED  BY <3>2, <3>3, <3>4
  <2>6. AddMember(x)
    BY <1>1, <1>2, <1>7, <2>1, <2>2, <2>3, <2>4, <2>5
       DEF Join, CheckToken, DropMember, EnsureOwner, RecordOwner, CheckRoom, EnterRoom,
           RecordInfo, EnsureConfig, Locations
  <2>7. KeepsAll(x) /\ task'[x].pc = "setInfo"
    BY <2>6, GoMoves DEF AddMember, Locations
  <2> QED  BY <2>6, <2>7 DEF KeepsAll, Keeps
<1>8. ~Gone(x)
  <2> DEFINE info == socketInfo[task[x].sock]
             t == [task[x] EXCEPT !.pc = "goneReady", !.room = info.roomId, !.arg = info.role]
  <2>1. t.pc = "goneReady"
    BY <1>0 DEF TaskStates
  <2>2. ~Set(x, t)
    BY <1>4, <2>1
  <2> HIDE DEF t
  <2>3. ~GoneInfo(x)
    BY <1>1, <2>2 DEF GoneInfo, t
  <2>4. ~GoneReady(x) /\ ~GoneMember(x)
    BY <1>2 DEF GoneReady, GoneMember, Locations
  <2>5. ~GoneDelete(x)
    BY <1>0, <1>2, <1>3 DEF GoneDelete, At, Locations
  <2> QED  BY <2>3, <2>4, <2>5 DEF Gone
<1>9. ~Leave(x)
  <2> DEFINE t == [task[x] EXCEPT
                     !.pc = IF task[x].arg = "owner" THEN "leaveMember" ELSE "goneInfo",
                     !.then = IF task[x].arg = "owner" THEN @ ELSE "leave",
                     !.home = task[x].room]
  <2>1. t.pc \in {"leaveMember", "goneInfo"}
    BY <1>0 DEF TaskStates
  <2>2. ~Set(x, t)
    BY <1>4, <2>1
  <2> HIDE DEF t
  <2>3. ~LeaveInfo(x)
    BY <1>1, <2>2 DEF LeaveInfo, t
  <2> QED
    BY <1>2, <2>3 DEF Leave, LeaveMember, LeaveDelete, LeaveOwner, Locations
<1>10. CASE Settings(x)
  <2> DEFINE t == [task[x] EXCEPT !.pc = "nickSet", !.info = socketInfo[task[x].sock]]
  <2>1. t.pc = "nickSet" /\ t.sock = task[x].sock
    BY <1>0 DEF TaskStates
  <2>2. NickInfo(x) /\ Registered(task[x].sock) /\ Set(x, t)
    BY <1>0, <1>1, <1>2, <1>3, <1>10
       DEF Settings, ToggleInfo, ToggleWrite, NickInfo, NickSet, ConfigOwner, ConfigSet, At,
           Locations, Registered
  <2>3. task'[x] = t
    BY <1>0, <2>2 DEF Set
  <2> HIDE DEF t
  <2> QED  BY <2>1, <2>2, <2>3
<1>11. CASE Delete(x)
  <2>1. ~DelMembers(x) /\ ~DelInfo(x)
    BY DeletionGoesOn
  <2>2. ~DelOwner(x)
    BY <1>1, <1>2 DEF DelOwner, Locations
  <2>3. CASE DelOwnInfo(x)
    <3>1. KeepsAll(x) /\ task'[x].pc = "delRoom"
      BY <2>3, GoMoves DEF DelOwnInfo, Locations
    <3> QED  BY <2>3, <3>1 DEF KeepsAll, Keeps
  <2>4. CASE DelRoom(x)
    <3> DEFINE t == [task[x] EXCEPT !.next = @ + 1]
    <3>1. t.pc = task[x].pc /\ t.sock = task[x].sock
      BY <1>0 DEF TaskStates
    <3>2. task[x].pc = "delRoom" /\ Set(x, t)
      BY <1>1, <2>4 DEF DelRoom, At
    <3> HIDE DEF t
    <3>3. task'[x] = t
      BY <1>0, <3>2 DEF Set
    <3> QED  BY <2>4, <3>1, <3>2, <3>3
  <2> QED  BY <1>11, <2>1, <2>2, <2>3, <2>4 DEF Delete
<1> QED  BY <1>5, <1>6, <1>7, <1>8, <1>9, <1>10, <1>11 DEF Run

\* One DEL of a deletion.
LEMMA DelRoomDoes ==
  ASSUME IInv, CrowdOK, PipelineOK, NEW x \in Tasks, DelRoom(x)
  PROVE  /\ roomMembers' = roomMembers \/ roomOwner[Home] = Null
         /\ roomOwner'[Home] \in {roomOwner[Home], Null}
         /\ task[x].next > 1 => roomOwner'[Home] = Null
         /\ Running(x)' => task'[x].pc = "delRoom" /\ task'[x].next = task[x].next + 1
         /\ ~Running(x)' => roomOwner'[Home] = Null
<1>1. task[x].pc = "delRoom" /\ Running(x)
  BY DEF DelRoom, At, Running
<1>2. /\ DOMAIN task = Tasks /\ task[x] \in TaskStates /\ task[x].room = Home /\ Home \in Rooms
      /\ task[x].next > 2 => roomOwner[Home] = Null
  BY <1>1, CrowdFacts DEF PipelineOK, At
<1>3. Len(DeletionOrder) = 7 /\ \E n \in 1..7 : n = task[x].next
  BY <1>2 DEF DeletionOrder, TaskStates
<1> PICK n \in 1..7 : n = task[x].next
  BY <1>3
<1>4. /\ DeletionOrder[n] = "token" <=> n = 3
      /\ DeletionOrder[n] = "owner" <=> n = 2
      /\ DeletionOrder[n] = "members" <=> n = 4
  BY DEF DeletionOrder
<1>5. /\ roomMembers' = roomMembers \/ n = 4
      /\ n = 2 => roomOwner'[Home] = Null
      /\ n # 2 => roomOwner' = roomOwner
  BY <1>2, <1>4 DEF DelRoom, DeleteRoomKey, redisVars, IInv, RedisTypeOK
<1> DEFINE t == [task[x] EXCEPT !.next = @ + 1]
<1>6. t.pc = "delRoom" /\ t.next = n + 1 /\ Ended.pc = "done"
  BY <1>1, <1>2 DEF TaskStates, Ended
<1>7. IF n = 7 THEN Set(x, Ended) ELSE Set(x, t)
  BY <1>3 DEF DelRoom
<1> HIDE DEF t
<1>8. task'[x] = IF n = 7 THEN Ended ELSE t
  BY <1>2, <1>7 DEF Set
<1> QED  BY <1>2, <1>5, <1>6, <1>8 DEF Running

\* Where a handler stands says which step it takes.
LEMMA StepOfUndecided ==
  ASSUME NEW x \in Tasks, Run(x)
  PROVE  /\ task[x].pc = "addMember" => AddMember(x)
         /\ task[x].pc = "leaveDelete" => LeaveDelete(x)
         /\ task[x].pc = "leaveOwner" => LeaveOwner(x)
<1>1. ASSUME task[x].pc \in {"addMember", "leaveDelete", "leaveOwner"}
      PROVE  AddMember(x) \/ LeaveDelete(x) \/ LeaveOwner(x)
  BY <1>1
     DEF Run, PassThrough, Onward, ReplyState, Close, Join, CheckToken, TakeOwnerRid,
         ActiveOwner, ActiveMembers, ActiveInfo, DropMember, DropInfo, EnsureOwner,
         RecordOwner, CheckRoom, RecordInfo, EnsureConfig, Broadcast, CastOwner, CastMembers,
         CastReady, CastInfo, Gone, GoneInfo, GoneReady, GoneMember, GoneDelete, Leave,
         LeaveInfo, LeaveMember, Settings, ToggleInfo, ToggleWrite, NickInfo, NickSet,
         ConfigOwner, ConfigSet, Delete, DelOwner, DelMembers, DelInfo, DelOwnInfo, DelRoom,
         At
<1> QED  BY <1>1 DEF AddMember, LeaveDelete, LeaveOwner, At

LEMMA StaysUndecided ==
  ASSUME IInv, OneOwnerConnection, CrowdOK, NEW x \in Tasks, Run(x),
         NEW o \in OwnerSockets, Undecided, ~Undecided'
  PROVE  Member(o)' \/ roomOwner'[Home] = Null
<1>1. PICK y \in Tasks : /\ task[y].pc \in {"addMember", "leaveDelete", "leaveOwner"}
                         /\ task[y].sock \in OwnerSockets
  BY DEF Undecided
<1>2. Running(y) /\ task'[y] # task[y]
  BY <1>1 DEF Undecided, Running
<1>3. y = x
  BY <1>2, OthersAre DEF Lost
<1>4. /\ task[x].room = Home /\ task[x].sock = o /\ Home \in Rooms /\ Running(x)
  BY <1>1, <1>2, <1>3, CrowdFacts DEF OneOwnerConnection
<1>5. CASE AddMember(x)
  BY <1>4, <1>5 DEF AddMember, AddRoomMember, Member, IInv, RedisTypeOK
<1>6. CASE LeaveDelete(x)
  <2>1. KeepsAll(x) /\ task'[x].pc = "leaveOwner"
    BY <1>6, GoMoves DEF LeaveDelete, Locations
  <2> QED  BY <1>4, <2>1 DEF Undecided, KeepsAll, Keeps
<1>7. CASE LeaveOwner(x)
  BY <1>4, <1>7 DEF LeaveOwner, ClearRoomOwner, IInv, RedisTypeOK
<1> QED  BY <1>1, <1>3, <1>5, <1>6, <1>7, StepOfUndecided

LEMMA WasAbsent ==
  ASSUME IInv, OneOwnerConnection, CrowdOK, PipelineOK, NEW x \in Tasks, Run(x),
         NEW o \in OwnerSockets, Absent(o)'
  PROVE  Absent(o)
<1>0. /\ Running(x) /\ Fits(task[x]) /\ WellFormed(task[x]) /\ Home \in Rooms
      /\ task[x].sock \in Sockets /\ o \in Sockets
      /\ task[x].pc # "goneInfo" => task[x].room = Home
  BY RunsWhileRunning, CrowdFacts, RoomAssumption
<1>1. /\ conn[o] /\ ~Member(o)' /\ roomOwner'[Home] = Home /\ ~Undecided' /\ Home # Null
  BY <1>0, NobodyReconnects, RoomAssumption DEF Absent
<1>2. ~Undecided
  BY <1>1, StaysUndecided
<1>3. ASSUME NEW l \in {"addMember", "leaveDelete"}, Go(x, l), task[x].sock \in OwnerSockets
      PROVE  FALSE
  <2>1. KeepsAll(x) /\ task'[x].pc = l
    BY <1>3, GoMoves DEF Locations
  <2> QED  BY <1>1, <1>3, <2>1 DEF Undecided, KeepsAll, Keeps
<1>4. ~Member(o)
  <2> SUFFICES ASSUME Member(o) PROVE FALSE
    OBVIOUS
  <2>1. CASE roomMembers' = roomMembers
    BY <1>1, <2>1 DEF Member
  <2>2. CASE DropMember(x)
    <3>1. task[x].pc = "dropMember" /\ ~conn[task[x].found]
      BY <1>0, <2>2 DEF DropMember, At, Fits
    <3>2. roomMembers'[Home] = roomMembers[Home] \ {task[x].found}
      BY <1>0, <2>2, <3>1 DEF DropMember, RemoveRoomMember, IInv, RedisTypeOK
    <3> QED  BY <1>1, <3>1, <3>2 DEF Member
  <2>3. CASE AddMember(x)
    <3>1. roomMembers'[Home] = roomMembers[Home] \cup {task[x].sock}
      BY <1>0, <2>3 DEF AddMember, At, AddRoomMember, IInv, RedisTypeOK
    <3> QED  BY <1>1, <3>1 DEF Member
  <2>4. CASE GoneMember(x)
    <3>1. task[x].pc = "goneMember" /\ task[x].sock # o
      BY <1>0, <1>1, <2>4 DEF GoneMember, At, Fits, Going
    <3>2. roomMembers'[Home] = roomMembers[Home] \ {task[x].sock}
      BY <1>0, <2>4, <3>1 DEF GoneMember, RemoveRoomMember, IInv, RedisTypeOK
    <3> QED  BY <1>1, <3>1, <3>2 DEF Member
  <2>5. CASE LeaveMember(x)
    <3>1. task[x].sock \in OwnerSockets
      BY <1>0, <2>5 DEF LeaveMember, At, Fits, Exiting
    <3> QED  BY <1>3, <2>5, <3>1 DEF LeaveMember
  <2>6. CASE DelRoom(x)
    BY <1>1, <2>1, <2>6, DelRoomDoes
  <2> QED  BY <2>1, <2>2, <2>3, <2>4, <2>5, <2>6, Writers
<1>5. roomOwner[Home] = Home
  <2>1. CASE RecordOwner(x)
    <3>1. task[x].sock \in OwnerSockets
      BY <1>0, <2>1 DEF RecordOwner, At, Fits, Replacing
    <3> QED  BY <1>3, <2>1, <3>1 DEF RecordOwner, EnterRoom
  <2>2. CASE LeaveOwner(x)
    BY <1>0, <1>1, <2>2 DEF LeaveOwner, At, ClearRoomOwner, IInv, RedisTypeOK
  <2>3. CASE DelRoom(x)
    BY <1>1, <2>3, DelRoomDoes
  <2> QED  BY <1>1, <2>1, <2>2, <2>3, Writers
<1> QED  BY <1>1, <1>2, <1>4, <1>5 DEF Absent

LEMMA RunKeepsAbsence ==
  ASSUME IInv, OneOwnerConnection, CrowdOK, PipelineOK, NEW x \in Tasks, Run(x)
  PROVE  AbsentAreNew'
<1> SUFFICES ASSUME NEW o \in OwnerSockets, Absent(o)'
             PROVE  /\ ~Registered(o)'
                    /\ \A y \in Tasks :
                         task'[y].sock = o => task'[y].pc \notin {"setInfo", "nickSet"}
  BY DEF AbsentAreNew
<1>1. /\ Absent(o) /\ ~Registered(o) /\ o \in Sockets
      /\ \A y \in Tasks : task[y].sock = o => task[y].pc \notin {"setInfo", "nickSet"}
  BY WasAbsent, RoomAssumption DEF CrowdOK, AbsentAreNew
<1>2. ~Registered(o)'
  <2>1. socketInfo[o] = Null /\ DOMAIN socketInfo = Sockets
    BY <1>1 DEF Registered, IInv, RedisTypeOK
  <2>2. CASE \/ DropInfo(x) \/ GoneDelete(x) \/ LeaveDelete(x) \/ DelInfo(x) \/ DelOwnInfo(x)
    <3>1. \E u : socketInfo' = [socketInfo EXCEPT ![u] = Null]
      BY <2>2 DEF DropInfo, GoneDelete, LeaveDelete, DelInfo, DelOwnInfo, RemoveSocketInfo
    <3> QED  BY <1>1, <2>1, <3>1 DEF Registered
  <2>3. CASE RecordInfo(x) \/ NickSet(x)
    <3>1. task[x].pc \in {"setInfo", "nickSet"}
      BY <2>3 DEF RecordInfo, NickSet, At
    <3>2. \E info : socketInfo' = [socketInfo EXCEPT ![task[x].sock] = info]
      BY <2>3 DEF RecordInfo, NickSet, SetSocketInfo
    <3> QED  BY <1>1, <2>1, <3>1, <3>2 DEF Registered
  <2>4. CASE socketInfo' = socketInfo
    BY <1>1, <2>4 DEF Registered
  <2> QED  BY <2>2, <2>3, <2>4, Writers
<1>3. ASSUME NEW y \in Tasks, task'[y].sock = o, task'[y].pc \in {"setInfo", "nickSet"}
      PROVE  FALSE
  <2>1. CASE y = x
    <3>1. task[x].sock = o /\ (AddMember(x) \/ Registered(task[x].sock))
      BY <1>3, <2>1, ComesFrom
    <3>2. AddMember(x) => Undecided
      BY <3>1 DEF AddMember, At, Undecided
    <3> QED  BY <1>1, <3>1, <3>2 DEF Absent
  <2>2. CASE y # x /\ task'[y] = task[y]
    BY <1>1, <1>3, <2>2
  <2>3. CASE Lost(y)
    BY <1>3, <2>3 DEF Lost, Disconnection, NoTask
  <2> QED  BY <2>1, <2>2, <2>3, OthersAre
<1> QED  BY <1>2, <1>3

LEMMA RunKeepsCrowd ==
  ASSUME IInv, OneProcess, OneOwnerConnection, CrowdOK, PipelineOK, NEW x \in Tasks, Run(x)
  PROVE  CrowdOK'
  BY RunKeepsSeats, RunKeepsTheFit, RunKeepsAbsence DEF CrowdOK

(***************************************************************************)
(* What a step does to what is shown.                                      *)
(***************************************************************************)
LEMMA OwnerIsAway ==
  ASSUME OneOwnerConnection, NEW o \in OwnerSockets,
         \/ ~conn'[o] \/ ~Member(o)' \/ ~Registered(o)' \/ roomOwner'[Home] # Home \/ Doomed'
  PROVE  Unwatched'
  BY DEF OneOwnerConnection, Unwatched, Watches

LEMMA CrowdShows ==
  ASSUME IInv, IInv', OneOwnerConnection, CrowdOK, PipelineOK, NEW x \in Tasks, Run(x)
  PROVE  Outcome(x)
<1>0. /\ Running(x) /\ Fits(task[x]) /\ WellFormed(task[x]) /\ Home \in Rooms
      /\ task[x].sock \in Sockets /\ OwnerSockets \subseteq Sockets
      /\ task[x].pc # "goneInfo" => task[x].room = Home
      /\ Home # Null /\ Null \notin Sockets
  BY RunsWhileRunning, CrowdFacts, RoomAssumption
<1>1. ASSUME NEW l \in Locations, Go(x, l) PROVE task'[x].pc = l /\ task'[x].sock = task[x].sock
  BY <1>1, GoMoves DEF KeepsAll, Keeps
<1>2. ASSUME NEW s \in Sockets, ~conn[s] PROVE ~conn'[s]
  BY <1>2, NobodyReconnects
<1>3. ASSUME task[x].pc \in {"goneReady", "goneMember", "goneDelete"},
             task[x].sock \in OwnerSockets
      PROVE  Outcome(x)
  <2>1. ~conn[task[x].sock]
    BY <1>0, <1>3 DEF Fits, Going
  <2> QED  BY <1>0, <1>2, <1>3, <2>1, OwnerIsAway DEF Outcome
<1>4. ASSUME task[x].pc \in {"dropMember", "dropInfo"} PROVE Outcome(x)
  <2>1. task[x].found \in OwnerSockets /\ ~conn[task[x].found]
    BY <1>0, <1>4 DEF Fits, Replacing, WellFormed
  <2> QED  BY <1>0, <1>2, <2>1, OwnerIsAway DEF Outcome
<1>5. CASE Join(x)
  <2>1. CASE RecordOwner(x) \/ AddMember(x) \/ RecordInfo(x) \/ EnsureConfig(x)
    BY <1>1, <2>1
       DEF RecordOwner, EnterRoom, AddMember, RecordInfo, EnsureConfig, Locations, Outcome,
           Pending
  <2> QED  BY <1>4, <1>5, <2>1, SearchShows DEF Join, DropMember, DropInfo, At
<1>6. CASE Gone(x)
  <2>1. CASE GoneReady(x) \/ GoneMember(x)
    BY <1>1, <1>3, <2>1 DEF GoneReady, GoneMember, At, Locations, Outcome, Pending
  <2>2. CASE GoneDelete(x)
    <3>1. task[x].pc = "goneDelete" /\ task[x].arg = SeatedRole(task[x].sock)
      BY <1>0, <2>2 DEF GoneDelete, At, Fits
    <3>2. task[x].sock \notin OwnerSockets => Cast(x, Home, task[x].then)
      BY <1>0, <2>2, <3>1 DEF GoneDelete, SeatedRole
    <3> QED  BY <1>0, <1>3, <3>1, <3>2, CastMoves DEF Outcome
  <2> QED  BY <1>6, <2>1, <2>2, FirstReadShows DEF Gone
<1>7. CASE Leave(x)
  <2>1. CASE ~LeaveInfo(x)
    <3>1. task[x].sock \in OwnerSockets /\ task[x].room = Home
      BY <1>0, <1>7, <2>1
         DEF Leave, LeaveMember, LeaveDelete, LeaveOwner, At, Fits, Exiting
    <3>2. CASE LeaveMember(x)
      <4>1. PICK o \in OwnerSockets : o = task[x].sock
        BY <3>1
      <4>2. ~Member(o)'
        BY <1>0, <3>1, <3>2, <4>1 DEF LeaveMember, RemoveRoomMember, Member, IInv, RedisTypeOK
      <4> QED  BY <4>2, OwnerIsAway DEF Outcome
    <3>3. CASE LeaveDelete(x)
      <4>1. PICK o \in OwnerSockets : o = task[x].sock
        BY <3>1
      <4>2. ~Registered(o)'
        BY <1>0, <3>3, <4>1 DEF LeaveDelete, RemoveSocketInfo, Registered, IInv, RedisTypeOK
      <4> QED  BY <4>2, OwnerIsAway DEF Outcome
    <3>4. CASE LeaveOwner(x)
      <4>1. roomOwner'[Home] = Null
        BY <1>0, <3>1, <3>4 DEF LeaveOwner, ClearRoomOwner, IInv, RedisTypeOK
      <4> QED  BY <1>0, <3>1, <4>1, OwnerIsAway DEF Outcome
    <3> QED  BY <1>7, <2>1, <3>2, <3>3, <3>4 DEF Leave
  <2> QED  BY <2>1, FirstReadShows
<1>8. CASE Delete(x)
  <2>0. x \in Calls
    BY <1>8, DeletersAreCalls
  <2>1. CASE DelOwner(x)
    BY <2>1, FirstReadShows
  <2>2. CASE task'[x].pc \in {"delInfo", "delOwnInfo", "delRoom"}
    <3>1. Doomed'
      BY <2>0, <2>2 DEF Doomed
    <3> QED  BY <3>1, NoOwnerNoWatch DEF Outcome
  <2>3. CASE DelMembers(x) \/ DelInfo(x)
    BY <2>2, <2>3, DeletionGoesOn
  <2>4. CASE DelOwnInfo(x)
    BY <1>1, <2>2, <2>4 DEF DelOwnInfo, Locations
  <2>5. CASE DelRoom(x)
    <3>1. CASE roomOwner'[Home] = Null
      BY <1>0, <3>1 DEF Unwatched, Watches, Outcome
    <3> QED  BY <2>2, <2>5, <3>1, DelRoomDoes
  <2> QED  BY <1>8, <2>1, <2>3, <2>4, <2>5 DEF Delete
<1>9. CASE PassThrough(x) \/ ReplyState(x) \/ Close(x)
  BY <1>9, ControlShows
<1>10. CASE Broadcast(x)
  BY <1>10, BroadcastShows DEF Outcome
<1>11. CASE Settings(x)
  BY <1>11, SettingsShow
<1> QED  BY <1>5, <1>6, <1>7, <1>8, <1>9, <1>10, <1>11 DEF Run

(***************************************************************************)
(* Arrivals and losses.                                                    *)
(***************************************************************************)
\* What the handler of a request begins with.
LEMMA RequestStarts ==
  ASSUME IInv, OneOwnerConnection, CrowdOK, NEW c \in Calls, Arrive(c)
  PROVE  /\ OthersStay(c) /\ ~Running(c)
         /\ task'[c].pc \in {"joinToken", "joinConfig", "leaveInfo", "toggleInfo", "nickInfo",
                             "configOwner", "delOwner", "done"}
         /\ Running(c)' => Fits(task[c])'
<1>0. DOMAIN task = Tasks /\ c \in Tasks /\ ~Running(c)
  BY CallsAreTasks DEF IInv, TasksOK, Arrive, At, Running
<1>1. PICK q \in Inputs :
        Set(c, IF FirstAwait(q) = "done" THEN Ended ELSE
                 [NoTask EXCEPT !.pc = FirstAwait(q), !.sock = q.sock,
                    !.room = q.room, !.rid = rid[q.sock],
                    !.arg = IF q.kind = "leave" THEN role[q.sock] ELSE q.arg])
  BY DEF Arrive
<1> DEFINE t == [NoTask EXCEPT !.pc = FirstAwait(q), !.sock = q.sock,
                    !.room = q.room, !.rid = rid[q.sock],
                    !.arg = IF q.kind = "leave" THEN role[q.sock] ELSE q.arg]
<1>2. /\ t.pc = FirstAwait(q) /\ t.sock = q.sock /\ t.room = q.room /\ t.rid = rid[q.sock]
      /\ t.arg = IF q.kind = "leave" THEN role[q.sock] ELSE q.arg
      /\ t.found = Null /\ t.next = 1 /\ Ended.pc = "done"
  BY DEF NoTask, Ended
<1> HIDE DEF t
<1>3. /\ OthersStay(c)
      /\ task'[c] = IF FirstAwait(q) = "done" THEN Ended ELSE t
  BY <1>0, <1>1 DEF Set, OthersStay, t
<1>4. task'[c].pc \in {"joinToken", "joinConfig", "leaveInfo", "toggleInfo", "nickInfo",
                       "configOwner", "delOwner", "done"}
  BY <1>2, <1>3, RequestsBegin
<1>5. ASSUME Running(c)' PROVE Fits(task[c])'
  <2>1. task'[c] = t /\ FirstAwait(q) # "done"
    BY <1>2, <1>3, <1>5 DEF Running
  <2>2. /\ q.kind \in Kinds /\ q.sock \in Sockets /\ q.room = Home
        /\ q.kind = "join" => q.arg = SeatedRole(q.sock)
    BY RoomAssumption DEF InputData, OneOwnerConnection
  <2>3. /\ role[q.sock] \in {SeatedRole(q.sock), "none"}
        /\ rid[q.sock] \in {RidOf(q.sock), q.sock}
    BY <2>2 DEF CrowdOK, Seats
  <2>4. /\ t.pc = "joinToken" => q.kind = "join" /\ q.sock \in OwnerSockets
        /\ t.pc = "joinConfig" => q.kind = "join" /\ q.arg # "owner"
        /\ t.pc = "leaveInfo" => q.kind = "leave" /\ role[q.sock] # "none"
    BY <1>2, <2>1, <2>2 DEF FirstAwait, Kinds
  <2>5. t.pc = "joinConfig" => q.sock \notin OwnerSockets /\ t.rid = RidOf(q.sock)
    BY <1>2, <2>2, <2>3, <2>4 DEF SeatedRole, RidOf
  <2>6. t.pc \in {"joinToken", "joinConfig", "leaveInfo"} => t.arg = SeatedRole(q.sock)
    BY <1>2, <2>2, <2>3, <2>4
  <2>7. t.pc \in {"joinToken", "joinConfig", "leaveInfo", "toggleInfo", "nickInfo",
                  "configOwner", "delOwner"}
    BY <1>2, <1>4, <2>1
  <2> QED
    BY <1>2, <2>1, <2>2, <2>4, <2>5, <2>6, <2>7
       DEF Fits, Asking, Replacing, Exiting, Going
<1> QED  BY <1>0, <1>3, <1>4, <1>5

\* A step that starts a task and writes nothing.
LEMMA StartKeepsCrowd ==
  ASSUME IInv, CrowdOK, NEW x \in Tasks, ~Running(x), OthersStay(x),
         UNCHANGED <<roomMembers, roomOwner, socketInfo, rid, role>>,
         \A s \in Sockets : conn'[s] => conn[s],
         Running(x)' => Fits(task[x])',
         task'[x].pc \notin {"setInfo", "nickSet"},
         x \in Sockets => ~conn'[x] /\ task'[x].pc = "goneInfo"
  PROVE  CrowdOK'
<1>1. Seats'
  BY DEF CrowdOK, Seats
<1>2. TasksFit'
  <2>1. ASSUME NEW y \in Tasks, y # x, Running(y)' PROVE Fits(task[y])'
    BY <2>1, OthersFit DEF OthersStay
  <2> QED  BY <2>1 DEF TasksFit
<1>3. LossesRun'
  <2> SUFFICES ASSUME NEW s \in Sockets, Running(s)'
               PROVE  /\ ~conn'[s]
                      /\ task'[s].pc \in Going \cup Casting \cup Touching \cup {"activity"}
    BY DEF LossesRun
  <2>1. CASE s = x
    BY <2>1 DEF Going
  <2>2. CASE s # x
    BY <2>2, CallsAreTasks DEF OthersStay, Running, CrowdOK, LossesRun
  <2> QED  BY <2>1, <2>2
<1>4. AbsentAreNew'
  <2> SUFFICES ASSUME NEW o \in OwnerSockets, Absent(o)'
               PROVE  /\ ~Registered(o)'
                      /\ \A y \in Tasks :
                           task'[y].sock = o => task'[y].pc \notin {"setInfo", "nickSet"}
    BY DEF AbsentAreNew
  <2>1. Undecided => Undecided'
    BY DEF Undecided, OthersStay, Running
  <2>2. Absent(o)
    BY <2>1, RoomAssumption DEF Absent, Member
  <2> QED  BY <2>2 DEF CrowdOK, AbsentAreNew, Registered, OthersStay
<1> QED  BY <1>1, <1>2, <1>3, <1>4 DEF CrowdOK

\* A task that starts queues behind the others, and the pipelines go on.
LEMMA StartKeepsPipeline ==
  ASSUME QueueOK, PipelineOK, NEW x \in Tasks, OthersStay(x), task'[x].pc # "delRoom",
         roomOwner' = roomOwner, queue' \in {queue, Append(queue, x)}
  PROVE  PipelineOK'
<1>1. ASSUME queue # <<>> PROVE queue' # <<>> /\ Head(queue') = Head(queue)
  <2>1. queue \in Seq(Tasks) /\ Len(queue) \in Nat \ {0} /\ Head(queue) = queue[1]
    BY <1>1, EmptySeq, LenProperties, HeadTailProperties DEF QueueOK
  <2>2. /\ Append(queue, x) \in Seq(Tasks) /\ Append(queue, x) # <<>>
        /\ Append(queue, x)[1] = queue[1]
    BY <2>1, AppendProperties, EmptySeq
  <2>3. Head(Append(queue, x)) = Append(queue, x)[1]
    BY <2>2, HeadTailProperties
  <2> QED  BY <1>1, <2>1, <2>2, <2>3
<1> SUFFICES ASSUME NEW y \in Tasks, task'[y].pc = "delRoom"
             PROVE  /\ task'[y].next > 1 => queue' # <<>> /\ y = Head(queue')
                    /\ task'[y].next > 2 => roomOwner'[Home] = Null
  BY DEF PipelineOK, At
<1>2. task'[y] = task[y]
  BY DEF OthersStay
<1> QED  BY <1>1, <1>2 DEF PipelineOK, At

LEMMA ServeKeepsPipeline ==
  ASSUME IInv, OneOwnerConnection, CrowdOK, PipelineOK, NEW x \in Tasks, Serve(x)
  PROVE  PipelineOK'
<1>0. queue # <<>> /\ x = Head(queue) /\ Run(x)
  BY DEF Serve
<1> SUFFICES ASSUME NEW y \in Tasks, task'[y].pc = "delRoom"
             PROVE  /\ task'[y].next > 1 => queue' # <<>> /\ y = Head(queue')
                    /\ task'[y].next > 2 => roomOwner'[Home] = Null
  BY DEF PipelineOK, At
<1>1. CASE y # x
  <2>1. task'[y] = task[y]
    <3>1. Disconnection(y).pc = "goneInfo"
      BY DEF Disconnection, NoTask
    <3>2. task'[y] = task[y] \/ Lost(y)
      BY <1>0, <1>1, OthersAre
    <3> QED  BY <3>1, <3>2 DEF Lost
  <2>2. ~(task[y].next > 1)
    BY <1>0, <1>1, <2>1 DEF PipelineOK, At
  <2>3. task[y].next \in Nat
    BY DEF IInv, TasksOK, TaskStates, DeletionOrder
  <2> QED  BY <2>1, <2>2, <2>3
<1>2. CASE y = x /\ DelOwnInfo(x)
  <2>1. KeepsAll(x) /\ task[x].next = 1
    <3>1. task[x].pc = "delOwnInfo" /\ Running(x) /\ Go(x, "delRoom")
      BY <1>2 DEF DelOwnInfo, At, Running
    <3> QED  BY <3>1, GoMoves, CrowdFacts DEF Locations, Fits
  <2> QED  BY <1>2, <2>1 DEF KeepsAll, Keeps
<1>3. CASE y = x /\ DelRoom(x)
  <2>1. Running(x)' /\ task[x].pc = "delRoom" /\ task[x].next \in Nat
    BY <1>3 DEF DelRoom, At, Running, IInv, TasksOK, TaskStates, DeletionOrder
  <2>2. task'[x].next = task[x].next + 1 /\ (task[x].next > 1 => roomOwner'[Home] = Null)
    BY <1>3, <2>1, DelRoomDoes
  <2>3. queue' = queue
    BY <1>3, <2>1 DEF Serve, InPipeline
  <2> QED  BY <1>0, <1>3, <2>1, <2>2, <2>3
<1> QED  BY <1>0, <1>1, <1>2, <1>3, ComesFrom

(***************************************************************************)
(* The theorem.                                                            *)
(***************************************************************************)
LEMMA CrowdInit ==
  ASSUME OneOwnerConnection, FifoInit
  PROVE  CrowdInv
<1>1. Init /\ queue = <<>> /\ IInv
  BY InitKeeps DEF FifoInit
<1>2. \A x \in Tasks : task[x].pc = "idle" /\ ~Running(x) /\ ~Casts(x)
  BY <1>1 DEF Init, NoTask, Running, Casts, Casting
<1>3. QueueOK
  <2>1. queue \in Seq(Tasks) /\ DOMAIN queue = {}
    BY <1>1
  <2> QED  BY <1>2, <2>1 DEF QueueOK, Distinct, Waits
<1>4. ViewOK
  <2>1. ASSUME NEW s \in Sockets, Watches(s) PROVE view[s] = Roster(Home)
    <3>1. s \in Seated \cap OwnerSockets
      BY <1>1, <2>1, RoomAssumption DEF Watches, Member, Init
    <3>2. view = [u \in Sockets |->
                    IF u \in Seated \cap OwnerSockets THEN Roster(Home) ELSE Null]
      BY <1>1 DEF Init
    <3> QED  BY <3>1, <3>2
  <2> QED  BY <1>2, <2>1 DEF ViewOK
<1>5. Seats
  BY <1>1, RoomAssumption DEF Seats, Init, InfoOf, RidOf
<1>6. TasksFit /\ LossesRun /\ PipelineOK
  BY <1>2, CallsAreTasks DEF TasksFit, LossesRun, PipelineOK, At
<1>7. AbsentAreNew
  <2> SUFFICES ASSUME NEW o \in OwnerSockets, Absent(o)
               PROVE  ~Registered(o)
    BY <1>2 DEF AbsentAreNew
  <2>1. o \in Sockets /\ o \notin Seated
    BY <1>1, RoomAssumption DEF Absent, Member, Init
  <2> QED  BY <1>1, <2>1 DEF Registered, Init
<1> QED  BY <1>1, <1>3, <1>4, <1>5, <1>6, <1>7 DEF CrowdInv, CrowdOK

LEMMA CrowdStep ==
  ASSUME OneOwnerConnection, OneProcess, CrowdInv, [FifoNext]_fifoVars
  PROVE  CrowdInv'
<1>1. IInv /\ CrowdOK /\ PipelineOK /\ QueueOK /\ ViewOK /\ Seating
  BY CrowdIsSeated DEF CrowdInv
<1>2. IInv'
  <2>1. [Next]_vars
    BY DEF FifoNext, FifoArrive, FifoDrop, Serve, Next, fifoVars
  <2> QED  BY <1>1, <2>1, StepKeeps, StutterKeeps, CommandsAreTyped DEF Kept, IInv
<1>3. CASE UNCHANGED fifoVars
  <2>1. UNCHANGED <<roomMembers, roomReady, roomOwner, socketInfo, conn, rid, role,
                    task, view, queue>>
    BY <1>3 DEF fifoVars, vars, redisVars, sockVars
  <2>2. QueueOK' /\ PipelineOK'
    BY <1>1, <2>1 DEF QueueOK, PipelineOK, Waits, Distinct, Running, At
  <2>3. CrowdOK'
    <3>1. Seats' /\ LossesRun'
      BY <1>1, <2>1 DEF CrowdOK, Seats, LossesRun, Running
    <3>2. TasksFit'
      BY <1>1, <2>1, OthersFit DEF TasksFit
    <3>3. AbsentAreNew'
      BY <1>1, <2>1 DEF CrowdOK, AbsentAreNew, Absent, Undecided, Member, Registered
    <3> QED  BY <3>1, <3>2, <3>3 DEF CrowdOK
  <2>4. Seating'
    BY <1>2, <2>3, CrowdIsSeatedPrimed
  <2>5. Steady
    BY <2>1 DEF Steady, Watches, Member, Registered, Present, Doomed
  <2>6. ViewOK'
    <3> DEFINE M == {}
    <3>1. /\ M \in SUBSET Tasks /\ \A y \in Tasks \ M : task'[y] = task[y]
          /\ \A y \in M : ~Pending(y) /\ ~Casts(y) /\ ~Casts(y)'
          /\ \A y, z \in Tasks \ M : Running(z) /\ Behind(queue, y, z) => Behind(queue', y, z)
      BY <2>1
    <3> HIDE DEF M
    <3> QED  BY <1>1, <1>2, <2>1, <2>4, <2>5, <3>1, ViewStays
  <2> QED  BY <1>2, <2>2, <2>3, <2>6 DEF CrowdInv
<1>4. ASSUME NEW c \in Calls, FifoArrive(c) PROVE CrowdInv'
  <2>1. c \in Tasks /\ c \notin Sockets /\ Arrive(c) /\ queue' \in {queue, Append(queue, c)}
    BY <1>4, CallsAreTasks, RoomAssumption DEF FifoArrive
  <2>2. /\ OthersStay(c) /\ ~Running(c)
        /\ task'[c].pc \in {"joinToken", "joinConfig", "leaveInfo", "toggleInfo", "nickInfo",
                            "configOwner", "delOwner", "done"}
        /\ Running(c)' => Fits(task[c])'
    BY <1>1, <2>1, RequestStarts
  <2>3. UNCHANGED <<roomMembers, roomOwner, socketInfo, rid, role, conn>>
    BY <2>1 DEF Arrive, ReadsOnly, OnlyRedis, redisVars, sockVars
  <2>4. CrowdOK'
    BY <1>1, <2>1, <2>2, <2>3, StartKeepsCrowd
  <2>5. PipelineOK'
    BY <1>1, <2>1, <2>2, <2>3, StartKeepsPipeline
  <2>6. Seating'
    BY <1>2, <2>4, CrowdIsSeatedPrimed
  <2>7. QueueOK' /\ ViewOK'
    BY <1>1, <1>2, <1>4, <2>6, ArrivalQueues
  <2> QED  BY <1>2, <2>4, <2>5, <2>7 DEF CrowdInv
<1>5. ASSUME NEW s \in Sockets, FifoDrop(s) PROVE CrowdInv'
  <2>1. s \in Tasks /\ conn[s] /\ ~Running(s) /\ queue' = Append(queue, s)
    BY <1>1, <1>5, CallsAreTasks DEF FifoDrop, Drop, Seating
  <2>2. /\ task' = [task EXCEPT ![s] = Disconnection(s)]
        /\ conn' = [conn EXCEPT ![s] = FALSE]
        /\ UNCHANGED <<roomMembers, roomOwner, socketInfo, rid, role>>
    BY <1>5 DEF FifoDrop, Drop, redisVars
  <2>3. /\ task'[s] = Disconnection(s) /\ OthersStay(s)
        /\ ~conn'[s] /\ \A u \in Sockets : conn'[u] => conn[u]
    BY <1>1, <2>1, <2>2 DEF IInv, TasksOK, SocketsOK, OthersStay
  <2>4. task'[s].pc = "goneInfo" /\ Fits(task[s])'
    BY <2>3, DisconnectionFits DEF Disconnection, NoTask
  <2>5. CrowdOK'
    BY <1>1, <2>1, <2>2, <2>3, <2>4, StartKeepsCrowd
  <2>6. PipelineOK'
    BY <1>1, <2>1, <2>2, <2>3, <2>4, StartKeepsPipeline
  <2>7. Seating'
    BY <1>2, <2>5, CrowdIsSeatedPrimed
  <2>8. QueueOK' /\ ViewOK'
    BY <1>1, <1>2, <1>5, <2>7, LossQueues
  <2> QED  BY <1>2, <2>5, <2>6, <2>8 DEF CrowdInv
<1>6. ASSUME NEW x \in Tasks, Serve(x) PROVE CrowdInv'
  <2>1. Run(x)
    BY <1>6 DEF Serve
  <2>2. CrowdOK'
    BY <1>1, <2>1, RunKeepsCrowd
  <2>3. PipelineOK'
    BY <1>1, <1>6, ServeKeepsPipeline
  <2>4. Seating'
    BY <1>2, <2>2, CrowdIsSeatedPrimed
  <2>5. Outcome(x)
    BY <1>1, <1>2, <2>1, CrowdShows
  <2>6. QueueOK' /\ ViewOK'
    BY <1>1, <1>2, <1>6, <2>4, <2>5, ServeQueues, ServeKeepsView
  <2> QED  BY <1>2, <2>2, <2>3, <2>6 DEF CrowdInv
<1> QED  BY <1>3, <1>4, <1>5, <1>6 DEF FifoNext

\* Whatever requests overlap, of the owner's one connection and of the others:
\* when no handler runs, the list the owner on record was sent last is right.
THEOREM OwnerSeesTheCrowd ==
  ASSUME OneOwnerConnection, OneProcess
  PROVE  FifoSpec => []OwnerViewIsCurrent
<1>1. FifoInit => CrowdInv
  BY CrowdInit
<1>2. CrowdInv /\ [FifoNext]_fifoVars => CrowdInv'
  BY CrowdStep
<1>3. CrowdInv => OwnerViewIsCurrent
  <2> SUFFICES ASSUME CrowdInv, Quiescent, NEW r \in Rooms, NEW s \in Sockets, Presides(s, r)
               PROVE  view[s] = Roster(r)
    BY DEF OwnerViewIsCurrent
  <2>1. CrowdOK /\ ViewOK
    BY DEF CrowdInv
  <2>2. \A x \in Tasks : ~Pending(x) /\ ~Casts(x) /\ ~Running(x)
    BY NotRunning DEF Quiescent
  <2>3. conn[s] /\ Registered(s) /\ socketInfo[s].roomId = r /\ socketInfo[s].role = "owner"
        /\ roomOwner[r] = rid[s]
    BY DEF Presides, Owns, Registered
  <2>4. socketInfo[s] = InfoOf(s) /\ rid[s] \in {RidOf(s), s} /\ roomOwner[Home] \in {Null, Home}
    BY <2>1, <2>3 DEF CrowdOK, Seats, Registered
  <2>5. r = Home /\ s \in OwnerSockets
    BY <2>3, <2>4 DEF InfoOf, SeatedRole
  <2>6. roomOwner[Home] = Home
    BY <2>3, <2>4, <2>5, RoomAssumption DEF RidOf
  <2>7. ~Undecided /\ ~Doomed
    BY <2>2, CallsAreTasks DEF Undecided, Doomed, Running
  <2>8. Member(s)
    BY <2>1, <2>3, <2>5, <2>6, <2>7 DEF CrowdOK, AbsentAreNew, Absent
  <2>9. Watches(s)
    BY <2>3, <2>5, <2>6, <2>7, <2>8 DEF Watches
  <2> QED  BY <2>1, <2>2, <2>5, <2>9 DEF ViewOK
<1> QED  BY <1>1, <1>2, <1>3, PTL DEF FifoSpec
=============================================================================
