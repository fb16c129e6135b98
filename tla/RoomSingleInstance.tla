------------------------ MODULE RoomSingleInstance ------------------------
(***************************************************************************)
(* RoomService in one server process.  All handlers share the one ioredis  *)
(* connection of RedisService (src/src/common/redis/redis.service.ts), so  *)
(* Redis executes their commands in the order they were sent, the commands *)
(* of a pipeline one after the other, and the handlers go on in the order  *)
(* of the replies.                                                         *)
(***************************************************************************)
EXTENDS RoomService

VARIABLE queue  \* the tasks whose command is sent and not yet answered

fifoVars == <<vars, queue>>

FifoInit == Init /\ queue = <<>>

\* A reply that is still to come from the pipeline x has sent: x stays in front.
InPipeline(x) ==
  /\ task[x].pc \in {"activeInfo", "castInfo", "delRoom"}
  /\ task'[x].pc = task[x].pc

Starts(x) == ~Running(x) /\ Running(x)'

\* The disconnect handler that a step of another task starts; it sends its
\* first command before the other task goes on.
Started ==
  IF \E s \in Sockets : Starts(s) THEN <<CHOOSE s \in Sockets : Starts(s)>> ELSE <<>>

FifoArrive(c) ==
  /\ Arrive(c)
  /\ queue' = IF Running(c)' THEN Append(queue, c) ELSE queue

FifoDrop(s) == Drop(s) /\ queue' = Append(queue, s)

\* Redis answers the oldest command, and the task goes on to its next one.
Serve(x) ==
  /\ queue # <<>> /\ x = Head(queue)
  /\ Run(x)
  /\ queue' = IF InPipeline(x) THEN queue
              ELSE Tail(queue) \o Started \o (IF Running(x)' THEN <<x>> ELSE <<>>)

FifoNext ==
  \/ \E c \in Calls : FifoArrive(c)
  \/ \E s \in Sockets : FifoDrop(s)
  \/ \E x \in Tasks : Serve(x)

FifoSpec == FifoInit /\ [][FifoNext]_fifoVars

\* Redis answers, and the event loop runs the continuation.
FairFifoSpec == FifoSpec /\ WF_fifoVars(\E x \in Tasks : Serve(x))
-----------------------------------------------------------------------------
\* The screen of a connected owner who is on record catches up with whatever
\* changes in the room: joins, departures, lost connections and ready flags
\* (broadcastParticipantsToOwner).
OwnerCatchesUp ==
  \A r \in Rooms : \A s \in Sockets :
    (Presides(s, r) /\ view[s] # Roster(r)) ~> (Presides(s, r) => view[s] = Roster(r))
===========================================================================
