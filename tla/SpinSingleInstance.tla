------------------------- MODULE SpinSingleInstance -------------------------
(***************************************************************************)
(* Spin in a deployment of one server process.                             *)
(*                                                                         *)
(* A process has one ioredis connection for its commands                   *)
(* (redis.service.ts, onModuleInit).  Commands are executed in the order   *)
(* they are sent and the replies arrive in that order, so the calls that   *)
(* await a reply form a queue: the head's command is executed, its         *)
(* continuation runs and sends the call's next command, to the back of the *)
(* queue.  The commands of the Promise.all, and those of the pipeline of   *)
(* getSocketInfoBatch, are sent at one go and stay together.               *)
(***************************************************************************)
EXTENDS Spin, Sequences

VARIABLE queue  \* the calls that await a reply, in the order they sent

fifoVars == <<vars, queue>>

FifoTypeOK ==
  /\ queue \in Seq(Spins)
  /\ \A i, j \in DOMAIN queue : queue[i] = queue[j] => i = j
  /\ \A t \in Spins :
       (pc[t] \notin {"idle", "done"}) = (\E i \in DOMAIN queue : queue[i] = t)

FifoInit == Init /\ queue = <<>>

SentTogether(t) ==
  pc'[t] \in {"ready", "config"} \/ (pc[t] = "info" /\ pc'[t] = "info")

\* The next command overtakes the others, and a call that ends stays queued.
AnsweredOutOfQueue(t) == queue' = queue

\* The head's command has been answered.
Answered(t) ==
  queue' = IF SentTogether(t) THEN queue
           ELSE IF pc'[t] = "done" THEN Tail(queue)
           ELSE Append(Tail(queue), t)

Arrive(t) ==
  /\ pc[t] = "idle"
  /\ Run(t)
  /\ queue' = Append(queue, t)

Serve ==
  /\ queue # <<>>
  /\ LET t == Head(queue)
     IN  /\ \/ Run(t)
            \/ /\ CommandFails(t) \/ ReplyLost(t) \/ LoseInfo(t)
               /\ faults < MaxFaults /\ faults' = faults + 1
               /\ UNCHANGED <<req, others, overrun>> /\ Observe
         /\ Answered(t)

\* Commands of other handlers come in between; deleteRoom is left out: a spin
\* of a room that is being deleted is not a request spun again.
Elsewhere ==
  \/ /\ Other
     /\ others < MaxOthers /\ others' = others + 1
     /\ UNCHANGED <<spinVars, faults, latest, queue>> /\ Observe
  \/ /\ Expire
     /\ UNCHANGED <<spinVars, others, faults, latest, queue>> /\ Observe

FifoNext == (\E t \in Spins : Arrive(t)) \/ Serve \/ Elsewhere

FifoSpec == FifoInit /\ [][FifoNext]_fifoVars
-----------------------------------------------------------------------------
(***************************************************************************)
(* Properties.                                                             *)
(***************************************************************************)
\* In one process, with a lock that is not overrun and a request that is not
\* forgotten, a request is announced at most once, even though checkIdempotency
\* comes before acquireSpinLock: a second call that passed the check asks for the
\* lock one round later, when the first still holds it.
NoRequestSpunTwiceInOneProcess ==
  ~RequestsExpire /\ overrun = {} => NoRequestSpunTwice
=============================================================================
