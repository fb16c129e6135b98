--------------------------- MODULE SpinFifoProofs ---------------------------
(***************************************************************************)
(* Theorems about SpinSingleInstance, for every set of calls and rooms and *)
(* any number of faults and foreign commands: one process is a restriction *)
(* of Spin, so that all of Spin's theorems hold in it, and there no        *)
(* request is spun twice.                                                  *)
(***************************************************************************)
EXTENDS SpinSingleInstance, SpinProofs, SequenceTheorems

(***************************************************************************)
(* Queues without repetitions: what serving the head does to the others.   *)
(***************************************************************************)
Distinct(q) == \A i, j \in DOMAIN q : q[i] = q[j] => i = j

Waits(q, t) == \E i \in DOMAIN q : q[i] = t

\* u is behind t in q.
Behind(q, t, u) == \E i, j \in DOMAIN q : i < j /\ q[i] = t /\ q[j] = u

LEMMA HeadIsFirst ==
  ASSUME NEW q \in Seq(Spins), q # <<>>, Distinct(q)
  PROVE  /\ Head(q) \in Spins /\ Waits(q, Head(q))
         /\ \A u : ~Behind(q, u, Head(q))
         /\ \A u : Waits(q, u) /\ u # Head(q) => Behind(q, Head(q), u)
<1>1. Len(q) \in Nat \ {0} /\ DOMAIN q = 1..Len(q)
  BY EmptySeq, LenProperties
<1>2. Head(q) = q[1] /\ Head(q) \in Spins /\ 1 \in DOMAIN q
  BY <1>1, HeadTailProperties
<1> QED  BY <1>1, <1>2 DEF Distinct, Waits, Behind

LEMMA TailOfQueue ==
  ASSUME NEW q \in Seq(Spins), q # <<>>, Distinct(q)
  PROVE  /\ Tail(q) \in Seq(Spins) /\ Distinct(Tail(q))
         /\ \A u : Waits(Tail(q), u) <=> Waits(q, u) /\ u # Head(q)
         /\ \A t, u : t # Head(q) => (Behind(Tail(q), t, u) <=> Behind(q, t, u))
<1>1. Len(q) \in Nat \ {0} /\ DOMAIN q = 1..Len(q) /\ Head(q) = q[1]
  BY EmptySeq, LenProperties
<1>2. /\ Tail(q) \in Seq(Spins) /\ DOMAIN Tail(q) = 1..(Len(q) - 1)
      /\ \A i \in 1..(Len(q) - 1) : Tail(q)[i] = q[i + 1]
  BY HeadTailProperties, LenProperties
<1>3. Distinct(Tail(q))
  BY <1>1, <1>2 DEF Distinct
<1>4. ASSUME NEW u PROVE Waits(Tail(q), u) <=> Waits(q, u) /\ u # Head(q)
  <2>1. ASSUME Waits(Tail(q), u) PROVE Waits(q, u) /\ u # Head(q)
    <3>1. PICK i \in 1..(Len(q) - 1) : q[i + 1] = u
      BY <1>2, <2>1 DEF Waits
    <3> QED  BY <1>1, <3>1 DEF Waits, Distinct
  <2>2. ASSUME Waits(q, u), u # Head(q) PROVE Waits(Tail(q), u)
    <3>1. PICK i \in 1..Len(q) : q[i] = u /\ i # 1
      BY <1>1, <2>2 DEF Waits
    <3>2. i - 1 \in 1..(Len(q) - 1) /\ Tail(q)[i - 1] = u
      BY <1>1, <1>2, <3>1
    <3> QED  BY <1>2, <3>2 DEF Waits
  <2> QED  BY <2>1, <2>2
<1>5. ASSUME NEW t, NEW u, t # Head(q)
      PROVE  Behind(Tail(q), t, u) <=> Behind(q, t, u)
  <2>1. ASSUME Behind(Tail(q), t, u) PROVE Behind(q, t, u)
    <3>1. PICK i, j \in 1..(Len(q) - 1) : i < j /\ q[i + 1] = t /\ q[j + 1] = u
      BY <1>2, <2>1 DEF Behind
    <3>2. i + 1 \in DOMAIN q /\ j + 1 \in DOMAIN q /\ i + 1 < j + 1
      BY <1>1, <3>1
    <3> QED  BY <3>1, <3>2 DEF Behind
  <2>2. ASSUME Behind(q, t, u) PROVE Behind(Tail(q), t, u)
    <3>1. PICK i, j \in 1..Len(q) : i < j /\ q[i] = t /\ q[j] = u /\ i # 1
      BY <1>1, <1>5, <2>2 DEF Behind
    <3>2. /\ i - 1 \in 1..(Len(q) - 1) /\ Tail(q)[i - 1] = t
          /\ j - 1 \in 1..(Len(q) - 1) /\ Tail(q)[j - 1] = u
          /\ i - 1 < j - 1
      BY <1>1, <1>2, <3>1
    <3> QED  BY <1>2, <3>2 DEF Behind
  <2> QED  BY <2>1, <2>2
<1> QED  BY <1>2, <1>3, <1>4, <1>5

LEMMA JoinedQueue ==
  ASSUME NEW q \in Seq(Spins), Distinct(q), NEW t \in Spins, ~Waits(q, t)
  PROVE  /\ Append(q, t) \in Seq(Spins) /\ Distinct(Append(q, t))
         /\ \A u : Waits(Append(q, t), u) <=> Waits(q, u) \/ u = t
         /\ \A u : Behind(Append(q, t), u, t) <=> Waits(q, u)
         /\ \A u, v : v # t => (Behind(Append(q, t), u, v) <=> Behind(q, u, v))
<1>1. Len(q) \in Nat /\ DOMAIN q = 1..Len(q)
  BY LenProperties
<1>2. /\ Append(q, t) \in Seq(Spins) /\ DOMAIN Append(q, t) = 1..(Len(q) + 1)
      /\ \A i \in 1..Len(q) : Append(q, t)[i] = q[i]
      /\ Append(q, t)[Len(q) + 1] = t
  BY AppendProperties, LenProperties
<1> HIDE DEF Waits, Behind
<1>3. Distinct(Append(q, t))
  BY <1>1, <1>2 DEF Distinct, Waits
<1>4. \A u : Waits(Append(q, t), u) <=> Waits(q, u) \/ u = t
  BY <1>1, <1>2 DEF Waits
<1>5. ASSUME NEW u PROVE Behind(Append(q, t), u, t) <=> Waits(q, u)
  BY <1>1, <1>2 DEF Waits, Behind
<1>6. ASSUME NEW u, NEW v, v # t
      PROVE  Behind(Append(q, t), u, v) <=> Behind(q, u, v)
  BY <1>1, <1>2, <1>6 DEF Waits, Behind
<1> QED  BY <1>2, <1>3, <1>4, <1>5, <1>6
-----------------------------------------------------------------------------
(***************************************************************************)
(* One process is a restriction of Spin.                                   *)
(***************************************************************************)
\* Crash is no step of a process that keeps serving.
Served(t) == Step(t) \/ CommandFails(t) \/ ReplyLost(t) \/ LoseInfo(t)

LEMMA WhoIsServed ==
  ASSUME FifoTypeOK, Serve
  PROVE  \E t \in Spins :
           /\ queue # <<>> /\ t = Head(queue)
           /\ Served(t) /\ Answered(t) /\ UNCHANGED <<req, overrun>>
           /\ Next
<1> DEFINE t == Head(queue)
<1>1. queue # <<>> /\ t \in Spins
  BY HeadTailProperties DEF Serve, FifoTypeOK
<1>2. \/ Run(t)
      \/ /\ CommandFails(t) \/ ReplyLost(t) \/ LoseInfo(t)
         /\ faults < MaxFaults /\ faults' = faults + 1
         /\ UNCHANGED <<req, others, overrun>> /\ Observe
  BY DEF Serve
<1>3. Answered(t)
  BY DEF Serve
<1> HIDE DEF t
<1>4. Next
  BY <1>1, <1>2 DEF Next, Fault
<1>5. Served(t) /\ UNCHANGED <<req, overrun>>
  BY <1>2 DEF Served, Run
<1> QED  BY <1>1, <1>3, <1>4, <1>5 DEF t

LEMMA FifoStepIsStep == FifoTypeOK /\ [FifoNext]_fifoVars => [Next]_vars
<1> SUFFICES ASSUME FifoTypeOK, [FifoNext]_fifoVars PROVE [Next]_vars
  OBVIOUS
<1>1. ASSUME NEW t \in Spins, Arrive(t) PROVE Next
  BY <1>1 DEF Arrive, Next
<1>2. CASE UNCHANGED fifoVars
  BY <1>2 DEF fifoVars
<1>3. CASE Serve
  BY <1>3, WhoIsServed
<1>4. CASE Elsewhere
  BY <1>4 DEF Elsewhere, Next
<1> QED  BY <1>1, <1>2, <1>3, <1>4 DEF FifoNext

\* A call that was submitted is never back at its start.
LEMMA CallsDoNotRestart ==
  ASSUME TypeOK, NEW t \in Spins, Served(t)
  PROVE  pc'[t] # "idle"
<1> SUFFICES ASSUME pc'[t] = "idle" PROVE FALSE
  OBVIOUS
<1>0. pc \in [Spins -> Locations]
  BY DEF TypeOK
<1>1. pc[t] \in {"idle", "owner", "idem"}
  BY Whereto DEF Served, Fault, Asking
<1>2. Submit(t) \/ CheckOwner(t) \/ CheckIdempotency(t) \/ CommandFails(t)
  BY <1>1
     DEF Served, Step, AcquireLock, ReadMembers, ReadReady, ReadConfig, ReadInfo,
         RecordAndAnnounce, TouchActivity, SaveState, ReleaseLock, ReplyLost,
         LoseInfo
<1> QED
  BY <1>0, <1>1, <1>2
     DEF Submit, CheckOwner, CheckIdempotency, CommandFails, Rejected, Goto,
         AnswerAt, TryBlock

LEMMA Arrivals ==
  ASSUME TypeOK, NEW t \in Spins, Arrive(t)
  PROVE  /\ pc[t] = "idle" /\ pc' = [pc EXCEPT ![t] = "owner"]
         /\ queue' = Append(queue, t)
         /\ UNCHANGED <<announced, req, overrun>>
<1>1. pc[t] = "idle" /\ Step(t) /\ queue' = Append(queue, t) /\ UNCHANGED <<req, overrun>>
  BY DEF Arrive, Run
<1>2. Submit(t)
  BY <1>1
     DEF Step, CheckOwner, CheckIdempotency, AcquireLock, ReadMembers, ReadReady,
         ReadConfig, ReadInfo, RecordAndAnnounce, TouchActivity, SaveState,
         ReleaseLock
<1> QED  BY <1>1, <1>2 DEF Submit, Goto, NothingAnnounced

LEMMA ElsewhereStays == Elsewhere => UNCHANGED <<spinVars, queue>>
  BY DEF Elsewhere, spinVars

\* How the queue changes when its head, t, has been answered.
LEMMA QueueMoves ==
  ASSUME FifoTypeOK, queue # <<>>, NEW t \in Spins, t = Head(queue), Answered(t)
  PROVE  /\ queue' \in Seq(Spins) /\ Distinct(queue')
         /\ \A u \in Spins : u # t => (Waits(queue', u) <=> Waits(queue, u))
         /\ Waits(queue', t) <=> SentTogether(t) \/ pc'[t] # "done"
         /\ \A u, v \in Spins : u # t /\ v # t =>
              (Behind(queue', u, v) <=> Behind(queue, u, v))
<1>1. queue \in Seq(Spins) /\ Distinct(queue) /\ Waits(queue, t)
  BY HeadIsFirst DEF FifoTypeOK, Distinct
<1>2. /\ Tail(queue) \in Seq(Spins) /\ Distinct(Tail(queue))
      /\ \A u : Waits(Tail(queue), u) <=> Waits(queue, u) /\ u # t
      /\ \A u, v : u # t => (Behind(Tail(queue), u, v) <=> Behind(queue, u, v))
  BY <1>1, TailOfQueue
<1>3. CASE SentTogether(t)
  BY <1>1, <1>3 DEF Answered
<1>4. CASE ~SentTogether(t) /\ pc'[t] = "done"
  BY <1>2, <1>4 DEF Answered
<1>5. CASE ~SentTogether(t) /\ pc'[t] # "done"
  <2>1. queue' = Append(Tail(queue), t)
    BY <1>5 DEF Answered
  <2>2. /\ Append(Tail(queue), t) \in Seq(Spins) /\ Distinct(Append(Tail(queue), t))
        /\ \A u : Waits(Append(Tail(queue), t), u) <=> Waits(Tail(queue), u) \/ u = t
        /\ \A u, v : v # t =>
             (Behind(Append(Tail(queue), t), u, v) <=> Behind(Tail(queue), u, v))
    BY <1>2, JoinedQueue
  <2> QED  BY <1>2, <1>5, <2>1, <2>2
<1> QED  BY <1>3, <1>4, <1>5

LEMMA FifoTypeStep == TypeOK /\ FifoTypeOK /\ [FifoNext]_fifoVars => FifoTypeOK'
<1> SUFFICES ASSUME TypeOK, FifoTypeOK, [FifoNext]_fifoVars PROVE FifoTypeOK'
  OBVIOUS
<1>0. /\ pc \in [Spins -> Locations]
      /\ queue \in Seq(Spins) /\ Distinct(queue)
      /\ \A t \in Spins : (pc[t] \notin {"idle", "done"}) <=> Waits(queue, t)
  BY DEF TypeOK, FifoTypeOK, Distinct, Waits
<1> SUFFICES /\ queue' \in Seq(Spins) /\ Distinct(queue')
             /\ \A u \in Spins : (pc'[u] \notin {"idle", "done"}) <=> Waits(queue', u)
  BY DEF FifoTypeOK, Distinct, Waits
<1>1. ASSUME NEW t \in Spins, Arrive(t)
      PROVE  /\ queue' \in Seq(Spins) /\ Distinct(queue')
             /\ \A u \in Spins : (pc'[u] \notin {"idle", "done"}) <=> Waits(queue', u)
  <2>1. ~Waits(queue, t) /\ queue' = Append(queue, t) /\ pc' = [pc EXCEPT ![t] = "owner"]
    BY <1>0, <1>1, Arrivals
  <2> QED  BY <1>0, <2>1, JoinedQueue
<1>2. CASE Serve
  <2>1. PICK t \in Spins : /\ queue # <<>> /\ t = Head(queue)
                           /\ Served(t) /\ Answered(t)
    BY <1>2, WhoIsServed
  <2>2. \A u \in Spins : u # t => pc'[u] = pc[u]
    BY <2>1, OneCallMoves DEF Served, Fault
  <2>3. pc'[t] # "idle"
    BY <2>1, CallsDoNotRestart
  <2>4. SentTogether(t) => pc'[t] # "done"
    BY DEF SentTogether
  <2> QED  BY <1>0, <2>1, <2>2, <2>3, <2>4, QueueMoves
<1>3. CASE Elsewhere \/ UNCHANGED fifoVars
  <2>1. pc' = pc /\ queue' = queue
    BY <1>3, ElsewhereStays DEF fifoVars, vars, spinVars
  <2> QED  BY <1>0, <2>1
<1> QED  BY <1>1, <1>2, <1>3 DEF FifoNext

\* The commands of one connection are a queue of the calls that await a reply,
\* each once, and it never loses one of them.
THEOREM FifoTypeCorrect == FifoSpec => []FifoTypeOK
<1>1. FifoInit => TypeOK /\ FifoTypeOK
  <2>1. FifoInit => TypeOK
    BY NoViewIsTyped, BoundAssumption
       DEF FifoInit, Init, InitRedis, TypeOK, RedisTypeOK, Locations, Answers
  <2>2. <<>> \in Seq(Spins) /\ DOMAIN <<>> = {}
    OBVIOUS
  <2>3. FifoInit => FifoTypeOK
    BY <2>2 DEF FifoInit, Init, FifoTypeOK
  <2> QED  BY <2>1, <2>3
<1>2. TypeOK /\ FifoTypeOK /\ [FifoNext]_fifoVars => TypeOK' /\ FifoTypeOK'
  BY FifoTypeStep, FifoStepIsStep, TypeStep
<1> QED  BY <1>1, <1>2, PTL DEF FifoSpec

\* What holds of Spin in every interleaving holds in one process: its order of
\* commands is one of those interleavings.
THEOREM OneProcessIsASpin == FifoSpec => Spec
<1>1. FifoInit => Init
  BY DEF FifoInit
<1> QED  BY <1>1, FifoStepIsStep, FifoTypeCorrect, PTL DEF FifoSpec, Spec
-----------------------------------------------------------------------------
(***************************************************************************)
(* No request is spun twice.  checkIdempotency comes before                *)
(* acquireSpinLock, so a second call of a request may be past the check    *)
(* when the first announces.  It then waits for the reply to its SET NX,   *)
(* and the first holds the lock until two commands later: the SET NX was   *)
(* sent before the first of those two (OthersComeTooLate).                 *)
(***************************************************************************)
OthersComeTooLate ==
  ~RequestsExpire /\ overrun = {} =>
    \A t, u \in Spins : t # u /\ SameRequest(t, u) /\ announced[t] # Null =>
      /\ announced[u] = Null
      /\ ~Critical(u)
      /\ pc[u] = "lock" => pc[t] = "activity" /\ Behind(queue, u, t)

\* The only way to the lock is the check, with no record of the request.
LEMMA LetThrough ==
  ASSUME TypeOK, NEW t \in Spins, Served(t), pc'[t] = "lock"
  PROVE  idem[KeyOf(t)] = Null
<1>0. pc \in [Spins -> Locations]
  BY DEF TypeOK
<1>1. pc[t] \in {"idle", "owner", "idem"}
  BY Whereto DEF Served, Fault, Asking
<1>2. Submit(t) \/ CheckOwner(t) \/ CheckIdempotency(t) \/ CommandFails(t)
  BY <1>1
     DEF Served, Step, AcquireLock, ReadMembers, ReadReady, ReadConfig, ReadInfo,
         RecordAndAnnounce, TouchActivity, SaveState, ReleaseLock, ReplyLost,
         LoseInfo
<1> QED
  BY <1>0, <1>1, <1>2
     DEF Submit, CheckOwner, CheckIdempotency, CommandFails, Rejected, Goto,
         AnswerAt, TryBlock, KeyOf

\* A call is let in only by taking a free lock.
LEMMA LetIn ==
  ASSUME TypeOK, NEW t \in Spins, Served(t), Critical(t)', ~Critical(t)
  PROVE  pc[t] = "lock" /\ spinLock[RoomOf(t)] = Null
<1>1. AcquireLock(t)
  BY StepStaysOut DEF Served, Fault
<1>2. pc[t] = "lock" /\ (LockIsFree(RoomOf(t)) \/ pc'[t] = "done")
  BY <1>1 DEF AcquireLock, AnswerAt, TypeOK
<1> QED  BY <1>2 DEF Critical, TryBlock, LockIsFree

\* After the announcement of t, the calls of the same request stay too late.
LEMMA StillTooLate ==
  ASSUME TypeOK, FifoTypeOK, LockHeld, Recorded, FifoNext,
         ~RequestsExpire, overrun = {}, NEW t \in Spins, NEW u \in Spins, t # u,
         SameRequest(t, u), announced[t] # Null, announced[u] = Null, ~Critical(u),
         pc[u] = "lock" => pc[t] = "activity" /\ Behind(queue, u, t)
  PROVE  /\ announced'[u] = Null
         /\ ~Critical(u)'
         /\ pc'[u] = "lock" => pc'[t] = "activity" /\ Behind(queue', u, t)
<1>0. /\ pc \in [Spins -> Locations]
      /\ queue \in Seq(Spins) /\ Distinct(queue)
      /\ \A v \in Spins : (pc[v] \notin {"idle", "done"}) <=> Waits(queue, v)
  BY DEF TypeOK, FifoTypeOK, Distinct, Waits
<1>1. announced'[u] = Null
  <2>1. ~RecordAndAnnounce(u)
    BY DEF RecordAndAnnounce, Critical, TryBlock
  <2> QED  BY <2>1, WhoAnnounces, FifoStepIsStep DEF Announces
<1>2. CASE pc'[u] = pc[u] /\ pc[u] # "lock"
  BY <1>1, <1>2 DEF Critical
<1>3. CASE Elsewhere
  BY <1>1, <1>3, ElsewhereStays DEF spinVars, Critical
<1>4. ASSUME NEW v \in Spins, Arrive(v)
      PROVE  ~Critical(u)' /\ (pc'[u] = "lock" => pc'[t] = "activity" /\ Behind(queue', u, t))
  <2>1. /\ pc[v] = "idle" /\ pc' = [pc EXCEPT ![v] = "owner"]
        /\ queue' = Append(queue, v)
    BY <1>4, Arrivals
  <2>2. ~Waits(queue, v)
    BY <1>0, <2>1
  <2>3. CASE u = v
    BY <1>0, <2>1, <2>3 DEF Critical, TryBlock
  <2>4. CASE u # v
    <3>1. pc'[u] = pc[u] /\ ~Critical(u)'
      BY <1>0, <2>1, <2>4 DEF Critical
    <3>2. ASSUME pc[u] = "lock" PROVE pc'[t] = "activity" /\ Behind(queue', u, t)
      <4>1. t # v
        BY <2>1, <3>2
      <4> QED  BY <1>0, <2>1, <2>2, <3>2, <4>1, JoinedQueue
    <3> QED  BY <3>1, <3>2
  <2> QED  BY <2>3, <2>4
<1>5. CASE Serve
  <2>1. PICK v \in Spins : /\ queue # <<>> /\ v = Head(queue)
                           /\ Served(v) /\ Answered(v)
    BY <1>5, WhoIsServed
  <2>2. \A w \in Spins : w # v => pc'[w] = pc[w]
    BY <2>1, OneCallMoves DEF Served, Fault
  <2>3. CASE u = v
    <3>1. ~Critical(u)'
      <4>1. SUFFICES ASSUME pc[u] = "lock" PROVE spinLock[RoomOf(u)] # Null
        BY <2>1, <2>3, LetIn
      <4>2. Critical(t)
        BY <4>1 DEF Critical, TryBlock
      <4> QED  BY <4>2, NullAssumption DEF LockHeld, SameRequest
    <3>2. pc'[u] # "lock"
      <4>1. idem[KeyOf(u)] # Null
        BY DEF Recorded, SameRequest, KeyOf
      <4> QED  BY <2>1, <2>3, <4>1, LetThrough
    <3> QED  BY <3>1, <3>2, <1>1
  <2>4. CASE u # v /\ pc[u] = "lock"
    <3>1. t # v
      BY <1>0, <2>1, <2>4, HeadIsFirst
    <3> QED  BY <1>1, <2>1, <2>2, <2>4, <3>1, QueueMoves DEF Critical
  <2> QED  BY <1>2, <2>2, <2>3, <2>4
<1> QED  BY <1>1, <1>3, <1>4, <1>5 DEF FifoNext

\* At the announcement of t they are too late.
LEMMA NowTooLate ==
  ASSUME TypeOK, FifoTypeOK, MutualExclusion, OthersComeTooLate, FifoNext,
         ~RequestsExpire, overrun = {}, NEW t \in Spins, NEW u \in Spins, t # u,
         SameRequest(t, u), announced[t] = Null, announced'[t] # Null
  PROVE  /\ announced'[u] = Null
         /\ ~Critical(u)'
         /\ pc'[u] = "lock" => pc'[t] = "activity" /\ Behind(queue', u, t)
<1>0. /\ pc \in [Spins -> Locations] /\ announced \in [Spins -> Announcements \cup {Null}]
      /\ queue \in Seq(Spins) /\ Distinct(queue)
      /\ \A v \in Spins : (pc[v] \notin {"idle", "done"}) <=> Waits(queue, v)
  BY DEF TypeOK, FifoTypeOK, Distinct, Waits
<1>1. RecordAndAnnounce(t)
  BY WhoAnnounces, FifoStepIsStep DEF Announces
<1>2. pc[t] = "setIdem" /\ pc'[t] = "activity" /\ Critical(t)
  BY <1>0, <1>1 DEF RecordAndAnnounce, Goto, Critical, TryBlock
<1>3. announced'[u] = announced[u] /\ pc'[u] = pc[u]
  BY <1>0, <1>1 DEF RecordAndAnnounce, Goto
<1>4. announced[u] = Null
  BY <1>2 DEF OthersComeTooLate, SameRequest
<1>5. ~Critical(u)'
  BY <1>2, <1>3 DEF MutualExclusion, SameRequest, Critical
<1>6. ASSUME pc[u] = "lock" PROVE Behind(queue', u, t)
  <2>1. ~Elsewhere
    BY <1>2, ElsewhereStays DEF spinVars
  <2>2. \A v \in Spins : ~Arrive(v)
    BY <1>0, <1>2, Arrivals
  <2>3. PICK v \in Spins : /\ queue # <<>> /\ v = Head(queue)
                           /\ Served(v) /\ Answered(v)
    BY <2>1, <2>2, WhoIsServed DEF FifoNext
  <2>4. v = t
    BY <1>2, <2>3, OneCallMoves DEF Served, Fault
  <2>5. queue' = Append(Tail(queue), t)
    BY <1>2, <2>3, <2>4 DEF Answered, SentTogether
  <2>6. Waits(Tail(queue), u)
    BY <1>0, <1>6, <2>3, <2>4, TailOfQueue
  <2>7. Tail(queue) \in Seq(Spins) /\ Distinct(Tail(queue)) /\ ~Waits(Tail(queue), t)
    BY <1>0, <2>3, <2>4, TailOfQueue
  <2> QED  BY <2>5, <2>6, <2>7, JoinedQueue
<1> QED  BY <1>2, <1>3, <1>4, <1>5, <1>6

LEMMA TooLateStep ==
  TypeOK /\ FifoTypeOK /\ LockHeld /\ MutualExclusion /\ Recorded /\ OthersComeTooLate
    /\ [FifoNext]_fifoVars => OthersComeTooLate'
<1> SUFFICES ASSUME TypeOK, FifoTypeOK, LockHeld, MutualExclusion, Recorded,
                    OthersComeTooLate, [FifoNext]_fifoVars, ~RequestsExpire, overrun' = {},
                    NEW t \in Spins, NEW u \in Spins, t # u, SameRequest(t, u)',
                    announced'[t] # Null
             PROVE  /\ announced'[u] = Null
                    /\ ~Critical(u)'
                    /\ pc'[u] = "lock" => pc'[t] = "activity" /\ Behind(queue', u, t)
  BY DEF OthersComeTooLate
<1>1. CASE UNCHANGED fifoVars
  BY <1>1
     DEF fifoVars, vars, spinVars, historyVars, OthersComeTooLate, SameRequest,
         RoomOf, Critical
<1>2. CASE FifoNext
  <2>1. req' = req /\ overrun \subseteq overrun'
    <3>1. CASE Elsewhere
      BY <3>1 DEF Elsewhere, spinVars, Other, Expire, LockExpires, RequestForgotten
    <3>2. CASE Serve
      BY <3>2, WhoIsServed
    <3>3. ASSUME NEW v \in Spins, Arrive(v) PROVE req' = req /\ overrun' = overrun
      BY <3>3, Arrivals
    <3> QED  BY <1>2, <3>1, <3>2, <3>3 DEF FifoNext
  <2>2. overrun = {} /\ SameRequest(t, u)
    BY <2>1 DEF SameRequest, RoomOf
  <2>3. CASE announced[t] # Null
    BY <1>2, <2>2, <2>3, StillTooLate DEF OthersComeTooLate
  <2>4. CASE announced[t] = Null
    BY <1>2, <2>2, <2>4, NowTooLate
  <2> QED  BY <2>3, <2>4
<1> QED  BY <1>1, <1>2

\* One process announces a request at most once while its key and the locks
\* live, whatever fails and whatever other handlers do: the order of the
\* connection closes the window between checkIdempotency and acquireSpinLock.
THEOREM OneProcessSpinsOnce == FifoSpec => []NoRequestSpunTwiceInOneProcess
<1>1. FifoInit => Recorded /\ OthersComeTooLate
  BY DEF FifoInit, Init, Recorded, OthersComeTooLate
<1>2. OthersComeTooLate => NoRequestSpunTwiceInOneProcess
  BY DEF OthersComeTooLate, NoRequestSpunTwiceInOneProcess, NoRequestSpunTwice
<1>3. TypeOK /\ FifoTypeOK /\ LockHeld /\ MutualExclusion /\ Recorded
        /\ OthersComeTooLate /\ [FifoNext]_fifoVars => Recorded' /\ OthersComeTooLate'
  BY RecordedStep, FifoStepIsStep, TooLateStep
<1> QED
  BY <1>1, <1>2, <1>3, OneProcessIsASpin, FifoTypeCorrect, TypeCorrect, LockIsHeld,
     SpinsExclude, PTL DEF FifoSpec
=============================================================================
