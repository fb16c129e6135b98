---------------------------- MODULE WsThrottler ----------------------------
(***************************************************************************)
(* WsThrottlerGuard (src/src/common/guards/ws-throttler.guard.ts): the     *)
(* sliding window of accepted events that the gateway keeps per socket, in *)
(* the memory of its process.  canActivate is synchronous: one action.     *)
(*                                                                         *)
(* Time passes in ticks.  A timestamp is represented by its age, which     *)
(* stops growing at Window: the code only asks whether it is younger.      *)
(***************************************************************************)
EXTENDS Naturals, Sequences

CONSTANTS
  Clients,  \* socket ids
  Limit,    \* this.limit, 30 events
  Window,   \* ticks in this.ttl, 10 s
  Second    \* ticks in a second

ASSUME ThrottlerAssumption ==
  /\ Limit \in Nat \ {0} /\ Window \in Nat \ {0} /\ Second \in Nat \ {0}

VARIABLES
  requestCounts,  \* the ages in the Map, oldest first; <<>> for no entry
  connected,      \* is the socket connected?
  served,         \* history: the ages of the last Limit + 1 events let through,
                  \* the latest first
  promised        \* history: ticks until the retryAfter told last is over

vars == <<requestCounts, connected, served, promised>>

None == Window + Second + 1

TypeOK ==
  /\ requestCounts \in [Clients -> Seq(0..Window)]
  /\ \A c \in Clients : \A i, j \in 1..Len(requestCounts[c]) :
       i < j => requestCounts[c][i] >= requestCounts[c][j]
  /\ connected \in [Clients -> BOOLEAN]
  /\ served \in [Clients -> [1..Limit + 1 -> 0..Window]]
  /\ promised \in [Clients -> 0..None]

Init ==
  /\ requestCounts = [c \in Clients |-> <<>>]
  /\ connected = [c \in Clients |-> TRUE]
  /\ served = [c \in Clients |-> [n \in 1..Limit + 1 |-> Window]]
  /\ promised = [c \in Clients |-> None]
-----------------------------------------------------------------------------
(***************************************************************************)
(* canActivate.                                                            *)
(***************************************************************************)
\* filter((timestamp) => now - timestamp < bound).
YoungerThan(bound, ages) ==
  LET kept[n \in 0..Len(ages)] ==
        IF n = 0 THEN <<>>
        ELSE IF ages[n] < bound THEN Append(kept[n - 1], ages[n]) ELSE kept[n - 1]
  IN  kept[Len(ages)]

\* The filter keeps what is exactly ttl old.
RecentInclusive(ages) == YoungerThan(Window + 1, ages)

Recent(ages) == YoungerThan(Window, ages)

\* The comparison lets one more event through.
IsFullExclusive(ages) == Len(ages) > Limit

IsFull(ages) == Len(ages) >= Limit

\* Math.floor instead of Math.ceil.
RetryAfterRoundedDown(ages) == (Window - Head(ages)) \div Second

\* Math.ceil((recentRequests[0] + ttl - now) / 1000), in seconds.
RetryAfter(ages) == (Window - Head(ages) + Second - 1) \div Second

\* cleanup() that only looks at sockets that are connected.
CleanedOfConnected(f) == [c \in Clients |-> IF connected[c] THEN Recent(f[c]) ELSE f[c]]

\* cleanup(): an entry without a recent event is deleted.
Cleaned(f) == [c \in Clients |-> Recent(f[c])]

\* unshift instead of push.
RecordedFirst(ages) == <<0>> \o ages

Recorded(ages) == Append(ages, 0)

Serves(c) ==
  served' = [served EXCEPT ![c] =
               [n \in 1..Limit + 1 |-> IF n = 1 THEN 0 ELSE served[c][n - 1]]]

\* The event is handled; with a small probability the Map is cleaned up.
Accept(c, cleans) ==
  LET recent == Recent(requestCounts[c])
      counts == [requestCounts EXCEPT ![c] = Recorded(recent)]
  IN  /\ connected[c] /\ ~IsFull(recent)
      /\ requestCounts' = IF cleans THEN Cleaned(counts) ELSE counts
      /\ Serves(c)
      /\ promised' = [promised EXCEPT ![c] = None]
      /\ UNCHANGED connected

\* error:rate_limit; the event is not recorded.
Reject(c) ==
  LET recent == Recent(requestCounts[c])
      ticks == RetryAfter(recent) * Second
  IN  /\ connected[c] /\ IsFull(recent)
      /\ promised' = [promised EXCEPT ![c] = IF ticks < @ THEN ticks ELSE @]
      /\ UNCHANGED <<requestCounts, connected, served>>

Event(c) == Reject(c) \/ \E cleans \in BOOLEAN : Accept(c, cleans)

\* The guard is not told: the entry stays.
Disconnect(c) ==
  /\ connected[c]
  /\ connected' = [connected EXCEPT ![c] = FALSE]
  /\ promised' = [promised EXCEPT ![c] = None]
  /\ UNCHANGED <<requestCounts, served>>

Older(age) == IF age < Window THEN age + 1 ELSE age

Tick ==
  /\ requestCounts' = [c \in Clients |->
       [i \in 1..Len(requestCounts[c]) |-> Older(requestCounts[c][i])]]
  /\ served' = [c \in Clients |->
       [n \in 1..Limit + 1 |-> Older(served[c][n])]]
  /\ promised' = [c \in Clients |->
       IF promised[c] \in 1..None - 1 THEN promised[c] - 1 ELSE promised[c]]
  /\ UNCHANGED connected

Next == Tick \/ \E c \in Clients : Event(c) \/ Disconnect(c)

Spec == Init /\ [][Next]_vars

\* Time passes.  If events keep being accepted, cleanup() is drawn again and
\* again; nothing makes a client send one.
Accepts(cleans) == \E c \in Clients : Accept(c, cleans)
DrawsAreFair == <>[][~Accepts(FALSE)]_vars \/ []<><<Accepts(TRUE)>>_vars

FairSpec == Spec /\ WF_vars(Tick) /\ DrawsAreFair
-----------------------------------------------------------------------------
(***************************************************************************)
(* Properties.                                                             *)
(***************************************************************************)
\* The last n events let through have all been in the last Window ticks.
Recently(n, c) == served[c][n] < Window

\* However events, cleanups and time fall, at most Limit events of a socket are
\* let through in any stretch of Window ticks: the pruned list misses none of
\* those that count (canActivate, cleanup).
AtMostLimit == \A c \in Clients : ~Recently(Limit + 1, c)

\* An event is rejected only if Limit events really were let through in the
\* last Window ticks (filter of canActivate).
OnlyBurstsRejected ==
  [][\A c \in Clients : Reject(c) => Recently(Limit, c)]_vars

\* A socket that has waited for a retryAfter it was told is let through,
\* whatever it tried meanwhile (Math.ceil, recentRequests[0]).
RetryAfterSuffices ==
  \A c \in Clients : promised[c] = 0 => ~IsFull(Recent(requestCounts[c]))

\* What the Map holds of a socket that has gone is freed, as long as some socket
\* goes on sending events that are let through (cleanup).
GoneAreForgotten ==
  []<>(\E u \in Clients : served[u][1] = 0) =>
    \A c \in Clients : ~connected[c] ~> requestCounts[c] = <<>>
=============================================================================
