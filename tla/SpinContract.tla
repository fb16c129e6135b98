---------------------------- MODULE SpinContract ----------------------------
(***************************************************************************)
(* What handleSpinRequest promises a room, without Redis: spins of a room  *)
(* take turns, and each announces one outcome at most, never for nobody,   *)
(* with as many winners out of those who take part as a winnersCount wants *)
(* and there are.                                                          *)
(*                                                                         *)
(* A turn is limited: a spin that lapses may be overtaken by the next one, *)
(* and still announce.  That weakness is part of what the code promises.   *)
(***************************************************************************)
EXTENDS Naturals, FiniteSets

CONSTANTS
  Rooms,    \* room ids
  Sockets,  \* who can take part in a spin
  Calls,    \* spin requests
  Counts,   \* how many winners a room may want
  None      \* no outcome yet

VARIABLES
  room,     \* the room each request is for
  stage,    \* "asked", "running" (it is its turn) or "over"
  lapsed,   \* requests whose turn ran out
  outcome   \* what each request announced

contractVars == <<room, stage, lapsed, outcome>>

IsDraw(W, S, k) ==
  /\ W \subseteq S
  /\ Cardinality(W) = IF k < Cardinality(S) THEN k ELSE Cardinality(S)

Outcomes == {o \in [active : SUBSET Sockets, winners : SUBSET Sockets] :
               /\ o.active # {}
               /\ \E k \in Counts : IsDraw(o.winners, o.active, k)}

Init ==
  /\ room \in [Calls -> Rooms]
  /\ stage = [c \in Calls |-> "asked"]
  /\ lapsed = {}
  /\ outcome = [c \in Calls |-> None]

HasTurn(c) == stage[c] = "running" /\ c \notin lapsed

Enter(c, l) == stage' = [stage EXCEPT ![c] = l] /\ UNCHANGED <<room, lapsed, outcome>>

\* A spin starts only when no other one of its room has its turn.
Begin(c) ==
  /\ stage[c] = "asked"
  /\ \A d \in Calls : room[d] = room[c] => ~HasTurn(d)
  /\ Enter(c, "running")

Refuse(c) == stage[c] = "asked" /\ Enter(c, "over")

Announce(c) ==
  /\ stage[c] = "running" /\ outcome[c] = None
  /\ \E o \in Outcomes : outcome' = [outcome EXCEPT ![c] = o]
  /\ UNCHANGED <<room, stage, lapsed>>

End(c) == stage[c] = "running" /\ Enter(c, "over")

Lapse(c) ==
  /\ stage[c] # "asked"
  /\ lapsed' = lapsed \cup {c}
  /\ UNCHANGED <<room, stage, outcome>>

Next == \E c \in Calls : Begin(c) \/ Refuse(c) \/ Announce(c) \/ End(c) \/ Lapse(c)

Spec == Init /\ [][Next]_contractVars
=============================================================================
