---------------------------- MODULE SelectRandom ----------------------------
(***************************************************************************)
(* The draw of the winners: selectRandom, a Fisher-Yates shuffle of which  *)
(* the first k are taken (src/src/modules/roulette/roulette.utils.ts), as  *)
(* handleSpinRequest calls it.  Spin takes any k of the active sockets;    *)
(* here every value that Math.random() may lead to is followed.            *)
(*                                                                         *)
(* Positions are those of TLA+ sequences, one more than in the code.       *)
(***************************************************************************)
EXTENDS Naturals, SequencesExt

CONSTANTS
  Sockets,       \* the sockets that may be active
  WinnersCounts  \* the winnersCount values of a room; 0 is one that is no number

ASSUME CountAssumption ==
  IsFiniteSet(Sockets) /\ WinnersCounts \subseteq Nat

VARIABLES
  active,        \* activeSocketIds, in the order they are listed
  winnersCount,  \* config.winnersCount
  winners        \* what was returned, <<>> before the call

vars == <<active, winnersCount, winners>>

Lists == UNION {Injection(1..n, Sockets) : n \in 1..Cardinality(Sockets)}

Init ==
  /\ active \in Lists
  /\ winnersCount \in WinnersCounts
  /\ winners = <<>>
-----------------------------------------------------------------------------
\* Any position of the array at every step.
PartnersAnywhere(array, i) == DOMAIN array

\* The values of j = Math.floor(Math.random() * (i + 1)).
Partners(array, i) == 1..i

\* The values of i.
Positions(array) == 2..Len(array)

\* One assignment after the other instead of the destructuring.
Overwritten(array, i, j) == [array EXCEPT ![i] = array[j]]

Swapped(array, i, j) == [array EXCEPT ![i] = array[j], ![j] = array[i]]

\* What Math.random() may lead to: a value of j for every i.
Random(array) ==
  {r \in [Positions(array) -> DOMAIN array] :
     \A i \in Positions(array) : r[i] \in Partners(array, i)}

\* The array when the loop has gone from the last position down to the second.
Shuffled(array, r) ==
  LET after[n \in 0..Len(array) - 1] ==
        IF n = 0 THEN array
        ELSE LET i == Len(array) + 1 - n IN Swapped(after[n - 1], i, r[i])
  IN  after[Len(array) - 1]

\* The result when the draw for position i is r[i].
Selected(array, count, r) == SubSeq(Shuffled(array, r), 1, count)

\* k = Math.min(config.winnersCount, activeSocketIds.length).
Wanted(array, count) == Min({count, Len(array)})

SelectWinners ==
  /\ winners = <<>>
  /\ \E r \in Random(active) :
       winners' = Selected(active, Wanted(active, winnersCount), r)
  /\ UNCHANGED <<active, winnersCount>>

Next == SelectWinners

Spec == Init /\ [][Next]_vars
-----------------------------------------------------------------------------
(***************************************************************************)
(* Properties.                                                             *)
(***************************************************************************)
\* As many different active sockets win as are wanted and there are
\* (handleSpinRequest, selectRandom).
WinnersAreDifferent ==
  winners # <<>> =>
    /\ Len(winners) = Min({winnersCount, Len(active)})
    /\ IsInjective(winners)
    /\ ToSet(winners) \subseteq ToSet(active)

\* Every set of that many sockets wins in the same share of the random values,
\* so that neither the order of the sockets nor a bound of the loop favours
\* anybody (selectRandom).
DrawIsFair ==
  LET k == Wanted(active, winnersCount)
      sets == kSubset(k, ToSet(active))
      ways(W) == {r \in Random(active) : ToSet(Selected(active, k, r)) = W}
  IN  winners = <<>> =>
        \A W \in sets :
          Cardinality(ways(W)) * Cardinality(sets) = Cardinality(Random(active))
=============================================================================
