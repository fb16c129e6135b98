------------------------------- MODULE MCSpin -------------------------------
(***************************************************************************)
(* TLC instances of Spin: symmetry for the runs that check safety only.    *)
(***************************************************************************)
EXTENDS Spin, TLC

Symmetry ==
  Permutations(Spins) \cup Permutations(Sockets) \cup Permutations(Requests)
    \cup Permutations(Rids)
=============================================================================
