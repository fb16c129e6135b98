------------------------ MODULE MCSpinSingleInstance ------------------------
(***************************************************************************)
(* TLC instances of SpinSingleInstance.                                    *)
(***************************************************************************)
EXTENDS SpinSingleInstance, TLC

Symmetry ==
  Permutations(Spins) \cup Permutations(Sockets) \cup Permutations(Requests)
    \cup Permutations(Rids)
=============================================================================
