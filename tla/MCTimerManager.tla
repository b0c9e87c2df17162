--------------------------- MODULE MCTimerManager ---------------------------
(* Symmetry for the instances of TimerManager that TLC checks. *)
EXTENDS TimerManager, TLC

Symmetry == Permutations(Idlers)
=============================================================================
