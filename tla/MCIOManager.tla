---------------------------- MODULE MCIOManager ----------------------------
(* Symmetry for the instances of IOManager that TLC checks. *)
EXTENDS IOManager, TLC

Symmetry == Permutations(Fibers) \cup Permutations(Callbacks) \cup Permutations(Workers)
=============================================================================
