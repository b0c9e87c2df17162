------------------------------- MODULE MCHook -------------------------------
(* Symmetry for the instances of Hook, and the states that are explored: a  *)
(* second socket is made, or epoll_ctl refuses a fiber, not both.           *)
EXTENDS Hook, TLC

Symmetry == Permutations(Fibers)
OneOrTheOther == made <= 1 \/ refused = {}
=============================================================================
