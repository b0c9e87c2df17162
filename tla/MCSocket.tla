------------------------------ MODULE MCSocket ------------------------------
(* Symmetry for the instance of Socket, and the states that are explored.  The  *)
(* properties say nothing of what follows a torn state: it is followed with one *)
(* object and one kernel socket.  Addresses of another family are passed while  *)
(* there is at most one kernel socket.                                          *)
EXTENDS Socket, TLC

Symmetry == Permutations(Objects) \cup Permutations(Fibers) \cup Permutations(Numbers)
TornIsSmall == torn => made <= 1 /\ alive # Objects
FamiliesApart ==
    \/ made <= 1
    \/ /\ \A s \in Objects : remoteAddress_[s] \notin Foreign
       /\ \A f \in Fibers : busy[f].to \notin Foreign
=============================================================================
