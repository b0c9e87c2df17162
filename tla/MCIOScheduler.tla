--------------------------- MODULE MCIOScheduler ---------------------------
(* The instance of IOScheduler that TLC checks.  Liveness is checked with   *)
(* it, and the jobs differ in what they may wait for: no symmetry.          *)
EXTENDS IOScheduler
=============================================================================
