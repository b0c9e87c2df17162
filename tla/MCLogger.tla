------------------------------ MODULE MCLogger ------------------------------
(* Logger for TLC: two threads, the root logger and one named logger, and  *)
(* a file appender that either of them may be given.                       *)
EXTENDS Logger, TLC

CONSTANTS t1, t2, root, lib, out0, out1, file, own1

MCFirstAppender == root :> out0 @@ lib :> out1

Symmetry == Permutations(Threads)
=============================================================================
