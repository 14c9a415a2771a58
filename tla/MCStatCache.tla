---------------------------- MODULE MCStatCache ----------------------------
(* StatCache for TLC: the threads are interchangeable. *)
EXTENDS StatCache, TLC

Symmetric == Permutations(Threads)
=============================================================================
