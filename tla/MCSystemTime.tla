---------------------------- MODULE MCSystemTime ----------------------------
(* Model checking of SystemTime: two further timers, interchangeable. *)
EXTENDS SystemTime, TLC

Symmetric == Permutations(Others)
=============================================================================
