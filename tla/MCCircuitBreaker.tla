-------------------------- MODULE MCCircuitBreaker --------------------------
(* CircuitBreaker with one thread or three, which are interchangeable. *)
EXTENDS CircuitBreaker, TLC

CONSTANTS t1, t2, t3

OneThread == {t1}
ThreeThreads == {t1, t2, t3}

ThreadSymmetry == Permutations(Threads)
=============================================================================
