-------------------------- MODULE MCCircuitBreaker --------------------------
(* Model checking of CircuitBreaker: callers are interchangeable. *)
EXTENDS CircuitBreaker, TLC

CallerSymmetry == Permutations(Callers)
=============================================================================
