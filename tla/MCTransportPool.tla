-------------------------- MODULE MCTransportPool --------------------------
(* A verifier's call and another one in one scope, over two workers.       *)
EXTENDS TransportPool, TLC

CONSTANTS v, t, s1, x, y

MCScopeOf == v :> s1 @@ t :> s1
Surfaces == Permutations(Surface)
===============================================================================
