------------------------------ MODULE WorkGraph ------------------------------
(***************************************************************************)
(* What the durable work ledger promises, without claims, leases, retries  *)
(* or cancellation: a set of completed nodes that only ever grows by a     *)
(* node whose dependencies are all completed, and that shrinks only to a   *)
(* set that is again closed under dependencies.                            *)
(***************************************************************************)
CONSTANT Node

VARIABLES
  done,   \* the nodes with a published, dependency-visible success
  deps    \* the dependency edges of the current plan

gvars == <<done, deps>>

Closed(D, e) == \A n \in D : e[n] \subseteq D

Init ==
  /\ done = {}
  /\ deps = [n \in Node |-> {}]

Publish(n) ==
  /\ n \notin done
  /\ deps[n] \subseteq done
  /\ done' = done \cup {n}
  /\ UNCHANGED deps

\* Invalidation and plan changes.  Completed work survives only with the
\* dependencies it was completed under.
Discard ==
  /\ deps' \in [Node -> SUBSET Node]
  /\ done' \in SUBSET done
  /\ \A n \in done' : deps'[n] = deps[n]
  /\ Closed(done', deps')

Next == Discard \/ \E n \in Node : Publish(n)

Spec == Init /\ [][Next]_gvars
=============================================================================
