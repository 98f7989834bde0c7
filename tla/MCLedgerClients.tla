--------------------------- MODULE MCLedgerClients ---------------------------
(* The ledger under general clients, on a chain of three nodes.  PlanB       *)
(* drops node 1 and, its dependency being gone, changes the input of node 2  *)
(* alone, so that what is invalidated further down is the doing of the       *)
(* closure; another client may open with PlanA.                              *)
EXTENDS LedgerClients

MCNode == 1 .. 3
MCGenNode == 1 .. 2
MCStageOf == [n \in MCNode |-> IF n = 3 THEN "validate" ELSE "generate:content"]
MCSerial == {"generate:content"}
MCLaneOf == [n \in MCNode |-> IF n = 2 THEN "llm" ELSE "cpu_io"]
MCCapacity == [l \in Lanes |-> 1]
MCHash == {"h1", "h2"}

Chain == [n \in MCNode |-> IF n = 1 THEN {} ELSE {n - 1}]

PlanA == [nodes |-> MCNode, deps |-> Chain, hash |-> [n \in MCNode |-> "h1"]]

PlanB == [nodes |-> MCNode \ {1},
          deps |-> [Chain EXCEPT ![2] = {}],
          hash |-> [PlanA.hash EXCEPT ![2] = "h2"]]

MCPlans == {PlanA, PlanB}
=============================================================================
