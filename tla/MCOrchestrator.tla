---------------------------- MODULE MCOrchestrator ----------------------------
(* The generation nodes MCGen, a subset of {1, 2}, of which MCChain makes 2   *)
(* depend on 1; and, when MCStages says so, a prepare node 0 before and a    *)
(* validate node 3 after generation.  PlanB changes the input of node 1.     *)
EXTENDS Orchestrator, TLC

CONSTANTS MCGen, MCChain, MCStages, MCSerial

MCPreNode == IF MCStages THEN {0} ELSE {}
MCPostNode == IF MCStages THEN {3} ELSE {}
MCNode == MCGen \cup MCPreNode \cup MCPostNode
MCHash == {"h1", "h2"}
MCStageOf == [n \in MCNode |-> IF n \in MCGen THEN "generate:content" ELSE "main"]
MCSerialStages == IF MCSerial THEN {"generate:content"} ELSE {}
MCLaneOf == [n \in MCNode |-> IF n = 1 THEN "llm" ELSE IF n = 2 THEN "image_gpu" ELSE "cpu_io"]
MCCapacity == [l \in Lanes |-> 1]

MCDeps == [n \in MCNode |->
             CASE n = 0 -> {}
               [] n = 1 -> MCPreNode
               [] n = 2 -> IF MCChain THEN {1} ELSE MCPreNode
               [] n = 3 -> MCGen]

PlanA == [nodes |-> MCNode, deps |-> MCDeps, hash |-> [n \in MCNode |-> "h1"]]
PlanB == [PlanA EXCEPT !.hash[1] = "h2"]

OnePlan == {PlanA}
TwoPlans == {PlanA, PlanB}

OwnerSymmetry == Permutations(Owner)
===============================================================================
