---------------------------- MODULE MCCheckpoints ----------------------------
(* Checkpoints with interchangeable calls and inputs.                        *)
EXTENDS Checkpoints, TLC

Symmetric == Permutations(Caller) \cup Permutations(Hash)
==============================================================================
