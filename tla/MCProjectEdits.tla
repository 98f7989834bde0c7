---------------------------- MODULE MCProjectEdits ----------------------------
(* Two paths, of which the first exists, and three threads: an editor of the  *)
(* first that never stops, a second editor or a writer, and a verifier or a   *)
(* writer.                                                                    *)
EXTENDS ProjectEdits

CONSTANTS t1, t2, t3

MCThread == {t1, t2, t3}
MCRole == [t \in MCThread |-> CASE t = t1 -> {"edit"}
                                [] t = t2 -> {"edit", "generate", "patch"}
                                [] t = t3 -> {"verify", "generate", "merge"}]
MCTarget == [t \in MCThread |-> CASE t = t1 -> {1}
                                  [] t = t2 -> {1, 2}
                                  [] t = t3 -> {1, 2}]

\* For liveness: two editors that never stop, and a thread that needs the coarse lock.
LiveRole == [t \in MCThread |-> IF t = t3 THEN {"verify", "merge", "generate"} ELSE {"edit"}]
LiveTarget == [t \in MCThread |-> IF t = t1 THEN {1} ELSE {1, 2}]
===============================================================================
