-------------------------- MODULE MCArtifactGraph --------------------------
(* Job a creates file f; b and c require its port and patch file g.        *)
EXTENDS ArtifactGraph, TLC

CONSTANTS a, b, c, f, g

MCOrder == <<a, b, c>>
MCRequires == a :> {} @@ b :> {a} @@ c :> {a}
MCAnswer == a :> {1, 2} @@ b :> {1} @@ c :> {2}
MCTargetOf == a :> f @@ b :> g @@ c :> g
===============================================================================
