---------------------------- MODULE MCModelWork ----------------------------
(* Two units under one caller's budget, one caller without a budget.       *)
EXTENDS ModelWork

CONSTANTS u1, u2, f1

MCItems == <<u1, u2>>

Uses(a, b, f, n, w, i) ==
  [kind |-> u1 :> a @@ u2 :> b @@ f1 :> f, slots |-> n, workers |-> w, isolate |-> i]

MCSettings ==
  {Uses("text", "text", "text", 1, 2, TRUE), Uses("text", "text", "image", 2, 2, FALSE),
   Uses("upgrade", "image", "text", 2, 2, FALSE), Uses("upgrade", "upgrade", "text", 2, 2, TRUE),
   Uses("nested", "solo", "text", 2, 2, TRUE), Uses("solo", "image", "image", 2, 2, FALSE),
   Uses("upgrade", "text", "image", 2, 1, TRUE), Uses("text", "image", "text", 2, 1, FALSE)}
===============================================================================
