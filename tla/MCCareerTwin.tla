---------------------------- MODULE MCCareerTwin ----------------------------
(* CareerTwin on a small instance: see the README for the bounds.          *)
EXTENDS CareerTwin, TLC

(* int() gives two neighbouring confidences the same score.                *)
MCScore == (0 :> 5) @@ (1 :> 5) @@ (2 :> 6)

Symmetry == Permutations(Requests)
=============================================================================
