------------------------- MODULE MCAdaptiveLearning -------------------------
(* AdaptiveLearning on a small instance: see the README for the bounds.    *)
EXTENDS AdaptiveLearning, TLC

MCIntervals == <<1, 3>>

Symmetry == Permutations(Calls) \cup Permutations(Skills)

(* Reviews and missions share nothing but the day: an instance has one or  *)
(* the other.                                                              *)
Apart ==
    \/ reviews = <<>> /\ \A c \in Calls : call[c].kind # "review"
    \/ missions = {} /\ \A c \in Calls : call[c].kind \in {"idle", "review"}
=============================================================================
