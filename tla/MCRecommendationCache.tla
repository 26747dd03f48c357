----------------------- MODULE MCRecommendationCache -----------------------
(* Instances of RecommendationCache for TLC.                               *)
EXTENDS RecommendationCache, TLC

CONSTANTS a1, a2, a3, i1, i2

(* All asks served by one process, or the first one alone by another.      *)
OneHome == [a \in Asks |-> i1]
TwoHomes == [a \in Asks |-> IF a = a1 THEN i1 ELSE i2]

Symmetry == Permutations(Asks)

=============================================================================
