-------------------------- MODULE MCAsyncRepository --------------------------
(* Instances of AsyncRepository for TLC.                                   *)
EXTENDS AsyncRepository, TLC

(* Asks and readers differ in nothing: safety runs take them up to         *)
(* permutation.                                                            *)
Symmetry == Permutations(Asks) \cup Permutations(Readers)

=============================================================================
