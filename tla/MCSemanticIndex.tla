-------------------------- MODULE MCSemanticIndex ----------------------------
(* An instance of SemanticIndex for TLC. *)
EXTENDS SemanticIndex, TLC

Symmetry == Permutations(Thread) \cup Permutations(Node)

==============================================================================
