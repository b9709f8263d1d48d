---------------------------- MODULE MCCellIndex ------------------------------
(* An instance of CellIndex for TLC: two cells in one band, one in another. *)
EXTENDS CellIndex, TLC

CONSTANTS c1, c2, c3

ThreeCells == {c1, c2, c3}
TwoBands == (c1 :> 0) @@ (c2 :> 0) @@ (c3 :> 1)

Symmetry == Permutations(Thread) \cup Permutations(Id)

==============================================================================
