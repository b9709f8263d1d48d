---------------------------- MODULE MCTreeTensor -----------------------------
(* Instances of TreeTensor for TLC. *)
EXTENDS TreeTensor, TLC

(* A chain: the root, a child of it and a grandchild.                      *)
Chain == {<<>>, <<"a">>, <<"a", "b">>}

(* The root, two children of it and a grandchild.                          *)
Fork == {<<>>, <<"a">>, <<"b">>, <<"a", "x">>}

(* Past the safe radius: a grandchild of the root on any but the first slot. *)
OuterGrandchild(pos) == Len(pos) = 2 /\ Last(pos) > 0

Threads == Permutations(Thread)

==============================================================================
