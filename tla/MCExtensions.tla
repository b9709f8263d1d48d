----------------------------- MODULE MCExtensions -----------------------------
(* Instances of Extensions for TLC. *)
EXTENDS Extensions, TLC

(* The spelling that list gives, or any.                                   *)
ListSpelling == {logical_path(f) : f \in File}
AnySpelling == Path

Symmetry == Permutations(File) \cup Permutations(Key)

==============================================================================
