------------------------------ MODULE ClientRules -----------------------------
(***************************************************************************)
(* What clients of the concurrent tree are assumed to avoid: five rules    *)
(* that the code neither states nor enforces.  A call has a kind and a     *)
(* path, the sequence of its components.                                   *)
(***************************************************************************)
EXTENDS Integers, Sequences, SequencesExt

CallKind == {"insert", "insert_positioned", "insert_data_only",
             "embed_existing", "update_value", "set_semantic", "get", "delete"}

Inserts == {"insert", "insert_positioned", "insert_data_only"}
PlacedInserts == {"insert", "insert_positioned"}
Writes == {"update_value", "set_semantic"}

Rules == {"delete_alone", "no_write_during_embed", "no_data_only_child",
          "embed_parents_first", "one_kind_of_insert"}

Root == <<>>

parent_path(p) == SubSeq(p, 1, Len(p) - 1)

Below(p, q) == p # q /\ IsPrefix(p, q)

(* The pairs of calls a rule keeps from overlapping.                       *)
Clash(r, a, b) ==
  CASE r = "delete_alone" ->
         /\ a.kind = "delete" /\ b.kind \in Inserts \cup {"embed_existing"}
         /\ IsPrefix(a.path, b.path) \/ IsPrefix(b.path, a.path)
    [] r = "no_write_during_embed" ->
         a.kind \in Writes /\ b.kind = "embed_existing" /\ IsPrefix(a.path, b.path)
    [] r = "embed_parents_first" ->
         a.kind = "insert_data_only" /\ b.kind \in PlacedInserts /\ Below(a.path, b.path)
    [] r = "one_kind_of_insert" ->
         a.kind = "insert_data_only" /\ b.kind \in PlacedInserts /\ a.path = b.path
    [] OTHER -> FALSE

(* What the rules ask of the data-only paths that are there at a call: no  *)
(* child of what is deleted, and no parent of what is placed.              *)
ClearOf(rules, o, stubs) ==
  /\ "no_data_only_child" \in rules /\ o.kind = "delete" =>
       \A q \in stubs \ {Root} : parent_path(q) # o.path
  /\ "embed_parents_first" \in rules /\ o.kind \in PlacedInserts =>
       parent_path(o.path) \notin stubs

==============================================================================
