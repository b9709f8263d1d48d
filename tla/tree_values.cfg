CONSTANTS
  Thread = {t1, t2}
  Path <- Chain
  Value = {v1, v2}
  Coord = {c1}
  NoCoord = NoCoord
  Nil = Nil
  Call = {"insert", "insert_positioned", "insert_data_only", "embed_existing", "update_value", "set_semantic", "get", "delete"}
  Discipline = {"delete_alone", "no_write_during_embed", "no_data_only_child", "embed_parents_first", "one_kind_of_insert"}
  Unsafe <- OuterGrandchild
  MaxProbe = 3
  Hint = {0, 1}
  MaxIndex = 1
SPECIFICATION Spec
SYMMETRY Threads
INVARIANT TypeOK
INVARIANT SiblingsSerialized
PROPERTY ImplementsPathStore
