CONSTANTS
  Thread = {t1, t2}
  Path <- Chain
  Value = {v1}
  Coord = {c1}
  NoCoord = NoCoord
  Nil = Nil
  Call = {"insert", "delete"}
  Discipline = {"embed_parents_first", "no_data_only_child", "one_kind_of_insert"}
  Unsafe <- OuterGrandchild
  MaxProbe = 3
  Hint = {1}
  MaxIndex = 1
SPECIFICATION Spec
INVARIANT NoOrphans
