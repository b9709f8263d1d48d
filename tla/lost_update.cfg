CONSTANTS
  Thread = {t1, t2}
  Path <- Chain
  Value = {v1, v2}
  Coord = {c1}
  NoCoord = NoCoord
  Nil = Nil
  Call = {"insert_data_only", "embed_existing", "update_value"}
  Discipline = {"delete_alone", "embed_parents_first", "no_data_only_child", "one_kind_of_insert"}
  Unsafe <- OuterGrandchild
  MaxProbe = 3
  Hint = {1}
  MaxIndex = 1
SPECIFICATION Spec
PROPERTY EmbedKeepsData
