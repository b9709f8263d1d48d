CONSTANTS
  Thread = {t1, t2, t3}
  Node = {n1, n2}
  None = None
  Disk = Disk
  Slice = {1, 2}
  MaxSlices = 1
  MaxWrites = 1
  MaxQueries = 2
SPECIFICATION Spec
SYMMETRY Symmetry
INVARIANT TypeOK
INVARIANT FreshTreesCurrent
INVARIANT QueryRecent
INVARIANT CacheBounded
