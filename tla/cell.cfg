CONSTANTS
  Thread = {t1, t2, t3}
  Id = {x1, x2}
  c1 = c1
  c2 = c2
  c3 = c3
  Cell <- ThreeCells
  Band <- TwoBands
  None = None
  ShareCells = FALSE
  MaxQueries = 1
SPECIFICATION Spec
SYMMETRY Symmetry
INVARIANT TypeOK
INVARIANT MapsAgree
INVARIANT QueryComplete
INVARIANT QueryNoGhost
INVARIANT LoadCounts
