CONSTANTS
  File = {f1, f2}
  Slashes = {0, 1}
  Spelled <- ListSpelling
  Value = {v1}
  Key = {k1, k2}
  None = None
  Torn = Torn
  MaxFaults = 2
  Name = {disk, other}
  Provider = disk
SPECIFICATION Spec
SYMMETRY Symmetry
CHECK_DEADLOCK FALSE
INVARIANT TypeOK
INVARIANT AckedStays
INVARIANT RunningPrefix
PROPERTY NoOrphanMetadata
