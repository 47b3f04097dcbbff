SPECIFICATION DataSpec
CONSTANTS
  MaxInodes = 4
  MaxBlocks = 3
  MaxOpenFiles = 2
  BlockSize = 2
  MaxDirEntries = 2
  Names = {f1, f2, f3, long}
  LongNames = {long}
  NoName = NoName
  Garbage = Garbage
  MaxOffset = 3
  f1 = f1
  f2 = f2
  f3 = f3
  long = long
SYMMETRY Symmetry
PROPERTIES
  ReadStopsAtEnd
CHECK_DEADLOCK FALSE
