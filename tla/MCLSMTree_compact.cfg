SPECIFICATION Spec
CONSTANTS
  Key = {1, 2}
  Types = {TRUE, FALSE}
  MaxSequence = 4
  Top = 2
  MaxMemLevel = 1
  MaxFileEntries = 2
  GrandparentLimit = 1
  ExpandLimit = 5
  ManualRanges <- PointRanges
  Reader = {}
  MaxGets = 0
  MaxGetSequence = 0
  SnapshotAge = 0
INVARIANTS
  LevelsDisjoint NearerIsNewer ReadsNewest
