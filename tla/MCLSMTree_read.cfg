SPECIFICATION Spec
CONSTANTS
  Key = {1, 2}
  Types = {TRUE, FALSE}
  MaxSequence = 3
  Top = 2
  MaxMemLevel = 1
  MaxFileEntries = 2
  GrandparentLimit = 1
  ExpandLimit = 5
  ManualRanges = {}
  Reader = {r1}
  MaxGets = 1
  MaxGetSequence = 2
  SnapshotAge = 1
INVARIANT QuietGet
