SPECIFICATION Spec
CONSTANTS
  a = a
  b = b
  v = v
  Player = {a, b}
  Records <- MCRecords
  SegmentLength = 2
  Viewer = {v}
  NoViewer = NoViewer
  Commands = {"seek"}
INVARIANTS SeekRebuilds
CHECK_DEADLOCK FALSE
