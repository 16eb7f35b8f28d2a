SPECIFICATION Spec
CONSTANTS
  a = a
  b = b
  v = v
  Player = {a, b}
  Records <- MCRecords
  SegmentLength = 2
  Viewer = {v}
  NoViewer = NoViewer
  Commands = {"play", "pause", "seek", "stop"}
INVARIANTS RosterAgrees PlaysRecord
PROPERTIES SeekLands CommandsEnd
CHECK_DEADLOCK FALSE
