CONSTANTS
  c1 = c1
  c2 = c2
  x = x
  y = y
  padded = padded
  Clients = {c1, c2}
  Names = {x, y, padded}
  MaxLen = 2
  Dirs <- SeveralDirs
  Window = 3
  MinSize = 0
  Files = {x, y}
  Trim <- MCTrim
  Absent = Absent
  Nobody = Nobody
  Junk = Junk
SPECIFICATION SeqFairSpec
INVARIANTS
  SeqStreamAligned
  ReceivedOrPadded
PROPERTIES
  BacklogServed
