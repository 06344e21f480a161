CONSTANTS
  t1 = t1
  t2 = t2
  t3 = t3
  a = a
  b = b
  c = c
  r1 = r1
  r2 = r2
  Threads = {t1, t2}
  Paths = {a, b, c}
  Rows = {r1, r2}
  Words <- MCWords
  Disk <- TwoFiles
  Args = {0, 3}
  TableSize = 1
  Absent = Absent
SPECIFICATION FairSpec
INVARIANTS
  MissingFileHasCopy
PROPERTIES
  CallsReturn
  MissingFileReturns
  ImplementsGate
