CONSTANTS
  t1 = t1
  t2 = t2
  t3 = t3
  a = a
  b = b
  c = c
  r1 = r1
  r2 = r2
  Threads = {t1, t2, t3}
  Paths = {a}
  Rows = {r1, r2}
  Words <- MCWords
  Disk <- OneFile
  Args = {1, 3}
  TableSize = 2
  Absent = Absent
SPECIFICATION CrashSpec
SYMMETRY SomeThreads
INVARIANTS
  TypeOK
  FirstUseExclusive
  
  
