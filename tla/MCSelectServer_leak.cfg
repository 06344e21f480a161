CONSTANTS
  c1 = c1
  c2 = c2
  u1 = u1
  d = d
  f = f
  tmp = tmp
  p = p
  q = q
  sp = sp
  Clients = {c1}
  Dirs = {d}
  Tree <- OneDir
  Missing = Missing
  NameUnits = 2
  MaxAsked = 2
  Users = {u1}
  Files = {f, tmp}
  TmpFile = tmp
  Disk <- OneText
  Absent = Absent
  Words <- TwoWords
  Letters = {p, q}
  Separators = {sp}
  MaxFds = 2
SPECIFICATION Spec
CHECK_DEADLOCK FALSE
INVARIANTS
  RefusedIsMissing
