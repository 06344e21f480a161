SPECIFICATION Spec
CONSTANTS
  Servers = {s1, s2}
  Clients = {c1}
  Echo = Echo  Test1 = Test1
  EchoTag = EchoTag  Test1Tag = Test1Tag  Blank = Blank
  TableSize = 3  TagSize = 4
  Null = Null
INVARIANTS TypeOK NamesKept 
PROPERTY Implements
