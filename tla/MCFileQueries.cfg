SPECIFICATION FairSpec
CONSTANTS
  a = a  blank = blank  newline = newline
  two = two  open = open  dir = dir  missing = missing
  c1 = c1  c2 = c2
  Clients = {c1, c2}
  Names = {two, open, dir, missing}
  Texts <- MCTexts
  Dirs <- MCDirs
  Letter = a  Blank = blank  Newline = newline
  Sizes = {2, 3}
  MaxCalls = 2
  MaxFds = 4
INVARIANTS TypeOK  
PROPERTY CallEnds
