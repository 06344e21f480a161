CONSTANTS
  a = a
  b = b
  nl = nl
  Letters = {a, b}
  Newline = nl
  Texts <- TwoTexts
  Rows = {1, 2}
  MaxAsked = 2
SPECIFICATION FairSpec
INVARIANTS
  TypeOK
PROPERTIES
  ExactUnlessStray
  FilterEnds
  ChildEnds
