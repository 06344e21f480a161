CONSTANTS
  c1 = c1
  c2 = c2
  Clients = {c1, c2}
  Judges <- MCJudges
  Names = {0, 1, 3}
  Rank = Rank
  MaxCalls = 2
SPECIFICATION FairSpec
INVARIANTS
  TypeOK
  VotesKept
PROPERTIES
  
  OwnVotesRanked
  CallsEnd
