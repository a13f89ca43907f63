CONSTANTS
  s1 = s1
  s2 = s2
  Points <- MCPoints
  Box <- MCBox
  Searchers <- MCSearchers
  MaxAdds = 3
SPECIFICATION FairSpec
INVARIANTS TypeOK SearchesExcluded ExchangeIsFaithful
PROPERTIES RebuildEnds
