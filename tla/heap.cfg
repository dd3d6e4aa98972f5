\* A heap of seven granules, chunks of one or two.
CONSTANTS
  END = 112
  SIZES <- TheSizes
  LIMITS <- TheLimits
SPECIFICATION FairSpec
INVARIANTS TypeOK DiesWithoutAnswer
PROPERTIES FindsNearest FreesExactly CountsBytes Returns
