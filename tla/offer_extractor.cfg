SPECIFICATION Spec
CONSTANTS
  MaxTokens = 6
  Tags <- MCTags
  Runs <- MCRuns
  NULL = NULL
INVARIANT TypeOK
INVARIANT DepthsMatchPage
INVARIANT PricesOfOwnCard
INVARIANT EveryCardOnce
INVARIANT OffersHaveGrounds
CHECK_DEADLOCK FALSE
