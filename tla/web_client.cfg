SPECIFICATION FairSpec
CONSTANTS
  Codes = {"WAW", "BCN"}
  Dates = {"d1"}
  Page <- MCPage
  Bodies <- MCBodies
  Checks = {c1, c2}
  Turns = {t1, t2}
  MaxActs = 5
  NULL = NULL
INVARIANT TypeOK
INVARIANT ResultsAreOfLastSearch
INVARIANT ObservedAsClicked
INVARIANT ShownTogether
INVARIANT OffersMatchForm
PROPERTY PageSettles
CHECK_DEADLOCK FALSE
