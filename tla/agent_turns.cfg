SPECIFICATION Spec
CONSTANTS
  Turns = {t1, t2}
  Shaped = {1, 2, 3, 4}
  Places = {0, 1, 2, 3, 4, han, barcelona, shanghai}
  ThreeLetters = {0, 1, 2, 3, 4, han}
  Dates = {9, 10, 11, 12}
  FakeFare <- MCFakeFare
  TextRank <- MCTextRank
  ChatRequests <- MCChatRequests
  Searches <- MCSearches
  WatchRequests <- MCWatchRequests
  ModelReplies <- MCModelReplies
  ApiReplies <- MCApiReplies
  SettingsSet <- MCSettings
  NULL = NULL
  barcelona = barcelona
  han = han
  shanghai = shanghai
  soon = soon
SYMMETRY Symmetry
INVARIANT WatchesAreAudited
INVARIANT WishIsHonoured
INVARIANT NeverGuesses
INVARIANT BestPriceIsCheapest
INVARIANT TrailIsWhole
CHECK_DEADLOCK FALSE
