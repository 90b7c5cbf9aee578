SPECIFICATION FairSpec
CONSTANTS
  Workers = {w1, w2}
  Slots = {d1, d2}
  Updates = {u1, u2}
  Malformed = Malformed
  NULL = NULL
INVARIANT TypeOK
INVARIANT AcceptedOnce
INVARIANT LossNeedsFailure
PROPERTY UpdatesSettle
