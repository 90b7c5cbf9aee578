SPECIFICATION Spec
CONSTANTS
  Users = {u1, u2}
  demo = demo
  dark = dark
  Sources = {demo, dark}
  Fingerprints = {f1, f2}
  Keys = {k1, k2}
  GrantIds = {g1, g2}
  ObservationIds = {o1, o2}
  Contexts = {"web_user_action"}
  Catalog <- MCCatalog
  GrantTTL = 1
  ResultTTL = 1
  MinGap = 0
  MaxClock = 1
  Handlers = {h1, h2}
  Cleaners = {}
  NULL = NULL
SYMMETRY Symmetry
INVARIANTS
  ConsumptionMatchesObservations
  ObservationsMatchTheirGrants
  SpentGrantStaysSpent
  AcceptedIsDurable
