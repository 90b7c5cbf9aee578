SPECIFICATION Spec
CONSTANTS
  Users = {u1}
  demo = demo
  dark = dark
  Sources = {demo, dark}
  Fingerprints = {f1}
  Keys = {k1, k2}
  GrantIds = {g1, g2}
  ObservationIds = {o1, o2}
  Contexts = {"web_user_action"}
  Catalog <- MCCatalog
  GrantTTL = 1
  ResultTTL = 2
  MinGap = 2
  MaxClock = 0
  Handlers = {h1, h2}
  Cleaners = {}
  NULL = NULL
SYMMETRY Symmetry
INVARIANT
  MinimumGapKept
