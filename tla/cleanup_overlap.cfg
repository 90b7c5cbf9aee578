SPECIFICATION Spec
CONSTANTS
  Users = {u1}
  demo = demo
  dark = dark
  Sources = {demo}
  Fingerprints = {f1}
  Keys = {k1}
  GrantIds = {g1, g2}
  ObservationIds = {o1, o2}
  Contexts = {"web_user_action"}
  Catalog <- MCCatalog
  GrantTTL = 1
  ResultTTL = 2
  MinGap = 2
  MaxClock = 3
  Handlers = {h1}
  Cleaners = {c1, c2}
  NULL = NULL
SYMMETRY Symmetry
INVARIANT
  ActiveResultsPreserved
