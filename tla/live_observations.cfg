SPECIFICATION Spec
CONSTANTS
  Users = {u1, u2}
  demo = demo
  unknown = unknown
  Sources = {demo, unknown}
  Fingerprints = {f1}
  Keys = {k1, cb1}
  CallbackKeys = {cb1}
  GrantIds = {g1, g2, g3}
  ObservationIds = {o1, o2}
  Contexts = {"web_user_action", "worker"}
  Catalog <- MCCatalog
  GrantTTL = 2
  ResultTTL = 2
  MinGap = 2
  MaxClock = 3
INVARIANTS
  TypeOK
  RefreshStampIsLatest
  CallbacksAgreeWithService
PROPERTY
  ImplementsLedger
CHECK_DEADLOCK FALSE
