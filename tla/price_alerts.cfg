SPECIFICATION Spec
CONSTANTS
  Providers = {"cached", "live", "click", "disabled", "unkeyed", "unapproved"}
  Policies <- MCPolicies
  Watches <- MCWatches
  Runtimes <- MCRuntimes
  DayLength = 2
  Never = Never
  Evaluations = {e1, e2}
  Prices = {900, 800}
  Baselines = {1000}
  DropThreshold = 10
  Cooldown = 2
  MaxClock = 2
  MaxObservations = 2
  MaxCopies = 2
  NULL = NULL
SYMMETRY Symmetry
INVARIANT AlertedOnce
INVARIANT CooldownKept
INVARIANT BackgroundOnly
INVARIANT AlertsSurviveRestore
CHECK_DEADLOCK FALSE
