--------------------------- MODULE WatchScheduler ---------------------------
(***************************************************************************)
(* The scheduler's two decisions before a provider is called in the         *)
(* background, as pure operators: which providers it takes on at all        *)
(* (SchedulerProviderRegistry) and which of them a due watch may use now     *)
(* (WatchSchedulerPlanner.decide).  Circuit and quota are what the caller   *)
(* captured before it asked.                                                *)
(***************************************************************************)
EXTENDS PolicyGuard

CONSTANTS
  Providers,  \* provider ids offered to the registry
  Policies,   \* their policies: those of PolicyGuard, and live for DataKind.LIVE
  Watches,    \* what a watch may look like when it is scheduled
  Runtimes,   \* circuits and quota a caller may have captured
  DayLength,  \* ticks of a day
  Never       \* no pause, no fresh cache

ASSUME SchedulerAssumption ==
  /\ DOMAIN Policies = Providers
  /\ DayLength \in Nat \ {0}
  /\ Never \notin Nat
  /\ \A w \in Watches :
       /\ {w.pausedUntil, w.nextEligibleAt, w.freshUntil} \subseteq Nat \cup {Never}
       /\ w.departureDay \in Nat

Accepted == "accepted"

\* _scheduler_registration_denial
RegistrationDenial(policy) ==
  IF policy.live THEN "live_provider_not_allowed_in_scheduler"
  ELSE IF policy.userActionRequired THEN "user_action_required"
  ELSE IF ~policy.backgroundAllowed THEN "background_not_allowed"
  ELSE Accepted

\* SchedulerProviderRegistry.register, of every provider.
Registry == {p \in Providers : RegistrationDenial(Policies[p]) = Accepted}

Before(now, instant) == instant # Never /\ now < instant

\* WatchSchedulerPlanner._watch_blocked_reasons
BlockedReason(watch, now) ==
  IF ~watch.enabled THEN "watch_disabled"
  ELSE IF Before(now, watch.pausedUntil) THEN "watch_paused"
  ELSE IF watch.departureDay < now \div DayLength THEN "departure_passed"
  ELSE IF Before(now, watch.nextEligibleAt) THEN "watch_not_due"
  ELSE IF Before(now, watch.freshUntil) THEN "cache_fresh"
  ELSE Allowed

\* Mutant of ProviderDenial: a provider whose quota was not reserved may go on.
ProviderDenialUnreserved(watch, p, runtime, now) ==
  IF watch.providers # {} /\ p \notin watch.providers THEN "provider_not_allowed_by_watch"
  ELSE IF p \in runtime.circuitOpen THEN "circuit_open"
  ELSE GuardVerdict(Policies[p], "search", "scheduler", watch, {}, now)

\* WatchSchedulerPlanner.decide for one provider of the list it was given.
ProviderDenial(watch, p, runtime, now) ==
  IF watch.providers # {} /\ p \notin watch.providers THEN "provider_not_allowed_by_watch"
  ELSE IF p \in runtime.circuitOpen THEN "circuit_open"
  ELSE IF p \notin runtime.reserved THEN "quota_unavailable"
  ELSE GuardVerdict(Policies[p], "search", "scheduler", watch, {}, now)

\* The provider ids of the decision; the watch is eligible when there are any.
Eligible(watch, runtime, now) ==
  IF BlockedReason(watch, now) # Allowed THEN {}
  ELSE {p \in Registry : ProviderDenial(watch, p, runtime, now) = Allowed}
=============================================================================
