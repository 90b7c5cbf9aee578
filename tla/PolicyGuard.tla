---------------------------- MODULE PolicyGuard ----------------------------
(***************************************************************************)
(* The decisions every provider call goes through, as pure operators:      *)
(* the user-action grant check and the policy guard (policy/guard.py) and   *)
(* the minimum-gap gate in front of it (application/live_refresh.py).       *)
(*                                                                         *)
(* A verdict is "allowed" or the code of the first check that fails, in     *)
(* the order in which the code makes them.  A grant or a completion time    *)
(* that may be absent is passed as a set with at most one element, the way  *)
(* a SELECT ... LIMIT 1 returns it.  The gate's own STATE_MISMATCH check    *)
(* has no operand here: both callers build the state they pass from the     *)
(* same source and fingerprint, so it never fires.                          *)
(***************************************************************************)
EXTENDS Naturals

BackgroundContexts == {"scheduler", "worker"}

ExecutionContexts ==
  BackgroundContexts \cup {"api_request", "telegram_callback", "web_user_action"}

Allowed == "allowed"

GrantCodes ==
  {"user_action_grant_required", "user_action_grant_provider_mismatch",
   "user_action_grant_fingerprint_mismatch", "user_action_grant_consumed",
   "user_action_grant_expired"}

\* The codes of PolicyDecision and LiveRefreshGateDecision.
Verdicts ==
  GrantCodes \cup {Allowed, "provider_disabled", "credentials_missing",
    "access_not_approved", "background_not_allowed", "live_refresh_too_soon"}

\* Mutant of IsExpired: the expiry instant still counts as alive.
IsExpiredLate(grant, now) == now > grant.expires

\* UserActionGrant.is_expired: a grant is dead from its expiry instant on.
IsExpired(grant, now) == now >= grant.expires

\* The four checks on a grant that was found, in the code's order.
GrantVerdict(grant, source, fingerprint, now) ==
  IF grant.source # source THEN "user_action_grant_provider_mismatch"
  ELSE IF grant.fingerprint # fingerprint
         THEN "user_action_grant_fingerprint_mismatch"
  ELSE IF grant.consumed THEN "user_action_grant_consumed"
  ELSE IF IsExpired(grant, now) THEN "user_action_grant_expired"
  ELSE Allowed

\* The same checks behind the test that a grant was presented at all.
AnyGrantVerdict(grants, source, fingerprint, now) ==
  IF grants = {} THEN "user_action_grant_required"
  ELSE GrantVerdict(CHOOSE g \in grants : TRUE, source, fingerprint, now)

NeedsGrant(policy, operation) ==
  \/ policy.userActionRequired
  \/ operation = "booking_action" /\ policy.bookingRequiresClick

\* ProviderPolicyGuard.authorize.
GuardVerdict(policy, operation, context, fingerprint, grants, now) ==
  IF ~policy.enabled THEN "provider_disabled"
  ELSE IF ~policy.credentialsPresent THEN "credentials_missing"
  ELSE IF ~policy.accessApproved THEN "access_not_approved"
  ELSE IF context \in BackgroundContexts /\ ~policy.backgroundAllowed
         THEN "background_not_allowed"
  ELSE IF NeedsGrant(policy, operation)
         THEN AnyGrantVerdict(grants, policy.source, fingerprint, now)
  ELSE Allowed

\* Mutant of TooSoon: the gap ends one tick early.
TooSoonShort(completions, now, gap) == \E t \in completions : now + 1 < t + gap

\* "now < last + gap" for the latest completion holds iff it holds for some one.
TooSoon(completions, now, gap) == \E t \in completions : now < t + gap

\* LiveRefreshGate.authorize: the gap first, then the guard.
GateVerdict(policy, context, fingerprint, grants, completions, now, gap) ==
  IF TooSoon(completions, now, gap) THEN "live_refresh_too_soon"
  ELSE GuardVerdict(policy, "live_refresh", context, fingerprint, grants, now)
=============================================================================
