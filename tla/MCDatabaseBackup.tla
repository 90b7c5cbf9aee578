-------------------------- MODULE MCDatabaseBackup --------------------------
(***************************************************************************)
(* An instance of DatabaseBackup, and with it of PriceAlerts and            *)
(* WatchScheduler, for TLC: a cached provider that may run in the           *)
(* background, a live one that could, one that may not and three like the   *)
(* first that are disabled, lack credentials or approval; watches that are  *)
(* due, paused, disabled, past their departure or limited to a provider.    *)
(***************************************************************************)
EXTENDS DatabaseBackup, TLC

PolicyOf(live, background, click) ==
  [source |-> "any", enabled |-> TRUE, credentialsPresent |-> TRUE, accessApproved |-> TRUE,
   live |-> live, backgroundAllowed |-> background, userActionRequired |-> click,
   bookingRequiresClick |-> TRUE]

MCPolicies ==
  [p \in Providers |->
     CASE p = "cached" -> PolicyOf(FALSE, TRUE, FALSE)
       [] p = "live" -> PolicyOf(TRUE, TRUE, FALSE)
       [] p = "click" -> PolicyOf(FALSE, FALSE, TRUE)
       [] p = "disabled" -> [PolicyOf(FALSE, TRUE, FALSE) EXCEPT !.enabled = FALSE]
       [] p = "unkeyed" -> [PolicyOf(FALSE, TRUE, FALSE) EXCEPT !.credentialsPresent = FALSE]
       [] p = "unapproved" -> [PolicyOf(FALSE, TRUE, FALSE) EXCEPT !.accessApproved = FALSE]]

WatchOf(enabled, paused, day, next, fresh, providers) ==
  [enabled |-> enabled, pausedUntil |-> paused, departureDay |-> day, nextEligibleAt |-> next,
   freshUntil |-> fresh, providers |-> providers]

MCWatches == {WatchOf(TRUE, 1, 1, 0, 1, {}),
              WatchOf(TRUE, Never, 1, 2, 2, {"live"}),
              WatchOf(TRUE, Never, 1, 0, Never, {"unkeyed", "click"}),
              WatchOf(TRUE, Never, 0, 0, Never, {"cached", "live"}),
              WatchOf(FALSE, Never, 1, 0, Never, {})}

MCRuntimes == {[circuitOpen |-> {}, reserved |-> Providers],
               [circuitOpen |-> {"cached"}, reserved |-> Providers],
               [circuitOpen |-> {}, reserved |-> Providers \ {"cached"}]}

Symmetry == Permutations(Evaluations)
=============================================================================
