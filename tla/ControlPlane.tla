---------------------------- MODULE ControlPlane ----------------------------
(***************************************************************************)
(* What the two implementations of the live-observation control plane       *)
(* share: the parameters, the rows they keep, the browser-source catalog    *)
(* and the policy derived from a catalog entry.                             *)
(*                                                                         *)
(* Times are natural numbers on one clock.  A search intent is represented  *)
(* by its fingerprint.  A grant's consumed_at is kept as the flag "is it     *)
(* set", and an observation row has no status: the only worker completes    *)
(* it before it is stored, so every stored row is "succeeded" and has a     *)
(* completion time.                                                         *)
(***************************************************************************)
EXTENDS PolicyGuard

CONSTANTS
  Users,           \* callers, named by the X-Flight-Hunter-User-Id header
  Sources,         \* the source ids a caller may name
  Fingerprints,    \* search_intent_fingerprint values
  Keys,            \* Idempotency-Key values
  GrantIds,        \* the ids uuid4 can draw for a grant
  ObservationIds,  \* the ids uuid4 can draw for an observation
  Contexts,        \* the execution contexts requests come from
  Catalog,         \* source id -> BrowserSource, fixed when the app starts
  GrantTTL, ResultTTL, MinGap,
  MaxClock         \* bound on the clock

BrowserSource ==
  [enabled: BOOLEAN, attested: BOOLEAN, validFrom: Nat, validUntil: Nat]

ASSUME CatalogAssumption ==
  /\ DOMAIN Catalog \subseteq Sources
  /\ \A s \in DOMAIN Catalog : Catalog[s] \in BrowserSource
  /\ Contexts \subseteq ExecutionContexts

ASSUME TimeAssumption ==
  /\ GrantTTL \in Nat \ {0}
  /\ ResultTTL \in Nat \ {0}
  /\ MinGap \in Nat
  /\ MaxClock \in Nat

\* Five-minute grants, fifteen-minute results, a ten-minute gap: a result
\* outlives both the grant it was made with and the gap it opens.
ASSUME RetentionAssumption == GrantTTL <= ResultTTL /\ MinGap <= ResultTTL

Grant ==
  [id: GrantIds, user: Users, source: Sources, fingerprint: Fingerprints,
   issued: Nat, expires: Nat, consumed: BOOLEAN]

Observation ==
  [id: ObservationIds, grant: GrantIds, user: Users, source: Sources,
   fingerprint: Fingerprints, created: Nat, completed: Nat, expires: Nat]

-----------------------------------------------------------------------------
\* PermissionAttestation.status_at is ACTIVE; validUntil is the earlier of
\* valid_until and revoked_at, since every other status is refused alike.
PermissionActive(entry, now) ==
  entry.attested /\ entry.validFrom <= now /\ now < entry.validUntil

SourceVerdicts ==
  {Allowed, "source_not_found", "source_disabled", "permission_not_verified"}

SourceVerdict(source, now) ==
  IF source \notin DOMAIN Catalog THEN "source_not_found"
  ELSE IF ~Catalog[source].enabled THEN "source_disabled"
  ELSE IF ~PermissionActive(Catalog[source], now)
         THEN "permission_not_verified"
  ELSE Allowed

SourcePolicy(source, now) ==
  [source |-> source,
   enabled |-> Catalog[source].enabled,
   credentialsPresent |-> Catalog[source].attested,
   accessApproved |-> PermissionActive(Catalog[source], now),
   backgroundAllowed |-> FALSE,
   userActionRequired |-> TRUE,
   bookingRequiresClick |-> TRUE]

NewGrant(id, user, source, fingerprint, now) ==
  [id |-> id, user |-> user, source |-> source, fingerprint |-> fingerprint,
   issued |-> now, expires |-> now + GrantTTL, consumed |-> FALSE]

\* The queued observation made at now, as the fake worker completes it at done.
NewObservation(id, grant, user, source, fingerprint, now, done) ==
  [id |-> id, grant |-> grant, user |-> user, source |-> source,
   fingerprint |-> fingerprint, created |-> now, completed |-> done,
   expires |-> now + ResultTTL]
=============================================================================
