----------------------------- MODULE SourceGates -----------------------------
(***************************************************************************)
(* The gates that stand beside the policy guard, each a check of its own     *)
(* over the same provider policy: the MCP gateway and its answers            *)
(* (application/mcp_policy.py), the booking action of a search API           *)
(* (application/search_api_policy.py), the observer's scraping policy         *)
(* (application/scraping_policy.py), the readiness a source contract          *)
(* announces (application/source_contracts.py) and the draft of the Codex    *)
(* command line (agent/codex_cli.py).  Readiness is served by the            *)
(* application; the other gates are called by nothing in src/ but tests.     *)
(*                                                                         *)
(* Each repeats a part of the guard's decision in code of its own;            *)
(* AgentGuarantees proves that no copy is more lenient than the guard.       *)
(***************************************************************************)
EXTENDS SearchPipeline

(***************************************************************************)
(* MCP.                                                                    *)
(***************************************************************************)
\* McpPolicyGateway.authorize_tool_call, whatever the tool.
McpVerdict(policy, context, receivesSecrets) ==
  IF receivesSecrets THEN "mcp_secrets_denied"
  ELSE IF context \in BackgroundContexts THEN "mcp_background_denied"
  ELSE IF ~policy.enabled THEN "provider_disabled"
  ELSE IF ~policy.credentialsPresent THEN "credentials_missing"
  ELSE IF ~policy.accessApproved THEN "access_not_approved"
  ELSE IF policy.userActionRequired THEN "mcp_user_action_required"
  ELSE Allowed

\* One entry of the list an MCP tool answered.  Its fields are those of the
\* dictionary, where it is one, with what the checks find out about them.
McpCandidateVerdict(candidate) ==
  IF ~candidate.isMap THEN "invalid_shape"
  ELSE IF ~candidate.complete THEN "missing_field"
  ELSE IF candidate.sourceId = NULL THEN "invalid_shape"
  ELSE IF candidate.amount \notin Nat THEN "invalid_money"
  ELSE IF ~candidate.currencyIsCode THEN "invalid_currency"
  ELSE IF ~candidate.observedIsText THEN "invalid_datetime"
  ELSE IF candidate.requiresConfirmation \notin BOOLEAN THEN "invalid_shape"
  ELSE IF ~candidate.observedIsAware THEN "invalid_datetime"
  ELSE "valid"

\* McpPriceCandidate.__post_init__ does not raise.
McpCandidateBuilds(candidate) ==
  /\ candidate.sourceId # NULL
  /\ candidate.amount \in Nat
  /\ candidate.currencyIsCode
  /\ candidate.observedIsAware

McpPriceCandidate(candidate) ==
  [sourceId |-> candidate.sourceId, amount |-> candidate.amount,
   currency |-> candidate.currency, observedAt |-> candidate.observedAt,
   requiresConfirmation |-> candidate.requiresConfirmation]

McpAnswer(code, candidates) == [code |-> code, candidates |-> candidates]

\* McpResponseValidator.validate_price_candidates: the answer must be a
\* dictionary that holds a list; the first bad entry of the list ends the loop,
\* and with it what was appended for the entries before is dropped.
ValidateMcpAnswer(payload) ==
  LET raw == payload.candidates
      bad == {i \in DOMAIN raw : McpCandidateVerdict(raw[i]) # "valid"}
      first == CHOOSE i \in bad : \A j \in bad : i <= j
  IN  IF ~payload.isMap \/ ~payload.hasList THEN McpAnswer("invalid_shape", <<>>)
      ELSE IF bad # {} THEN McpAnswer(McpCandidateVerdict(raw[first]), <<>>)
      ELSE McpAnswer("valid", [i \in DOMAIN raw |-> McpPriceCandidate(raw[i])])

(***************************************************************************)
(* Booking.                                                                *)
(***************************************************************************)
\* SearchApiPolicyGateway.authorize_search
SearchApiVerdict(policy, context, fingerprint, grants, now) ==
  GuardVerdict(policy, "search", context, fingerprint, grants, now)

\* The grant the guard's decision hands back: consumed now, if it needed one.
ConsumedGrants(policy, operation, grants, now) ==
  IF NeedsGrant(policy, operation)
    THEN {[grant EXCEPT !.consumed = TRUE] : grant \in grants}
    ELSE {}

\* SearchApiPolicyGateway.create_booking_action: the descriptor of a redirect
\* to make at the click, with the grant as it is after it; or a denial.
BookingAction(policy, offer, fingerprint, grants, now) ==
  LET code == GuardVerdict(policy, "booking_action", "web_user_action", fingerprint,
                           grants, now)
  IN  IF code # Allowed THEN [code |-> code, action |-> NULL, consumed |-> {}]
      ELSE [code |-> code,
            action |-> [source |-> policy.source, offer |-> offer,
                        preload |-> policy.preloadAllowed],
            consumed |-> ConsumedGrants(policy, "booking_action", grants, now)]

\* ProviderPolicy.__post_init__, of the two booking flags.
BookingFlagsAgree(policy) == ~(policy.bookingRequiresClick /\ policy.preloadAllowed)

(***************************************************************************)
(* Scraping.                                                               *)
(***************************************************************************)
ProhibitedMechanisms ==
  {"captcha_solving", "stealth", "proxy_rotation", "reused_cookies", "login"}

\* ScrapingObserverPolicy.authorize
ScrapingVerdict(request) ==
  IF ~request.enabled THEN "feature_disabled"
  ELSE IF ~request.permissionVerified THEN "permission_not_verified"
  ELSE IF ~request.userAction THEN "user_action_required"
  ELSE IF request.background THEN "background_not_allowed"
  ELSE IF request.uses \cap ProhibitedMechanisms # {} THEN "prohibited_mechanism"
  ELSE Allowed

PriceLabel(request) ==
  IF ScrapingVerdict(request) = Allowed THEN "observed_price" ELSE "not_collected"

(***************************************************************************)
(* Readiness.                                                              *)
(***************************************************************************)
\* ProviderRegistry._status_for
StatusBlocked(policy) ==
  {reason \in {"provider_disabled", "credentials_missing", "access_not_approved"} :
     \/ reason = "provider_disabled" /\ ~policy.enabled
     \/ reason = "credentials_missing" /\ ~policy.credentialsPresent
     \/ reason = "access_not_approved" /\ ~policy.accessApproved}

\* The stages of the default contracts; every other contract is implemented.
Stage(source) ==
  CASE source = "aviasales_search" -> "policy_skeleton"
    [] source \in {"skyscanner_indicative", "skyscanner_live", "duffel"} -> "contract_only"
    [] OTHER -> "implemented"

\* _readiness_for of a contract whose source has a provider policy, and of one,
\* like the airport reference data, that has none.
ReadinessBlocked(policy) ==
  StatusBlocked(policy)
    \cup (IF Stage(policy.source) \in {"policy_skeleton", "contract_only"}
            THEN {"adapter_not_implemented"} ELSE {})

Ready(policy) == ReadinessBlocked(policy) = {}

ReferenceReadinessBlocked == {}

(***************************************************************************)
(* The draft of the Codex command line.                                    *)
(***************************************************************************)
CodexAllowedFields ==
  {"origin_query", "destination_query", "departure_date", "return_date", "wants_watch"}

CodexForbiddenFields ==
  {"amount_minor", "price", "currency_price", "provider_offer_id", "booking_url",
   "booking_link", "freshness", "observed_at"}

\* CodexIntentDraftValidator.validate_json of an object with these fields.
CodexVerdict(fields, wantsWatch) ==
  IF fields \cap CodexForbiddenFields # {} THEN "forbidden_field"
  ELSE IF ~(fields \subseteq CodexAllowedFields) THEN "unknown_field"
  ELSE IF wantsWatch \notin BOOLEAN THEN "invalid_shape"
  ELSE "valid"
=============================================================================
