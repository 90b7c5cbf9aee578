--------------------------- MODULE SearchPipeline ---------------------------
(***************************************************************************)
(* One search, as pure operators: the registry's policies, the plan the      *)
(* guard makes of them, the two providers that have an adapter, the merge    *)
(* and the ranking of their offers, the outbound links.  What the Travel-    *)
(* payouts service answers is an argument; everything else is the code.      *)
(*                                                                         *)
(* A code is a number, in alphabetical order of the three letters it stands  *)
(* for.  A search either ends with an error, the exception nobody catches,   *)
(* or with a result.                                                        *)
(*                                                                         *)
(* A list from which entries were dropped keeps the places of the others: it *)
(* is a function of a finite set of numbers, read in their order.            *)
(***************************************************************************)
EXTENDS PolicyGuard, Sequences, SequencesExt

CONSTANTS
  Shaped,    \* codes of three letters A to Z
  FakeFare,  \* what the demo provider asks per passenger on a route
  NULL

\* The demo provider asks a whole number of kopecks.
ASSUME FareAssumption == \A route \in Shaped \X Shaped : FakeFare[route] \in Int

NoError == "none"

(***************************************************************************)
(* The registry.                                                           *)
(***************************************************************************)
Policy(source, enabled, credentials, approved, background, click, merge) ==
  [source |-> source, enabled |-> enabled, credentialsPresent |-> credentials,
   accessApproved |-> approved, backgroundAllowed |-> background,
   userActionRequired |-> click, mergeAllowed |-> merge, bookingRequiresClick |-> TRUE]

FakePolicy == Policy("fake", TRUE, TRUE, TRUE, TRUE, FALSE, TRUE)

\* Both AviasalesDataAdapter's own policy and the registry's: they are read
\* from the same settings.
AviasalesDataPolicy(settings) ==
  Policy("aviasales_data", settings.aviasalesEnabled, settings.token, TRUE, TRUE, FALSE, TRUE)

AviasalesSearchPolicy ==
  Policy("aviasales_search", FALSE, FALSE, FALSE, FALSE, TRUE, FALSE)

SkyscannerIndicativePolicy ==
  Policy("skyscanner_indicative", FALSE, FALSE, FALSE, FALSE, FALSE, TRUE)

SkyscannerLivePolicy ==
  Policy("skyscanner_live", FALSE, FALSE, FALSE, FALSE, TRUE, TRUE)

DuffelPolicy == Policy("duffel", FALSE, FALSE, FALSE, FALSE, TRUE, TRUE)

\* ProviderRegistry.default
DefaultRegistry(settings) ==
  <<FakePolicy, AviasalesDataPolicy(settings), AviasalesSearchPolicy,
    SkyscannerIndicativePolicy, SkyscannerLivePolicy, DuffelPolicy>>

\* _selected_policies: unknown ids are skipped, repeated ones stay repeated.
Candidates(registry, ids) ==
  IF ids = NULL THEN registry
  ELSE LET known == {i \in DOMAIN ids : \E policy \in ToSet(registry) : policy.source = ids[i]}
       IN  [i \in known |-> CHOOSE policy \in ToSet(registry) : policy.source = ids[i]]

(***************************************************************************)
(* The plan: SearchPlanner.plan in the context of a web user, no grant.      *)
(***************************************************************************)
SearchVerdict(policy) == GuardVerdict(policy, "search", "web_user_action", NULL, {}, 0)

PlanAllowed(registry, ids) ==
  LET candidates == Candidates(registry, ids)
  IN  [i \in {j \in DOMAIN candidates : SearchVerdict(candidates[j]) = Allowed} |->
         candidates[i]]

PlanDenied(registry, ids) ==
  {<<policy.source, SearchVerdict(policy)>> :
     policy \in {p \in ToSet(Candidates(registry, ids)) : SearchVerdict(p) # Allowed}}

\* DemoSearchService._providers: the demo provider, and the adapter of a token.
Adapters(settings) == {"fake"} \cup (IF settings.token THEN {"aviasales_data"} ELSE {})

\* The steps of the plan that have an adapter to call, in the plan's order.
Steps(settings, ids) ==
  LET plan == PlanAllowed(DefaultRegistry(settings), ids)
  IN  [i \in {j \in DOMAIN plan : plan[j].source \in Adapters(settings)} |-> plan[i]]

(***************************************************************************)
(* The intent.                                                             *)
(***************************************************************************)
Adults(mix) == IF mix.adults = NULL THEN mix.passengers ELSE mix.adults

\* A currency is the ruble, another code of three letters, or "malformed".
CurrencyCodes == {"RUB", "other"}

\* _trip_type: the dates decide where the request does not say.
TripType(intent) ==
  IF intent.tripType # NULL THEN intent.tripType
  ELSE IF intent.returning # NULL THEN "round_trip" ELSE "one_way"

\* SearchIntent.__post_init__ and PassengerMix; a ValueError otherwise.
ValidIntent(intent) ==
  /\ {intent.origin, intent.destination} \subseteq Shaped
  /\ intent.currency \in CurrencyCodes
  /\ intent.mix.passengers >= 1
  /\ Adults(intent.mix) >= 1 /\ intent.mix.children >= 0 /\ intent.mix.infants >= 0
  /\ Adults(intent.mix) + intent.mix.children + intent.mix.infants = intent.mix.passengers
  /\ TripType(intent) \in {"one_way", "round_trip"}
  /\ TripType(intent) = "round_trip" <=> intent.returning # NULL

(***************************************************************************)
(* The providers.  An outcome is an error or a sequence of offers.           *)
(***************************************************************************)
Outcome(error, offers) == [error |-> error, offers |-> offers]

Offer(provider, id, price, passengers) ==
  [provider |-> provider, id |-> id, price |-> price, passengers |-> passengers,
   freshness |-> "cached", requiresLiveConfirmation |-> TRUE, baggageKnown |-> FALSE]

\* FakeFlightProvider.search
FakeSearch(intent) ==
  Outcome(NoError,
    <<Offer("fake", 0, FakeFare[<<intent.origin, intent.destination>>] * intent.mix.passengers,
            intent.mix.passengers)>>)

\* Mutant of MapItem: the price of one seat is the price of the party.
MapItemPerSeat(item, passengers) ==
  Offer("aviasales_data", item.id, item.price, passengers)

\* map_prices_for_dates_item
MapItem(item, passengers) ==
  Offer("aviasales_data", item.id, item.price * passengers, passengers)

\* AviasalesDataClient.prices_for_dates: one malformed item spoils them all.  A
\* body of another shape counts as unsuccessful, an item's faults as one.
PricesForDates(reply) ==
  IF reply.status = 429 THEN "aviasales_data_rate_limited"
  ELSE IF reply.status >= 400 THEN "aviasales_data_http"
  ELSE IF ~reply.success THEN "aviasales_data_unsuccessful"
  ELSE IF \E i \in DOMAIN reply.items : ~reply.items[i].wellFormed
         THEN "aviasales_data_invalid_item"
  ELSE NoError

\* AviasalesDataQueryPlanner: no query for a party with children or infants.
QueryPlanned(intent) == intent.mix.children = 0 /\ intent.mix.infants = 0

\* AviasalesDataAdapter.search, behind its own guard.
AviasalesSearch(settings, intent, reply) ==
  IF SearchVerdict(AviasalesDataPolicy(settings)) # Allowed \/ ~QueryPlanned(intent)
    THEN Outcome(NoError, <<>>)
  ELSE IF PricesForDates(reply) # NoError THEN Outcome(PricesForDates(reply), <<>>)
  ELSE Outcome(NoError,
         [i \in DOMAIN reply.items |-> MapItem(reply.items[i], intent.mix.passengers)])

ProviderSearch(source, settings, intent, reply) ==
  IF source = "fake" THEN FakeSearch(intent) ELSE AviasalesSearch(settings, intent, reply)

(***************************************************************************)
(* The ranking.                                                            *)
(***************************************************************************)
FreshnessPenalty(freshness) ==
  CASE freshness = "live" -> 0
    [] freshness = "recent" -> 500
    [] freshness = "cached" -> 1000
    [] freshness = "stale" -> 20000

\* OfferRanker._rank_offer
Score(offer) ==
  offer.price + FreshnessPenalty(offer.freshness)
    + (IF offer.requiresLiveConfirmation THEN 2500 ELSE 0)
    + (IF offer.baggageKnown THEN 0 ELSE 500)

\* Provider ids in alphabetical order, as the sort key compares them.
ProviderRank(provider) == IF provider = "aviasales_data" THEN 1 ELSE 2

RankKey(offer) == <<Score(offer), offer.price, ProviderRank(offer.provider), offer.id>>

\* The lexicographic order of the keys.
RankedBefore(one, other) ==
  \E i \in 1..4 : /\ RankKey(one)[i] < RankKey(other)[i]
                  /\ \A j \in 1..(i - 1) : RankKey(one)[j] = RankKey(other)[j]

\* OfferRanker.rank of offers indexed by the step and the place they came in:
\* the sort keeps the order of offers with equal keys.
SortedBefore(offers, one, other) ==
  \/ RankedBefore(offers[one], offers[other])
  \/ /\ ~RankedBefore(offers[other], offers[one])
     /\ one[1] < other[1] \/ (one[1] = other[1] /\ one[2] < other[2])

PlaceInOrder(offers, place) ==
  Cardinality({other \in DOMAIN offers : SortedBefore(offers, other, place)}) + 1

Rank(offers) ==
  [n \in 1..Cardinality(DOMAIN offers) |->
     offers[CHOOSE place \in DOMAIN offers : PlaceInOrder(offers, place) = n]]

(***************************************************************************)
(* The outbound links: where a person may look, never a price.               *)
(***************************************************************************)
LinkSpec(source, prefillsCurrency) ==
  [source |-> source, oneWay |-> TRUE, roundTrip |-> TRUE, prefillsMix |-> FALSE,
   prefillsChildren |-> FALSE, prefillsInfants |-> FALSE, prefillsCurrency |-> prefillsCurrency]

\* default_ru_aggregator_specs; every default currency is the ruble.
LinkSpecs ==
  <<LinkSpec("aviasales_clickout", TRUE), LinkSpec("travelpayouts_aviasales_deeplink", TRUE),
    LinkSpec("yandex_travel", FALSE), LinkSpec("tutu", FALSE), LinkSpec("onetwotrip", TRUE),
    LinkSpec("aeroflot", FALSE), LinkSpec("pobeda", FALSE), LinkSpec("s7", FALSE)>>

CanBuildLink(spec, intent) ==
  /\ TripType(intent) = "one_way" => spec.oneWay
  /\ TripType(intent) = "round_trip" => spec.roundTrip

\* RuClickoutLinkBuilder._warnings
LinkWarnings(spec, intent) ==
  {"external_link_price_unknown"}
    \cup {w \in {"passenger_mix_not_prefilled"} : ~spec.prefillsMix /\ intent.mix.passengers # 1}
    \cup {w \in {"children_not_prefilled"} : ~spec.prefillsChildren /\ intent.mix.children > 0}
    \cup {w \in {"infants_not_prefilled"} : ~spec.prefillsInfants /\ intent.mix.infants > 0}
    \cup {w \in {"currency_not_prefilled"} : ~spec.prefillsCurrency /\ intent.currency # "RUB"}

\* RuClickoutLinkBuilder.build_all
ExternalLinks(intent, enabled) ==
  LET Built(spec) == spec.source \in enabled /\ CanBuildLink(spec, intent)
      Link(spec) == [source |-> spec.source, warnings |-> LinkWarnings(spec, intent)]
      specs == SelectSeq(LinkSpecs, Built)
  IN  [i \in DOMAIN specs |-> Link(specs[i])]

\* _warnings_for_result
SearchWarnings(links) ==
  IF links = <<>> THEN {}
  ELSE {"external_links_are_not_prices"} \cup UNION {link.warnings : link \in ToSet(links)}

(***************************************************************************)
(* DemoSearchService.search.                                               *)
(***************************************************************************)
\* The error of the search: that of the intent, or of the first provider whose
\* adapter raises; offers of the providers before it are lost with it.
SearchError(settings, intent, ids, reply) ==
  LET steps == Steps(settings, ids)
      Error(i) == ProviderSearch(steps[i].source, settings, intent, reply).error
      failing == {i \in DOMAIN steps : Error(i) # NoError}
  IN  IF ~ValidIntent(intent) THEN "invalid_intent"
      ELSE IF failing = {} THEN NoError
      ELSE Error(CHOOSE i \in failing : \A j \in failing : i <= j)

\* The offers of the steps whose results may, or may not, be merged, by step.
OffersOf(settings, intent, ids, reply, merge) ==
  LET steps == Steps(settings, ids)
      Found(i) == ProviderSearch(steps[i].source, settings, intent, reply).offers
      merged == {i \in DOMAIN steps : steps[i].mergeAllowed = merge}
  IN  [place \in UNION {{i} \X DOMAIN Found(i) : i \in merged} |-> Found(place[1])[place[2]]]

\* The result of a search without an error.
SearchResult(settings, intent, ids, reply) ==
  LET priced == Rank(OffersOf(settings, intent, ids, reply, TRUE))
      links == ExternalLinks(intent, settings.links)
  IN  [priced |-> priced,
       isolated |-> OffersOf(settings, intent, ids, reply, FALSE),
       denied |-> PlanDenied(DefaultRegistry(settings), ids),
       links |-> links,
       warnings |-> SearchWarnings(links),
       bestPriceSource |-> IF priced = <<>> THEN NULL ELSE priced[1].provider,
       needsExternalConfirmation |->
         links # <<>> \/ \E i \in DOMAIN priced : priced[i].requiresLiveConfirmation]

\* The calls that leave the process: the requests to the Data API.
ApiCalls(settings, intent, ids) ==
  IF ~ValidIntent(intent) THEN {}
  ELSE {step.source : step \in {s \in ToSet(Steps(settings, ids)) :
          s.source # "fake" /\ QueryPlanned(intent)}}
=============================================================================
