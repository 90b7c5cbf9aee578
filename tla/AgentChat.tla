------------------------------ MODULE AgentChat ------------------------------
(***************************************************************************)
(* Turns of the chat agent (agent/chat.py) behind POST /agent/chat/turn,     *)
(* searches behind POST /searches and watches behind POST /watches, over one *)
(* database.  A turn parses the message, may ask the language model for a    *)
(* draft, resolves airports, and either asks back or runs its tools: a        *)
(* cached search, the date matrix, the nearby airports, a watch when one is   *)
(* wished for, the offer of a live check.  The watch and one audit row per    *)
(* tool are written in one session, which commits last.                      *)
(*                                                                         *)
(* Up to the first write the handler never yields: no other turn of the      *)
(* process runs between its steps, and it is one action here.  A step that    *)
(* raises ends the turn, as does the death of the process or a database that  *)
(* refuses; an open session is then rolled back.                             *)
(***************************************************************************)
EXTENDS SearchPipeline

CONSTANTS
  Turns,         \* requests a test run makes, of either endpoint
  ChatRequests,  \* bodies and identities of chat requests
  Searches,      \* bodies of search requests
  WatchRequests, \* bodies and identities of watch requests
  ModelReplies,  \* what the language model may answer
  ApiReplies,    \* what the Data API may answer
  SettingsSet,   \* settings the application may be started with
  Places,        \* ways to name a place; every code is one as well
  ThreeLetters,  \* places, codes among them, of three ASCII characters
  TextRank,      \* TextRank[place]: the searchable airports whose text holds it, with
                 \* the priority of the match
  Dates          \* ISO dates, as day numbers; any other text is not a date

\* What a request is shows in its kind; only a chat request has a message.
\* Passengers are counted, a search names its providers in a list.
ASSUME RequestAssumption ==
  /\ \A request \in ChatRequests :
       /\ request.kind = "chat"
       /\ request.message.route # NULL =>
            {request.message.route[1], request.message.route[2]} \subseteq Places
  /\ \A request \in Searches \cup WatchRequests :
       request.kind # "chat" /\ request.message = NULL
  /\ \A request \in ChatRequests \cup Searches : request.mix.passengers \in Int
  /\ \A request \in Searches :
       request.ids # NULL => IsFiniteSet(DOMAIN request.ids) /\ DOMAIN request.ids \subseteq Nat
  /\ \A reply \in ModelReplies :
       {reply.draft.originQuery, reply.draft.destinationQuery} \subseteq Places \cup {NULL}

\* An answer has finitely many items, in a list, and the parser lets only numbers pass.
ASSUME ReplyAssumption ==
  \A reply \in ApiReplies :
    /\ IsFiniteSet(DOMAIN reply.items) /\ DOMAIN reply.items \subseteq Nat
    /\ \A i \in DOMAIN reply.items :
         reply.items[i].wellFormed => reply.items[i].price \in Int /\ reply.items[i].id \in Int

\* A place is matched with finitely many airports.
ASSUME PlaceAssumption ==
  \A place \in Places :
    /\ IsFiniteSet(DOMAIN TextRank[place]) /\ DOMAIN TextRank[place] \subseteq Nat
    /\ \A code \in DOMAIN TextRank[place] : TextRank[place][code] \in Nat

VARIABLES
  settings,  \* read once, when the application starts
  turn,      \* what is known of each request
  watches,   \* committed watches
  audits,    \* committed audit rows
  calls      \* requests that reached the Data API: [turn, origin, destination]

vars == <<settings, turn, watches, audits, calls>>

Stages == {"idle", "received", "watching", "reading", "auditing", "answered", "failed"}

\* A turn that ran a search has one result, any other none.
NoTurn == [stage |-> "idle", request |-> NULL, draft |-> NULL, reply |-> NULL, result |-> {},
           cells |-> 0, watch |-> {}, todo |-> <<>>, rows |-> {}]

Or(value, default) == IF value = NULL THEN default ELSE value

(***************************************************************************)
(* Drafts.                                                                 *)
(***************************************************************************)
NoDraft == [originQuery |-> NULL, destinationQuery |-> NULL, origin |-> NULL,
            destination |-> NULL, departure |-> NULL, returning |-> NULL, wantsWatch |-> FALSE]

\* _parse_message: two tokens of three Latin letters win over a route in words.
ParsedDraft(message) ==
  LET codes == Len(message.tokens) >= 2
      route == ~codes /\ message.route # NULL
  IN  [originQuery |-> IF route THEN message.route[1] ELSE NULL,
       destinationQuery |-> IF route THEN message.route[2] ELSE NULL,
       origin |-> IF codes THEN message.tokens[1] ELSE NULL,
       destination |-> IF codes THEN message.tokens[2] ELSE NULL,
       departure |-> IF message.dates # <<>> THEN message.dates[1] ELSE NULL,
       returning |-> IF Len(message.dates) > 1 THEN message.dates[2] ELSE NULL,
       wantsWatch |-> message.watchWords]

\* Mutant of MergedDraft: the model has the last word on the wish.
MergedDraftModelWins(base, overlay) ==
  [field \in DOMAIN base |->
     IF field = "wantsWatch" THEN overlay.wantsWatch ELSE Or(overlay[field], base[field])]

\* _merge_drafts
MergedDraft(base, overlay) ==
  [field \in DOMAIN base |->
     IF field = "wantsWatch" THEN overlay.wantsWatch \/ base.wantsWatch
     ELSE Or(overlay[field], base[field])]

AllowedFields ==
  {"origin_query", "destination_query", "departure_date", "return_date", "date_hint",
   "wants_watch", "tool_plan"}

AllowedToolKinds ==
  {"resolve_airports", "build_date_matrix", "find_nearby_airports", "search_cached_offers",
   "propose_watch", "clarify_airport_choice", "clarify_travel_dates", "offer_live_check"}

\* _tool_plan_is_safe: a live check may only be planned as the user's own action.
ToolPlanIsSafe(plan) ==
  \A step \in plan : /\ step.kind \in AllowedToolKinds
                     /\ step.kind = "offer_live_check" => step.requiresUserAction

\* OpenAIResponsesDraftValidator.validate_payload
PayloadAccepted(payload) ==
  payload.fields \subseteq AllowedFields /\ ToolPlanIsSafe(payload.plan)

\* extract_intent: no adapter, a failed request and an answer that is refused
\* all leave the parsed draft alone.
ModelDraft(reply) ==
  IF reply.kind = "payload" /\ PayloadAccepted(reply) THEN reply.draft ELSE NoDraft

Draft(request, reply) == MergedDraft(ParsedDraft(request.message), ModelDraft(reply))

(***************************************************************************)
(* Airports.                                                               *)
(***************************************************************************)
\* AirportService.autocomplete: the matches by priority, then by code.
Autocomplete(place, limit) ==
  LET rank == TextRank[place]
      Sooner(one, other) == \/ rank[one] < rank[other]
                            \/ rank[one] = rank[other] /\ one < other
      Position(code) == Cardinality({other \in DOMAIN rank : Sooner(other, code)}) + 1
      found == Cardinality(DOMAIN rank)
  IN  [n \in 1..(IF found < limit THEN found ELSE limit) |->
         CHOOSE code \in DOMAIN rank : Position(code) = n]

\* _resolve_options: three ASCII characters are taken for a code.
Options(place) ==
  IF place = NULL THEN <<>>
  ELSE Autocomplete(place, IF place \in ThreeLetters THEN 1 ELSE 6)

\* Mutant of SelectedCode: the best match is taken without asking.
SelectedCodeBest(selected, parsed, options) ==
  IF selected # NULL THEN selected
  ELSE IF parsed # NULL THEN parsed
  ELSE IF options # <<>> THEN options[1]
  ELSE NULL

\* _selected_code
SelectedCode(selected, parsed, options) ==
  IF selected # NULL THEN selected
  ELSE IF parsed # NULL THEN parsed
  ELSE IF Len(options) = 1 THEN options[1]
  ELSE NULL

\* The slots a turn works with: _selected_code for both ends, dates.
Slots(request, draft) ==
  LET originPlace == Or(request.selectedOrigin, Or(draft.origin, draft.originQuery))
      destinationPlace ==
        Or(request.selectedDestination, Or(draft.destination, draft.destinationQuery))
  IN  [origin |-> SelectedCode(request.selectedOrigin, draft.origin, Options(originPlace)),
       destination |-> SelectedCode(request.selectedDestination, draft.destination,
                                    Options(destinationPlace)),
       departure |-> Or(request.departure, draft.departure),
       returning |-> Or(request.returning, draft.returning)]

\* _missing_slots
Complete(slots) == NULL \notin {slots.origin, slots.destination, slots.departure}

(***************************************************************************)
(* Tools.                                                                  *)
(***************************************************************************)
\* A turn derives the type of the trip from its dates, a search may state it.
Intent(request, slots) ==
  [origin |-> slots.origin, destination |-> slots.destination, departure |-> slots.departure,
   returning |-> slots.returning, mix |-> request.mix, currency |-> request.currency,
   tripType |-> IF request.kind # "chat" THEN request.tripType
                ELSE IF slots.returning # NULL THEN "round_trip" ELSE "one_way"]

\* DateMatrixPlanner.plan: the pairs of days around the two dates that leave
\* a stay, and one no shorter and no longer than asked.
DateMatrix(departure, returning, flexibility, minStay, maxStay) ==
  LET Around(day) == (day - flexibility)..(day + flexibility)
      StayAllowed(days) == /\ days >= 0
                           /\ minStay # NULL => days >= minStay
                           /\ maxStay # NULL => days <= maxStay
  IN  IF returning = NULL THEN {<<d, NULL>> : d \in Around(departure)}
      ELSE {cell \in Around(departure) \X Around(returning) : StayAllowed(cell[2] - cell[1])}

\* date.fromisoformat takes both dates, once the search was made.
DatesReadable(slots) ==
  slots.departure \in Dates /\ slots.returning \in Dates \cup {NULL}

AuditRow(t, tool, request, slots) ==
  [turn |-> t, tool |-> tool, household |-> request.household, user |-> request.user,
   origin |-> slots.origin, destination |-> slots.destination]

\* _create_watch_if_allowed: somebody must be there to own the watch.
WatchAllowed(request) == NULL \notin {request.household, request.user}

\* The tools of a complete turn, in the order in which they are audited.
AuditedTools(watching) ==
  <<"search_cached_offers", "build_date_matrix", "find_nearby_airports">>
    \o (IF watching THEN <<"create_watch">> ELSE <<>>) \o <<"offer_live_check">>

TurnSlots(t) == Slots(turn[t].request, turn[t].draft)
TurnIntent(t) == Intent(turn[t].request, TurnSlots(t))

(***************************************************************************)
(* Requests.                                                               *)
(***************************************************************************)
Init ==
  /\ settings \in SettingsSet
  /\ turn = [t \in Turns |-> NoTurn]
  /\ watches = {}
  /\ audits = {}
  /\ calls = {}

Step(t, from, to) == turn[t].stage = from /\ turn' = [turn EXCEPT ![t].stage = to]

\* POST /agent/chat/turn, up to the model's answer.
Receive(t) ==
  /\ turn[t].stage = "idle"
  /\ \E request \in ChatRequests :
       turn' = [turn EXCEPT ![t].stage = "received", ![t].request = request]
  /\ UNCHANGED <<settings, watches, audits, calls>>

\* response.json() of an answer that is not JSON raises out of extract_intent.
ModelRaises(t) ==
  /\ settings.model
  /\ \E reply \in ModelReplies : reply.kind = "not_json"
  /\ Step(t, "received", "failed")
  /\ UNCHANGED <<settings, watches, audits, calls>>

\* The drafts the handler may go on with: without an adapter, the parsed one.
Drafts(request) ==
  IF settings.model
    THEN {Draft(request, reply) : reply \in {r \in ModelReplies : r.kind # "not_json"}}
    ELSE {ParsedDraft(request.message)}

\* Something is missing: the turn asks back, its session commits nothing.
AskBack(t) ==
  /\ turn[t].stage = "received"
  /\ \E draft \in Drafts(turn[t].request) :
       /\ ~Complete(Slots(turn[t].request, draft))
       /\ turn' = [turn EXCEPT ![t].stage = "answered", ![t].draft = draft]
  /\ UNCHANGED <<settings, watches, audits, calls>>

CallsOf(t, intent, ids) ==
  {[turn |-> t, origin |-> intent.origin, destination |-> intent.destination] :
     source \in ApiCalls(settings, intent, ids)}

\* The search raises, or the dates do after it: the turn is over, the call made.
ToolsRaise(t) ==
  /\ turn[t].stage = "received"
  /\ \E draft \in Drafts(turn[t].request), reply \in ApiReplies :
       LET slots == Slots(turn[t].request, draft)
           intent == Intent(turn[t].request, slots)
       IN  /\ Complete(slots)
           /\ \/ SearchError(settings, intent, NULL, reply) # NoError
              \/ ~DatesReadable(slots)
           /\ turn' = [turn EXCEPT ![t].stage = "failed", ![t].draft = draft]
           /\ calls' = calls \cup CallsOf(t, intent, NULL)
  /\ UNCHANGED <<settings, watches, audits>>

\* Search, date matrix and nearby airports; then the watch, or the audit rows.
RunTools(t) ==
  /\ turn[t].stage = "received"
  /\ \E draft \in Drafts(turn[t].request), reply \in ApiReplies :
       LET slots == Slots(turn[t].request, draft)
           intent == Intent(turn[t].request, slots)
           watching == draft.wantsWatch /\ WatchAllowed(turn[t].request)
       IN  /\ Complete(slots)
           /\ SearchError(settings, intent, NULL, reply) = NoError
           /\ DatesReadable(slots)
           /\ turn' = [turn EXCEPT
                ![t].stage = IF watching THEN "watching" ELSE "auditing",
                ![t].draft = draft, ![t].reply = reply,
                ![t].result = {SearchResult(settings, intent, NULL, reply)},
                ![t].cells = Cardinality(DateMatrix(slots.departure, slots.returning, 3,
                                                    NULL, NULL)),
                ![t].todo = IF watching THEN <<>> ELSE AuditedTools(FALSE)]
           /\ calls' = calls \cup CallsOf(t, intent, NULL)
  /\ UNCHANGED <<settings, watches, audits>>

\* POST /searches: no session; the body's ids choose the providers.
Search(t) ==
  /\ turn[t].stage = "idle"
  /\ \E request \in Searches, reply \in ApiReplies :
       LET intent == Intent(request, Slots(request, NoDraft))
           error == SearchError(settings, intent, request.ids, reply)
       IN  /\ turn' = [turn EXCEPT ![t].request = request, ![t].draft = NoDraft,
                ![t].reply = reply,
                ![t].stage = IF error = NoError THEN "answered" ELSE "failed",
                ![t].result = IF error = NoError
                                THEN {SearchResult(settings, intent, request.ids, reply)}
                                ELSE {}]
           /\ calls' = calls \cup CallsOf(t, intent, request.ids)
  /\ UNCHANGED <<settings, watches, audits>>

WatchRow(t) ==
  [turn |-> t, household |-> turn[t].request.household, user |-> turn[t].request.user,
   origin |-> TurnSlots(t).origin, destination |-> TurnSlots(t).destination,
   departure |-> TurnSlots(t).departure, returning |-> TurnSlots(t).returning]

\* Mutant of WriteWatch: the watch service commits what it wrote.
WriteWatchCommitted(t) ==
  /\ turn[t].stage = "watching"
  /\ turn' = [turn EXCEPT ![t].stage = "reading", ![t].watch = {WatchRow(t)}]
  /\ watches' = watches \cup {WatchRow(t)}
  /\ UNCHANGED <<settings, audits, calls>>

\* POST /watches: the same service and repository in a session of its own, no
\* audit row; 401 without both identities.
CreateWatch(t) ==
  /\ turn[t].stage = "idle"
  /\ \E request \in WatchRequests :
       turn' = [turn EXCEPT ![t].request = request, ![t].draft = NoDraft,
                ![t].stage = IF WatchAllowed(request) THEN "watching" ELSE "failed"]
  /\ UNCHANGED <<settings, watches, audits, calls>>

\* HouseholdWatchRepository.add_watch, in the session of the turn.
WriteWatch(t) ==
  /\ turn[t].stage = "watching"
  /\ turn' = [turn EXCEPT ![t].stage = "reading", ![t].watch = {WatchRow(t)}]
  /\ UNCHANGED <<settings, watches, audits, calls>>

\* get_watch: the session sees its own row; the answer and its audits follow.
ReadWatch(t) ==
  /\ turn[t].stage = "reading"
  /\ \E row \in watches \cup turn[t].watch :
       row.turn = t /\ row.household = turn[t].request.household
  /\ turn' = [turn EXCEPT ![t].stage = "auditing",
       ![t].todo = IF turn[t].request.kind = "chat" THEN AuditedTools(TRUE) ELSE <<>>]
  /\ UNCHANGED <<settings, watches, audits, calls>>

\* Mutant of WriteAudit: every row is committed as soon as it is written.
WriteAuditCommitted(t) ==
  /\ turn[t].stage = "auditing"
  /\ turn[t].todo # <<>>
  /\ turn' = [turn EXCEPT ![t].todo = Tail(@)]
  /\ audits' = audits \cup {AuditRow(t, Head(turn[t].todo), turn[t].request, TurnSlots(t))}
  /\ UNCHANGED <<settings, watches, calls>>

\* AgentAuditRepository.add_event, for the next event of the response.
WriteAudit(t) ==
  /\ turn[t].stage = "auditing"
  /\ turn[t].todo # <<>>
  /\ turn' = [turn EXCEPT ![t].todo = Tail(@),
       ![t].rows = @ \cup {AuditRow(t, Head(turn[t].todo), turn[t].request, TurnSlots(t))}]
  /\ UNCHANGED <<settings, watches, audits, calls>>

\* session.commit, after the last event.
Commit(t) ==
  /\ turn[t].todo = <<>>
  /\ Step(t, "auditing", "answered")
  /\ watches' = watches \cup turn[t].watch
  /\ audits' = audits \cup turn[t].rows
  /\ UNCHANGED <<settings, calls>>

\* The process dies or the database refuses: nothing of the session is kept.
Abort(t) ==
  /\ turn[t].stage \in Stages \ {"idle", "answered", "failed"}
  /\ turn' = [turn EXCEPT ![t].stage = "failed", ![t].watch = {}, ![t].rows = {},
                          ![t].todo = <<>>]
  /\ UNCHANGED <<settings, watches, audits, calls>>

Next ==
  \E t \in Turns :
    \/ Receive(t) \/ ModelRaises(t) \/ AskBack(t) \/ ToolsRaise(t) \/ RunTools(t)
    \/ Search(t) \/ CreateWatch(t) \/ WriteWatch(t) \/ ReadWatch(t) \/ WriteAudit(t) \/ Commit(t) \/ Abort(t)

Spec == Init /\ [][Next]_vars

(***************************************************************************)
(* Properties.                                                             *)
(***************************************************************************)
Answered(t) == turn[t].stage = "answered"
Searched(t) == Answered(t) /\ turn[t].result # {}
RowsOf(t) == {row \in audits : row.turn = t}

\* A watch the agent created and its audit row exist together or not at all,
\* and name the same owner and route: no order of crashes, refusals and other
\* turns leaves a watch nobody can account for, or an account of no watch.
WatchesAreAudited ==
  /\ \A watch \in {w \in watches : turn[w.turn].request.kind = "chat"} : \E row \in audits :
       /\ row.turn = watch.turn /\ row.tool = "create_watch"
       /\ <<row.household, row.user>> = <<watch.household, watch.user>>
       /\ <<row.origin, row.destination>> = <<watch.origin, watch.destination>>
  /\ \A row \in audits : row.tool = "create_watch" =>
       \E watch \in watches : watch.turn = row.turn

\* A turn whose message asks to be kept informed, from a user and household
\* that are known, does not end with tools run and no watch, whatever the
\* model's draft says of the wish.
WishIsHonoured ==
  \A t \in Turns :
    /\ Searched(t)
    /\ turn[t].request.message # NULL
    /\ turn[t].request.message.watchWords
    /\ WatchAllowed(turn[t].request)
    => \E watch \in watches : watch.turn = t

\* The first of the suggestions for a place.
BestFit(place, code) ==
  LET rank == TextRank[place]
  IN  /\ code \in DOMAIN rank
      /\ \A other \in DOMAIN rank :
           rank[code] < rank[other] \/ (rank[code] = rank[other] /\ code <= other)

\* The Data API is only asked about places somebody named: the user's choice,
\* a code of the message, or the one airport that fits the words.  The code has
\* one exception, which the documentation does not know: words of three letters
\* are taken for a code and, where several airports fit, for the best of them.
NeverGuesses ==
  \A call \in calls :
    LET request == turn[call.turn].request
        draft == turn[call.turn].draft
        Named(code, selected, parsed, query) ==
          \/ code = selected
          \/ selected = NULL /\ code = parsed
          \/ /\ selected = NULL /\ parsed = NULL /\ query # NULL
             /\ BestFit(query, code)
             /\ DOMAIN TextRank[query] = {code} \/ query \in ThreeLetters
    IN  /\ Named(call.origin, request.selectedOrigin, draft.origin, draft.originQuery)
        /\ Named(call.destination, request.selectedDestination, draft.destination,
                 draft.destinationQuery)

\* The source a result calls the best is the cheapest, seat for seat, of those
\* that answered: the penalties of the ranking, the order of the providers and
\* prices of one seat next to prices of a party never turn it round.
BestPriceIsCheapest ==
  \A t \in {u \in Turns : Searched(u)} : \A result \in turn[t].result :
    LET route == <<TurnIntent(t).origin, TurnIntent(t).destination>>
        sources == {offer.provider : offer \in ToSet(result.priced)}
        Fares(source) == IF source = "fake" THEN {FakeFare[route]}
                         ELSE {item.price : item \in ToSet(turn[t].reply.items)}
    IN  \A source \in sources : \A fare \in Fares(source) :
          \E best \in Fares(result.bestPriceSource) :
            best <= fare

\* A chat turn leaves its whole trail or none: an answered turn that ran its
\* tools has a row for each of them, one more exactly when it made a watch; a
\* turn that asked back, failed or is still running has none.
TrailIsWhole ==
  \A t \in Turns :
    IF Searched(t) /\ turn[t].request.kind = "chat"
      THEN {row.tool : row \in RowsOf(t)} =
             ToSet(AuditedTools(\E watch \in watches : watch.turn = t))
      ELSE RowsOf(t) = {}
=============================================================================
