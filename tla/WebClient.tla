----------------------------- MODULE WebClient -----------------------------
(***************************************************************************)
(* The script of the page served at /: one search form, the search it       *)
(* submits, live checks of the results and turns of the agent chat, which   *)
(* all write to the same form and the same lists.                           *)
(*                                                                         *)
(* The script runs from one await to the next without interruption; between *)
(* two awaits any other handler may run.  An action is what runs between    *)
(* two awaits, together with what the server did to let it run.  The server *)
(* is taken at its promise: it accepts a live observation only for the user *)
(* and the search its grant was issued for.  Texts, labels and the status   *)
(* line are left out.                                                       *)
(***************************************************************************)
EXTENDS Naturals, FiniteSets

CONSTANTS
  Codes,        \* airport codes
  Dates,        \* dates a user may enter
  Page,         \* the fields of the form as the page is served
  Bodies,       \* answers of the agent endpoint: extracted, missing, options
  Checks,       \* live checks in flight at once
  Turns,        \* agent turns in flight at once
  MaxActs,      \* bound: what the user does, in all
  NULL          \* null

Roles == {"origin", "destination"}
Fields == Roles \cup {"departure_date", "return_date"}
Required == Fields \ {"return_date"}
Empty == ""

FormValues == [Fields -> Codes \cup Dates \cup {Empty}]

\* What the agent endpoint answers: a departure date is missing exactly when
\* it was not extracted.
ASSUME ClientAssumption ==
  /\ Page \in FormValues /\ \A f \in Required : Page[f] # Empty
  /\ \A b \in Bodies :
       /\ b.extracted \in FormValues
       /\ b.options \in [Roles -> SUBSET Codes]
       /\ "departure_date" \in b.missing <=> b.extracted.departure_date = Empty
  /\ MaxActs \in Nat
  /\ NULL \notin Turns

VARIABLES
  form,       \* the fields of #search-form
  user,       \* the identity kept in the local storage
  disabled,   \* submitButton.disabled
  last,       \* lastSearchPayload
  searching,  \* searches whose answer is awaited
  results,    \* resultsList: nothing, an error, or the results of a search
  denials,    \* the search whose denials denialsList shows
  live,       \* liveList: nothing, a message or an observation
  source,     \* browserSources: has an enabled source with permission
  granting,   \* the same in the server's catalog, now
  check,      \* the live checks in flight
  turn,       \* TRUE for an agent turn in flight
  choices,    \* airportChoiceList: the codes offered for each role
  server,     \* the live observations the server has made
  writer,     \* history: who wrote each field of the form last
  chooser,    \* history: the turn that rendered the choices
  acts        \* history: how often the user acted

vars == <<form, user, disabled, last, searching, results, denials, live, source,
          granting, check, turn, choices, server, writer, chooser, acts>>
formState == <<form, writer>>
searchState == <<disabled, last, searching, results, denials>>
liveState == <<live, check, server>>
agentState == <<turn, choices, chooser>>
catalog == <<source, granting>>

Idle == [at |-> "idle"]

Init ==
  /\ form = Page /\ writer = [f \in Fields |-> "page"] /\ user = 0
  /\ disabled = FALSE /\ last = NULL /\ searching = {}
  /\ results = [kind |-> "none"] /\ denials = NULL /\ live = [kind |-> "none"]
  /\ source = FALSE /\ granting \in BOOLEAN
  /\ check = [c \in Checks |-> Idle]
  /\ turn = [t \in Turns |-> FALSE]
  /\ choices = [r \in Roles |-> {}] /\ chooser = NULL
  /\ server = {}
  /\ acts = 0

UserActs ==
  /\ acts < MaxActs
  /\ acts' = acts + 1

-----------------------------------------------------------------------------
(* The form.                                                                *)

\* buildSearchPayload: the form as it stands.
Payload == form

SetField(f, value, who) ==
  /\ form' = [form EXCEPT ![f] = value]
  /\ writer' = [writer EXCEPT ![f] = who]

Edit(f, value) ==
  /\ UserActs
  /\ SetField(f, value, "user")
  /\ UNCHANGED <<user, searchState, liveState, catalog, agentState>>

\* A click on a choice rendered by renderAirportChoices.
Choose(r, code) ==
  /\ UserActs
  /\ code \in choices[r]
  /\ SetField(r, code, "user")
  /\ UNCHANGED <<user, searchState, liveState, catalog, agentState>>

\* The user clears the local storage; the next request has a new identity.
ForgetIdentity ==
  /\ UserActs
  /\ user' = user + 1
  /\ UNCHANGED <<formState, searchState, liveState, catalog, agentState>>

\* loadBrowserSources, once while the page loads.
LoadSources ==
  /\ ~source /\ granting /\ source' = TRUE
  /\ UNCHANGED <<formState, user, searchState, liveState, granting, agentState, acts>>

\* The permission of the source expires or is revoked; the page keeps its copy.
Revoke ==
  /\ granting /\ granting' = FALSE
  /\ UNCHANGED <<formState, user, searchState, liveState, source, agentState, acts>>

-----------------------------------------------------------------------------
(* Searches.                                                                *)

\* Mutant of DisabledWhileSearching: the button stays enabled.
NeverDisabled == FALSE

\* runSearch disables the button for as long as it runs.
DisabledWhileSearching == TRUE

\* runSearch up to its await.  The browser submits only with the required
\* fields filled in and the button enabled.
Submit ==
  /\ \A f \in Required : form[f] # Empty
  /\ ~disabled /\ disabled' = DisabledWhileSearching
  /\ UserActs
  /\ last' = Payload
  /\ searching' = searching \cup {[n |-> acts, intent |-> Payload]}
  /\ check' = [c \in Checks |-> IF check[c] = Idle THEN Idle
                                ELSE [check[c] EXCEPT !.overlapped = TRUE]]
  /\ UNCHANGED <<formState, user, results, denials, live, server, catalog, agentState>>

\* Mutant of RenderResults: the live list keeps what it shows.
RenderResultsKeepLive(intent, priced) ==
  /\ results' = [kind |-> "offers", intent |-> intent, priced |-> priced]
  /\ denials' = intent
  /\ live' = live

\* renderResults: all three lists are replaced.
RenderResults(intent, priced) ==
  /\ results' = [kind |-> "offers", intent |-> intent, priced |-> priced]
  /\ denials' = intent
  /\ live' = [kind |-> "none"]

\* runSearch after an answer; priced when it has offers with a live-check button.
SearchAnswered(s, priced) ==
  /\ s \in searching /\ searching' = searching \ {s}
  /\ RenderResults(s.intent, priced)
  /\ disabled' = FALSE
  /\ UNCHANGED <<formState, user, last, check, server, catalog, agentState, acts>>

\* Mutant of SearchFailed: the button is enabled only after an answer.
SearchFailedDisabled(s) ==
  /\ s \in searching /\ searching' = searching \ {s}
  /\ results' = [kind |-> "error"]
  /\ disabled' = TRUE
  /\ UNCHANGED <<formState, user, last, denials, liveState, catalog, agentState, acts>>

\* runSearch after an error: only resultsList is replaced.
SearchFailed(s) ==
  /\ s \in searching /\ searching' = searching \ {s}
  /\ results' = [kind |-> "error"]
  /\ disabled' = FALSE
  /\ UNCHANGED <<formState, user, last, denials, liveState, catalog, agentState, acts>>

-----------------------------------------------------------------------------
(* Live checks.                                                             *)

LiveMessage == [kind |-> "message"]

\* runLiveCheck when no source is known to be enabled and permitted.
ClickWithoutSource ==
  /\ results.kind = "offers" /\ results.priced /\ last # NULL /\ ~source
  /\ UserActs
  /\ live' = LiveMessage
  /\ UNCHANGED <<formState, user, searchState, check, server, catalog, agentState>>

\* runLiveCheck up to its first await: a grant is asked for lastSearchPayload,
\* which is another search than the one shown while a new search runs.
Click(c) ==
  /\ results.kind = "offers" /\ results.priced /\ last # NULL /\ source
  /\ check[c] = Idle
  /\ UserActs
  /\ check' = [check EXCEPT ![c] =
       [at |-> "granting", intent |-> last, user |-> user, grant |-> NULL,
        observation |-> NULL, clicked |-> results.intent,
        duringSearch |-> searching # {}, overlapped |-> searching # {}]]
  /\ UNCHANGED <<formState, user, searchState, live, server, catalog, agentState>>

\* The server issues the grant; the page sends the create request for
\* lastSearchPayload as it is by now, with the identity it has by now.
Granted(c) ==
  /\ check[c].at = "granting" /\ granting
  /\ check' = [check EXCEPT ![c].at = "creating", ![c].intent = last, ![c].user = user,
                            ![c].grant = [intent |-> check[c].intent, user |-> check[c].user]]
  /\ UNCHANGED <<formState, user, searchState, live, server, catalog, agentState, acts>>

\* Mutant of GrantFits: the server does not compare the search.
GrantFitsUser(grant, request) == grant.user = request.user

\* The server's promise: the grant was issued for this user and this search.
GrantFits(grant, request) ==
  /\ grant.user = request.user
  /\ grant.intent = request.intent

\* The server makes the observation; its answer reaches the page or is lost.
Created(c, lost) ==
  /\ check[c].at = "creating" /\ granting
  /\ GrantFits(check[c].grant, check[c])
  /\ LET made == [id |-> Cardinality(server), intent |-> check[c].intent, user |-> check[c].user,
                  clicked |-> check[c].clicked, duringSearch |-> check[c].duringSearch]
     IN  /\ server' = server \cup {made}
         /\ check' = [check EXCEPT ![c] =
              IF lost THEN Idle ELSE [@ EXCEPT !.at = "reading", !.observation = made, !.user = user]]
  /\ live' = IF lost THEN LiveMessage ELSE live
  /\ UNCHANGED <<formState, user, searchState, catalog, agentState, acts>>

\* renderLiveObservation of the caller's own observation.
Observed(c) ==
  /\ check[c].at = "reading" /\ check[c].observation.user = check[c].user
  /\ live' = [kind |-> "observation", intent |-> check[c].observation.intent,
              overlapped |-> check[c].overlapped]
  /\ check' = [check EXCEPT ![c] = Idle]
  /\ UNCHANGED <<formState, user, searchState, server, catalog, agentState, acts>>

\* Any of the three requests is refused or fails on the way.
CheckFailed(c) ==
  /\ check[c] # Idle
  /\ check' = [check EXCEPT ![c] = Idle]
  /\ live' = LiveMessage
  /\ UNCHANGED <<formState, user, searchState, server, catalog, agentState, acts>>

-----------------------------------------------------------------------------
(* The agent chat.                                                          *)

\* requestAgentChat up to its await.
Ask(t) ==
  /\ ~turn[t] /\ UserActs
  /\ turn' = [turn EXCEPT ![t] = TRUE]
  /\ UNCHANGED <<formState, user, searchState, liveState, catalog, choices, chooser>>

\* Mutant of Synced: a field is emptied with null.
SyncedNull(body, f) ==
  IF body.extracted[f] # Empty THEN body.extracted[f]
  ELSE IF IF f \in Roles THEN body.options[f] # {} ELSE "departure_date" \in body.missing
       THEN NULL
  ELSE form[f]

\* Mutant of Synced: an airport that is ambiguous now keeps its old code.
SyncedKeepsAirports(body, f) ==
  IF body.extracted[f] # Empty THEN body.extracted[f]
  ELSE IF f \notin Roles /\ "departure_date" \in body.missing THEN Empty
  ELSE form[f]

\* syncExtractedRoute: a field is overwritten, emptied or left alone.
Synced(body, f) ==
  IF body.extracted[f] # Empty THEN body.extracted[f]
  ELSE IF IF f \in Roles THEN body.options[f] # {} ELSE "departure_date" \in body.missing
       THEN Empty
  ELSE form[f]

\* requestAgentChat after an answer, whatever was edited or answered meanwhile.
Answered(t, body) ==
  /\ turn[t] /\ turn' = [turn EXCEPT ![t] = FALSE]
  /\ choices' = body.options /\ chooser' = t
  /\ form' = [f \in Fields |-> Synced(body, f)]
  /\ writer' = [f \in Fields |-> IF body.extracted[f] # Empty THEN t ELSE writer[f]]
  /\ UNCHANGED <<user, searchState, liveState, catalog, acts>>

AnswerFailed(t) ==
  /\ turn[t] /\ turn' = [turn EXCEPT ![t] = FALSE]
  /\ UNCHANGED <<formState, user, searchState, liveState, catalog, choices, chooser, acts>>

-----------------------------------------------------------------------------
SearchDone == \E s \in searching : SearchFailed(s) \/ \E priced \in BOOLEAN : SearchAnswered(s, priced)

CheckMoves(c) ==
  \/ Granted(c) \/ Observed(c) \/ CheckFailed(c)
  \/ \E lost \in BOOLEAN : Created(c, lost)

TurnDone(t) == AnswerFailed(t) \/ \E body \in Bodies : Answered(t, body)

Next ==
  \/ \E r \in Roles, code \in Codes : Edit(r, code) \/ Choose(r, code)
  \/ \E f \in Fields \ Roles, d \in Dates \cup {Empty} : Edit(f, d)
  \/ ForgetIdentity \/ LoadSources \/ Revoke
  \/ Submit \/ SearchDone
  \/ ClickWithoutSource
  \/ \E c \in Checks : Click(c) \/ CheckMoves(c)
  \/ \E t \in Turns : Ask(t) \/ TurnDone(t)

Spec == Init /\ [][Next]_vars

\* The browser settles every request it sent: with an answer or an error.
FairSpec ==
  /\ Spec /\ WF_vars(SearchDone)
  /\ \A c \in Checks : WF_vars(CheckMoves(c))
  /\ \A t \in Turns : WF_vars(TurnDone(t))

-----------------------------------------------------------------------------
TypeOK ==
  /\ form \in FormValues /\ user \in Nat /\ disabled \in BOOLEAN
  /\ last \in FormValues \cup {NULL}
  /\ \A s \in searching : s.n \in Nat /\ s.intent \in FormValues
  /\ source \in BOOLEAN /\ granting \in BOOLEAN
  /\ turn \in [Turns -> BOOLEAN]
  /\ choices \in [Roles -> SUBSET Codes]
  /\ writer \in [Fields -> {"page", "user"} \cup Turns]

\* With no search running, the results and denials shown are those of the
\* search the next live check would be made for: answers cannot overtake each
\* other, since runSearch keeps the submit button disabled.
ResultsAreOfLastSearch ==
  searching = {} /\ results.kind = "offers" =>
    results.intent = last /\ denials = last

\* runLiveCheck reads lastSearchPayload before and after an await, so a search
\* submitted in between changes what it asks for.  An observation is still of
\* the search whose results were clicked, unless another ran at the click.
ObservedAsClicked ==
  \A o \in server : o.intent = o.clicked \/ o.duringSearch

\* The observation shown below a search's results is of that search, unless
\* the live check and another search ran at the same time.
ShownTogether ==
  results.kind = "offers" /\ live.kind = "observation" =>
    results.intent = live.intent \/ live.overlapped

\* While codes are offered for an airport, its field holds no code an earlier
\* turn or the page put there: it is empty, as the user left it, or as the turn
\* that made the offer set it.  Turns may be answered in any order.
OffersMatchForm ==
  \A r \in Roles : choices[r] # {} =>
    form[r] = Empty \/ writer[r] \in {"user", chooser}

\* The submit button comes back, and no live check stays on its way.
PageSettles ==
  /\ disabled ~> ~disabled
  /\ \A c \in Checks : check[c] # Idle ~> check[c] = Idle
=============================================================================
