--------------------------- MODULE WebClientProofs --------------------------
(***************************************************************************)
(* What the page's script guarantees for every number of live checks, agent *)
(* turns and user actions in flight at once.                                *)
(*                                                                         *)
(* None of the properties about searches and live checks is inductive: each *)
(* speaks of what is shown, and what is shown next was fixed by requests     *)
(* sent steps before.  SearchInv adds that the disabled button leaves one    *)
(* search in flight at most, the last one; CheckInv adds what the intent,    *)
(* the grant and the observation a live check carries still have to do with *)
(* the results that were clicked.                                           *)
(***************************************************************************)
EXTENDS WebClient, FiniteSetTheorems, TLAPS

Values == Codes \cup Dates \cup {Empty}

NothingShown == [kind : {"none", "error", "message"}]
Offers == [kind : {"offers"}, intent : FormValues, priced : BOOLEAN]
LiveOffer == [kind : {"observation"}, intent : FormValues, overlapped : BOOLEAN]

\* A grant, an observation the server made, and a live check on its way.
GrantOf == [intent : FormValues, user : Nat]
Made ==
  [id : Nat, intent : FormValues, user : Nat, clicked : FormValues,
   duringSearch : BOOLEAN]
Granting ==
  [at : {"granting"}, intent : FormValues, user : Nat, grant : {NULL},
   observation : {NULL}, clicked : FormValues, duringSearch : BOOLEAN,
   overlapped : BOOLEAN]
Creating ==
  [at : {"creating"}, intent : FormValues, user : Nat, grant : GrantOf,
   observation : {NULL}, clicked : FormValues, duringSearch : BOOLEAN,
   overlapped : BOOLEAN]
Reading ==
  [at : {"reading"}, intent : FormValues, user : Nat, grant : GrantOf,
   observation : Made, clicked : FormValues, duringSearch : BOOLEAN,
   overlapped : BOOLEAN]
LiveCheck == Granting \cup Creating \cup Reading

\* The page has kept the last search from the first submit on.
TypeInv ==
  /\ TypeOK
  /\ acts \in Nat /\ IsFiniteSet(server)
  /\ results \in NothingShown \cup Offers
  /\ live \in NothingShown \cup LiveOffer
  /\ check \in [Checks -> {Idle} \cup LiveCheck]
  /\ \A c \in Checks : check[c] # Idle => last \in FormValues

\* One search in flight at most, the last one; the results and the denials
\* shown go together, and once no search runs they are the last search's.
SearchInv ==
  /\ searching # {} => disabled
  /\ \A s, t \in searching : s = t
  /\ \A s \in searching : s.intent = last
  /\ results.kind = "offers" => results.intent = denials
  /\ searching = {} /\ results.kind = "offers" => results.intent = last

\* A live check that met no search still asks for what was clicked and shown;
\* one that met a search after the click holds a grant for what was clicked,
\* and the server has compared the two before it made the observation.
CheckOK(k) ==
  /\ ~k.overlapped =>
       /\ searching = {} /\ results.kind = "offers" /\ results.intent = last
       /\ k.intent = last
  /\ k.at = "granting" => k.intent = k.clicked \/ k.duringSearch
  /\ k.at = "creating" => k.grant.intent = k.clicked \/ k.duringSearch
  /\ k.at = "reading" => k.observation.intent = k.intent

CheckInv ==
  /\ \A c \in Checks : check[c] # Idle => CheckOK(check[c])
  /\ ObservedAsClicked
  /\ ShownTogether

ClientInv == SearchInv /\ CheckInv /\ OffersMatchForm

-----------------------------------------------------------------------------
(* Types.                                                                   *)

LEMMA FieldFacts ==
  /\ FormValues = [Fields -> Values]
  /\ Roles \subseteq Fields
  /\ \A b \in Bodies : /\ b.extracted \in FormValues
                       /\ b.options \in [Roles -> SUBSET Codes]
BY ClientAssumption DEF FormValues, Values, Fields

\* A field set from the page's own controls keeps the form a form.
LEMMA SetFieldType ==
  ASSUME TypeOK, NEW f \in Fields, NEW value \in Values, SetField(f, value, "user")
  PROVE  form' \in FormValues /\ writer' \in [Fields -> {"page", "user"} \cup Turns]
BY FieldFacts DEF SetField, TypeOK

\* Everything the live checks are typed by is left alone.
LEMMA TypeFrame ==
  ASSUME TypeInv, UNCHANGED <<last, results, live, check, server>>, acts' \in Nat,
         TypeOK'
  PROVE  TypeInv'
BY DEF TypeInv

\* What the user does to the form.
LEMMA EditType ==
  ASSUME TypeInv, NEW f \in Fields, NEW value \in Values,
         \/ Edit(f, value)
         \/ f \in Roles /\ Choose(f, value)
  PROVE  TypeInv'
<1>1. /\ form' \in FormValues /\ writer' \in [Fields -> {"page", "user"} \cup Turns]
      /\ UNCHANGED <<user, searchState, liveState, catalog, agentState>>
  BY SetFieldType DEF TypeInv, Edit, Choose
<1>2. acts' \in Nat
  BY DEF TypeInv, Edit, Choose, UserActs
<1>3. TypeOK'
  BY <1>1 DEF TypeInv, TypeOK, searchState, catalog, agentState
<1>4. QED BY <1>1, <1>2, <1>3, TypeFrame DEF searchState, liveState

\* The identity and the catalog.
LEMMA SettingType ==
  ASSUME TypeInv, ForgetIdentity \/ LoadSources \/ Revoke
  PROVE  TypeInv'
<1>1. UNCHANGED <<formState, searchState, liveState, agentState>> /\ acts' \in Nat
  BY DEF TypeInv, ForgetIdentity, LoadSources, Revoke, UserActs
<1>2. user' \in Nat /\ source' \in BOOLEAN /\ granting' \in BOOLEAN
  <2>1. CASE ForgetIdentity
    BY <2>1 DEF TypeInv, TypeOK, ForgetIdentity, catalog
  <2>2. CASE LoadSources
    BY <2>2 DEF TypeInv, TypeOK, LoadSources
  <2>3. CASE Revoke
    BY <2>3 DEF TypeInv, TypeOK, Revoke
  <2>4. QED BY <2>1, <2>2, <2>3
<1>3. TypeOK'
  BY <1>1, <1>2 DEF TypeInv, TypeOK, formState, searchState, agentState
<1>4. QED BY <1>1, <1>3, TypeFrame DEF searchState, liveState

\* The agent's turns.
LEMMA TurnType ==
  ASSUME TypeInv, NEW t \in Turns, Ask(t) \/ TurnDone(t)
  PROVE  TypeInv'
<1>1. UNCHANGED <<user, searchState, liveState, catalog>> /\ acts' \in Nat
  BY DEF TypeInv, Ask, TurnDone, AnswerFailed, Answered, UserActs
<1>2. turn' \in [Turns -> BOOLEAN]
  BY DEF TypeInv, TypeOK, Ask, TurnDone, AnswerFailed, Answered
<1>3. /\ form' \in FormValues /\ writer' \in [Fields -> {"page", "user"} \cup Turns]
      /\ choices' \in [Roles -> SUBSET Codes]
  <2>1. CASE Ask(t) \/ AnswerFailed(t)
    BY <2>1 DEF TypeInv, TypeOK, Ask, AnswerFailed, formState
  <2>2. ASSUME NEW body \in Bodies, Answered(t, body)
        PROVE  /\ form' \in FormValues
               /\ writer' \in [Fields -> {"page", "user"} \cup Turns]
               /\ choices' \in [Roles -> SUBSET Codes]
    <3>1. \A f \in Fields : Synced(body, f) \in Values
      BY FieldFacts DEF Synced, Values, TypeInv, TypeOK
    <3>2. QED BY <2>2, <3>1, FieldFacts DEF Answered, TypeInv, TypeOK
  <2>3. QED BY <2>1, <2>2 DEF TurnDone
<1>4. TypeOK'
  BY <1>1, <1>2, <1>3 DEF TypeInv, TypeOK, searchState, catalog
<1>5. QED BY <1>1, <1>4, TypeFrame DEF searchState, liveState

\* A search that is submitted, answered or failed.
LEMMA SearchType ==
  ASSUME TypeInv, Submit \/ SearchDone
  PROVE  TypeInv'
<1>1. UNCHANGED <<formState, user, server, catalog, agentState>>
  BY DEF Submit, SearchDone, SearchFailed, SearchAnswered, liveState
<1>2. CASE Submit
  <2>1. last' = form /\ form \in FormValues /\ acts' \in Nat /\ disabled' \in BOOLEAN
    BY <1>2 DEF Submit, TypeInv, TypeOK, Payload, UserActs, DisabledWhileSearching
  <2>2. \A s \in searching' : s.n \in Nat /\ s.intent \in FormValues
    BY <1>2, <2>1 DEF Submit, TypeInv, TypeOK, Payload
  <2>3. check' \in [Checks -> {Idle} \cup LiveCheck]
    <3>1. \A k \in LiveCheck : [k EXCEPT !.overlapped = TRUE] \in LiveCheck
      BY DEF LiveCheck, Granting, Creating, Reading
    <3>2. QED BY <1>2, <3>1 DEF Submit, TypeInv
  <2>4. TypeOK'
    BY <1>1, <2>1, <2>2 DEF TypeInv, TypeOK, formState, catalog, agentState
  <2>5. QED BY <1>1, <1>2, <2>1, <2>3, <2>4 DEF TypeInv, Submit
<1>3. CASE SearchDone
  <2>1. PICK s \in searching : SearchFailed(s) \/ \E priced \in BOOLEAN : SearchAnswered(s, priced)
    BY <1>3 DEF SearchDone
  <2>2. UNCHANGED <<last, check, acts>> /\ searching' \subseteq searching /\ disabled' \in BOOLEAN
    BY <2>1 DEF SearchFailed, SearchAnswered, liveState
  <2>3. results' \in NothingShown \cup Offers
    BY <2>1 DEF SearchFailed, SearchAnswered, RenderResults, TypeInv, TypeOK,
                NothingShown, Offers
  <2>4. live' \in NothingShown \cup LiveOffer
    BY <2>1 DEF SearchFailed, SearchAnswered, RenderResults, TypeInv, NothingShown, liveState
  <2>5. TypeOK'
    BY <1>1, <2>2 DEF TypeInv, TypeOK, formState, catalog, agentState
  <2>6. QED BY <1>1, <2>2, <2>3, <2>4, <2>5 DEF TypeInv
<1>4. QED BY <1>2, <1>3

\* A live check that starts or moves on.
LEMMA CheckType ==
  ASSUME TypeInv, NEW c \in Checks, Click(c) \/ CheckMoves(c)
  PROVE  TypeInv'
<1>1. UNCHANGED <<formState, user, searchState, catalog, agentState>>
  BY DEF Click, CheckMoves, Granted, Observed, CheckFailed, Created
<1>2. TypeOK' /\ acts' \in Nat
  BY <1>1 DEF TypeInv, TypeOK, formState, searchState, catalog, agentState, Click,
              CheckMoves, Granted, Observed, CheckFailed, Created, UserActs
<1>3. \A d \in Checks : check[d] # Idle => last \in FormValues
  BY DEF TypeInv
<1>4. check[c] \in {Idle} \cup LiveCheck /\ Idle.at = "idle"
  BY DEF TypeInv, Idle
<1>5. ASSUME NEW k \in {Idle} \cup LiveCheck, check' = [check EXCEPT ![c] = k],
             last \in FormValues \/ k = Idle,
             live' \in NothingShown \cup LiveOffer, IsFiniteSet(server')
      PROVE  TypeInv'
  BY <1>1, <1>2, <1>3, <1>5 DEF TypeInv, searchState
<1>6. CASE Click(c)
  <2> DEFINE k == [at |-> "granting", intent |-> last, user |-> user, grant |-> NULL,
                   observation |-> NULL, clicked |-> results.intent,
                   duringSearch |-> searching # {}, overlapped |-> searching # {}]
  <2>1. last \in FormValues /\ user \in Nat
    BY <1>6 DEF Click, TypeInv, TypeOK
  <2>2. results.intent \in FormValues
    BY <1>6 DEF Click, TypeInv, NothingShown, Offers
  <2>3. k \in Granting
    BY <2>1, <2>2 DEF Granting
  <2>4. check' = [check EXCEPT ![c] = k] /\ live' = live /\ server' = server
    BY <1>6 DEF Click
  <2> HIDE DEF k
  <2>5. QED BY <1>5, <2>1, <2>3, <2>4 DEF LiveCheck, TypeInv
<1>7. CASE Granted(c)
  <2> DEFINE k == [check[c] EXCEPT !.at = "creating", !.intent = last, !.user = user,
                     !.grant = [intent |-> check[c].intent, user |-> check[c].user]]
  <2>1. check[c] \in Granting /\ check[c] # Idle
    BY <1>4, <1>7 DEF Granted, LiveCheck, Granting, Creating, Reading
  <2>2. last \in FormValues /\ user \in Nat
    BY <1>3, <2>1 DEF TypeInv, TypeOK
  <2>3. k \in Creating
    BY <2>1, <2>2 DEF Granting, Creating, GrantOf
  <2>4. check' = [check EXCEPT ![c] = k] /\ live' = live /\ server' = server
    BY <1>7 DEF Granted
  <2> HIDE DEF k
  <2>5. QED BY <1>5, <2>2, <2>3, <2>4 DEF LiveCheck, TypeInv
<1>8. CASE Observed(c)
  <2>1. check[c] \in Reading
    BY <1>4, <1>8 DEF Observed, LiveCheck, Granting, Creating, Reading
  <2>2. live' \in LiveOffer
    BY <1>8, <2>1 DEF Observed, Reading, Made, LiveOffer
  <2>3. QED BY <1>5, <1>8, <2>2 DEF Observed, TypeInv
<1>9. CASE CheckFailed(c)
  BY <1>5, <1>9 DEF CheckFailed, LiveMessage, NothingShown, TypeInv
<1>10. ASSUME NEW lost \in BOOLEAN, Created(c, lost)
       PROVE  TypeInv'
  <2> DEFINE made == [id |-> Cardinality(server), intent |-> check[c].intent,
                      user |-> check[c].user, clicked |-> check[c].clicked,
                      duringSearch |-> check[c].duringSearch]
             k == [check[c] EXCEPT !.at = "reading", !.observation = made, !.user = user]
  <2>1. check[c] \in Creating /\ check[c] # Idle
    BY <1>4, <1>10 DEF Created, LiveCheck, Granting, Creating, Reading
  <2>2. last \in FormValues /\ user \in Nat
    BY <1>3, <2>1 DEF TypeInv, TypeOK
  <2>3. Cardinality(server) \in Nat
    BY FS_CardinalityType DEF TypeInv
  <2>4. made \in Made
    BY <2>1, <2>3 DEF Creating, Made
  <2>5. /\ server' = server \cup {made}
        /\ check' = [check EXCEPT ![c] = IF lost THEN Idle ELSE k]
        /\ live' \in {LiveMessage, live}
    BY <1>10 DEF Created
  <2> HIDE DEF made
  <2>6. k \in Reading
    BY <2>1, <2>2, <2>4 DEF Creating, Reading
  <2>7. IsFiniteSet(server')
    BY <2>5, FS_AddElement DEF TypeInv
  <2>8. live' \in NothingShown \cup LiveOffer
    BY <2>5 DEF TypeInv, LiveMessage, NothingShown
  <2> HIDE DEF k
  <2>9. QED BY <1>5, <2>2, <2>5, <2>6, <2>7, <2>8 DEF LiveCheck
<1>11. QED BY <1>6, <1>7, <1>8, <1>9, <1>10 DEF CheckMoves

\* Every step keeps the types.
LEMMA TypeStep == TypeInv /\ [Next]_vars => TypeInv'
<1> SUFFICES ASSUME TypeInv, [Next]_vars
             PROVE  TypeInv'
  OBVIOUS
<1>1. ASSUME NEW r \in Roles, NEW code \in Codes, Edit(r, code) \/ Choose(r, code)
      PROVE  TypeInv'
  BY <1>1, EditType, FieldFacts DEF Values
<1>2. ASSUME NEW f \in Fields \ Roles, NEW d \in Dates \cup {Empty}, Edit(f, d)
      PROVE  TypeInv'
  BY <1>2, EditType DEF Values
<1>3. CASE ClickWithoutSource
  <2>1. UNCHANGED <<formState, user, searchState, check, server, catalog, agentState>>
    BY <1>3 DEF ClickWithoutSource
  <2>2. TypeOK' /\ acts' \in Nat
    BY <1>3, <2>1 DEF ClickWithoutSource, UserActs, TypeInv, TypeOK, formState,
                      searchState, catalog, agentState
  <2>3. live' \in NothingShown
    BY <1>3 DEF ClickWithoutSource, LiveMessage, NothingShown
  <2>4. QED BY <2>1, <2>2, <2>3 DEF TypeInv, searchState
<1>4. CASE UNCHANGED vars
  BY <1>4 DEF vars, TypeInv, TypeOK
<1>5. QED
  BY <1>1, <1>2, <1>3, <1>4, SettingType, SearchType, CheckType, TurnType DEF Next

\* The page as it is served is of these types.
LEMMA TypeInit == Init => TypeInv
<1> SUFFICES ASSUME Init
             PROVE  TypeInv
  OBVIOUS
<1>1. TypeOK
  BY ClientAssumption DEF Init, TypeOK
<1>2. IsFiniteSet(server)
  BY FS_EmptySet DEF Init
<1>3. QED BY <1>1, <1>2 DEF Init, TypeInv, NothingShown

LEMMA TypeInvariant == Spec => []TypeInv
BY TypeInit, TypeStep, PTL DEF Spec

\* The form, the requests in flight, the live checks and what is shown have
\* their types in every state.
THEOREM ClientTypes == Spec => []TypeOK
<1>1. TypeInv => TypeOK
  BY DEF TypeInv
<1>2. QED BY <1>1, TypeInvariant, PTL

-----------------------------------------------------------------------------
(* Searches and live checks.                                                *)

LEMMA DefaultKinds ==
  /\ Idle.at = "idle" /\ LiveMessage.kind = "message"
  /\ \A k \in LiveCheck : k # Idle
BY DEF Idle, LiveMessage, LiveCheck, Granting, Creating, Reading

\* A step outside the searches and the live checks.
LEMMA QuietClient ==
  ASSUME SearchInv, CheckInv, UNCHANGED <<searchState, liveState>>
  PROVE  SearchInv' /\ CheckInv'
<1>1. SearchInv'
  BY DEF SearchInv, searchState
<1>2. \A c \in Checks : check'[c] # Idle => CheckOK(check[c])'
  BY DEF CheckInv, CheckOK, searchState, liveState
<1>3. ObservedAsClicked' /\ ShownTogether'
  BY DEF CheckInv, ObservedAsClicked, ShownTogether, searchState, liveState
<1>4. QED BY <1>1, <1>2, <1>3 DEF CheckInv, liveState

\* A new search is the only one, and marks the checks it meets.
LEMMA SubmitKeeps ==
  ASSUME TypeInv, SearchInv, CheckInv, Submit
  PROVE  SearchInv' /\ CheckInv'
<1>0. searching = {}
  BY DEF Submit, SearchInv
<1>1. /\ disabled' = TRUE /\ last' = form
      /\ searching' = {[n |-> acts, intent |-> form]}
      /\ UNCHANGED <<results, denials, live, server>>
  BY <1>0 DEF Submit, Payload, DisabledWhileSearching
<1>2. SearchInv'
  <2>1. searching' # {} /\ \A s \in searching' : s.intent = form
    BY <1>1
  <2>2. \A s, t \in searching' : s = t
    BY <1>1
  <2>3. results'.kind = "offers" => results'.intent = denials'
    BY <1>1 DEF SearchInv
  <2>4. QED BY <1>1, <2>1, <2>2, <2>3 DEF SearchInv
<1>3. ASSUME NEW c \in Checks, check'[c] # Idle
      PROVE  CheckOK(check[c])'
  <2>1. check[c] # Idle /\ check'[c] = [check[c] EXCEPT !.overlapped = TRUE]
    BY <1>3 DEF Submit
  <2>2. check[c] \in LiveCheck
    BY <2>1 DEF TypeInv
  <2> DEFINE k == check[c]
             k2 == [k EXCEPT !.overlapped = TRUE]
  <2>3. /\ k2.overlapped = TRUE /\ k2.at = k.at /\ k2.intent = k.intent
        /\ k2.clicked = k.clicked /\ k2.duringSearch = k.duringSearch
        /\ k2.grant = k.grant /\ k2.observation = k.observation
    BY <2>2 DEF LiveCheck, Granting, Creating, Reading
  <2>4. CheckOK(k)
    BY <2>1 DEF CheckInv
  <2> HIDE DEF k, k2
  <2>5. check'[c] = k2
    BY <2>1 DEF k, k2
  <2>6. QED BY <2>3, <2>4, <2>5 DEF CheckOK
<1>4. ObservedAsClicked' /\ ShownTogether'
  BY <1>1 DEF CheckInv, ObservedAsClicked, ShownTogether
<1>5. QED BY <1>2, <1>3, <1>4 DEF CheckInv

\* The answer is that of the only search, the last one; every live check still
\* on its way is marked, since it met the search.
LEMMA SearchDoneKeeps ==
  ASSUME TypeInv, SearchInv, CheckInv, SearchDone
  PROVE  SearchInv' /\ CheckInv'
<1>1. PICK s \in searching : SearchFailed(s) \/ \E priced \in BOOLEAN : SearchAnswered(s, priced)
  BY DEF SearchDone
<1>2. /\ searching' = {} /\ s.intent = last /\ searching # {}
      /\ UNCHANGED <<last, check, server>>
  BY <1>1 DEF SearchFailed, SearchAnswered, SearchInv, liveState
<1>3. \/ results'.kind = "error" /\ live' = live
      \/ /\ results'.kind = "offers" /\ results'.intent = last /\ denials' = last
         /\ live'.kind = "none"
  BY <1>1, <1>2 DEF SearchFailed, SearchAnswered, RenderResults, liveState
<1>4. SearchInv'
  BY <1>2, <1>3 DEF SearchInv
<1>5. \A c \in Checks : check'[c] # Idle => CheckOK(check[c])'
  <2>1. \A c \in Checks : check[c] # Idle =>
          check[c] \in LiveCheck /\ CheckOK(check[c]) /\ check[c].overlapped
    BY <1>2 DEF CheckInv, CheckOK, TypeInv
  <2>2. QED BY <1>2, <2>1 DEF CheckOK
<1>6. ObservedAsClicked' /\ ShownTogether'
  BY <1>2, <1>3 DEF CheckInv, ObservedAsClicked, ShownTogether
<1>7. QED BY <1>4, <1>5, <1>6 DEF CheckInv

\* A step of one live check, to the record k or back to idle.
LEMMA CheckFrame ==
  ASSUME TypeInv, SearchInv, CheckInv, NEW c \in Checks, NEW k,
         check' = [check EXCEPT ![c] = k], k = Idle \/ CheckOK(k),
         UNCHANGED searchState, ObservedAsClicked', ShownTogether'
  PROVE  SearchInv' /\ CheckInv'
<1>1. SearchInv'
  BY DEF SearchInv, searchState
<1>2. check'[c] = k /\ \A d \in Checks \ {c} : check'[d] = check[d]
  BY DEF TypeInv
<1>3. \A d \in Checks : check'[d] # Idle => CheckOK(check[d])'
  BY <1>2 DEF CheckInv, CheckOK, searchState
<1>4. QED BY <1>1, <1>3 DEF CheckInv

LEMMA ClickKeeps ==
  ASSUME TypeInv, SearchInv, CheckInv, NEW c \in Checks, Click(c)
  PROVE  SearchInv' /\ CheckInv'
<1> DEFINE k == [at |-> "granting", intent |-> last, user |-> user, grant |-> NULL,
                 observation |-> NULL, clicked |-> results.intent,
                 duringSearch |-> searching # {}, overlapped |-> searching # {}]
<1>1. /\ check' = [check EXCEPT ![c] = k] /\ results.kind = "offers"
      /\ UNCHANGED <<searchState, live, server>>
  BY DEF Click
<1>2. CheckOK(k)
  <2>1. /\ k.at = "granting" /\ k.intent = last /\ k.clicked = results.intent
        /\ k.duringSearch = (searching # {}) /\ k.overlapped = (searching # {})
    OBVIOUS
  <2> HIDE DEF k
  <2>2. QED BY <1>1, <2>1 DEF CheckOK, SearchInv
<1>3. ObservedAsClicked' /\ ShownTogether'
  BY <1>1 DEF CheckInv, ObservedAsClicked, ShownTogether, searchState
<1> HIDE DEF k
<1>4. QED BY <1>1, <1>2, <1>3, CheckFrame

\* The grant is for what was asked for; the create request asks for the last
\* search, which is the same one unless a search came between.
LEMMA GrantedKeeps ==
  ASSUME TypeInv, SearchInv, CheckInv, NEW c \in Checks, Granted(c)
  PROVE  SearchInv' /\ CheckInv'
<1> DEFINE g == [intent |-> check[c].intent, user |-> check[c].user]
           k == [check[c] EXCEPT !.at = "creating", !.intent = last, !.user = user,
                   !.grant = g]
<1>1. /\ check' = [check EXCEPT ![c] = k] /\ UNCHANGED <<searchState, live, server>>
      /\ check[c].at = "granting"
  BY DEF Granted
<1>2. check[c] \in Granting /\ CheckOK(check[c])
  BY <1>1, DefaultKinds DEF TypeInv, LiveCheck, Granting, Creating, Reading, CheckInv
<1>3. CheckOK(k)
  <2>1. /\ k.at = "creating" /\ k.intent = last /\ k.grant = g
        /\ k.clicked = check[c].clicked /\ k.duringSearch = check[c].duringSearch
        /\ k.overlapped = check[c].overlapped
        /\ g.intent = check[c].intent
    BY <1>2 DEF Granting
  <2> HIDE DEF k, g
  <2>2. QED BY <1>1, <1>2, <2>1 DEF CheckOK
<1>4. ObservedAsClicked' /\ ShownTogether'
  BY <1>1 DEF CheckInv, ObservedAsClicked, ShownTogether, searchState
<1> HIDE DEF k
<1>5. QED BY <1>1, <1>3, <1>4, CheckFrame

\* The server made the observation for the search of the grant, which is the
\* one that was clicked.
LEMMA CreatedKeeps ==
  ASSUME TypeInv, SearchInv, CheckInv, NEW c \in Checks, NEW lost \in BOOLEAN,
         Created(c, lost)
  PROVE  SearchInv' /\ CheckInv'
<1> DEFINE made == [id |-> Cardinality(server), intent |-> check[c].intent,
                    user |-> check[c].user, clicked |-> check[c].clicked,
                    duringSearch |-> check[c].duringSearch]
           k == [check[c] EXCEPT !.at = "reading", !.observation = made, !.user = user]
<1>1. /\ server' = server \cup {made}
      /\ check' = [check EXCEPT ![c] = IF lost THEN Idle ELSE k]
      /\ live' \in {LiveMessage, live} /\ UNCHANGED searchState
      /\ check[c].at = "creating" /\ check[c].grant.intent = check[c].intent
  BY DEF Created, GrantFits
<1>2. check[c] \in Creating /\ CheckOK(check[c])
  BY <1>1, DefaultKinds DEF TypeInv, LiveCheck, Granting, Creating, Reading, CheckInv
<1>3. made.intent = made.clicked \/ made.duringSearch
  BY <1>1, <1>2 DEF CheckOK
<1>4. made.intent = check[c].intent
  OBVIOUS
<1> HIDE DEF made
<1>5. CheckOK(k)
  <2>1. /\ k.at = "reading" /\ k.intent = check[c].intent /\ k.observation = made
        /\ k.overlapped = check[c].overlapped
    BY <1>2 DEF Creating
  <2> HIDE DEF k
  <2>2. QED BY <1>2, <1>4, <2>1 DEF CheckOK
<1>6. ObservedAsClicked'
  BY <1>1, <1>3 DEF CheckInv, ObservedAsClicked
<1>7. ShownTogether'
  BY <1>1, DefaultKinds DEF CheckInv, ShownTogether, searchState
<1> HIDE DEF k
<1>8. QED BY <1>1, <1>5, <1>6, <1>7, CheckFrame

\* What is shown is the observation of the search whose results are shown,
\* unless the check met another search.
LEMMA ObservedKeeps ==
  ASSUME TypeInv, SearchInv, CheckInv, NEW c \in Checks, Observed(c)
  PROVE  SearchInv' /\ CheckInv'
<1>1. /\ check[c].at = "reading"
      /\ check' = [check EXCEPT ![c] = Idle] /\ UNCHANGED <<searchState, server>>
      /\ live'.intent = check[c].observation.intent
      /\ live'.overlapped = check[c].overlapped
  BY DEF Observed
<1>2. CheckOK(check[c])
  BY <1>1, DefaultKinds DEF CheckInv
<1>3. ObservedAsClicked' /\ ShownTogether'
  BY <1>1, <1>2 DEF CheckInv, CheckOK, ObservedAsClicked, ShownTogether, searchState
<1>4. QED BY <1>1, <1>3, CheckFrame

LEMMA CheckFailedKeeps ==
  ASSUME TypeInv, SearchInv, CheckInv, NEW c \in Checks, CheckFailed(c)
  PROVE  SearchInv' /\ CheckInv'
<1>1. /\ check' = [check EXCEPT ![c] = Idle] /\ UNCHANGED <<searchState, server>>
      /\ live' = LiveMessage
  BY DEF CheckFailed
<1>2. ObservedAsClicked' /\ ShownTogether'
  BY <1>1, DefaultKinds DEF CheckInv, ObservedAsClicked, ShownTogether
<1>3. QED BY <1>1, <1>2, CheckFrame

-----------------------------------------------------------------------------
(* The choices.                                                             *)

\* The turn that offers codes for an airport sets or empties its field itself.
LEMMA OffersStep ==
  ASSUME TypeInv, OffersMatchForm, [Next]_vars
  PROVE  OffersMatchForm'
<1>1. ASSUME NEW f \in Fields, NEW value, SetField(f, value, "user")
      PROVE  \A g \in Fields : \/ form'[g] = form[g] /\ writer'[g] = writer[g]
                               \/ writer'[g] = "user"
  BY <1>1, FieldFacts DEF SetField, TypeInv, TypeOK
<1>2. ASSUME NEW f \in Fields, NEW value,
             Edit(f, value) \/ (f \in Roles /\ Choose(f, value))
      PROVE  OffersMatchForm'
  BY <1>1, <1>2, FieldFacts DEF Edit, Choose, agentState, OffersMatchForm
<1>3. ASSUME NEW t \in Turns, NEW body \in Bodies, Answered(t, body)
      PROVE  OffersMatchForm'
  <2> SUFFICES ASSUME NEW r \in Roles, body.options[r] # {}
               PROVE  form'[r] = Empty \/ writer'[r] = t
    BY <1>3 DEF Answered, OffersMatchForm
  <2>1. /\ r \in Fields /\ form'[r] = Synced(body, r)
        /\ body.extracted[r] # Empty => writer'[r] = t
    BY <1>3, FieldFacts DEF Answered
  <2>2. QED BY <2>1 DEF Synced
<1>4. UNCHANGED <<form, writer, choices, chooser>> => OffersMatchForm'
  BY DEF OffersMatchForm
<1>5. ASSUME NEW t \in Turns, Ask(t) \/ AnswerFailed(t)
      PROVE  UNCHANGED <<form, writer, choices, chooser>>
  BY <1>5 DEF Ask, AnswerFailed, formState
<1>6. ASSUME NEW c \in Checks, Click(c) \/ CheckMoves(c)
      PROVE  UNCHANGED <<form, writer, choices, chooser>>
  BY <1>6 DEF Click, CheckMoves, Granted, Observed, CheckFailed, Created, formState,
              agentState
<1>7. CASE \/ ForgetIdentity \/ LoadSources \/ Revoke \/ Submit \/ SearchDone
           \/ ClickWithoutSource \/ UNCHANGED vars
  BY <1>4, <1>7 DEF ForgetIdentity, LoadSources, Revoke, Submit, SearchDone,
     SearchFailed, SearchAnswered, ClickWithoutSource, vars, formState, agentState
<1>8. QED
  BY <1>2, <1>3, <1>4, <1>5, <1>6, <1>7, FieldFacts DEF Next, TurnDone

-----------------------------------------------------------------------------
\* Every step keeps the invariant.
LEMMA ClientStep == TypeInv /\ ClientInv /\ [Next]_vars => ClientInv'
<1> SUFFICES ASSUME TypeInv, SearchInv, CheckInv, OffersMatchForm, [Next]_vars
             PROVE  SearchInv' /\ CheckInv'
  BY OffersStep DEF ClientInv
<1>1. CASE Submit \/ SearchDone
  BY <1>1, SubmitKeeps, SearchDoneKeeps
<1>2. ASSUME NEW c \in Checks, Click(c) \/ CheckMoves(c)
      PROVE  SearchInv' /\ CheckInv'
  BY <1>2, ClickKeeps, GrantedKeeps, CreatedKeeps, ObservedKeeps, CheckFailedKeeps
  DEF CheckMoves
<1>3. CASE ClickWithoutSource
  <2>1. live'.kind = "message" /\ UNCHANGED <<searchState, check, server>>
    BY <1>3, DefaultKinds DEF ClickWithoutSource
  <2>2. SearchInv'
    BY <2>1 DEF SearchInv, searchState
  <2>3. CheckInv'
    BY <2>1 DEF CheckInv, CheckOK, ObservedAsClicked, ShownTogether, searchState
  <2>4. QED BY <2>2, <2>3
<1>4. ASSUME NEW t \in Turns, Ask(t) \/ TurnDone(t)
      PROVE  UNCHANGED <<searchState, liveState>>
  BY <1>4 DEF Ask, TurnDone, AnswerFailed, Answered
<1>5. ASSUME NEW f, NEW value, Edit(f, value) \/ Choose(f, value)
      PROVE  UNCHANGED <<searchState, liveState>>
  BY <1>5 DEF Edit, Choose
<1>6. CASE ForgetIdentity \/ LoadSources \/ Revoke \/ UNCHANGED vars
  BY <1>6, QuietClient DEF ForgetIdentity, LoadSources, Revoke, vars, searchState, liveState
<1>7. QED
  BY <1>1, <1>2, <1>3, <1>4, <1>5, <1>6, QuietClient DEF Next

\* Nothing is asked, shown or offered on the page as it is served.
LEMMA ClientInit == Init => ClientInv
BY DEF Init, ClientInv, SearchInv, CheckInv, ObservedAsClicked, ShownTogether,
       OffersMatchForm, Idle

\* The invariant holds in every state.
THEOREM ClientInvariant == Spec => []ClientInv
BY TypeInvariant, ClientInit, ClientStep, PTL DEF Spec

\* Answers of two searches never overtake each other: once no search runs, the
\* results and denials shown are those of the search the next live check is
\* made for.
THEOREM ResultsFollowLastSearch == Spec => []ResultsAreOfLastSearch
<1>1. ClientInv => ResultsAreOfLastSearch
  BY DEF ClientInv, SearchInv, ResultsAreOfLastSearch
<1>2. QED BY <1>1, ClientInvariant, PTL

\* Although runLiveCheck reads the last search twice, with an await between, an
\* observation is of the search that was clicked, unless another search ran at
\* the click: the server compares the grant with the request.
THEOREM ObservationsAreAsClicked == Spec => []ObservedAsClicked
<1>1. ClientInv => ObservedAsClicked
  BY DEF ClientInv, CheckInv
<1>2. QED BY <1>1, ClientInvariant, PTL

\* The observation shown below a search's results is of that search, unless
\* its live check met another search.
THEOREM ShownListsAgree == Spec => []ShownTogether
<1>1. ClientInv => ShownTogether
  BY DEF ClientInv, CheckInv
<1>2. QED BY <1>1, ClientInvariant, PTL

\* In whatever order turns are answered and fields edited, an airport for which
\* codes are offered holds no code of the page or of an earlier turn.
THEOREM OffersFitForm == Spec => []OffersMatchForm
<1>1. ClientInv => OffersMatchForm
  BY DEF ClientInv
<1>2. QED BY <1>1, ClientInvariant, PTL
=============================================================================
