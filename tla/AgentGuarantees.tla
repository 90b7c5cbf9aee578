--------------------------- MODULE AgentGuarantees --------------------------
(***************************************************************************)
(* What the agent guarantees for every number of requests, of either         *)
(* endpoint, that run at once, raise, die or are refused by the database.    *)
(*                                                                         *)
(* The properties speak of committed watches and audit rows; what is         *)
(* committed was written in a session steps before, from a draft older       *)
(* still.  AgentInv adds what each session holds while it is open, that its  *)
(* written rows and those still to write make up the tools of the turn, and  *)
(* that exactly the rows of answered turns are committed.                    *)
(*                                                                         *)
(* ResultInv says of which search a turn's result is.  What the ranking makes *)
(* of the offers of a search comes before it: every rank is taken by one      *)
(* offer, and the first is a cheapest.  The gates that keep no state follow.  *)
(***************************************************************************)
EXTENDS AgentChat, SourceGates, SequenceTheorems, FiniteSetTheorems,
        WellFoundedInduction, TLAPS

Requests == ChatRequests \cup Searches \cup WatchRequests

\* Every tool a turn may audit.
ToolNames ==
  {"search_cached_offers", "build_date_matrix", "find_nearby_airports",
   "create_watch", "offer_live_check"}

\* A turn's record has the fields of NoTurn.
Fields == {"stage", "request", "draft", "reply", "result", "cells", "watch", "todo", "rows"}
IsTurn(k) == DOMAIN k = Fields

TurnsOK ==
  /\ DOMAIN turn = Turns
  /\ \A t \in Turns : IsTurn(turn[t]) /\ turn[t].stage \in Stages

Chat(t) == turn[t].request \in ChatRequests
Written(t) == {row.tool : row \in turn[t].rows}
ToolsOf(t) == ToSet(AuditedTools(turn[t].watch # {}))

\* What a session holds, by the stage of its turn.
SessionOK(t) ==
  LET k == turn[t]
  IN  /\ k.stage = "idle" => k.result = {} /\ k.todo = <<>>
      /\ k.stage # "idle" => k.request \in Requests
      /\ k.stage = "received" => Chat(t) /\ k.result = {} /\ k.todo = <<>>
      /\ k.stage \in {"idle", "received", "watching", "reading", "failed"} => k.rows = {}
      /\ k.stage \in {"idle", "received", "watching", "failed"} => k.watch = {}
      /\ k.stage = "reading" => k.watch # {}
      /\ \A row \in k.watch : row = WatchRow(t)
      /\ \A row \in k.rows : row = AuditRow(t, row.tool, k.request, TurnSlots(t))

\* The trail of a chat turn, written and still to write, is that of its tools;
\* no other request has one.
TrailOK(t) ==
  LET k == turn[t]
  IN  /\ k.todo \in Seq(ToolNames)
      /\ Chat(t) /\ k.stage \in {"watching", "reading", "auditing"} => k.result # {}
      /\ Chat(t) /\ k.stage = "auditing" => Written(t) \cup ToSet(k.todo) = ToolsOf(t)
      /\ Chat(t) /\ k.stage = "answered" =>
           IF k.result = {} THEN k.rows = {} /\ k.watch = {} ELSE Written(t) = ToolsOf(t)
      /\ ~Chat(t) => k.rows = {} /\ k.todo = <<>>

\* A wish that may be granted is granted before the audits begin.
WishOK(t) ==
  /\ Chat(t) /\ turn[t].stage \in {"auditing", "answered"} /\ turn[t].result # {}
  /\ turn[t].request.message.watchWords /\ WatchAllowed(turn[t].request)
  => turn[t].watch # {}

\* The database holds what the answered turns wrote, and nothing else.
CommitOK ==
  /\ \A watch \in watches : /\ watch.turn \in Turns /\ Answered(watch.turn)
                            /\ watch \in turn[watch.turn].watch
  /\ \A row \in audits : /\ row.turn \in Turns /\ Answered(row.turn)
                         /\ row \in turn[row.turn].rows
  /\ \A t \in Turns : Answered(t) =>
       turn[t].watch \subseteq watches /\ turn[t].rows \subseteq audits

\* A call was made by a turn that has its draft.
CallsOK ==
  /\ \A call \in calls :
       call.turn \in Turns /\ turn[call.turn].stage \notin {"idle", "received"}
  /\ NeverGuesses

AgentInv ==
  /\ TurnsOK
  /\ \A t \in Turns : SessionOK(t) /\ TrailOK(t) /\ WishOK(t)
  /\ CommitOK
  /\ CallsOK

-----------------------------------------------------------------------------
(* Lemmas about the operators.                                              *)

\* A set of natural numbers has a least one.
LEMMA Least ==
  ASSUME NEW S, S \subseteq Nat, S # {}
  PROVE  \E m \in S : \A n \in S : m <= n
<1> DEFINE R == OpToRel(<, Nat)
<1>1. IsWellFoundedOn(R, Nat)
  BY NatLessThanWellFounded
<1>2. \A m, n \in Nat : <<n, m>> \in R <=> n < m
  BY DEF OpToRel
<1> HIDE DEF R
<1>3. PICK m \in S : \A n \in S : ~(<<n, m>> \in R)
  BY <1>1, WFMin
<1>4. \A n \in S : ~(n < m) /\ n \in Nat /\ m \in Nat
  BY <1>2, <1>3
<1> QED BY <1>4

\* Two lists in a row hold what either holds.
LEMMA ConcatSet ==
  ASSUME NEW S, NEW s \in Seq(S), NEW u \in Seq(S)
  PROVE  s \o u \in Seq(S) /\ ToSet(s \o u) = ToSet(s) \cup ToSet(u)
<1>1. /\ s \o u \in Seq(S) /\ Len(s \o u) = Len(s) + Len(u)
      /\ \A i \in 1..(Len(s) + Len(u)) :
           (s \o u)[i] = IF i <= Len(s) THEN s[i] ELSE u[i - Len(s)]
  BY ConcatProperties
<1>2. /\ Len(s) \in Nat /\ Len(u) \in Nat
      /\ DOMAIN s = 1..Len(s) /\ DOMAIN u = 1..Len(u)
      /\ DOMAIN (s \o u) = 1..(Len(s) + Len(u))
  BY <1>1, LenProperties
<1>3. ASSUME NEW i \in DOMAIN (s \o u)
      PROVE  (s \o u)[i] \in ToSet(s) \cup ToSet(u)
  <2>1. i \in 1..(Len(s) + Len(u)) /\ i \in Nat
    BY <1>2
  <2>2. CASE i <= Len(s)
    <3>1. i \in DOMAIN s /\ (s \o u)[i] = s[i]
      BY <1>1, <1>2, <2>1, <2>2
    <3> QED BY <3>1 DEF ToSet
  <2>3. CASE ~(i <= Len(s))
    <3>1. i - Len(s) \in DOMAIN u
      BY <1>2, <2>1, <2>3
    <3>2. (s \o u)[i] = u[i - Len(s)]
      BY <1>1, <2>1, <2>3
    <3> QED BY <3>1, <3>2 DEF ToSet
  <2> QED BY <2>2, <2>3
<1>4. ASSUME NEW i \in DOMAIN s
      PROVE  s[i] \in ToSet(s \o u)
  <2>1. i \in DOMAIN (s \o u) /\ (s \o u)[i] = s[i]
    BY <1>1, <1>2
  <2> QED BY <2>1 DEF ToSet
<1>5. ASSUME NEW i \in DOMAIN u
      PROVE  u[i] \in ToSet(s \o u)
  <2>1. /\ i + Len(s) \in DOMAIN (s \o u) /\ ~(i + Len(s) <= Len(s))
        /\ (i + Len(s)) - Len(s) = i
    BY <1>2
  <2>2. (s \o u)[i + Len(s)] = u[i]
    BY <1>1, <1>2, <2>1
  <2> QED BY <2>1, <2>2 DEF ToSet
<1> QED BY <1>1, <1>3, <1>4, <1>5 DEF ToSet

\* The tools of a turn, with and without the watch.
LEMMA AuditedToolsSet ==
  /\ AuditedTools(TRUE) \in Seq(ToolNames) /\ ToSet(AuditedTools(TRUE)) = ToolNames
  /\ AuditedTools(FALSE) \in Seq(ToolNames)
  /\ ToSet(AuditedTools(FALSE)) = ToolNames \ {"create_watch"}
<1> DEFINE first == <<"search_cached_offers", "build_date_matrix", "find_nearby_airports">>
           watch == <<"create_watch">>
           last == <<"offer_live_check">>
<1>1. /\ first \in Seq(ToolNames) /\ watch \in Seq(ToolNames) /\ last \in Seq(ToolNames)
      /\ <<>> \in Seq(ToolNames)
  BY DEF ToolNames
<1>2. /\ ToSet(first) = {"search_cached_offers", "build_date_matrix", "find_nearby_airports"}
      /\ ToSet(watch) = {"create_watch"} /\ ToSet(last) = {"offer_live_check"}
      /\ ToSet(<<>>) = {}
  <2>1. DOMAIN first = {1, 2, 3} /\ DOMAIN watch = {1} /\ DOMAIN last = {1}
    BY DEF first, watch, last
  <2>2. /\ first[1] = "search_cached_offers" /\ first[2] = "build_date_matrix"
        /\ first[3] = "find_nearby_airports"
        /\ watch[1] = "create_watch" /\ last[1] = "offer_live_check"
    OBVIOUS
  <2> HIDE DEF first, watch, last
  <2>3. ToSet(first) = {first[1], first[2], first[3]}
    BY <2>1 DEF ToSet
  <2>4. ToSet(watch) = {watch[1]} /\ ToSet(last) = {last[1]}
    BY <2>1 DEF ToSet
  <2>5. ToSet(<<>>) = {}
    BY DEF ToSet
  <2> QED BY <2>2, <2>3, <2>4, <2>5
<1>3. /\ AuditedTools(TRUE) = (first \o watch) \o last
      /\ AuditedTools(FALSE) = (first \o <<>>) \o last
  <2>1. AuditedTools(TRUE) = first \o (IF TRUE THEN watch ELSE <<>>) \o last
    BY Zenon DEF AuditedTools
  <2>2. AuditedTools(FALSE) = first \o (IF FALSE THEN watch ELSE <<>>) \o last
    BY Zenon DEF AuditedTools
  <2>3. (IF TRUE THEN watch ELSE <<>>) = watch /\ (IF FALSE THEN watch ELSE <<>>) = <<>>
    OBVIOUS
  <2> HIDE DEF first, watch, last
  <2> QED BY <2>1, <2>2, <2>3
<1> HIDE DEF first, watch, last
<1>4. \A x, y \in Seq(ToolNames) :
        x \o y \in Seq(ToolNames) /\ ToSet(x \o y) = ToSet(x) \cup ToSet(y)
  BY ConcatSet
<1>5. /\ AuditedTools(TRUE) \in Seq(ToolNames)
      /\ ToSet(AuditedTools(TRUE)) = (ToSet(first) \cup ToSet(watch)) \cup ToSet(last)
  <2>1. /\ first \o watch \in Seq(ToolNames)
        /\ ToSet(first \o watch) = ToSet(first) \cup ToSet(watch)
    BY <1>1, <1>4
  <2> QED BY <1>1, <1>3, <1>4, <2>1
<1>6. /\ AuditedTools(FALSE) \in Seq(ToolNames)
      /\ ToSet(AuditedTools(FALSE)) = (ToSet(first) \cup ToSet(<<>>)) \cup ToSet(last)
  <2>1. /\ first \o <<>> \in Seq(ToolNames)
        /\ ToSet(first \o <<>>) = ToSet(first) \cup ToSet(<<>>)
    BY <1>1, <1>4
  <2> QED BY <1>1, <1>3, <1>4, <2>1
<1> QED BY <1>2, <1>5, <1>6 DEF ToolNames

LEMMA NothingToDo == <<>> \in Seq(ToolNames)
  OBVIOUS

\* Taking the first entry off a list takes it out of what is still to come.
LEMMA HeadAndTail ==
  ASSUME NEW S, NEW s \in Seq(S), s # <<>>
  PROVE  /\ Head(s) \in S /\ Tail(s) \in Seq(S)
         /\ ToSet(s) = {Head(s)} \cup ToSet(Tail(s))
<1>1. /\ Head(s) = s[1] /\ Tail(s) \in Seq(S) /\ Len(Tail(s)) = Len(s) - 1
      /\ \A i \in 1..Len(Tail(s)) : Tail(s)[i] = s[i + 1]
  BY HeadTailProperties
<1>2. Len(s) \in Nat \ {0} /\ DOMAIN s = 1..Len(s) /\ DOMAIN Tail(s) = 1..Len(Tail(s))
  BY <1>1, LenProperties, EmptySeq
<1>3. ASSUME NEW i \in DOMAIN s
      PROVE  s[i] \in {Head(s)} \cup ToSet(Tail(s))
  <2>1. CASE i = 1
    BY <1>1, <2>1
  <2>2. CASE i # 1
    <3>1. i - 1 \in 1..Len(Tail(s)) /\ (i - 1) + 1 = i
      BY <1>1, <1>2, <2>2
    <3>2. Tail(s)[i - 1] = s[i]
      BY <1>1, <3>1
    <3> QED BY <1>2, <3>1, <3>2 DEF ToSet
  <2> QED BY <2>1, <2>2
<1>4. ASSUME NEW i \in DOMAIN Tail(s)
      PROVE  Tail(s)[i] \in ToSet(s)
  <2>1. i + 1 \in DOMAIN s /\ Tail(s)[i] = s[i + 1]
    BY <1>1, <1>2
  <2> QED BY <2>1 DEF ToSet
<1>5. Head(s) \in S /\ Head(s) \in ToSet(s)
  BY <1>1, <1>2 DEF ToSet
<1> QED BY <1>1, <1>3, <1>4, <1>5 DEF ToSet

\* A message that asks to be kept informed makes a draft that does, whatever
\* the model's draft says.
LEMMA DraftKeepsWish ==
  ASSUME NEW request, request.message.watchWords, NEW draft \in Drafts(request)
  PROVE  draft.wantsWatch
<1> DEFINE base == ParsedDraft(request.message)
<1>1. base.wantsWatch = request.message.watchWords /\ "wantsWatch" \in DOMAIN base
  BY DEF ParsedDraft
<1> HIDE DEF base
<1>2. \A overlay : MergedDraft(base, overlay)["wantsWatch"] =
                     (overlay.wantsWatch \/ base.wantsWatch)
  BY <1>1 DEF MergedDraft
<1>3. \A reply : Draft(request, reply).wantsWatch
  BY <1>1, <1>2 DEF Draft, base
<1> QED BY <1>1, <1>3 DEF Drafts, base

\* The places a draft names in words are places there are.
LEMMA DraftPlaces ==
  ASSUME NEW request \in ChatRequests, NEW draft \in Drafts(request)
  PROVE  /\ draft.originQuery \in Places \cup {NULL}
         /\ draft.destinationQuery \in Places \cup {NULL}
<1> DEFINE base == ParsedDraft(request.message)
<1>1. /\ base.originQuery \in Places \cup {NULL}
      /\ base.destinationQuery \in Places \cup {NULL}
      /\ {"originQuery", "destinationQuery"} \subseteq DOMAIN base
  BY RequestAssumption DEF ParsedDraft
<1>2. ASSUME NEW reply \in ModelReplies
      PROVE  /\ ModelDraft(reply).originQuery \in Places \cup {NULL}
             /\ ModelDraft(reply).destinationQuery \in Places \cup {NULL}
  BY RequestAssumption DEF ModelDraft, NoDraft
<1> HIDE DEF base
<1>3. ASSUME NEW reply \in ModelReplies
      PROVE  /\ Draft(request, reply).originQuery \in Places \cup {NULL}
             /\ Draft(request, reply).destinationQuery \in Places \cup {NULL}
  <2> DEFINE overlay == ModelDraft(reply)
  <2>1. /\ Draft(request, reply)["originQuery"] = Or(overlay.originQuery, base.originQuery)
        /\ Draft(request, reply)["destinationQuery"] =
             Or(overlay.destinationQuery, base.destinationQuery)
    BY <1>1 DEF Draft, MergedDraft, base
  <2> QED BY <1>1, <1>2, <2>1 DEF Or
<1> QED BY <1>1, <1>3 DEF Drafts, base

\* The first suggestion for a place is the airport that fits it best.
LEMMA FirstSuggestion ==
  ASSUME NEW place \in Places, NEW limit \in Nat, Autocomplete(place, limit) # <<>>,
         Len(Autocomplete(place, limit)) = 1
  PROVE  /\ BestFit(place, Autocomplete(place, limit)[1])
         /\ limit = 1 \/ DOMAIN TextRank[place] = {Autocomplete(place, limit)[1]}
<1> DEFINE rank == TextRank[place]
           Sooner(one, other) == \/ rank[one] < rank[other]
                                 \/ rank[one] = rank[other] /\ one < other
           Position(code) == Cardinality({other \in DOMAIN rank : Sooner(other, code)}) + 1
           found == Cardinality(DOMAIN rank)
           many == IF found < limit THEN found ELSE limit
           First == CHOOSE code \in DOMAIN rank : Position(code) = 1
           list == [n \in 1..many |-> CHOOSE code \in DOMAIN rank : Position(code) = n]
<1>1. /\ IsFiniteSet(DOMAIN rank) /\ DOMAIN rank \subseteq Nat
      /\ \A code \in DOMAIN rank : rank[code] \in Nat
  BY PlaceAssumption
<1>2. found \in Nat /\ (found = 0 <=> DOMAIN rank = {})
  BY <1>1, FS_CardinalityType, FS_EmptySet
<1>3. many \in Nat /\ Autocomplete(place, limit) = list
  BY <1>2 DEF Autocomplete
<1> HIDE DEF many, found, Position
<1>4. many = 1 /\ Autocomplete(place, limit)[1] = First
  <2> DEFINE S == {list[n] : n \in 1..many}
  <2>1. list \in [1..many -> S]
    OBVIOUS
  <2>2. 1 \in 1..many => list[1] = First
    OBVIOUS
  <2> HIDE DEF list, S, First
  <2>3. Len(list) = many
    BY <1>3, <2>1
  <2> QED BY <1>3, <2>2, <2>3
<1>5. found >= 1 /\ (limit = 1 \/ found = 1)
  BY <1>2, <1>4 DEF many
<1>6. PICK code \in DOMAIN rank : \A other \in DOMAIN rank : ~Sooner(other, code)
  <2>1. PICK low \in {rank[c] : c \in DOMAIN rank} :
          \A n \in {rank[c] : c \in DOMAIN rank} : low <= n
    <3> DEFINE S == {rank[c] : c \in DOMAIN rank}
    <3>1. S \subseteq Nat
      BY <1>1
    <3>2. PICK c \in DOMAIN rank : TRUE
      BY <1>2, <1>5
    <3>3. S # {}
      BY <3>2
    <3> HIDE DEF S
    <3>4. \E m \in S : \A n \in S : m <= n
      BY <3>1, <3>3, Least
    <3> QED BY <3>4 DEF S
  <2>2. PICK code \in {c \in DOMAIN rank : rank[c] = low} :
          \A n \in {c \in DOMAIN rank : rank[c] = low} : code <= n
    <3> DEFINE S == {c \in DOMAIN rank : rank[c] = low}
    <3>1. S \subseteq Nat /\ S # {}
      BY <1>1, <2>1
    <3> HIDE DEF S
    <3>2. \E m \in S : \A n \in S : m <= n
      BY <3>1, Least
    <3> QED BY <3>2 DEF S
  <2>3. ASSUME NEW other \in DOMAIN rank
        PROVE  ~Sooner(other, code)
    <3>1. low <= rank[other] /\ rank[code] = low /\ (rank[other] = low => code <= other)
      BY <2>1, <2>2
    <3>2. low \in Nat /\ rank[other] \in Nat /\ code \in Nat /\ other \in Nat
      BY <1>1, <2>1, <2>2
    <3> QED BY <3>1, <3>2
  <2> QED BY <2>2, <2>3
<1>7. Position(code) = 1
  <2> DEFINE S == {other \in DOMAIN rank : Sooner(other, code)}
  <2>1. S = {}
    BY <1>6
  <2>2. Position(code) = Cardinality(S) + 1
    BY DEF Position
  <2> HIDE DEF S
  <2>3. Cardinality(S) = 0
    BY <2>1, FS_EmptySet
  <2> QED BY <2>2, <2>3
<1>8. First \in DOMAIN rank /\ Position(First) = 1
  <2>1. \E c \in DOMAIN rank : Position(c) = 1
    BY <1>6, <1>7
  <2> HIDE DEF rank, Sooner
  <2> QED BY <2>1
<1>9. \A other \in DOMAIN rank : ~Sooner(other, First)
  <2> DEFINE S == {other \in DOMAIN rank : Sooner(other, First)}
  <2>1. S \subseteq DOMAIN rank
    OBVIOUS
  <2>2. Cardinality(S) + 1 = 1
    BY <1>8 DEF Position
  <2> HIDE DEF S
  <2>3. IsFiniteSet(S) /\ Cardinality(S) \in Nat
    BY <1>1, <2>1, FS_Subset, FS_CardinalityType
  <2>4. S = {}
    BY <2>2, <2>3, FS_EmptySet
  <2> QED BY <2>4 DEF S
<1> HIDE DEF First
<1>10. BestFit(place, First)
  <2>1. ASSUME NEW other \in DOMAIN rank
        PROVE  rank[First] < rank[other] \/ (rank[First] = rank[other] /\ First <= other)
    <3>1. /\ rank[First] \in Nat /\ rank[other] \in Nat /\ First \in Nat /\ other \in Nat
          /\ ~Sooner(other, First)
      BY <1>1, <1>8, <1>9
    <3> QED BY <3>1
  <2> QED BY <1>8, <2>1 DEF BestFit
<1>11. found = 1 => DOMAIN rank = {First}
  BY <1>1, <1>8, FS_Singleton DEF found
<1> QED BY <1>4, <1>5, <1>10, <1>11

\* A code a turn works with was chosen, was written, or is the fit of a place.
LEMMA CodeIsNamed ==
  ASSUME NEW selected, NEW parsed, NEW query \in Places \cup {NULL}
  PROVE  LET code == SelectedCode(selected, parsed, Options(Or(selected, Or(parsed, query))))
         IN  \/ code = selected
             \/ selected = NULL /\ code = parsed
             \/ /\ selected = NULL /\ parsed = NULL /\ query # NULL
                /\ BestFit(query, code)
                /\ DOMAIN TextRank[query] = {code} \/ query \in ThreeLetters
<1> DEFINE options == Options(Or(selected, Or(parsed, query)))
           code == SelectedCode(selected, parsed, options)
<1>1. CASE selected # NULL \/ parsed # NULL
  BY <1>1 DEF SelectedCode
<1>2. CASE selected = NULL /\ parsed = NULL
  <2>1. options = Options(query)
    BY <1>2 DEF Or
  <2>2. code = IF Len(Options(query)) = 1 THEN Options(query)[1] ELSE NULL
    BY <1>2, <2>1 DEF SelectedCode
  <2> HIDE DEF options, code
  <2>3. CASE Len(Options(query)) = 1 /\ query # NULL
    <3> DEFINE limit == IF query \in ThreeLetters THEN 1 ELSE 6
    <3>1. Options(query) = Autocomplete(query, limit) /\ limit \in Nat
      BY <2>3 DEF Options
    <3>2. Autocomplete(query, limit) # <<>>
      BY <2>3, <3>1
    <3>3. BestFit(query, code) /\ (limit = 1 \/ DOMAIN TextRank[query] = {code})
      BY <2>2, <2>3, <3>1, <3>2, FirstSuggestion
    <3>4. limit = 1 => query \in ThreeLetters
      OBVIOUS
    <3> QED BY <1>2, <2>3, <3>3, <3>4 DEF code, options
  <2>4. CASE ~(Len(Options(query)) = 1 /\ query # NULL)
    <3>1. query = NULL => Options(query) = <<>>
      BY DEF Options
    <3>2. code = selected
      BY <1>2, <2>2, <2>4, <3>1
    <3> QED BY <3>2 DEF code, options
  <2> QED BY <2>3, <2>4
<1> QED BY <1>1, <1>2

\* The tools of a turn, by whether it made a watch.
LEMMA ToolsByWatch ==
  ASSUME NEW watch
  PROVE  /\ AuditedTools(watch # {}) \in Seq(ToolNames)
         /\ ToSet(AuditedTools(watch # {})) =
              IF watch # {} THEN ToolNames ELSE ToolNames \ {"create_watch"}
<1>1. CASE watch # {}
  <2>1. (watch # {}) = TRUE
    BY <1>1
  <2>2. AuditedTools(watch # {}) = AuditedTools(TRUE)
    BY <2>1, Zenon
  <2> QED BY <1>1, <2>2, AuditedToolsSet
<1>2. CASE watch = {}
  <2>1. (watch # {}) = FALSE
    BY <1>2
  <2>2. AuditedTools(watch # {}) = AuditedTools(FALSE)
    BY <2>1, Zenon
  <2> QED BY <1>2, <2>2, AuditedToolsSet
<1> QED BY <1>1, <1>2

-----------------------------------------------------------------------------
(* The initial states.                                                      *)

LEMMA AgentInit == Init => AgentInv
<1> SUFFICES ASSUME Init PROVE AgentInv
  OBVIOUS
<1>1. \A t \in Turns : turn[t] = NoTurn
  BY DEF Init
<1>2. TurnsOK
  BY <1>1 DEF Init, TurnsOK, IsTurn, Fields, NoTurn, Stages
<1>3. ASSUME NEW t \in Turns
      PROVE  SessionOK(t) /\ TrailOK(t) /\ WishOK(t)
  <2>1. SessionOK(t)
    BY <1>1 DEF SessionOK, NoTurn
  <2>2. TrailOK(t)
    <3>1. turn[t].stage = "idle" /\ turn[t].rows = {} /\ turn[t].todo = <<>>
      BY <1>1 DEF NoTurn
    <3> QED BY <3>1, NothingToDo DEF TrailOK
  <2>3. WishOK(t)
    BY <1>1 DEF WishOK, NoTurn
  <2> QED BY <2>1, <2>2, <2>3
<1>4. CommitOK
  BY <1>1 DEF Init, CommitOK, Answered, NoTurn
<1>5. CallsOK
  BY DEF Init, CallsOK, NeverGuesses
<1> QED BY <1>2, <1>3, <1>4, <1>5 DEF AgentInv

-----------------------------------------------------------------------------
(* The frame of a step: one turn changes.                                   *)

\* The turn that moves becomes k, and no other does.
Becomes(t, k) ==
  /\ turn' = [turn EXCEPT ![t] = k]
  /\ IsTurn(k) /\ k.stage \in Stages

LEMMA OneMoves ==
  ASSUME TurnsOK, NEW t \in Turns, NEW k, Becomes(t, k)
  PROVE  TurnsOK' /\ turn'[t] = k /\ \A u \in Turns \ {t} : turn'[u] = turn[u]
<1>1. turn'[t] = k /\ \A u \in Turns \ {t} : turn'[u] = turn[u]
  BY DEF Becomes, TurnsOK
<1>2. DOMAIN turn' = Turns
  BY DEF Becomes, TurnsOK
<1>3. \A u \in Turns : IsTurn(turn'[u]) /\ turn'[u].stage \in Stages
  BY <1>1 DEF Becomes, TurnsOK
<1> QED BY <1>1, <1>2, <1>3 DEF TurnsOK, IsTurn

\* A turn that does not move keeps what is known of it.
LEMMA OthersKept ==
  ASSUME NEW u, turn'[u] = turn[u], SessionOK(u), TrailOK(u), WishOK(u)
  PROVE  SessionOK(u)' /\ TrailOK(u)' /\ WishOK(u)'
<1>1. SessionOK(u)'
  BY DEF SessionOK, Chat, WatchRow, TurnSlots
<1>2. TrailOK(u)'
  BY DEF TrailOK, Chat, Written, ToolsOf
<1>3. WishOK(u)'
  BY DEF WishOK, Chat
<1> QED BY <1>1, <1>2, <1>3

\* A step of one turn that commits nothing keeps the invariant when it keeps
\* the turn's own part of it and the calls'.
LEMMA UncommittedStep ==
  ASSUME AgentInv, NEW t \in Turns, NEW k, Becomes(t, k),
         ~Answered(t), k.stage = "answered" => k.watch = {} /\ k.rows = {},
         SessionOK(t)', TrailOK(t)', WishOK(t)', CallsOK',
         watches' = watches, audits' = audits
  PROVE  AgentInv'
<1>1. TurnsOK' /\ turn'[t] = k /\ \A u \in Turns \ {t} : turn'[u] = turn[u]
  BY OneMoves DEF AgentInv
<1>2. ASSUME NEW u \in Turns
      PROVE  SessionOK(u)' /\ TrailOK(u)' /\ WishOK(u)'
  <2>1. CASE u = t
    BY <2>1
  <2>2. CASE u # t
    BY <1>1, <2>2, OthersKept DEF AgentInv
  <2> QED BY <2>1, <2>2
<1>3. CommitOK'
  <2>1. ASSUME NEW watch \in watches
        PROVE  watch.turn \in Turns /\ Answered(watch.turn)' /\ watch \in turn'[watch.turn].watch
    BY <1>1 DEF AgentInv, CommitOK, Answered
  <2>2. ASSUME NEW row \in audits
        PROVE  row.turn \in Turns /\ Answered(row.turn)' /\ row \in turn'[row.turn].rows
    BY <1>1 DEF AgentInv, CommitOK, Answered
  <2>3. ASSUME NEW u \in Turns, Answered(u)'
        PROVE  turn'[u].watch \subseteq watches /\ turn'[u].rows \subseteq audits
    <3>1. CASE u = t
      BY <1>1, <2>3, <3>1 DEF Answered
    <3>2. CASE u # t
      BY <1>1, <2>3, <3>2 DEF AgentInv, CommitOK, Answered
    <3> QED BY <3>1, <3>2
  <2> QED BY <2>1, <2>2, <2>3 DEF CommitOK
<1> QED BY <1>1, <1>2, <1>3 DEF AgentInv

-----------------------------------------------------------------------------
(* The calls.                                                               *)

\* What one call must be for NeverGuesses, of the turn that made it.
CallNamed(call) ==
  LET request == turn[call.turn].request
      draft == turn[call.turn].draft
      Named(code, selected, parsed, query) ==
        \/ code = selected
        \/ selected = NULL /\ code = parsed
        \/ /\ selected = NULL /\ parsed = NULL /\ query # NULL
           /\ BestFit(query, code)
           /\ DOMAIN TextRank[query] = {code} \/ query \in ThreeLetters
  IN  /\ Named(call.origin, request.selectedOrigin, draft.origin, draft.originQuery)
      /\ Named(call.destination, request.selectedDestination, draft.destination,
               draft.destinationQuery)

LEMMA NamedCalls == NeverGuesses <=> \A call \in calls : CallNamed(call)
  BY DEF NeverGuesses, CallNamed

\* A call stays named while its turn keeps request and draft; a turn that has
\* neither has made no call.
LEMMA CallsKept ==
  ASSUME AgentInv, NEW t \in Turns, NEW k, Becomes(t, k),
         \/ turn[t].stage \in {"idle", "received"}
         \/ k.stage \notin {"idle", "received"} /\ k.request = turn[t].request
              /\ k.draft = turn[t].draft
  PROVE  \A call \in calls : /\ call.turn \in Turns
                             /\ turn'[call.turn].stage \notin {"idle", "received"}
                             /\ CallNamed(call)'
<1> SUFFICES ASSUME NEW call \in calls
             PROVE  /\ call.turn \in Turns
                    /\ turn'[call.turn].stage \notin {"idle", "received"}
                    /\ CallNamed(call)'
  OBVIOUS
<1>1. turn'[t] = k /\ \A u \in Turns \ {t} : turn'[u] = turn[u]
  BY OneMoves DEF AgentInv
<1>2. /\ call.turn \in Turns /\ turn[call.turn].stage \notin {"idle", "received"}
      /\ CallNamed(call)
  BY NamedCalls DEF AgentInv, CallsOK
<1>3. /\ turn'[call.turn].stage \notin {"idle", "received"}
      /\ turn'[call.turn].request = turn[call.turn].request
      /\ turn'[call.turn].draft = turn[call.turn].draft
  BY <1>1, <1>2
<1>4. CallNamed(call)'
  BY <1>2, <1>3 DEF CallNamed
<1> QED BY <1>2, <1>3, <1>4

LEMMA NoCallMade ==
  ASSUME AgentInv, NEW t \in Turns, NEW k, Becomes(t, k),
         \/ turn[t].stage \in {"idle", "received"}
         \/ k.stage \notin {"idle", "received"} /\ k.request = turn[t].request
              /\ k.draft = turn[t].draft,
         calls' = calls
  PROVE  CallsOK'
<1>1. \A call \in calls : /\ call.turn \in Turns
                          /\ turn'[call.turn].stage \notin {"idle", "received"}
                          /\ CallNamed(call)'
  BY CallsKept
<1>2. \A call \in calls' : CallNamed(call)'
  BY <1>1
<1>3. NeverGuesses'
  BY <1>2 DEF NeverGuesses, CallNamed
<1> QED BY <1>1, <1>3 DEF CallsOK

\* A turn that has its draft may call, and names what it asks about.
LEMMA CallsMade ==
  ASSUME AgentInv, NEW t \in Turns, NEW k, Becomes(t, k),
         turn[t].stage \in {"idle", "received"}, k.stage \notin {"idle", "received"},
         k.draft.originQuery \in Places \cup {NULL},
         k.draft.destinationQuery \in Places \cup {NULL},
         NEW ids, calls' = calls \cup CallsOf(t, Intent(k.request, Slots(k.request, k.draft)), ids)
  PROVE  CallsOK'
<1> DEFINE slots == Slots(k.request, k.draft)
           intent == Intent(k.request, slots)
<1>1. \A call \in calls : /\ call.turn \in Turns
                          /\ turn'[call.turn].stage \notin {"idle", "received"}
                          /\ CallNamed(call)'
  BY CallsKept
<1>2. turn'[t] = k
  BY OneMoves DEF AgentInv
<1>3. ASSUME NEW call \in CallsOf(t, intent, ids)
      PROVE  /\ call.turn \in Turns /\ turn'[call.turn].stage \notin {"idle", "received"}
             /\ CallNamed(call)'
  <2>1. call.turn = t /\ call.origin = intent.origin /\ call.destination = intent.destination
    BY DEF CallsOf
  <2>2. /\ intent.origin = SelectedCode(k.request.selectedOrigin, k.draft.origin,
             Options(Or(k.request.selectedOrigin, Or(k.draft.origin, k.draft.originQuery))))
        /\ intent.destination =
             SelectedCode(k.request.selectedDestination, k.draft.destination,
               Options(Or(k.request.selectedDestination,
                          Or(k.draft.destination, k.draft.destinationQuery))))
    BY DEF Intent, Slots
  <2>3. CallNamed(call)'
    BY <1>2, <2>1, <2>2, CodeIsNamed DEF CallNamed
  <2> QED BY <1>2, <2>1, <2>3
<1>4. \A call \in calls' : CallNamed(call)'
  BY <1>1, <1>3
<1>5. NeverGuesses'
  BY <1>4 DEF NeverGuesses, CallNamed
<1> QED BY <1>1, <1>3, <1>5 DEF CallsOK

-----------------------------------------------------------------------------
(* The actions.                                                             *)

LEMMA KindOfTurn ==
  ASSUME NEW request \in Requests
  PROVE  /\ request.kind = "chat" <=> request \in ChatRequests
         /\ request.message # NULL => request \in ChatRequests
  BY RequestAssumption DEF Requests

LEMMA ReceiveStep ==
  ASSUME AgentInv, NEW t \in Turns, Receive(t)
  PROVE  AgentInv'
<1>1. PICK request \in ChatRequests :
        turn' = [turn EXCEPT ![t].stage = "received", ![t].request = request]
  BY DEF Receive
<1> DEFINE k == [turn[t] EXCEPT !.stage = "received", !.request = request]
<1>2. /\ turn[t].stage = "idle" /\ turn[t].result = {} /\ turn[t].todo = <<>>
      /\ turn[t].rows = {} /\ turn[t].watch = {}
  BY DEF Receive, AgentInv, SessionOK
<1>3. /\ Becomes(t, k)
      /\ k.stage = "received" /\ k.request = request /\ k.result = {} /\ k.todo = <<>>
      /\ k.rows = {} /\ k.watch = {}
  <2>1. IsTurn(turn[t]) /\ t \in DOMAIN turn
    BY DEF AgentInv, TurnsOK
  <2>2. turn' = [turn EXCEPT ![t] = k]
    BY <1>1, <1>2, <2>1
  <2>3. IsTurn(k)
    BY <2>1 DEF IsTurn
  <2> QED BY <1>1, <1>2, <2>1, <2>2, <2>3 DEF Becomes, IsTurn, Fields, Stages
<1> HIDE DEF k
<1>4. turn'[t] = k
  BY <1>3, OneMoves DEF AgentInv
<1>5. SessionOK(t)'
  BY <1>3, <1>4 DEF SessionOK, Chat, Requests
<1>6. TrailOK(t)'
  BY <1>3, <1>4, NothingToDo DEF TrailOK, Chat
<1>7. WishOK(t)'
  BY <1>3, <1>4 DEF WishOK
<1>8. CallsOK'
  BY <1>2, <1>3, NoCallMade DEF Receive
<1> QED BY <1>2, <1>3, <1>5, <1>6, <1>7, <1>8, UncommittedStep DEF Receive, Answered

\* A turn that ends without result, rows and watch keeps its part.
LEMMA EmptyEnd ==
  ASSUME AgentInv, NEW t \in Turns, NEW k, Becomes(t, k),
         k.stage \in {"answered", "failed"}, k.request \in Requests,
         k.result = {} \/ k.request \notin ChatRequests \/ k.stage = "failed",
         k.todo = <<>>, k.rows = {}, k.watch = {},
         ~Answered(t), CallsOK', watches' = watches, audits' = audits
  PROVE  AgentInv'
<1>1. turn'[t] = k
  BY OneMoves DEF AgentInv
<1>2. SessionOK(t)'
  BY <1>1 DEF SessionOK
<1>3. TrailOK(t)'
  BY <1>1, NothingToDo DEF TrailOK, Chat
<1>4. WishOK(t)'
  BY <1>1 DEF WishOK, Chat
<1> QED BY <1>2, <1>3, <1>4, UncommittedStep

LEMMA ModelRaisesStep ==
  ASSUME AgentInv, NEW t \in Turns, ModelRaises(t)
  PROVE  AgentInv'
<1> DEFINE k == [turn[t] EXCEPT !.stage = "failed"]
<1>1. /\ turn[t].stage = "received" /\ turn[t].result = {} /\ turn[t].todo = <<>>
      /\ turn[t].rows = {} /\ turn[t].watch = {} /\ turn[t].request \in Requests
  BY DEF ModelRaises, Step, AgentInv, SessionOK
<1>2. /\ Becomes(t, k)
      /\ k.stage = "failed" /\ k.request = turn[t].request /\ k.todo = <<>>
      /\ k.rows = {} /\ k.watch = {}
  <2>1. IsTurn(turn[t]) /\ t \in DOMAIN turn
    BY DEF AgentInv, TurnsOK
  <2>2. turn' = [turn EXCEPT ![t] = k]
    BY <1>1, <2>1 DEF ModelRaises, Step
  <2>3. IsTurn(k)
    BY <2>1 DEF IsTurn
  <2> QED BY <1>1, <2>1, <2>2, <2>3 DEF Becomes, IsTurn, Fields, Stages
<1> HIDE DEF k
<1>3. CallsOK'
  BY <1>1, <1>2, NoCallMade DEF ModelRaises
<1> QED BY <1>1, <1>2, <1>3, EmptyEnd DEF ModelRaises, Answered

LEMMA AskBackStep ==
  ASSUME AgentInv, NEW t \in Turns, AskBack(t)
  PROVE  AgentInv'
<1>1. PICK draft : turn' = [turn EXCEPT ![t].stage = "answered", ![t].draft = draft]
  BY DEF AskBack
<1> DEFINE k == [turn[t] EXCEPT !.stage = "answered", !.draft = draft]
<1>2. /\ turn[t].stage = "received" /\ turn[t].result = {} /\ turn[t].todo = <<>>
      /\ turn[t].rows = {} /\ turn[t].watch = {} /\ turn[t].request \in Requests
  BY DEF AskBack, AgentInv, SessionOK
<1>3. /\ Becomes(t, k)
      /\ k.stage = "answered" /\ k.request = turn[t].request /\ k.todo = <<>>
      /\ k.rows = {} /\ k.watch = {} /\ k.result = {}
  <2>1. IsTurn(turn[t]) /\ t \in DOMAIN turn
    BY DEF AgentInv, TurnsOK
  <2>2. turn' = [turn EXCEPT ![t] = k]
    BY <1>1, <1>2, <2>1
  <2>3. IsTurn(k)
    BY <2>1 DEF IsTurn
  <2> QED BY <1>1, <1>2, <2>1, <2>2, <2>3 DEF Becomes, IsTurn, Fields, Stages
<1> HIDE DEF k
<1>4. CallsOK'
  BY <1>2, <1>3, NoCallMade DEF AskBack
<1> QED BY <1>2, <1>3, <1>4, EmptyEnd DEF AskBack, Answered

LEMMA ToolsRaiseStep ==
  ASSUME AgentInv, NEW t \in Turns, ToolsRaise(t)
  PROVE  AgentInv'
<1>1. PICK draft \in Drafts(turn[t].request) :
        /\ turn' = [turn EXCEPT ![t].stage = "failed", ![t].draft = draft]
        /\ calls' = calls \cup CallsOf(t, Intent(turn[t].request, Slots(turn[t].request, draft)),
                                       NULL)
  BY DEF ToolsRaise
<1> DEFINE k == [turn[t] EXCEPT !.stage = "failed", !.draft = draft]
<1>2. /\ turn[t].stage = "received" /\ turn[t].result = {} /\ turn[t].todo = <<>>
      /\ turn[t].rows = {} /\ turn[t].watch = {}
      /\ turn[t].request \in ChatRequests /\ turn[t].request \in Requests
  BY DEF ToolsRaise, AgentInv, SessionOK, Chat
<1>3. /\ Becomes(t, k)
      /\ k.stage = "failed" /\ k.request = turn[t].request /\ k.draft = draft /\ k.todo = <<>>
      /\ k.rows = {} /\ k.watch = {}
  <2>1. IsTurn(turn[t]) /\ t \in DOMAIN turn
    BY DEF AgentInv, TurnsOK
  <2>2. turn' = [turn EXCEPT ![t] = k]
    BY <1>1, <1>2, <2>1
  <2>3. IsTurn(k)
    BY <2>1 DEF IsTurn
  <2> QED BY <1>1, <1>2, <2>1, <2>2, <2>3 DEF Becomes, IsTurn, Fields, Stages
<1> HIDE DEF k
<1>4. CallsOK'
  BY <1>1, <1>2, <1>3, DraftPlaces, CallsMade
<1> QED BY <1>2, <1>3, <1>4, EmptyEnd DEF ToolsRaise, Answered

LEMMA SearchStep ==
  ASSUME AgentInv, NEW t \in Turns, Search(t)
  PROVE  AgentInv'
<1>1. PICK request \in Searches, reply \in ApiReplies :
        LET intent == Intent(request, Slots(request, NoDraft))
            error == SearchError(settings, intent, request.ids, reply)
        IN  /\ turn' = [turn EXCEPT ![t].request = request, ![t].draft = NoDraft,
                  ![t].reply = reply,
                  ![t].stage = IF error = NoError THEN "answered" ELSE "failed",
                  ![t].result = IF error = NoError
                                  THEN {SearchResult(settings, intent, request.ids, reply)}
                                  ELSE {}]
            /\ calls' = calls \cup CallsOf(t, intent, request.ids)
  BY DEF Search
<1> DEFINE intent == Intent(request, Slots(request, NoDraft))
           error == SearchError(settings, intent, request.ids, reply)
           stage == IF error = NoError THEN "answered" ELSE "failed"
           result == IF error = NoError THEN {SearchResult(settings, intent, request.ids, reply)}
                     ELSE {}
           k == [turn[t] EXCEPT !.request = request, !.draft = NoDraft, !.reply = reply,
                                !.stage = stage, !.result = result]
<1>2. /\ turn' = [turn EXCEPT ![t].request = request, ![t].draft = NoDraft,
                  ![t].reply = reply, ![t].stage = stage, ![t].result = result]
      /\ calls' = calls \cup CallsOf(t, intent, request.ids)
  BY <1>1
<1>3. stage \in {"answered", "failed"}
  OBVIOUS
<1> HIDE DEF stage, result, error
<1>4. /\ turn[t].stage = "idle" /\ turn[t].todo = <<>>
      /\ turn[t].rows = {} /\ turn[t].watch = {}
  BY DEF Search, AgentInv, SessionOK
<1>5. /\ Becomes(t, k)
      /\ k.stage = stage /\ k.request = request /\ k.draft = NoDraft /\ k.todo = <<>>
      /\ k.rows = {} /\ k.watch = {}
  <2>1. IsTurn(turn[t]) /\ t \in DOMAIN turn
    BY DEF AgentInv, TurnsOK
  <2>2. turn' = [turn EXCEPT ![t] = k]
    BY <1>2, <1>3, <1>4, <2>1
  <2>3. IsTurn(k)
    BY <2>1 DEF IsTurn
  <2> QED BY <1>2, <1>3, <1>4, <2>1, <2>2, <2>3 DEF Becomes, IsTurn, Fields, Stages
<1> HIDE DEF k
<1>6. request \in Requests /\ request \notin ChatRequests
  BY RequestAssumption DEF Requests
<1>7. CallsOK'
  <2>1. /\ NoDraft.originQuery \in Places \cup {NULL}
        /\ NoDraft.destinationQuery \in Places \cup {NULL}
    BY DEF NoDraft
  <2> HIDE DEF intent
  <2>2. intent = Intent(k.request, Slots(k.request, k.draft))
    BY <1>5 DEF intent
  <2> QED BY <1>2, <1>3, <1>4, <1>5, <2>1, <2>2, CallsMade
<1> QED BY <1>3, <1>4, <1>5, <1>6, <1>7, EmptyEnd DEF Search, Answered

LEMMA CreateWatchStep ==
  ASSUME AgentInv, NEW t \in Turns, CreateWatch(t)
  PROVE  AgentInv'
<1>1. PICK request \in WatchRequests :
        turn' = [turn EXCEPT ![t].request = request, ![t].draft = NoDraft,
                   ![t].stage = IF WatchAllowed(request) THEN "watching" ELSE "failed"]
  BY DEF CreateWatch
<1> DEFINE stage == IF WatchAllowed(request) THEN "watching" ELSE "failed"
           k == [turn[t] EXCEPT !.request = request, !.draft = NoDraft, !.stage = stage]
<1>2. stage \in {"watching", "failed"}
  OBVIOUS
<1> HIDE DEF stage
<1>3. /\ turn[t].stage = "idle" /\ turn[t].todo = <<>>
      /\ turn[t].rows = {} /\ turn[t].watch = {}
  BY DEF CreateWatch, AgentInv, SessionOK
<1>4. /\ Becomes(t, k)
      /\ k.stage = stage /\ k.request = request /\ k.todo = <<>>
      /\ k.rows = {} /\ k.watch = {}
  <2>1. IsTurn(turn[t]) /\ t \in DOMAIN turn
    BY DEF AgentInv, TurnsOK
  <2>2. turn' = [turn EXCEPT ![t] = k]
    BY <1>1, <1>2, <1>3, <2>1 DEF stage
  <2>3. IsTurn(k)
    BY <2>1 DEF IsTurn
  <2> QED BY <1>1, <1>2, <1>3, <2>1, <2>2, <2>3 DEF Becomes, IsTurn, Fields, Stages
<1> HIDE DEF k
<1>5. request \in Requests /\ request \notin ChatRequests
  BY RequestAssumption DEF Requests
<1>6. turn'[t] = k
  BY <1>4, OneMoves DEF AgentInv
<1>7. SessionOK(t)'
  BY <1>2, <1>4, <1>5, <1>6 DEF SessionOK
<1>8. TrailOK(t)'
  BY <1>2, <1>4, <1>5, <1>6, NothingToDo DEF TrailOK, Chat
<1>9. WishOK(t)'
  BY <1>4, <1>5, <1>6 DEF WishOK, Chat
<1>10. CallsOK'
  BY <1>3, <1>4, NoCallMade DEF CreateWatch
<1> QED BY <1>2, <1>3, <1>4, <1>7, <1>8, <1>9, <1>10, UncommittedStep DEF CreateWatch, Answered

LEMMA RunToolsStep ==
  ASSUME AgentInv, NEW t \in Turns, RunTools(t)
  PROVE  AgentInv'
<1>1. PICK draft \in Drafts(turn[t].request), reply \in ApiReplies :
        LET slots == Slots(turn[t].request, draft)
            intent == Intent(turn[t].request, slots)
            watching == draft.wantsWatch /\ WatchAllowed(turn[t].request)
        IN  /\ turn' = [turn EXCEPT
                 ![t].stage = IF watching THEN "watching" ELSE "auditing",
                 ![t].draft = draft, ![t].reply = reply,
                 ![t].result = {SearchResult(settings, intent, NULL, reply)},
                 ![t].cells = Cardinality(DateMatrix(slots.departure, slots.returning, 3,
                                                     NULL, NULL)),
                 ![t].todo = IF watching THEN <<>> ELSE AuditedTools(FALSE)]
            /\ calls' = calls \cup CallsOf(t, intent, NULL)
  BY DEF RunTools
<1> DEFINE slots == Slots(turn[t].request, draft)
           intent == Intent(turn[t].request, slots)
           watching == draft.wantsWatch /\ WatchAllowed(turn[t].request)
           stage == IF watching THEN "watching" ELSE "auditing"
           result == {SearchResult(settings, intent, NULL, reply)}
           cells == Cardinality(DateMatrix(slots.departure, slots.returning, 3, NULL, NULL))
           todo == IF watching THEN <<>> ELSE AuditedTools(FALSE)
           k == [turn[t] EXCEPT !.stage = stage, !.draft = draft, !.reply = reply,
                                !.result = result, !.cells = cells, !.todo = todo]
<1>2. /\ turn' = [turn EXCEPT ![t].stage = stage, ![t].draft = draft, ![t].reply = reply,
                    ![t].result = result, ![t].cells = cells, ![t].todo = todo]
      /\ calls' = calls \cup CallsOf(t, intent, NULL)
  BY <1>1
<1>3. /\ IF watching THEN stage = "watching" /\ todo = <<>>
                     ELSE stage = "auditing" /\ todo = AuditedTools(FALSE)
      /\ result # {}
  OBVIOUS
<1> HIDE DEF stage, result, cells, todo, intent
<1>4. /\ turn[t].stage = "received" /\ turn[t].rows = {} /\ turn[t].watch = {}
      /\ turn[t].request \in ChatRequests
  BY DEF RunTools, AgentInv, SessionOK, Chat
<1>5. /\ Becomes(t, k)
      /\ k.stage = stage /\ k.request = turn[t].request /\ k.draft = draft
      /\ k.result = result /\ k.todo = todo /\ k.rows = {} /\ k.watch = {}
  <2>1. IsTurn(turn[t]) /\ t \in DOMAIN turn
    BY DEF AgentInv, TurnsOK
  <2>2. turn' = [turn EXCEPT ![t] = k]
    BY <1>2, <2>1
  <2>3. IsTurn(k)
    BY <2>1 DEF IsTurn
  <2> QED BY <1>3, <1>4, <2>1, <2>2, <2>3 DEF Becomes, IsTurn, Fields, Stages
<1> HIDE DEF k
<1>6. turn'[t] = k
  BY <1>5, OneMoves DEF AgentInv
<1>7. SessionOK(t)'
  BY <1>3, <1>4, <1>5, <1>6 DEF SessionOK, Requests
<1>8. TrailOK(t)'
  <2>1. turn'[t].todo \in Seq(ToolNames)
    BY <1>3, <1>5, <1>6, NothingToDo, AuditedToolsSet
  <2>2. turn'[t].stage = "auditing" => Written(t)' \cup ToSet(turn'[t].todo) = ToolsOf(t)'
    <3>1. Written(t)' = {}
      BY <1>5, <1>6 DEF Written
    <3>2. ToolsOf(t)' = ToSet(AuditedTools(FALSE))
      BY <1>5, <1>6, ToolsByWatch, AuditedToolsSet DEF ToolsOf
    <3> QED BY <1>3, <1>5, <1>6, <3>1, <3>2
  <2> QED BY <1>3, <1>4, <1>5, <1>6, <2>1, <2>2 DEF TrailOK, Chat
<1>9. WishOK(t)'
  BY <1>3, <1>4, <1>5, <1>6, DraftKeepsWish DEF WishOK
<1>10. CallsOK'
  <2>1. intent = Intent(k.request, Slots(k.request, k.draft))
    BY <1>5 DEF intent
  <2> QED BY <1>2, <1>3, <1>4, <1>5, <2>1, DraftPlaces, CallsMade
<1> QED BY <1>3, <1>4, <1>5, <1>7, <1>8, <1>9, <1>10, UncommittedStep DEF RunTools, Answered

LEMMA WriteWatchStep ==
  ASSUME AgentInv, NEW t \in Turns, WriteWatch(t)
  PROVE  AgentInv'
<1> DEFINE k == [turn[t] EXCEPT !.stage = "reading", !.watch = {WatchRow(t)}]
<1>1. /\ turn[t].stage = "watching" /\ turn[t].request \in Requests /\ turn[t].rows = {}
      /\ turn' = [turn EXCEPT ![t].stage = "reading", ![t].watch = {WatchRow(t)}]
  BY DEF WriteWatch, AgentInv, SessionOK
<1>2. /\ Becomes(t, k)
      /\ k.stage = "reading" /\ k.request = turn[t].request /\ k.draft = turn[t].draft
      /\ k.result = turn[t].result /\ k.todo = turn[t].todo /\ k.rows = {}
      /\ k.watch = {WatchRow(t)}
  <2>1. IsTurn(turn[t]) /\ t \in DOMAIN turn
    BY DEF AgentInv, TurnsOK
  <2>2. turn' = [turn EXCEPT ![t] = k]
    BY <1>1, <2>1
  <2>3. IsTurn(k)
    BY <2>1 DEF IsTurn
  <2> QED BY <1>1, <2>1, <2>2, <2>3 DEF Becomes, IsTurn, Fields, Stages
<1> HIDE DEF k
<1>3. turn'[t] = k
  BY <1>2, OneMoves DEF AgentInv
<1>4. SessionOK(t)'
  <2>1. WatchRow(t)' = WatchRow(t)
    BY <1>2, <1>3 DEF WatchRow, TurnSlots
  <2> QED BY <1>1, <1>2, <1>3, <2>1 DEF SessionOK
<1>5. TrailOK(t)'
  BY <1>1, <1>2, <1>3 DEF TrailOK, Chat, AgentInv
<1>6. WishOK(t)'
  BY <1>2, <1>3 DEF WishOK
<1>7. CallsOK'
  BY <1>2, NoCallMade DEF WriteWatch
<1> QED BY <1>1, <1>2, <1>4, <1>5, <1>6, <1>7, UncommittedStep DEF WriteWatch, Answered

LEMMA ReadWatchStep ==
  ASSUME AgentInv, NEW t \in Turns, ReadWatch(t)
  PROVE  AgentInv'
<1> DEFINE todo == IF turn[t].request.kind = "chat" THEN AuditedTools(TRUE) ELSE <<>>
           k == [turn[t] EXCEPT !.stage = "auditing", !.todo = todo]
<1>1. /\ turn[t].stage = "reading" /\ turn[t].request \in Requests /\ turn[t].rows = {}
      /\ turn[t].watch # {}
      /\ turn' = [turn EXCEPT ![t].stage = "auditing", ![t].todo = todo]
  BY DEF ReadWatch, AgentInv, SessionOK
<1>2. IF turn[t].request \in ChatRequests THEN todo = AuditedTools(TRUE) ELSE todo = <<>>
  BY <1>1, KindOfTurn
<1> HIDE DEF todo
<1>3. /\ Becomes(t, k)
      /\ k.stage = "auditing" /\ k.request = turn[t].request /\ k.draft = turn[t].draft
      /\ k.result = turn[t].result /\ k.todo = todo /\ k.rows = {} /\ k.watch = turn[t].watch
  <2>1. IsTurn(turn[t]) /\ t \in DOMAIN turn
    BY DEF AgentInv, TurnsOK
  <2>2. turn' = [turn EXCEPT ![t] = k]
    BY <1>1, <2>1
  <2>3. IsTurn(k)
    BY <2>1 DEF IsTurn
  <2> QED BY <1>1, <2>1, <2>2, <2>3 DEF Becomes, IsTurn, Fields, Stages
<1> HIDE DEF k
<1>4. turn'[t] = k
  BY <1>3, OneMoves DEF AgentInv
<1>5. SessionOK(t)'
  <2>1. WatchRow(t)' = WatchRow(t)
    BY <1>3, <1>4 DEF WatchRow, TurnSlots
  <2>2. \A row \in turn[t].watch : row = WatchRow(t)
    BY DEF AgentInv, SessionOK
  <2> QED BY <1>1, <1>3, <1>4, <2>1, <2>2 DEF SessionOK
<1>6. TrailOK(t)'
  <2>1. turn'[t].todo \in Seq(ToolNames)
    BY <1>2, <1>3, <1>4, NothingToDo, AuditedToolsSet
  <2>2. turn[t].request \in ChatRequests =>
          Written(t)' \cup ToSet(turn'[t].todo) = ToolsOf(t)'
    <3>1. Written(t)' = {}
      BY <1>3, <1>4 DEF Written
    <3>2. ToolsOf(t)' = ToolNames
      BY <1>1, <1>3, <1>4, ToolsByWatch DEF ToolsOf
    <3> QED BY <1>2, <1>3, <1>4, <3>1, <3>2, AuditedToolsSet
  <2>3. turn[t].request \in ChatRequests => turn[t].result # {}
    BY <1>1 DEF AgentInv, TrailOK, Chat
  <2> QED BY <1>2, <1>3, <1>4, <2>1, <2>2, <2>3 DEF TrailOK, Chat
<1>7. WishOK(t)'
  BY <1>1, <1>3, <1>4 DEF WishOK
<1>8. CallsOK'
  BY <1>3, NoCallMade DEF ReadWatch
<1> QED BY <1>1, <1>3, <1>5, <1>6, <1>7, <1>8, UncommittedStep DEF ReadWatch, Answered

LEMMA WriteAuditStep ==
  ASSUME AgentInv, NEW t \in Turns, WriteAudit(t)
  PROVE  AgentInv'
<1> DEFINE row == AuditRow(t, Head(turn[t].todo), turn[t].request, TurnSlots(t))
           rows == turn[t].rows \cup {row}
           k == [turn[t] EXCEPT !.todo = Tail(turn[t].todo), !.rows = rows]
<1>1. /\ turn[t].stage = "auditing" /\ turn[t].request \in Requests
      /\ turn[t].todo \in Seq(ToolNames) /\ turn[t].todo # <<>>
      /\ turn' = [turn EXCEPT ![t].todo = Tail(turn[t].todo), ![t].rows = rows]
  <2>1. IsTurn(turn[t]) /\ t \in DOMAIN turn
    BY DEF AgentInv, TurnsOK
  <2>2. turn' = [turn EXCEPT ![t].todo = Tail(turn[t].todo), ![t].rows = rows]
    BY <2>1 DEF WriteAudit, IsTurn, Fields
  <2> QED BY <2>2 DEF WriteAudit, AgentInv, SessionOK, TrailOK
<1>2. Chat(t)
  BY <1>1 DEF AgentInv, TrailOK
<1>3. /\ Head(turn[t].todo) \in ToolNames /\ Tail(turn[t].todo) \in Seq(ToolNames)
      /\ ToSet(turn[t].todo) = {Head(turn[t].todo)} \cup ToSet(Tail(turn[t].todo))
  BY <1>1, HeadAndTail
<1>4. row.tool = Head(turn[t].todo)
  BY DEF AuditRow
<1> HIDE DEF row, rows
<1>5. /\ Becomes(t, k)
      /\ k.stage = "auditing" /\ k.request = turn[t].request /\ k.draft = turn[t].draft
      /\ k.result = turn[t].result /\ k.todo = Tail(turn[t].todo) /\ k.rows = rows
      /\ k.watch = turn[t].watch
  <2>1. IsTurn(turn[t]) /\ t \in DOMAIN turn
    BY DEF AgentInv, TurnsOK
  <2>2. turn' = [turn EXCEPT ![t] = k]
    BY <1>1, <2>1
  <2>3. IsTurn(k)
    BY <2>1 DEF IsTurn
  <2> QED BY <1>1, <2>1, <2>2, <2>3 DEF Becomes, IsTurn, Fields, Stages
<1> HIDE DEF k
<1>6. turn'[t] = k
  BY <1>5, OneMoves DEF AgentInv
<1>7. SessionOK(t)'
  <2>1. WatchRow(t)' = WatchRow(t) /\ TurnSlots(t)' = TurnSlots(t)
    BY <1>5, <1>6 DEF WatchRow, TurnSlots
  <2>2. /\ \A r \in turn[t].watch : r = WatchRow(t)
        /\ \A r \in turn[t].rows : r = AuditRow(t, r.tool, turn[t].request, TurnSlots(t))
    BY DEF AgentInv, SessionOK
  <2>3. \A r \in rows : r = AuditRow(t, r.tool, turn[t].request, TurnSlots(t))
    BY <1>4, <2>2 DEF rows, row
  <2> QED BY <1>1, <1>5, <1>6, <2>1, <2>2, <2>3 DEF SessionOK
<1>8. TrailOK(t)'
  <2>1. Written(t)' = Written(t) \cup {Head(turn[t].todo)}
    <3>1. Written(t)' = {r.tool : r \in rows}
      BY <1>5, <1>6 DEF Written
    <3>2. {r.tool : r \in rows} = {r.tool : r \in turn[t].rows} \cup {row.tool}
      BY DEF rows
    <3> QED BY <1>4, <3>1, <3>2 DEF Written
  <2>2. ToolsOf(t)' = ToolsOf(t)
    BY <1>5, <1>6 DEF ToolsOf
  <2>3. Written(t) \cup ToSet(turn[t].todo) = ToolsOf(t) /\ turn[t].result # {}
    BY <1>1, <1>2 DEF AgentInv, TrailOK
  <2>4. Written(t)' \cup ToSet(turn'[t].todo) = ToolsOf(t)'
    BY <1>3, <1>5, <1>6, <2>1, <2>2, <2>3
  <2> QED BY <1>2, <1>3, <1>5, <1>6, <2>3, <2>4 DEF TrailOK, Chat
<1>9. WishOK(t)'
  BY <1>1, <1>2, <1>5, <1>6 DEF WishOK, Chat, AgentInv
<1>10. CallsOK'
  BY <1>5, NoCallMade DEF WriteAudit
<1> QED BY <1>1, <1>5, <1>7, <1>8, <1>9, <1>10, UncommittedStep DEF WriteAudit, Answered

LEMMA CommitStep ==
  ASSUME AgentInv, NEW t \in Turns, Commit(t)
  PROVE  AgentInv'
<1> DEFINE k == [turn[t] EXCEPT !.stage = "answered"]
<1>1. /\ turn[t].stage = "auditing" /\ turn[t].request \in Requests /\ turn[t].todo = <<>>
      /\ turn' = [turn EXCEPT ![t].stage = "answered"]
  BY DEF Commit, Step, AgentInv, SessionOK
<1>2. /\ Becomes(t, k)
      /\ k.stage = "answered" /\ k.request = turn[t].request /\ k.draft = turn[t].draft
      /\ k.result = turn[t].result /\ k.todo = <<>> /\ k.rows = turn[t].rows
      /\ k.watch = turn[t].watch
  <2>1. IsTurn(turn[t]) /\ t \in DOMAIN turn
    BY DEF AgentInv, TurnsOK
  <2>2. turn' = [turn EXCEPT ![t] = k]
    BY <1>1, <2>1
  <2>3. IsTurn(k)
    BY <2>1 DEF IsTurn
  <2> QED BY <1>1, <2>1, <2>2, <2>3 DEF Becomes, IsTurn, Fields, Stages
<1> HIDE DEF k
<1>3. TurnsOK' /\ turn'[t] = k /\ \A u \in Turns \ {t} : turn'[u] = turn[u]
  BY <1>2, OneMoves DEF AgentInv
<1>4. SessionOK(t)'
  <2>1. WatchRow(t)' = WatchRow(t) /\ TurnSlots(t)' = TurnSlots(t)
    BY <1>2, <1>3 DEF WatchRow, TurnSlots
  <2>2. /\ \A r \in turn[t].watch : r = WatchRow(t)
        /\ \A r \in turn[t].rows : r = AuditRow(t, r.tool, turn[t].request, TurnSlots(t))
    BY DEF AgentInv, SessionOK
  <2> QED BY <1>1, <1>2, <1>3, <2>1, <2>2 DEF SessionOK
<1>5. TrailOK(t)'
  <2>1. Written(t)' = Written(t) /\ ToolsOf(t)' = ToolsOf(t)
    BY <1>2, <1>3 DEF Written, ToolsOf
  <2>2. Chat(t) => turn[t].result # {} /\ Written(t) \cup ToSet(<<>>) = ToolsOf(t)
    BY <1>1 DEF AgentInv, TrailOK
  <2>3. ToSet(<<>>) = {}
    BY DEF ToSet
  <2>4. ~Chat(t) => turn[t].rows = {}
    BY DEF AgentInv, TrailOK
  <2> QED BY <1>2, <1>3, <2>1, <2>2, <2>3, <2>4, NothingToDo DEF TrailOK, Chat
<1>6. WishOK(t)'
  BY <1>1, <1>2, <1>3 DEF WishOK, Chat, AgentInv
<1>7. ASSUME NEW u \in Turns
      PROVE  SessionOK(u)' /\ TrailOK(u)' /\ WishOK(u)'
  <2>1. CASE u = t
    BY <1>4, <1>5, <1>6, <2>1
  <2>2. CASE u # t
    BY <1>3, <2>2, OthersKept DEF AgentInv
  <2> QED BY <2>1, <2>2
<1>8. /\ \A watch \in turn[t].watch : watch.turn = t
      /\ \A row \in turn[t].rows : row.turn = t
  <2>1. /\ \A r \in turn[t].watch : r = WatchRow(t)
        /\ \A r \in turn[t].rows : r = AuditRow(t, r.tool, turn[t].request, TurnSlots(t))
    BY DEF AgentInv, SessionOK
  <2>2. WatchRow(t).turn = t /\ \A tool : AuditRow(t, tool, turn[t].request, TurnSlots(t)).turn = t
    BY DEF WatchRow, AuditRow
  <2> QED BY <2>1, <2>2
<1>9. CommitOK'
  <2>1. watches' = watches \cup turn[t].watch /\ audits' = audits \cup turn[t].rows
    BY DEF Commit
  <2>2. ASSUME NEW watch \in watches'
        PROVE  watch.turn \in Turns /\ Answered(watch.turn)' /\ watch \in turn'[watch.turn].watch
    <3>1. CASE watch \in turn[t].watch
      BY <1>2, <1>3, <1>8, <3>1 DEF Answered
    <3>2. CASE watch \in watches
      BY <1>1, <1>3, <3>2 DEF AgentInv, CommitOK, Answered
    <3> QED BY <2>1, <3>1, <3>2
  <2>3. ASSUME NEW row \in audits'
        PROVE  row.turn \in Turns /\ Answered(row.turn)' /\ row \in turn'[row.turn].rows
    <3>1. CASE row \in turn[t].rows
      BY <1>2, <1>3, <1>8, <3>1 DEF Answered
    <3>2. CASE row \in audits
      BY <1>1, <1>3, <3>2 DEF AgentInv, CommitOK, Answered
    <3> QED BY <2>1, <3>1, <3>2
  <2>4. ASSUME NEW u \in Turns, Answered(u)'
        PROVE  turn'[u].watch \subseteq watches' /\ turn'[u].rows \subseteq audits'
    <3>1. CASE u = t
      BY <1>2, <1>3, <2>1, <3>1
    <3>2. CASE u # t
      BY <1>3, <2>1, <2>4, <3>2 DEF AgentInv, CommitOK, Answered
    <3> QED BY <3>1, <3>2
  <2> QED BY <2>2, <2>3, <2>4 DEF CommitOK
<1>10. CallsOK'
  BY <1>1, <1>2, NoCallMade DEF Commit
<1> QED BY <1>3, <1>7, <1>9, <1>10 DEF AgentInv

LEMMA AbortStep ==
  ASSUME AgentInv, NEW t \in Turns, Abort(t)
  PROVE  AgentInv'
<1> DEFINE k == [turn[t] EXCEPT !.stage = "failed", !.watch = {}, !.rows = {}, !.todo = <<>>]
<1>1. /\ turn[t].stage \notin {"idle", "answered", "failed"}
      /\ turn[t].request \in Requests
      /\ turn' = [turn EXCEPT ![t].stage = "failed", ![t].watch = {}, ![t].rows = {},
                              ![t].todo = <<>>]
  BY DEF Abort, AgentInv, SessionOK
<1>2. /\ Becomes(t, k)
      /\ k.stage = "failed" /\ k.request = turn[t].request /\ k.draft = turn[t].draft
      /\ k.todo = <<>> /\ k.rows = {} /\ k.watch = {}
  <2>1. IsTurn(turn[t]) /\ t \in DOMAIN turn
    BY DEF AgentInv, TurnsOK
  <2>2. turn' = [turn EXCEPT ![t] = k]
    BY <1>1, <2>1
  <2>3. IsTurn(k)
    BY <2>1 DEF IsTurn
  <2> QED BY <1>1, <2>1, <2>2, <2>3 DEF Becomes, IsTurn, Fields, Stages
<1> HIDE DEF k
<1>3. CallsOK'
  BY <1>1, <1>2, NoCallMade DEF Abort
<1> QED BY <1>1, <1>2, <1>3, EmptyEnd DEF Abort, Answered

LEMMA AgentStutter ==
  ASSUME AgentInv, UNCHANGED vars
  PROVE  AgentInv'
<1>1. TurnsOK'
  BY DEF AgentInv, TurnsOK, vars, IsTurn
<1>2. \A t \in Turns : SessionOK(t)' /\ TrailOK(t)' /\ WishOK(t)'
  BY OthersKept DEF AgentInv, vars
<1>3. CommitOK' /\ CallsOK'
  BY DEF AgentInv, CommitOK, CallsOK, NeverGuesses, Answered, vars
<1> QED BY <1>1, <1>2, <1>3 DEF AgentInv

-----------------------------------------------------------------------------
(* The theorems.                                                            *)

\* AgentInv is inductive: it holds whatever requests come, in whatever order
\* turns read, write, commit, raise and die.
THEOREM AgentInvariant == Spec => []AgentInv
<1>1. AgentInv /\ [Next]_vars => AgentInv'
  <2> SUFFICES ASSUME AgentInv, [Next]_vars PROVE AgentInv'
    OBVIOUS
  <2>1. CASE UNCHANGED vars
    BY <2>1, AgentStutter
  <2>2. CASE Next
    <3>1. PICK t \in Turns :
            \/ Receive(t) \/ ModelRaises(t) \/ AskBack(t) \/ ToolsRaise(t) \/ RunTools(t)
            \/ Search(t) \/ CreateWatch(t) \/ WriteWatch(t) \/ ReadWatch(t)
            \/ WriteAudit(t) \/ Commit(t) \/ Abort(t)
      BY <2>2 DEF Next
    <3>2. CASE Receive(t)
      BY <3>2, ReceiveStep
    <3>3. CASE ModelRaises(t)
      BY <3>3, ModelRaisesStep
    <3>4. CASE AskBack(t)
      BY <3>4, AskBackStep
    <3>5. CASE ToolsRaise(t)
      BY <3>5, ToolsRaiseStep
    <3>6. CASE RunTools(t)
      BY <3>6, RunToolsStep
    <3>7. CASE Search(t)
      BY <3>7, SearchStep
    <3>8. CASE CreateWatch(t)
      BY <3>8, CreateWatchStep
    <3>9. CASE WriteWatch(t)
      BY <3>9, WriteWatchStep
    <3>10. CASE ReadWatch(t)
      BY <3>10, ReadWatchStep
    <3>11. CASE WriteAudit(t)
      BY <3>11, WriteAuditStep
    <3>12. CASE Commit(t)
      BY <3>12, CommitStep
    <3>13. CASE Abort(t)
      BY <3>13, AbortStep
    <3> QED BY <3>1, <3>2, <3>3, <3>4, <3>5, <3>6, <3>7, <3>8, <3>9, <3>10, <3>11, <3>12,
               <3>13
  <2> QED BY <2>1, <2>2
<1> QED BY <1>1, AgentInit, PTL DEF Spec

\* A watch a chat turn committed has its audit row and the row its watch, of
\* one owner and one route: both were written in one session from one draft,
\* and there is one commit.
THEOREM WatchesHaveAudits == Spec => []WatchesAreAudited
<1>1. AgentInv => WatchesAreAudited
  <2> SUFFICES ASSUME AgentInv PROVE WatchesAreAudited
    OBVIOUS
  <2>1. ASSUME NEW watch \in watches, turn[watch.turn].request.kind = "chat"
        PROVE  \E row \in audits :
                 /\ row.turn = watch.turn /\ row.tool = "create_watch"
                 /\ <<row.household, row.user>> = <<watch.household, watch.user>>
                 /\ <<row.origin, row.destination>> = <<watch.origin, watch.destination>>
    <3> DEFINE t == watch.turn
    <3>1. t \in Turns /\ turn[t].stage = "answered" /\ watch \in turn[t].watch
      BY DEF AgentInv, CommitOK, Answered
    <3> HIDE DEF t
    <3>2. Chat(t) /\ watch = WatchRow(t)
      BY <2>1, <3>1, KindOfTurn DEF AgentInv, SessionOK, Chat, t
    <3>3. Written(t) = ToolsOf(t)
      BY <3>1, <3>2 DEF AgentInv, TrailOK
    <3>4. "create_watch" \in ToolsOf(t)
      BY <3>1, ToolsByWatch DEF ToolsOf, ToolNames
    <3>5. PICK row \in turn[t].rows : row.tool = "create_watch"
      BY <3>3, <3>4 DEF Written
    <3>6. row \in audits /\ row = AuditRow(t, "create_watch", turn[t].request, TurnSlots(t))
      BY <3>1, <3>5 DEF AgentInv, CommitOK, SessionOK, Answered
    <3>7. /\ row.turn = t /\ row.household = watch.household /\ row.user = watch.user
          /\ row.origin = watch.origin /\ row.destination = watch.destination
      BY <3>2, <3>6 DEF WatchRow, AuditRow
    <3> QED BY <3>5, <3>6, <3>7 DEF t
  <2>2. ASSUME NEW row \in audits, row.tool = "create_watch"
        PROVE  \E watch \in watches : watch.turn = row.turn
    <3> DEFINE t == row.turn
    <3>1. t \in Turns /\ turn[t].stage = "answered" /\ row \in turn[t].rows
      BY DEF AgentInv, CommitOK, Answered
    <3> HIDE DEF t
    <3>2. Chat(t) /\ turn[t].result # {}
      BY <3>1 DEF AgentInv, TrailOK
    <3>3. "create_watch" \in ToolsOf(t)
      BY <2>2, <3>1, <3>2 DEF AgentInv, TrailOK, Written
    <3>4. PICK watch \in turn[t].watch : TRUE
      BY <3>3, ToolsByWatch DEF ToolsOf
    <3>5. watch \in watches /\ watch = WatchRow(t)
      BY <3>1, <3>4 DEF AgentInv, CommitOK, SessionOK, Answered
    <3> QED BY <3>5 DEF WatchRow, t
  <2> QED BY <2>1, <2>2 DEF WatchesAreAudited
<1> QED BY <1>1, AgentInvariant, PTL

\* A wish of the message is honoured however the model's draft is merged over
\* it, and whatever raises, dies or commits in between.
THEOREM WishesAreHonoured == Spec => []WishIsHonoured
<1>1. AgentInv => WishIsHonoured
  <2> SUFFICES ASSUME AgentInv, NEW t \in Turns, Searched(t),
                      turn[t].request.message # NULL, turn[t].request.message.watchWords,
                      WatchAllowed(turn[t].request)
               PROVE  \E watch \in watches : watch.turn = t
    BY DEF WishIsHonoured
  <2>1. turn[t].stage = "answered" /\ turn[t].result # {}
    BY DEF Searched, Answered
  <2>2. Chat(t)
    BY <2>1, KindOfTurn DEF AgentInv, SessionOK, Chat
  <2>3. PICK watch \in turn[t].watch : TRUE
    BY <2>1, <2>2 DEF AgentInv, WishOK
  <2>4. watch \in watches /\ watch = WatchRow(t)
    BY <2>1, <2>3 DEF AgentInv, CommitOK, SessionOK, Answered
  <2> QED BY <2>4 DEF WatchRow
<1> QED BY <1>1, AgentInvariant, PTL

\* Nothing is asked of the Data API about a place nobody named, over every
\* airport table and every answer of the model.
THEOREM AgentNeverGuesses == Spec => []NeverGuesses
<1>1. AgentInv => NeverGuesses
  BY DEF AgentInv, CallsOK
<1> QED BY <1>1, AgentInvariant, PTL

\* The trail of a turn is whole or absent.
THEOREM TrailsAreWhole == Spec => []TrailIsWhole
<1>1. AgentInv => TrailIsWhole
  <2> SUFFICES ASSUME AgentInv, NEW t \in Turns
               PROVE  IF Searched(t) /\ turn[t].request.kind = "chat"
                        THEN {row.tool : row \in RowsOf(t)} =
                               ToSet(AuditedTools(\E watch \in watches : watch.turn = t))
                        ELSE RowsOf(t) = {}
    BY DEF TrailIsWhole
  <2>1. ~Answered(t) => RowsOf(t) = {}
    BY DEF AgentInv, CommitOK, RowsOf
  <2>2. CASE Answered(t)
    <3>1. RowsOf(t) = turn[t].rows
      <4>1. \A row \in turn[t].rows : row.turn = t /\ row \in audits
        BY <2>2 DEF AgentInv, CommitOK, SessionOK, AuditRow
      <4> QED BY <4>1 DEF AgentInv, CommitOK, RowsOf
    <3>2. Chat(t) <=> turn[t].request.kind = "chat"
      BY <2>2, KindOfTurn DEF AgentInv, SessionOK, Answered, Chat
    <3>3. CASE Searched(t) /\ Chat(t)
      <4>1. Written(t) = ToolsOf(t)
        BY <3>3 DEF AgentInv, TrailOK, Searched, Answered
      <4>2. (\E watch \in watches : watch.turn = t) <=> turn[t].watch # {}
        <5>1. \A watch \in turn[t].watch : watch.turn = t /\ watch \in watches
          BY <2>2 DEF AgentInv, CommitOK, SessionOK, WatchRow
        <5>2. \A watch \in watches : watch.turn = t => watch \in turn[t].watch
          BY DEF AgentInv, CommitOK
        <5> QED BY <5>1, <5>2
      <4>3. (\E watch \in watches : watch.turn = t) = (turn[t].watch # {})
        BY <4>2
      <4>4. ToSet(AuditedTools(\E watch \in watches : watch.turn = t)) = ToolsOf(t)
        BY <4>3, Zenon DEF ToolsOf
      <4> QED BY <3>1, <3>2, <3>3, <4>1, <4>4 DEF Written
    <3>4. CASE ~(Searched(t) /\ Chat(t))
      <4>1. turn[t].rows = {}
        BY <2>2, <3>4 DEF AgentInv, TrailOK, Searched, Answered
      <4> QED BY <3>1, <3>2, <3>4, <4>1
    <3> QED BY <3>3, <3>4
  <2> QED BY <2>1, <2>2 DEF Searched
<1> QED BY <1>1, AgentInvariant, PTL

-----------------------------------------------------------------------------
(* The ranking.                                                             *)

\* An offer as either provider makes them: cached, unconfirmed, no baggage.
Cached(offer) ==
  /\ offer.price \in Int /\ offer.id \in Int
  /\ offer.freshness = "cached" /\ offer.requiresLiveConfirmation /\ ~offer.baggageKnown

\* Offers in the order of steps and places.
IsFamily(offers) ==
  /\ IsFiniteSet(DOMAIN offers) /\ DOMAIN offers \subseteq Nat \X Nat
  /\ \A place \in DOMAIN offers : Cached(offers[place])

\* The penalties of cached offers are the same, so price decides first.
LEMMA CachedOrder ==
  ASSUME NEW one, Cached(one), NEW other, Cached(other)
  PROVE  RankedBefore(one, other) <=>
           \/ one.price < other.price
           \/ /\ one.price = other.price
              /\ \/ ProviderRank(one.provider) < ProviderRank(other.provider)
                 \/ /\ ProviderRank(one.provider) = ProviderRank(other.provider)
                    /\ one.id < other.id
<1>1. Score(one) = one.price + 4000 /\ Score(other) = other.price + 4000
  BY DEF Score, FreshnessPenalty, Cached
<1>2. ProviderRank(one.provider) \in Int /\ ProviderRank(other.provider) \in Int
  BY DEF ProviderRank
<1>3. /\ RankKey(one)[1] = Score(one) /\ RankKey(one)[2] = one.price
      /\ RankKey(one)[3] = ProviderRank(one.provider) /\ RankKey(one)[4] = one.id
  BY DEF RankKey
<1>4. /\ RankKey(other)[1] = Score(other) /\ RankKey(other)[2] = other.price
      /\ RankKey(other)[3] = ProviderRank(other.provider) /\ RankKey(other)[4] = other.id
  BY DEF RankKey
<1> DEFINE Less(i) == RankKey(one)[i] < RankKey(other)[i]
           Same(i) == RankKey(one)[i] = RankKey(other)[i]
           First(i) == Less(i) /\ \A j \in 1..(i - 1) : Same(j)
<1>5. RankedBefore(one, other) <=> First(1) \/ First(2) \/ First(3) \/ First(4)
  <2> HIDE DEF Less, Same
  <2>1. 1..4 = {1, 2, 3, 4}
    OBVIOUS
  <2>2. RankedBefore(one, other) <=> \E i \in 1..4 : First(i)
    BY DEF RankedBefore, Less, Same
  <2> HIDE DEF First
  <2> QED BY <2>1, <2>2
<1>6. /\ First(1) <=> Less(1)
      /\ First(2) <=> Less(2) /\ Same(1)
      /\ First(3) <=> Less(3) /\ Same(1) /\ Same(2)
      /\ First(4) <=> Less(4) /\ Same(1) /\ Same(2) /\ Same(3)
  <2> HIDE DEF Less, Same
  <2>1. /\ 1..(1 - 1) = {} /\ 1..(2 - 1) = {1} /\ 1..(3 - 1) = {1, 2}
        /\ 1..(4 - 1) = {1, 2, 3}
    OBVIOUS
  <2> QED BY <2>1
<1> HIDE DEF First
<1>7. /\ Less(1) <=> one.price < other.price
      /\ Less(2) <=> one.price < other.price
      /\ Less(3) <=> ProviderRank(one.provider) < ProviderRank(other.provider)
      /\ Less(4) <=> one.id < other.id
      /\ Same(1) <=> one.price = other.price
      /\ Same(2) <=> one.price = other.price
      /\ Same(3) <=> ProviderRank(one.provider) = ProviderRank(other.provider)
  BY <1>1, <1>3, <1>4 DEF Cached
<1> HIDE DEF Less, Same
<1> QED BY <1>5, <1>6, <1>7 DEF Cached

\* The order of the sort is a strict and total one of the places.
LEMMA SortOrder ==
  ASSUME NEW offers, IsFamily(offers)
  PROVE  /\ \A i \in DOMAIN offers : ~SortedBefore(offers, i, i)
         /\ \A i, j \in DOMAIN offers :
              i # j => SortedBefore(offers, i, j) \/ SortedBefore(offers, j, i)
         /\ \A i, j, k \in DOMAIN offers :
              SortedBefore(offers, i, j) /\ SortedBefore(offers, j, k)
                => SortedBefore(offers, i, k)
         /\ \A i, j \in DOMAIN offers :
              ~SortedBefore(offers, j, i) => offers[i].price <= offers[j].price
<1> DEFINE price(i) == offers[i].price
           who(i) == ProviderRank(offers[i].provider)
           id(i) == offers[i].id
           Ahead(i, j) ==
             \/ price(i) < price(j)
             \/ /\ price(i) = price(j)
                /\ who(i) < who(j) \/ (who(i) = who(j) /\ id(i) < id(j))
<1>1. \A i \in DOMAIN offers :
        /\ price(i) \in Int /\ who(i) \in Int /\ id(i) \in Int
        /\ i[1] \in Nat /\ i[2] \in Nat /\ i = <<i[1], i[2]>>
  BY DEF IsFamily, Cached, ProviderRank
<1>2. \A i, j \in DOMAIN offers : RankedBefore(offers[i], offers[j]) <=> Ahead(i, j)
  BY CachedOrder DEF IsFamily
<1>3. \A i, j \in DOMAIN offers : SortedBefore(offers, i, j) <=>
        \/ Ahead(i, j)
        \/ ~Ahead(j, i) /\ (i[1] < j[1] \/ (i[1] = j[1] /\ i[2] < j[2]))
  BY <1>2 DEF SortedBefore
<1> HIDE DEF price, who, id
<1>4. \A i \in DOMAIN offers : ~SortedBefore(offers, i, i)
  BY <1>1, <1>3
<1>5. \A i, j \in DOMAIN offers :
        i # j => SortedBefore(offers, i, j) \/ SortedBefore(offers, j, i)
  BY <1>1, <1>3
<1>6. \A i, j, k \in DOMAIN offers :
        SortedBefore(offers, i, j) /\ SortedBefore(offers, j, k) => SortedBefore(offers, i, k)
  BY <1>1, <1>3
<1>7. \A i, j \in DOMAIN offers : ~SortedBefore(offers, j, i) => price(i) <= price(j)
  BY <1>1, <1>3
<1> QED BY <1>4, <1>5, <1>6, <1>7 DEF price

\* Every rank is taken by exactly one place.
LEMMA EveryRankIsTaken ==
  ASSUME NEW offers, IsFamily(offers), NEW n \in 1..Cardinality(DOMAIN offers)
  PROVE  \E place \in DOMAIN offers : PlaceInOrder(offers, place) = n
<1> DEFINE D == DOMAIN offers
           Before(i) == {j \in D : SortedBefore(offers, j, i)}
           f == [i \in D |-> Cardinality(Before(i)) + 1]
           many == Cardinality(D)
<1>1. IsFiniteSet(D) /\ many \in Nat
  BY FS_CardinalityType DEF IsFamily
<1>2. ASSUME NEW i \in D
      PROVE  IsFiniteSet(Before(i)) /\ Cardinality(Before(i)) \in Nat
             /\ Cardinality(Before(i)) + 1 <= many
  <2>1. Before(i) \subseteq D \ {i}
    BY SortOrder
  <2>2. IsFiniteSet(D \ {i}) /\ Cardinality(D \ {i}) = many - 1
    BY <1>1, FS_RemoveElement
  <2> HIDE DEF D, Before, many
  <2>3. IsFiniteSet(Before(i)) /\ Cardinality(Before(i)) <= many - 1
    BY <2>1, <2>2, FS_Subset
  <2> QED BY <1>1, <2>3, FS_CardinalityType
<1>3. ASSUME NEW i \in D, NEW j \in D, SortedBefore(offers, i, j)
      PROVE  Cardinality(Before(i)) < Cardinality(Before(j))
  <2>1. Before(i) \subseteq Before(j) /\ i \in Before(j) /\ i \notin Before(i)
    BY <1>3, SortOrder
  <2> HIDE DEF Before, D
  <2>2. /\ Cardinality(Before(i)) <= Cardinality(Before(j))
        /\ Cardinality(Before(j)) = Cardinality(Before(i)) => Before(j) = Before(i)
    BY <1>2, <2>1, FS_Subset
  <2> QED BY <1>2, <2>1, <2>2
<1>4. \A i, j \in D : i # j => f[i] # f[j]
  <2> SUFFICES ASSUME NEW i \in D, NEW j \in D, i # j PROVE f[i] # f[j]
    OBVIOUS
  <2>1. SortedBefore(offers, i, j) \/ SortedBefore(offers, j, i)
    BY SortOrder
  <2>2. f[i] = Cardinality(Before(i)) + 1 /\ f[j] = Cardinality(Before(j)) + 1
    OBVIOUS
  <2> HIDE DEF Before, D, f
  <2> QED BY <1>2, <1>3, <2>1, <2>2
<1>5. f \in [D -> 1..many]
  <2> HIDE DEF Before, D, many
  <2>1. \A i \in D : Cardinality(Before(i)) + 1 \in 1..many
    BY <1>1, <1>2
  <2> QED BY <2>1
<1>6. \A i \in D : f[i] = PlaceInOrder(offers, i)
  BY DEF PlaceInOrder
<1> HIDE DEF f, D, many
<1>7. f \in Injection(D, 1..many)
  BY <1>4, <1>5 DEF Injection, IsInjective
<1>8. IsFiniteSet(1..many) /\ Cardinality(1..many) = many
  BY <1>1, FS_Interval
<1>9. f \in Surjection(D, 1..many)
  BY <1>7, <1>8, FS_Injection DEF many
<1>10. n \in 1..many
  BY DEF many, D
<1>11. \E i \in D : f[i] = n
  BY <1>9, <1>10 DEF Surjection
<1> QED BY <1>6, <1>11 DEF D

\* A ranked list holds the offers it was made of, and starts with a cheapest.
LEMMA RankStartsCheapest ==
  ASSUME NEW offers, IsFamily(offers)
  PROVE  LET list == Rank(offers)
         IN  /\ \A n \in DOMAIN list : \E place \in DOMAIN offers : list[n] = offers[place]
             /\ DOMAIN list # {} =>
                  /\ 1 \in DOMAIN list
                  /\ \A place \in DOMAIN offers : list[1].price <= offers[place].price
<1> DEFINE many == Cardinality(DOMAIN offers)
           At(n) == CHOOSE place \in DOMAIN offers : PlaceInOrder(offers, place) = n
           list == Rank(offers)
<1>1. many \in Nat /\ IsFiniteSet(DOMAIN offers)
  BY FS_CardinalityType DEF IsFamily
<1>2. DOMAIN list = 1..many /\ \A n \in 1..many : list[n] = offers[At(n)]
  BY DEF Rank
<1>3. \A n \in 1..many : At(n) \in DOMAIN offers /\ PlaceInOrder(offers, At(n)) = n
  BY EveryRankIsTaken
<1> HIDE DEF At, many
<1>4. \A n \in DOMAIN list : \E place \in DOMAIN offers : list[n] = offers[place]
  BY <1>2, <1>3
<1>5. ASSUME DOMAIN list # {}
      PROVE  /\ 1 \in DOMAIN list
             /\ \A place \in DOMAIN offers : list[1].price <= offers[place].price
  <2>1. 1 \in 1..many
    BY <1>1, <1>2, <1>5
  <2> DEFINE first == At(1)
             Before == {other \in DOMAIN offers : SortedBefore(offers, other, first)}
  <2>2. first \in DOMAIN offers /\ Cardinality(Before) + 1 = 1 /\ list[1] = offers[first]
    BY <1>2, <1>3, <2>1 DEF PlaceInOrder
  <2>3. IsFiniteSet(Before)
    BY <1>1, FS_Subset
  <2>4. Cardinality(Before) \in Nat /\ (Cardinality(Before) = 0 <=> Before = {})
    BY <2>3, FS_CardinalityType, FS_EmptySet
  <2>5. \A place \in DOMAIN offers : ~SortedBefore(offers, place, first)
    <3> HIDE DEF first
    <3>1. Before = {}
      <4> HIDE DEF Before
      <4> QED BY <2>2, <2>4
    <3> QED BY <3>1
  <2> HIDE DEF first
  <2> QED BY <1>2, <2>1, <2>2, <2>5, SortOrder
<1> QED BY <1>4, <1>5

\* What a seat costs at a source that answered.
FaresOf(source, intent, reply) ==
  IF source = "fake" THEN {FakeFare[<<intent.origin, intent.destination>>]}
  ELSE {item.price : item \in ToSet(reply.items)}

\* Every offer asks a fare of its source for each of the party, and every fare
\* of a source with an offer is asked.
CoversFares(offers, intent, reply) ==
  \A j \in DOMAIN offers :
    LET fares == FaresOf(offers[j].provider, intent, reply)
        party == intent.mix.passengers
    IN  /\ Cached(offers[j]) /\ fares \subseteq Int
        /\ \E fare \in fares : offers[j].price = fare * party
        /\ \A fare \in fares : \E k \in DOMAIN offers : offers[k].price = fare * party

\* The offers of one provider: one for each fare, for the whole party.
LEMMA ProviderOffers ==
  ASSUME NEW config, NEW intent, ValidIntent(intent), intent.mix.passengers \in Int,
         NEW reply \in ApiReplies, NEW source
  PROVE  LET found == ProviderSearch(source, config, intent, reply).offers
         IN  DOMAIN found \subseteq {1} \cup DOMAIN reply.items /\ CoversFares(found, intent, reply)
<1> DEFINE found == ProviderSearch(source, config, intent, reply).offers
           party == intent.mix.passengers
           route == <<intent.origin, intent.destination>>
           Good(j) == LET fares == FaresOf(found[j].provider, intent, reply)
                      IN  /\ Cached(found[j]) /\ fares \subseteq Int
                          /\ \E fare \in fares : found[j].price = fare * party
                          /\ \A fare \in fares :
                               \E k \in DOMAIN found : found[k].price = fare * party
<1>1. \A provider, id, price, n :
        /\ Offer(provider, id, price, n).provider = provider
        /\ Offer(provider, id, price, n).price = price
        /\ price \in Int /\ id \in Int => Cached(Offer(provider, id, price, n))
  BY DEF Offer, Cached
<1>2. CASE source = "fake"
  <2> DEFINE offer == Offer("fake", 0, FakeFare[route] * party, party)
  <2>1. found = <<offer>>
    BY <1>2 DEF ProviderSearch, FakeSearch, Outcome
  <2>2. FakeFare[route] \in Int
    BY FareAssumption DEF ValidIntent
  <2>3. FakeFare[route] * party \in Int
    BY <2>2
  <2>4. Cached(offer) /\ offer.provider = "fake" /\ offer.price = FakeFare[route] * party
    BY <1>1, <2>3
  <2>5. FaresOf("fake", intent, reply) = {FakeFare[route]}
    BY DEF FaresOf
  <2> HIDE DEF offer, found, route, party
  <2>6. DOMAIN found = {1} /\ found[1] = offer
    BY <2>1
  <2>7. Good(1)
    BY <2>2, <2>4, <2>5, <2>6
  <2> QED BY <2>6, <2>7 DEF CoversFares, found, party
<1>3. CASE source # "fake"
  <2> DEFINE items == reply.items
             answer == [i \in DOMAIN items |-> MapItem(items[i], party)]
  <2>1. found = AviasalesSearch(config, intent, reply).offers
    BY <1>3 DEF ProviderSearch
  <2>2. \/ found = <<>>
        \/ PricesForDates(reply) = NoError /\ found = answer
    BY <2>1, Zenon DEF AviasalesSearch, Outcome
  <2>3. CASE found = <<>>
    BY <2>3 DEF CoversFares
  <2>4. CASE PricesForDates(reply) = NoError /\ found = answer
    <3>1. \A i \in DOMAIN items : items[i].wellFormed
      BY <2>4 DEF PricesForDates, NoError
    <3>2. \A i \in DOMAIN items : items[i].price \in Int /\ items[i].id \in Int
      BY <3>1, ReplyAssumption
    <3>3. DOMAIN found = DOMAIN items /\ \A i \in DOMAIN items :
            found[i] = Offer("aviasales_data", items[i].id, items[i].price * party, party)
      BY <2>4 DEF MapItem
    <3>4. FaresOf("aviasales_data", intent, reply) = {items[i].price : i \in DOMAIN items}
      BY DEF FaresOf, ToSet
    <3> HIDE DEF found, items, party
    <3>5. \A i \in DOMAIN items :
            /\ Cached(found[i]) /\ found[i].provider = "aviasales_data"
            /\ found[i].price = items[i].price * party
      BY <1>1, <3>2, <3>3 DEF party
    <3>6. \A i \in DOMAIN items : Good(i)
      BY <3>2, <3>3, <3>4, <3>5
    <3> QED BY <3>3, <3>6 DEF CoversFares, found, items, party
  <2> QED BY <2>2, <2>3, <2>4
<1> QED BY <1>2, <1>3

IsIds(ids) == ids = NULL \/ (IsFiniteSet(DOMAIN ids) /\ DOMAIN ids \subseteq Nat)

\* The steps of a plan are read in the order of finitely many numbers.
LEMMA StepsAreOrdered ==
  ASSUME NEW config, NEW ids, IsIds(ids)
  PROVE  IsFiniteSet(DOMAIN Steps(config, ids)) /\ DOMAIN Steps(config, ids) \subseteq Nat
<1> DEFINE registry == DefaultRegistry(config)
           candidates == Candidates(registry, ids)
           plan == PlanAllowed(registry, ids)
           steps == Steps(config, ids)
<1>1. PICK n \in Nat : DOMAIN registry = 1..n
  <2>1. \A a, b, c, d, e, f : DOMAIN <<a, b, c, d, e, f>> = 1..6
    OBVIOUS
  <2>2. DOMAIN registry = 1..6
    BY <2>1, Zenon DEF DefaultRegistry
  <2> QED BY <2>2
<1>2. IsFiniteSet(1..n) /\ 1..n \subseteq Nat
  BY FS_Interval
<1> HIDE DEF registry
<1>3. \/ DOMAIN candidates = 1..n
      \/ DOMAIN candidates \subseteq DOMAIN ids /\ IsFiniteSet(DOMAIN ids) /\ DOMAIN ids \subseteq Nat
  BY <1>1 DEF Candidates, IsIds
<1>4. DOMAIN plan \subseteq DOMAIN candidates
  BY DEF PlanAllowed
<1>5. DOMAIN steps \subseteq DOMAIN plan
  BY DEF Steps, registry
<1> HIDE DEF candidates, plan, steps
<1>6. IsFiniteSet(DOMAIN candidates) /\ DOMAIN candidates \subseteq Nat
  BY <1>2, <1>3, FS_Subset
<1>7. IsFiniteSet(DOMAIN steps) /\ DOMAIN steps \subseteq Nat
  BY <1>4, <1>5, <1>6, FS_Subset
<1> QED BY <1>7 DEF steps

\* What a search merges has, for each source in it, an offer for each of the
\* source's fares, and no other of the source.
LEMMA OffersOfSearch ==
  ASSUME NEW config, NEW intent, ValidIntent(intent), intent.mix.passengers \in Int,
         NEW reply \in ApiReplies, NEW ids, IsIds(ids), NEW merge
  PROVE  LET offers == OffersOf(config, intent, ids, reply, merge)
         IN  IsFamily(offers) /\ CoversFares(offers, intent, reply)
<1> DEFINE offers == OffersOf(config, intent, ids, reply, merge)
           party == intent.mix.passengers
           steps == Steps(config, ids)
           Found(i) == ProviderSearch(steps[i].source, config, intent, reply).offers
           merged == {i \in DOMAIN steps : steps[i].mergeAllowed = merge}
           entries == {1} \cup DOMAIN reply.items
           Fares(offer) == FaresOf(offer.provider, intent, reply)
<1>1. offers = [place \in UNION {{i} \X DOMAIN Found(i) : i \in merged} |->
                  Found(place[1])[place[2]]]
  BY DEF OffersOf
<1>2. IsFiniteSet(DOMAIN steps) /\ DOMAIN steps \subseteq Nat /\ merged \subseteq DOMAIN steps
  BY StepsAreOrdered
<1>3. IsFiniteSet(entries) /\ entries \subseteq Nat
  <2>1. IsFiniteSet(DOMAIN reply.items) /\ DOMAIN reply.items \subseteq Nat
    BY ReplyAssumption
  <2>2. IsFiniteSet({1})
    BY FS_Singleton
  <2>3. IsFiniteSet({1} \cup DOMAIN reply.items)
    BY <2>1, <2>2, FS_Union
  <2> QED BY <2>1, <2>3
<1>4. ASSUME NEW i \in merged
      PROVE  DOMAIN Found(i) \subseteq entries /\ CoversFares(Found(i), intent, reply)
  BY ProviderOffers
<1> HIDE DEF offers, Found, merged, steps, entries, Fares, party
<1>5. /\ DOMAIN offers = UNION {{i} \X DOMAIN Found(i) : i \in merged}
      /\ \A place \in DOMAIN offers : offers[place] = Found(place[1])[place[2]]
  BY <1>1
<1>6. \A place \in DOMAIN offers :
        place[1] \in merged /\ place[2] \in DOMAIN Found(place[1]) /\ place \in merged \X entries
  BY <1>4, <1>5
<1>7. \A i \in merged : \A j \in DOMAIN Found(i) :
        <<i, j>> \in DOMAIN offers /\ offers[<<i, j>>] = Found(i)[j]
  <2>1. \A i \in merged : \A j \in DOMAIN Found(i) : <<i, j>> \in DOMAIN offers
    BY <1>5
  <2> QED BY <1>5, <2>1
<1>8. IsFamily(offers)
  <2>1. IsFiniteSet(merged)
    BY <1>2, FS_Subset
  <2>2. IsFiniteSet(merged \X entries)
    BY <1>3, <2>1, FS_Product
  <2>3. DOMAIN offers \subseteq merged \X entries
    BY <1>6
  <2>4. IsFiniteSet(DOMAIN offers)
    BY <2>2, <2>3, FS_Subset
  <2>5. DOMAIN offers \subseteq Nat \X Nat
    BY <1>2, <1>3, <2>3
  <2>6. \A place \in DOMAIN offers : Cached(offers[place])
    BY <1>4, <1>5, <1>6 DEF CoversFares
  <2> QED BY <2>4, <2>5, <2>6 DEF IsFamily
<1>9. ASSUME NEW place \in DOMAIN offers
      PROVE  /\ Cached(offers[place]) /\ Fares(offers[place]) \subseteq Int
             /\ \E fare \in Fares(offers[place]) : offers[place].price = fare * party
             /\ \A fare \in Fares(offers[place]) :
                  \E other \in DOMAIN offers : offers[other].price = fare * party
  <2> DEFINE i == place[1]
             j == place[2]
  <2>1. i \in merged /\ j \in DOMAIN Found(i) /\ offers[place] = Found(i)[j]
    BY <1>5, <1>6
  <2> HIDE DEF i, j
  <2>2. /\ Cached(Found(i)[j]) /\ Fares(Found(i)[j]) \subseteq Int
        /\ \E fare \in Fares(Found(i)[j]) : Found(i)[j].price = fare * party
        /\ \A fare \in Fares(Found(i)[j]) :
             \E k \in DOMAIN Found(i) : Found(i)[k].price = fare * party
    BY <1>4, <2>1 DEF CoversFares, Fares, party
  <2>3. ASSUME NEW fare \in Fares(Found(i)[j])
        PROVE  \E other \in DOMAIN offers : offers[other].price = fare * party
    <3>1. PICK k \in DOMAIN Found(i) : Found(i)[k].price = fare * party
      BY <2>2
    <3> QED BY <1>7, <2>1, <3>1
  <2> QED BY <2>1, <2>2, <2>3
<1> QED BY <1>8, <1>9 DEF CoversFares, offers, Fares, party

-----------------------------------------------------------------------------
(* The results.                                                             *)

\* The providers a request names: a chat request names none.
IdsOf(request) == IF request \in ChatRequests THEN NULL ELSE request.ids

\* A result is that of the search its turn made, which ended without an error.
ResultOK(t) ==
  turn[t].result # {} =>
    LET k == turn[t]
        ids == IdsOf(k.request)
    IN  /\ k.request \in ChatRequests \cup Searches /\ k.reply \in ApiReplies
        /\ SearchError(settings, TurnIntent(t), ids, k.reply) = NoError
        /\ k.result = {SearchResult(settings, TurnIntent(t), ids, k.reply)}

ResultInv == \A t \in Turns : ResultOK(t)

LEMMA ResultKept ==
  ASSUME NEW t, ResultOK(t), settings' = settings,
         \/ turn'[t].result = {}
         \/ /\ turn'[t].result = turn[t].result /\ turn'[t].request = turn[t].request
            /\ turn'[t].draft = turn[t].draft /\ turn'[t].reply = turn[t].reply
  PROVE  ResultOK(t)'
  BY DEF ResultOK, TurnIntent, TurnSlots

LEMMA ResultStep == AgentInv /\ ResultInv /\ [Next]_vars => ResultInv'
<1> SUFFICES ASSUME AgentInv, ResultInv, [Next]_vars PROVE ResultInv'
  OBVIOUS
<1>1. CASE UNCHANGED vars
  BY <1>1, ResultKept DEF ResultInv, vars
<1>2. CASE Next
  <2>1. PICK t \in Turns :
          \/ Receive(t) \/ ModelRaises(t) \/ AskBack(t) \/ ToolsRaise(t) \/ RunTools(t)
          \/ Search(t) \/ CreateWatch(t) \/ WriteWatch(t) \/ ReadWatch(t)
          \/ WriteAudit(t) \/ Commit(t) \/ Abort(t)
    BY <1>2 DEF Next
  <2>2. t \in DOMAIN turn /\ DOMAIN turn[t] = Fields /\ \A u \in Turns : u \in DOMAIN turn
    BY DEF AgentInv, TurnsOK, IsTurn
  <2> DEFINE Others == \A u \in Turns \ {t} : turn'[u] = turn[u]
             Empty == settings' = settings /\ turn'[t].result = {} /\ Others
             Same == /\ settings' = settings /\ Others
                     /\ turn'[t].result = turn[t].result /\ turn'[t].request = turn[t].request
                     /\ turn'[t].draft = turn[t].draft /\ turn'[t].reply = turn[t].reply
             New == settings' = settings /\ Others /\ ResultOK(t)'
  <2>3. turn[t].stage \in {"idle", "received"} => turn[t].result = {}
    BY DEF AgentInv, SessionOK
  <2>4. CASE Receive(t)
    <3>1. Empty
      BY <2>2, <2>3, <2>4 DEF Receive, Fields
    <3> QED BY <3>1, ResultKept DEF ResultInv
  <2>5. CASE ModelRaises(t)
    <3>1. Empty
      BY <2>2, <2>3, <2>5 DEF ModelRaises, Step, Fields
    <3> QED BY <3>1, ResultKept DEF ResultInv
  <2>6. CASE AskBack(t)
    <3>1. Empty
      BY <2>2, <2>3, <2>6 DEF AskBack, Fields
    <3> QED BY <3>1, ResultKept DEF ResultInv
  <2>7. CASE ToolsRaise(t)
    <3>1. Empty
      BY <2>2, <2>3, <2>7 DEF ToolsRaise, Fields
    <3> QED BY <3>1, ResultKept DEF ResultInv
  <2>8. CASE CreateWatch(t)
    <3>1. Empty
      BY <2>2, <2>3, <2>8 DEF CreateWatch, Fields
    <3> QED BY <3>1, ResultKept DEF ResultInv
  <2>9. CASE WriteWatch(t)
    <3>1. Same
      BY <2>2, <2>9 DEF WriteWatch, Fields
    <3> QED BY <3>1, ResultKept DEF ResultInv
  <2>10. CASE ReadWatch(t)
    <3>1. Same
      BY <2>2, <2>10 DEF ReadWatch, Fields
    <3> QED BY <3>1, ResultKept DEF ResultInv
  <2>11. CASE WriteAudit(t)
    <3>1. Same
      BY <2>2, <2>11 DEF WriteAudit, Fields
    <3> QED BY <3>1, ResultKept DEF ResultInv
  <2>12. CASE Commit(t)
    <3>1. Same
      BY <2>2, <2>12 DEF Commit, Step, Fields
    <3> QED BY <3>1, ResultKept DEF ResultInv
  <2>13. CASE Abort(t)
    <3>1. Same
      BY <2>2, <2>13 DEF Abort, Fields
    <3> QED BY <3>1, ResultKept DEF ResultInv
  <2>14. CASE RunTools(t)
    <3>1. PICK draft \in Drafts(turn[t].request), reply \in ApiReplies :
            LET slots == Slots(turn[t].request, draft)
                intent == Intent(turn[t].request, slots)
                watching == draft.wantsWatch /\ WatchAllowed(turn[t].request)
            IN  /\ SearchError(settings, intent, NULL, reply) = NoError
                /\ turn' = [turn EXCEPT
                     ![t].stage = IF watching THEN "watching" ELSE "auditing",
                     ![t].draft = draft, ![t].reply = reply,
                     ![t].result = {SearchResult(settings, intent, NULL, reply)},
                     ![t].cells = Cardinality(DateMatrix(slots.departure, slots.returning, 3,
                                                         NULL, NULL)),
                     ![t].todo = IF watching THEN <<>> ELSE AuditedTools(FALSE)]
      BY <2>14 DEF RunTools
    <3> DEFINE intent == Intent(turn[t].request, Slots(turn[t].request, draft))
    <3>2. turn[t].stage = "received" /\ settings' = settings
      BY <2>14 DEF RunTools
    <3>3. turn[t].request \in ChatRequests
      BY <3>2 DEF AgentInv, SessionOK, Chat
    <3>4. /\ Others
          /\ turn'[t].request = turn[t].request /\ turn'[t].draft = draft
          /\ turn'[t].reply = reply
          /\ turn'[t].result = {SearchResult(settings, intent, NULL, reply)}
      BY <2>2, <3>1 DEF Fields
    <3>5. TurnIntent(t)' = intent
      BY <3>4 DEF TurnIntent, TurnSlots
    <3>6. New
      BY <3>1, <3>2, <3>3, <3>4, <3>5 DEF ResultOK, IdsOf
    <3> QED BY <3>6, ResultKept DEF ResultInv
  <2>15. CASE Search(t)
    <3>1. PICK request \in Searches, reply \in ApiReplies :
            LET intent == Intent(request, Slots(request, NoDraft))
                error == SearchError(settings, intent, request.ids, reply)
            IN  turn' = [turn EXCEPT ![t].request = request, ![t].draft = NoDraft,
                      ![t].reply = reply,
                      ![t].stage = IF error = NoError THEN "answered" ELSE "failed",
                      ![t].result = IF error = NoError
                                      THEN {SearchResult(settings, intent, request.ids, reply)}
                                      ELSE {}]
      BY <2>15 DEF Search
    <3> DEFINE intent == Intent(request, Slots(request, NoDraft))
               error == SearchError(settings, intent, request.ids, reply)
    <3>2. request \notin ChatRequests /\ settings' = settings
      BY <2>15, RequestAssumption DEF Search
    <3>3. /\ Others
          /\ turn'[t].request = request /\ turn'[t].draft = NoDraft /\ turn'[t].reply = reply
          /\ turn'[t].result = IF error = NoError
                                 THEN {SearchResult(settings, intent, request.ids, reply)}
                                 ELSE {}
      BY <2>2, <3>1 DEF Fields
    <3>4. TurnIntent(t)' = intent
      BY <3>3 DEF TurnIntent, TurnSlots
    <3>5. New
      BY <3>2, <3>3, <3>4 DEF ResultOK, IdsOf
    <3> QED BY <3>5, ResultKept DEF ResultInv
  <2> QED BY <2>1, <2>4, <2>5, <2>6, <2>7, <2>8, <2>9, <2>10, <2>11, <2>12, <2>13, <2>14, <2>15
<1> QED BY <1>1, <1>2

LEMMA PerSeat ==
  ASSUME NEW a \in Int, NEW b \in Int, NEW n \in Int, n >= 1, a * n <= b * n
  PROVE  a <= b
<1> SUFFICES ASSUME a >= b + 1 PROVE FALSE
  OBVIOUS
<1>1. PICK d \in Nat : a = (b + 1) + d
  <2>1. a - (b + 1) \in Nat /\ a = (b + 1) + (a - (b + 1))
    OBVIOUS
  <2> QED BY <2>1
<1>2. a * n = b * n + n + d * n
  BY <1>1
<1>3. d * n >= 0
  BY <1>1
<1>4. b * n \in Int /\ d * n \in Int
  BY <1>1
<1> QED BY <1>2, <1>3, <1>4

\* The best source of a search is the cheapest, seat for seat.
LEMMA BestOfSearch ==
  ASSUME NEW config, NEW intent, ValidIntent(intent), intent.mix.passengers \in Int,
         NEW reply \in ApiReplies, NEW ids, IsIds(ids)
  PROVE  LET result == SearchResult(config, intent, ids, reply)
         IN  \A source \in {offer.provider : offer \in ToSet(result.priced)} :
               \A fare \in FaresOf(source, intent, reply) :
                 \E best \in FaresOf(result.bestPriceSource, intent, reply) : best <= fare
<1> DEFINE offers == OffersOf(config, intent, ids, reply, TRUE)
           priced == Rank(offers)
           result == SearchResult(config, intent, ids, reply)
           party == intent.mix.passengers
<1>1. /\ result.priced = priced
      /\ result.bestPriceSource = IF priced = <<>> THEN NULL ELSE priced[1].provider
  BY DEF SearchResult
<1>2. IsFamily(offers) /\ CoversFares(offers, intent, reply)
  BY OffersOfSearch
<1>3. party \in Int /\ party >= 1
  BY DEF ValidIntent
<1> HIDE DEF offers, priced, result, party
<1>4. /\ \A n \in DOMAIN priced : \E place \in DOMAIN offers : priced[n] = offers[place]
      /\ DOMAIN priced # {} =>
           /\ 1 \in DOMAIN priced
           /\ \A place \in DOMAIN offers : priced[1].price <= offers[place].price
  BY <1>2, RankStartsCheapest DEF priced
<1> SUFFICES ASSUME NEW n \in DOMAIN priced,
                    NEW fare \in FaresOf(priced[n].provider, intent, reply)
             PROVE  \E best \in FaresOf(result.bestPriceSource, intent, reply) : best <= fare
  BY <1>1 DEF ToSet, result
<1>5. result.bestPriceSource = priced[1].provider
  BY <1>1
<1>6. PICK first \in DOMAIN offers : priced[1] = offers[first]
  BY <1>4
<1>7. PICK place \in DOMAIN offers : priced[n] = offers[place]
  BY <1>4
<1>8. PICK other \in DOMAIN offers : offers[other].price = fare * party
  BY <1>2, <1>7 DEF CoversFares, party
<1>9. fare \in Int
  BY <1>2, <1>7 DEF CoversFares
<1>10. PICK best \in FaresOf(priced[1].provider, intent, reply) :
         best \in Int /\ priced[1].price = best * party
  BY <1>2, <1>6 DEF CoversFares, party
<1>11. best * party <= fare * party
  BY <1>4, <1>8, <1>10
<1>12. best <= fare
  BY <1>3, <1>9, <1>10, <1>11, PerSeat
<1> QED BY <1>5, <1>10, <1>12

\* The source a result calls the best is the cheapest of those that answered,
\* for every table of fares, answer of the Data API, party and list of
\* providers: the sort is a sort, its penalties are the same for every offer,
\* and both adapters multiply by the party.
THEOREM BestIsCheapest == Spec => []BestPriceIsCheapest
<1>1. Init => ResultInv
  BY DEF Init, NoTurn, ResultInv, ResultOK
<1>2. ResultInv => BestPriceIsCheapest
  <2> SUFFICES ASSUME ResultInv, NEW t \in Turns, turn[t].result # {},
                      NEW result \in turn[t].result
               PROVE  LET route == <<TurnIntent(t).origin, TurnIntent(t).destination>>
                          sources == {offer.provider : offer \in ToSet(result.priced)}
                          Fares(source) == IF source = "fake" THEN {FakeFare[route]}
                                           ELSE {item.price : item \in ToSet(turn[t].reply.items)}
                      IN  \A source \in sources : \A fare \in Fares(source) :
                            \E best \in Fares(result.bestPriceSource) : best <= fare
    BY DEF BestPriceIsCheapest, Searched
  <2> DEFINE intent == TurnIntent(t)
             reply == turn[t].reply
             request == turn[t].request
             ids == IdsOf(request)
  <2>1. /\ request \in ChatRequests \cup Searches /\ reply \in ApiReplies
        /\ SearchError(settings, intent, ids, reply) = NoError
        /\ turn[t].result = {SearchResult(settings, intent, ids, reply)}
    BY DEF ResultInv, ResultOK
  <2>2. IsIds(ids)
    BY <2>1, RequestAssumption DEF IsIds, IdsOf
  <2>3. intent.mix.passengers \in Int
    BY <2>1, RequestAssumption DEF TurnIntent, Intent
  <2>4. ValidIntent(intent)
    BY <2>1 DEF SearchError, NoError
  <2>5. result = SearchResult(settings, intent, ids, reply)
    BY <2>1
  <2> HIDE DEF intent, reply, ids
  <2>6. \A source \in {offer.provider : offer \in ToSet(result.priced)} :
          \A fare \in FaresOf(source, intent, reply) :
            \E best \in FaresOf(result.bestPriceSource, intent, reply) : best <= fare
    BY <2>1, <2>2, <2>3, <2>4, <2>5, BestOfSearch
  <2> QED BY <2>6, Zenon DEF FaresOf, intent, reply
<1> QED BY <1>1, <1>2, ResultStep, AgentInvariant, PTL DEF Spec

-----------------------------------------------------------------------------
(* The gates that stand beside the guard the searches of the agent pass.    *)

\* An MCP tool is never let through where the policy guard would stop a search
\* that shows no grant; least of all in the background or with the provider's
\* secrets.  The gateway does not call the guard: it is a second list of the
\* same checks, and a check added to one may be forgotten in the other.
THEOREM McpNeverBypassesTheGuard ==
  ASSUME NEW policy, NEW context \in ExecutionContexts, NEW secrets \in BOOLEAN,
         NEW fingerprint, NEW now \in Nat,
         McpVerdict(policy, context, secrets) = Allowed
  PROVE  /\ GuardVerdict(policy, "search", context, fingerprint, {}, now) = Allowed
         /\ context \notin BackgroundContexts
         /\ ~secrets
<1>1. ~secrets /\ context \notin BackgroundContexts
  BY DEF McpVerdict, Allowed
<1>2. /\ policy.enabled /\ policy.credentialsPresent /\ policy.accessApproved
      /\ ~policy.userActionRequired
  BY <1>1 DEF McpVerdict, Allowed
<1>3. ~NeedsGrant(policy, "search")
  BY <1>2 DEF NeedsGrant
<1> QED
  BY <1>1, <1>2, <1>3 DEF GuardVerdict

\* What an entry of an MCP answer must be: a dictionary with all its fields, a
\* flag that is one, a time that is text, and a price candidate that can be built.
McpBelievable(candidate) ==
  /\ candidate.isMap /\ candidate.complete
  /\ candidate.requiresConfirmation \in BOOLEAN /\ candidate.observedIsText
  /\ McpCandidateBuilds(candidate)

\* The chain of checks lets through what is believable, and nothing else.
LEMMA McpVerdictIsBelief ==
  ASSUME NEW candidate
  PROVE  McpCandidateVerdict(candidate) = "valid" <=> McpBelievable(candidate)
BY DEF McpCandidateVerdict, McpBelievable, McpCandidateBuilds

\* An MCP answer is believed as a whole or not at all.  It is believed exactly
\* when it is a dictionary with a list of which every entry is believable; then
\* every entry becomes one candidate, in its place, none dropped, and building it
\* does not raise.  Otherwise no candidate comes through, also none of the valid
\* ones, and the code is that of the first entry that is not believable.
THEOREM McpAnswersAreWhole ==
  ASSUME NEW n \in Nat, NEW payload, DOMAIN payload.candidates = 1..n
  PROVE  LET answer == ValidateMcpAnswer(payload)
             raw == payload.candidates
             shaped == payload.isMap /\ payload.hasList
         IN  /\ answer.code = "valid" <=> shaped /\ \A i \in 1..n : McpBelievable(raw[i])
             /\ answer.code = "valid" =>
                  answer.candidates = [i \in 1..n |-> McpPriceCandidate(raw[i])]
             /\ answer.code # "valid" => answer.candidates = <<>>
             /\ answer.code # "valid" /\ shaped =>
                  \E i \in 1..n : /\ ~McpBelievable(raw[i])
                                  /\ \A j \in 1..(i - 1) : McpBelievable(raw[j])
                                  /\ answer.code = McpCandidateVerdict(raw[i])
<1> DEFINE raw == payload.candidates
           shaped == payload.isMap /\ payload.hasList
           answer == ValidateMcpAnswer(payload)
           bad == {i \in DOMAIN raw : McpCandidateVerdict(raw[i]) # "valid"}
           first == CHOOSE i \in bad : \A j \in bad : i <= j
<1>1. \A i \in 1..n : i \in bad <=> ~McpBelievable(raw[i])
  BY McpVerdictIsBelief
<1>2. CASE ~shaped
  <2>1. answer = McpAnswer("invalid_shape", <<>>)
    BY <1>2 DEF ValidateMcpAnswer
  <2>2. answer.code = "invalid_shape" /\ answer.candidates = <<>>
    BY <2>1 DEF McpAnswer
  <2> QED BY <1>2, <2>2
<1>3. CASE shaped /\ bad = {}
  <2>1. answer = McpAnswer("valid", [i \in 1..n |-> McpPriceCandidate(raw[i])])
    BY <1>3 DEF ValidateMcpAnswer
  <2>2. answer.code = "valid" /\ answer.candidates = [i \in 1..n |-> McpPriceCandidate(raw[i])]
    BY <2>1 DEF McpAnswer
  <2> QED BY <1>1, <1>3, <2>2
<1>4. CASE shaped /\ bad # {}
  <2>1. answer = McpAnswer(McpCandidateVerdict(raw[first]), <<>>)
    BY <1>4 DEF ValidateMcpAnswer
  <2>2. answer.code = McpCandidateVerdict(raw[first]) /\ answer.candidates = <<>>
    BY <2>1 DEF McpAnswer
  <2>3. first \in bad /\ \A j \in bad : first <= j
    <3>1. bad \subseteq Nat
      OBVIOUS
    <3> HIDE DEF bad
    <3>2. \E i \in bad : \A j \in bad : i <= j
      BY <1>4, <3>1, Least
    <3> QED BY <3>2
  <2>4. first \in 1..n /\ McpCandidateVerdict(raw[first]) # "valid"
    BY <2>3
  <2> HIDE DEF first, bad
  <2>5. \A j \in 1..(first - 1) : j \in 1..n /\ j \notin bad
    BY <2>3, <2>4
  <2>6. ~McpBelievable(raw[first]) /\ \A j \in 1..(first - 1) : McpBelievable(raw[j])
    BY <1>1, <2>3, <2>4, <2>5
  <2> HIDE DEF raw, answer
  <2>7. /\ answer.code # "valid" /\ answer.candidates = <<>>
        /\ ~\A i \in 1..n : McpBelievable(raw[i])
        /\ \E i \in 1..n : /\ ~McpBelievable(raw[i])
                           /\ \A j \in 1..(i - 1) : McpBelievable(raw[j])
                           /\ answer.code = McpCandidateVerdict(raw[i])
    BY <2>2, <2>4, <2>6
  <2> QED BY <1>4, <2>7 DEF raw, answer
<1> QED
  BY <1>2, <1>3, <1>4

\* A booking action of a source whose links need a click exists only against a
\* grant of that source and that search, neither consumed nor expired, and it
\* never allows its link to be loaded ahead of the click.
THEOREM BookingNeedsAGrant ==
  ASSUME NEW policy, NEW offer, NEW fingerprint, NEW grant, NEW now \in Nat,
         NEW grants \in {{}, {grant}},
         policy.bookingRequiresClick, BookingFlagsAgree(policy),
         BookingAction(policy, offer, fingerprint, grants, now).action # NULL
  PROVE  /\ grants = {grant}
         /\ grant.source = policy.source /\ grant.fingerprint = fingerprint
         /\ ~grant.consumed /\ ~IsExpired(grant, now)
         /\ ~policy.preloadAllowed
<1>1. GuardVerdict(policy, "booking_action", "web_user_action", fingerprint, grants, now)
        = Allowed
  BY DEF BookingAction
<1>2. NeedsGrant(policy, "booking_action")
  BY DEF NeedsGrant
<1>3. "web_user_action" \notin BackgroundContexts
  BY DEF BackgroundContexts
<1>4. AnyGrantVerdict(grants, policy.source, fingerprint, now) = Allowed
  <2>1. policy.enabled /\ policy.credentialsPresent /\ policy.accessApproved
    BY <1>1 DEF GuardVerdict, Allowed
  <2> QED
    BY <1>1, <1>2, <1>3, <2>1 DEF GuardVerdict
<1>5. grants = {grant}
  BY <1>4 DEF AnyGrantVerdict, Allowed
<1>6. GrantVerdict(grant, policy.source, fingerprint, now) = Allowed
  <2>1. (CHOOSE g \in grants : TRUE) = grant
    BY <1>5
  <2> QED
    BY <1>4, <1>5, <2>1 DEF AnyGrantVerdict
<1> QED
  BY <1>5, <1>6 DEF GrantVerdict, Allowed, BookingFlagsAgree

\* The grant a booking hands back buys nothing more, at any later time and of
\* any source: who keeps it instead of the one presented can book only once.
THEOREM ConsumedGrantBuysNothing ==
  ASSUME NEW policy, NEW other, NEW offer, NEW fingerprint, NEW print, NEW context,
         NEW operation, NEW now \in Nat, NEW later \in Nat, NEW flag,
         NEW grant \in [source : {policy.source}, fingerprint : {fingerprint},
                        consumed : BOOLEAN, expires : Nat],
         NeedsGrant(policy, "booking_action"), NeedsGrant(other, operation)
  PROVE  GuardVerdict(other, operation, context, print,
           ConsumedGrants(policy, "booking_action", {grant}, now), later) # Allowed
<1> DEFINE spent == [grant EXCEPT !.consumed = TRUE]
<1>1. ConsumedGrants(policy, "booking_action", {grant}, now) = {spent}
  BY DEF ConsumedGrants
<1>2. (CHOOSE g \in {spent} : TRUE) = spent
  OBVIOUS
<1>3. spent.consumed
  OBVIOUS
<1>4. GrantVerdict(spent, other.source, print, later) # Allowed
  BY <1>3 DEF GrantVerdict, Allowed
<1>5. AnyGrantVerdict({spent}, other.source, print, later) # Allowed
  BY <1>2, <1>4 DEF AnyGrantVerdict
<1> QED
  BY <1>1, <1>5 DEF GuardVerdict, Allowed

\* A source shown as ready is one a search may use: the guard allows it, or
\* asks for the user's click and for nothing else.  The catalog and the guard
\* read the same policy through different code.
THEOREM ReadyMeansSearchable ==
  ASSUME NEW policy, NEW fingerprint, NEW now \in Nat, Ready(policy)
  PROVE  GuardVerdict(policy, "search", "web_user_action", fingerprint, {}, now)
           \in {Allowed, "user_action_grant_required"}
<1>1. StatusBlocked(policy) = {}
  BY DEF Ready, ReadinessBlocked
<1>2. policy.enabled /\ policy.credentialsPresent /\ policy.accessApproved
  BY <1>1 DEF StatusBlocked
<1>3. "web_user_action" \notin BackgroundContexts
  BY DEF BackgroundContexts
<1>4. AnyGrantVerdict({}, policy.source, fingerprint, now) = "user_action_grant_required"
  BY DEF AnyGrantVerdict
<1> QED
  BY <1>2, <1>3, <1>4 DEF GuardVerdict
=============================================================================
