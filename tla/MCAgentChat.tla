----------------------------- MODULE MCAgentChat -----------------------------
(***************************************************************************)
(* An instance of AgentChat for TLC, after the demo repository of airports.  *)
(* Codes: 0 is no code at all, 1 BCN, 2 PVG, 3 SHA, 4 three letters that no   *)
(* airport's text has.  han is Hanoi's code, which the repository does not    *)
(* hold, and a part of the word Shanghai: ambiguous, and of three letters.    *)
(***************************************************************************)
EXTENDS AgentChat, TLC

CONSTANTS barcelona, han, shanghai, soon

MCTextRank ==
  [place \in Places |->
     CASE place = barcelona -> 1 :> 1
       [] place = han -> 2 :> 2 @@ 3 :> 2
       [] place = shanghai -> 2 :> 1 @@ 3 :> 1
       [] place = 3 -> 3 :> 0 @@ 2 :> 1
       [] place \in {1, 2} -> place :> 0
       [] OTHER -> <<>>]

MCFakeFare == [route \in Shaped \X Shaped |-> IF route = <<1, 2>> THEN 799 ELSE 699]

Party(adults, children) ==
  [passengers |-> adults + children, adults |-> NULL, children |-> children, infants |-> 0]

Message(tokens, route, dates, watchWords) ==
  [tokens |-> tokens, route |-> route, dates |-> dates, watchWords |-> watchWords]

Body(kind, message, selected, dates, mix, owner, ids) ==
  [kind |-> kind, message |-> message, selectedOrigin |-> selected[1],
   selectedDestination |-> selected[2], departure |-> dates[1], returning |-> dates[2],
   mix |-> mix, household |-> owner[1], user |-> owner[2], currency |-> "RUB",
   tripType |-> NULL, ids |-> ids]

Open == <<NULL, NULL>>
Owner == <<"household", "user">>
Two == [passengers |-> 2, adults |-> NULL, children |-> 0, infants |-> 0]
Family == [passengers |-> 2, adults |-> 1, children |-> 1, infants |-> 0]
Wrong == [passengers |-> 2, adults |-> 1, children |-> 0, infants |-> 0]

MCChatRequests ==
  {Body("chat", Message(<<1, 2>>, NULL, <<10>>, TRUE), Open, Open, Two, Owner, NULL),
   Body("chat", Message(<<>>, <<shanghai, han>>, <<10, 12>>, FALSE), Open, Open, Two,
        Owner, NULL),
   Body("chat", Message(<<>>, <<barcelona, shanghai>>, <<>>, TRUE), <<NULL, 3>>,
        <<soon, NULL>>, Two, Owner, NULL),
   Body("chat", Message(<<4, 1>>, NULL, <<10>>, TRUE), Open, Open, Family,
        <<"household", NULL>>, NULL),
   Body("chat", Message(<<>>, NULL, <<>>, FALSE), <<0, 3>>, <<10, NULL>>, Two, Owner, NULL),
   Body("chat", Message(<<1, 3>>, NULL, <<>>, FALSE), Open, <<10, 9>>, Wrong, Owner, NULL),
   [Body("chat", Message(<<1, 3>>, NULL, <<10>>, FALSE), Open, Open, Two, Owner, NULL)
      EXCEPT !.currency = "malformed"]}

MCSearches ==
  {Body("search", NULL, <<1, 3>>, <<10, NULL>>, Two, Open, NULL),
   [Body("search", NULL, <<1, 2>>, <<10, 12>>, Two, Open,
         <<"aviasales_data", "duffel", "fake", "nobody">>)
      EXCEPT !.currency = "other", !.tripType = "round_trip"]}

MCWatchRequests ==
  {Body("watch", NULL, <<1, 2>>, <<10, NULL>>, Two, owner, NULL) :
     owner \in {Owner, <<"household", NULL>>}}

NoReply == [kind |-> "http_error", fields |-> {}, plan |-> {}, draft |-> NoDraft]

Payload(fields, plan, draft) ==
  [kind |-> "payload", fields |-> fields, plan |-> plan, draft |-> draft]

MCModelReplies ==
  {NoReply, [NoReply EXCEPT !.kind = "not_json"],
   Payload({"origin_query", "wants_watch"},
           {[kind |-> "offer_live_check", requiresUserAction |-> TRUE]},
           [NoDraft EXCEPT !.originQuery = barcelona]),
   Payload({"departure_date", "wants_watch"}, {},
           [NoDraft EXCEPT !.departure = 11, !.wantsWatch = TRUE]),
   Payload({"price"}, {}, [NoDraft EXCEPT !.departure = 11]),
   Payload({}, {[kind |-> "offer_live_check", requiresUserAction |-> FALSE]},
           [NoDraft EXCEPT !.wantsWatch = TRUE])}

Reply(status, items) == [status |-> status, success |-> TRUE, items |-> items]
Item(id, price, ok) == [id |-> id, price |-> price, wellFormed |-> ok]

MCApiReplies ==
  {Reply(429, <<>>), Reply(500, <<>>), [Reply(200, <<>>) EXCEPT !.success = FALSE],
   Reply(200, <<Item(1, 850, TRUE), Item(2, 700, TRUE)>>),
   Reply(200, <<Item(1, 850, TRUE)>>),
   Reply(200, <<Item(1, 650, TRUE), Item(2, 700, FALSE)>>)}

MCSettings ==
  {[aviasalesEnabled |-> enabled, token |-> token, model |-> model,
    links |-> {"aviasales_clickout", "tutu"}] :
     enabled \in {TRUE}, token \in BOOLEAN, model \in BOOLEAN}

Symmetry == Permutations(Turns)
=============================================================================
