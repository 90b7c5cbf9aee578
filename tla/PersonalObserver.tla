-------------------------- MODULE PersonalObserver --------------------------
(***************************************************************************)
(* PersonalObserverRunner.observe: one look at a source, from a saved page   *)
(* or with a browser, and GenericRuHtmlOfferExtractor over the page it got.  *)
(*                                                                         *)
(* The site is external: it may answer with a redirect, and the page may    *)
(* move on by itself as long as the browser is open.                        *)
(***************************************************************************)
EXTENDS OfferHtmlParser

CONSTANT Runs \* the arguments and configurations considered

VARIABLES
  phase,   \* where observe stands
  run,     \* its arguments and the configuration it runs under
  host,    \* the host the browser is at: one of the allowed hosts or another
  read,    \* where the page came from whose HTML is parsed
  moved,   \* history: the page moved after its host was checked
  result   \* offers, warnings and confidence, or the code of the error

observer == <<phase, run, host, read, moved, result>>

Hosts == {"allowed", "other"}

AllRuns == [spec: {"unknown", "link_only", "observable"}, linkAllowed: BOOLEAN, saved: BOOLEAN,
            enabled: BOOLEAN, requireUserAction: BOOLEAN, userAction: BOOLEAN]

ASSUME ObserverAssumption == Runs \subseteq AllRuns

Error(code) == [code |-> code]

Init ==
  /\ ParserInit
  /\ phase = "start" /\ run \in Runs
  /\ host = NULL /\ read = NULL /\ moved = FALSE /\ result = NULL

Refuse(code) == phase' = "done" /\ result' = Error(code)

\* _validate_live_run_allowed
LiveRunAllowed == run.enabled /\ (run.requireUserAction => run.userAction)

\* observe up to the page: the file is read, or the browser is started.
Observe ==
  /\ phase = "start"
  /\ CASE run.spec = "unknown" -> Refuse("source_not_found") /\ UNCHANGED read
       [] run.spec = "link_only" -> Refuse("source_not_observable") /\ UNCHANGED read
       [] OTHER ->
            IF ~run.linkAllowed THEN Refuse("host_not_allowed") /\ UNCHANGED read
            ELSE IF run.saved THEN phase' = "parsing" /\ read' = "saved" /\ UNCHANGED result
            ELSE IF ~LiveRunAllowed THEN Refuse("observer_disabled") /\ UNCHANGED read
            ELSE phase' = "browsing" /\ UNCHANGED <<read, result>>
  /\ UNCHANGED <<run, host, moved, parser, page>>

\* The browser is not installed, or a call of it fails or times out.
BrowserFails ==
  /\ phase \in {"browsing", "landed", "checked"}
  /\ \/ phase = "browsing" /\ Refuse("playwright_unavailable")
     \/ Refuse("navigation_failed")
  /\ UNCHANGED <<run, host, read, moved, parser, page>>

\* page.goto, wherever the site redirects to.
Land(h) ==
  /\ phase = "browsing" /\ phase' = "landed"
  /\ host' = h
  /\ UNCHANGED <<run, read, moved, result, parser, page>>

\* The page moves on while the browser waits or reads it.
Move(h) ==
  /\ phase \in {"landed", "checked"}
  /\ host' = h /\ moved' = (moved \/ phase = "checked")
  /\ UNCHANGED <<phase, run, read, result, parser, page>>

\* Mutant of CheckHost: only the link was checked, not where it led.
CheckHostOfLink ==
  /\ phase = "landed" /\ phase' = "checked"
  /\ UNCHANGED <<run, host, read, moved, result, parser, page>>

\* page.url and _validate_allowed_host once more.
CheckHost ==
  /\ phase = "landed"
  /\ IF host = "allowed" THEN phase' = "checked" /\ UNCHANGED result ELSE Refuse("host_not_allowed")
  /\ UNCHANGED <<run, host, read, moved, parser, page>>

\* page.content, of the page as it is by now.
ReadContent ==
  /\ phase = "checked" /\ phase' = "parsing"
  /\ read' = host
  /\ UNCHANGED <<run, host, moved, result, parser, page>>

\* parser.feed, one token.
Feed == phase = "parsing" /\ ParserNext /\ UNCHANGED observer

-----------------------------------------------------------------------------
\* _first_price: a number out of range is passed over.
Priced(card) == \E i \in DOMAIN card.parts : card.parts[i].text = "fare"

FirstPrice(card) ==
  card.parts[CHOOSE i \in DOMAIN card.parts :
    /\ card.parts[i].text = "fare"
    /\ \A j \in 1 .. i - 1 : card.parts[j].text # "fare"]

MatchesRoute(card) == card.attrs # "other_route"
MatchesDates(card) == card.attrs # "other_date"

Accepted(card) == Priced(card) /\ MatchesRoute(card) /\ MatchesDates(card)

Finished == {cards[i] : i \in DOMAIN cards}

\* extract: what it returns for the cards of the page.
Extraction ==
  LET offers == {[card |-> c.id, attrs |-> c.attrs, price |-> FirstPrice(c).n] :
                   c \in {d \in Finished : Accepted(d)}}
      warnings == IF Finished = {} THEN {"no_offer_cards_found"}
                  ELSE {w \in {"card_missing_price", "route_mismatch", "date_mismatch", "parser_no_offers"} :
                    CASE w = "card_missing_price" -> \E c \in Finished : ~Priced(c)
                      [] w = "route_mismatch" -> \E c \in Finished : Priced(c) /\ ~MatchesRoute(c)
                      [] w = "date_mismatch" -> \E c \in Finished : Priced(c) /\ ~MatchesDates(c)
                      [] OTHER -> offers = {}}
  IN  [offers |-> offers, warnings |-> warnings,
       confidence |-> IF Finished = {} THEN "none" ELSE IF offers = {} THEN "low" ELSE "medium"]

\* observe after the page is read: a result without offers is an error.
Extract ==
  /\ phase = "parsing" /\ phase' = "done"
  /\ result' = IF Extraction.offers = {} THEN Error("parser_no_offers")
               ELSE [code |-> "ok", extraction |-> Extraction]
  /\ UNCHANGED <<run, host, read, moved, parser, page>>

Next ==
  \/ Observe \/ BrowserFails \/ CheckHost \/ ReadContent \/ Feed \/ Extract
  \/ \E h \in Hosts : Land(h) \/ Move(h)

vars == <<observer, parser, page>>
Spec == Init /\ [][Next]_vars

-----------------------------------------------------------------------------
TypeOK ==
  /\ phase \in {"start", "browsing", "landed", "checked", "parsing", "done"}
  /\ run \in Runs
  /\ host \in Hosts \cup {NULL} /\ read \in Hosts \cup {NULL, "saved"}
  /\ moved \in BOOLEAN
  /\ cardDepth \in Nat /\ priceDepth \in Nat

\* A reported offer stands on a page the runner may look at: a saved one, or
\* one a browser was allowed to open and found at an allowed host, unless the
\* page moved between that check and the read.  And its price is the first
\* price in range that stood in its own card, when the cards were balanced.
OffersHaveGrounds ==
  result # NULL /\ result.code = "ok" =>
    /\ read = "saved" \/ (LiveRunAllowed /\ (read = "allowed" \/ moved))
    /\ \A o \in result.extraction.offers :
         /\ o.attrs \in {"silent", "same"}
         /\ ~broken => <<o.price, o.card>> \in priced
=============================================================================
