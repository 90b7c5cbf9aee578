-------------------------- MODULE OfferHtmlParser --------------------------
(***************************************************************************)
(* _OfferHtmlParser: finds the offer cards of a page and the price text in  *)
(* each from the events of the HTML tokenizer.  It keeps no stack of open   *)
(* elements, only two depths.  A page is written here one token at a time;  *)
(* the history variables keep what the DOM of that page would be.           *)
(*                                                                         *)
(* Two kinds of tokens break the counting: a start tag without an end tag   *)
(* (a void element such as <br>, an omitted </p>) and an end tag without a  *)
(* start tag.  Each is an action of its own.                                *)
(***************************************************************************)
EXTENDS Naturals, Sequences

CONSTANTS
  Tags,      \* start tags considered
  MaxTokens, \* bound: length of a page
  NULL       \* no card

\* What the attributes of a card say of route and dates, against the search:
\* nothing, the same, another airport, another date.
Attributes == {"silent", "same", "other_route", "other_date"}

\* What a text may hold: a price in range, a price out of range, no price.
Texts == {"fare", "out_of_range", "words"}

AllTags == [card: BOOLEAN, price: BOOLEAN, attrs: Attributes]
Parts == [n: Nat, text: Texts]

\* A card as it is built; the number of the DOM's card is carried along.
CardRecords == [id: Nat, attrs: Attributes, parts: Seq(Parts)]

ASSUME ParserAssumption ==
  MaxTokens \in Nat /\ Tags \subseteq AllTags /\ NULL \notin CardRecords

VARIABLES
  current,    \* _current: the card being read
  cardDepth,  \* _card_depth
  priceDepth, \* _price_depth
  cards,      \* cards: the finished ones
  tokens,     \* history: tokens so far
  open,       \* history: the open elements of the DOM, outermost first
  outer,      \* history: place in open of the outermost open card, or 0
  seen,       \* history: outermost cards the DOM has had
  priced,     \* history: texts inside a data-price element of a card, with the card
  broken      \* history: the tokens of some card were not balanced

parser == <<current, cardDepth, priceDepth, cards>>
page == <<tokens, open, outer, seen, priced, broken>>

ParserInit ==
  /\ current = NULL /\ cardDepth = 0 /\ priceDepth = 0 /\ cards = <<>>
  /\ tokens = 0 /\ open = <<>> /\ outer = 0 /\ seen = 0 /\ priced = {} /\ broken = FALSE

-----------------------------------------------------------------------------
(* The handlers.                                                            *)

NewCard(tag) == [id |-> seen + 1, attrs |-> tag.attrs, parts |-> <<>>]

\* Mutant of CardDepthAfterStart: nested elements are not counted.
CardDepthFlat(tag) == IF current = NULL /\ tag.card THEN 1 ELSE cardDepth

CardDepthAfterStart(tag) ==
  IF current # NULL THEN cardDepth + 1
  ELSE IF tag.card THEN 1
  ELSE cardDepth

\* Mutant of PriceDepthAfterStart: a price outside any card is not ignored.
PriceDepthAnywhere(tag) ==
  IF tag.price THEN 1
  ELSE IF priceDepth > 0 THEN priceDepth + 1
  ELSE 0

\* Mutant of PriceDepthAfterStart: elements inside a price are not counted.
PriceDepthFlat(tag) ==
  IF (current # NULL \/ tag.card) /\ tag.price THEN 1 ELSE priceDepth

PriceDepthAfterStart(tag) ==
  IF (current # NULL \/ tag.card) /\ tag.price THEN 1
  ELSE IF priceDepth > 0 THEN priceDepth + 1
  ELSE 0

HandleStartTag(tag) ==
  /\ current' = IF current = NULL /\ tag.card THEN NewCard(tag) ELSE current
  /\ cardDepth' = CardDepthAfterStart(tag)
  /\ priceDepth' = PriceDepthAfterStart(tag)
  /\ cards' = cards

\* Mutant of PriceDepthAfterEnd: an end tag outside a price is counted too.
PriceDepthUnguarded == priceDepth - 1

PriceDepthAfterEnd == IF priceDepth > 0 THEN priceDepth - 1 ELSE 0

HandleEndTag ==
  /\ priceDepth' = PriceDepthAfterEnd
  /\ IF current = NULL THEN UNCHANGED <<current, cardDepth, cards>>
     ELSE /\ cardDepth' = cardDepth - 1
          /\ IF cardDepth = 1
             THEN cards' = Append(cards, current) /\ current' = NULL
             ELSE UNCHANGED <<cards, current>>

HandleData(text) ==
  /\ current' = IF current # NULL /\ priceDepth > 0
                THEN [current EXCEPT !.parts = Append(@, [n |-> tokens, text |-> text])]
                ELSE current
  /\ UNCHANGED <<cardDepth, priceDepth, cards>>

-----------------------------------------------------------------------------
(* The tokens of a page, with the DOM they make.                            *)

Token == tokens < MaxTokens /\ tokens' = tokens + 1

InCard == outer # 0

StartTag(tag) ==
  /\ Token
  /\ HandleStartTag(tag)
  /\ open' = Append(open, tag)
  /\ IF ~InCard /\ tag.card
     THEN outer' = Len(open) + 1 /\ seen' = seen + 1
     ELSE UNCHANGED <<outer, seen>>
  /\ UNCHANGED <<priced, broken>>

EndTag ==
  /\ Token /\ open # <<>>
  /\ HandleEndTag
  /\ open' = SubSeq(open, 1, Len(open) - 1)
  /\ outer' = IF outer = Len(open) THEN 0 ELSE outer
  /\ UNCHANGED <<seen, priced, broken>>

Text(text) ==
  /\ Token
  /\ HandleData(text)
  /\ priced' = IF InCard /\ \E i \in outer .. Len(open) : open[i].price
               THEN priced \cup {<<tokens, seen>>} ELSE priced
  /\ UNCHANGED <<open, outer, seen, broken>>

\* A start tag whose element the DOM closes by itself.
VoidTag(tag) ==
  /\ Token
  /\ HandleStartTag(tag)
  /\ broken' = (broken \/ InCard \/ tag.card)
  /\ UNCHANGED <<open, outer, seen, priced>>

\* An end tag that the DOM ignores.
StrayEndTag ==
  /\ Token
  /\ HandleEndTag
  /\ broken' = (broken \/ InCard)
  /\ UNCHANGED <<open, outer, seen, priced>>

ParserNext ==
  \/ \E tag \in Tags : StartTag(tag) \/ VoidTag(tag)
  \/ EndTag \/ StrayEndTag
  \/ \E text \in Texts : Text(text)

ParserSpec == ParserInit /\ [][ParserNext]_<<parser, page>>

-----------------------------------------------------------------------------
CardsRead == {cards[i] : i \in DOMAIN cards} \cup ({current} \ {NULL})

\* The two depths say where the parser is in a page whose cards are balanced,
\* although nothing but counting tells it which end tag closes what: it reads
\* a card exactly while the DOM is in one, and a price exactly inside the
\* element opened last that has data-price.
DepthsMatchPage ==
  ~broken =>
    /\ current = NULL <=> outer = 0
    /\ current # NULL => /\ current.id = seen
                         /\ cardDepth = Len(open) - outer + 1
    /\ priceDepth > 0 => /\ priceDepth <= cardDepth
                         /\ open[Len(open) - priceDepth + 1].price

\* A card of a page whose cards are balanced holds the price text of that card
\* and of no other: a price is never taken from outside its card.
PricesOfOwnCard ==
  ~broken => \A card \in CardsRead : \A i \in DOMAIN card.parts :
    <<card.parts[i].n, card.id>> \in priced

\* No card of such a page is dropped or read twice.
EveryCardOnce ==
  ~broken => /\ Len(cards) = IF InCard THEN seen - 1 ELSE seen
             /\ \A i \in DOMAIN cards : cards[i].id = i
=============================================================================
