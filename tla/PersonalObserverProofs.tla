------------------------ MODULE PersonalObserverProofs ------------------------
(***************************************************************************)
(* Proofs about the parser and the runner that reads pages with it, for      *)
(* pages of any length and any set of tags.                                  *)
(*                                                                         *)
(* DepthsMatchPage is inductive next to the types of the parser: it is what  *)
(* two counters can know of a tree.  The other two invariants of the parser  *)
(* follow it step by step: a text is filed only while the depths say that a  *)
(* price is open, and a card is closed only by the end tag that closes it.   *)
(*                                                                         *)
(* Of the runner, Grounds is the strengthening: each phase remembers what    *)
(* the gates before it let through.                                          *)
(***************************************************************************)
EXTENDS PersonalObserver, TLAPS, SequenceTheorems, WellFoundedInduction

ParserTypes ==
  /\ current \in CardRecords \cup {NULL}
  /\ cardDepth \in Nat /\ priceDepth \in Nat
  /\ cards \in Seq(CardRecords)
  /\ tokens \in Nat /\ open \in Seq(AllTags) /\ outer \in 0 .. Len(open) /\ seen \in Nat
  /\ broken \in BOOLEAN
  /\ current = NULL <=> cardDepth = 0

ParserInv == ParserTypes /\ DepthsMatchPage /\ PricesOfOwnCard /\ EveryCardOnce

(***************************************************************************)
(* Sequences and cards.                                                    *)
(***************************************************************************)
\* The open elements once the innermost one is closed.
LEMMA FrontOf ==
  ASSUME NEW S, NEW s \in Seq(S), s # <<>>
  PROVE  /\ SubSeq(s, 1, Len(s) - 1) \in Seq(S)
         /\ Len(SubSeq(s, 1, Len(s) - 1)) = Len(s) - 1
         /\ \A i \in 1 .. Len(s) - 1 : SubSeq(s, 1, Len(s) - 1)[i] = s[i]
<1> DEFINE n == Len(s) - 1
<1>1. n \in Nat /\ Len(s) = n + 1
  OBVIOUS
<1> HIDE DEF n
<1>2. \A i \in 1 .. n : s[i] \in S
  BY <1>1
<1>3. /\ SubSeq(s, 1, n) \in Seq(S)
      /\ Len(SubSeq(s, 1, n)) = IF 1 <= n THEN n - 1 + 1 ELSE 0
      /\ \A i \in 1 .. n - 1 + 1 : SubSeq(s, 1, n)[i] = s[1 + i - 1]
  BY <1>1, <1>2, SubSeqProperties
<1>4. /\ Len(SubSeq(s, 1, n)) = n
      /\ \A i \in 1 .. n : SubSeq(s, 1, n)[i] = s[i]
  BY <1>1, <1>3
<1> QED
  BY <1>1, <1>3, <1>4 DEF n

\* A card that begins is a card without text, numbered after the DOM's.
LEMMA NewCardTypes ==
  ASSUME seen \in Nat, NEW tag \in Tags
  PROVE  /\ NewCard(tag) \in CardRecords /\ NewCard(tag) # NULL
         /\ NewCard(tag).id = seen + 1 /\ NewCard(tag).parts = <<>>
<1>1. tag.attrs \in Attributes
  BY ParserAssumption DEF AllTags
<1>2. <<>> \in Seq(Parts) /\ seen + 1 \in Nat
  OBVIOUS
<1>3. NewCard(tag) \in CardRecords
  BY <1>1, <1>2, Zenon DEF NewCard, CardRecords
<1> QED
  BY <1>3, ParserAssumption DEF NewCard

(***************************************************************************)
(* Types.                                                                  *)
(***************************************************************************)
\* A start tag, with or without an element, leaves the parser well typed.
LEMMA StartTagTypes ==
  ASSUME ParserTypes, NEW tag \in Tags, HandleStartTag(tag)
  PROVE  /\ current' \in CardRecords \cup {NULL}
         /\ cardDepth' \in Nat /\ priceDepth' \in Nat
         /\ cards' \in Seq(CardRecords)
         /\ current' = NULL <=> cardDepth' = 0
<1> QED
  BY NewCardTypes DEF HandleStartTag, CardDepthAfterStart, PriceDepthAfterStart, ParserTypes

\* So does an end tag.
LEMMA EndTagTypes ==
  ASSUME ParserTypes, HandleEndTag
  PROVE  /\ current' \in CardRecords \cup {NULL}
         /\ cardDepth' \in Nat /\ priceDepth' \in Nat
         /\ cards' \in Seq(CardRecords)
         /\ current' = NULL <=> cardDepth' = 0
<1>1. priceDepth' \in Nat
  BY DEF HandleEndTag, PriceDepthAfterEnd, ParserTypes
<1>2. CASE current = NULL
  BY <1>1, <1>2 DEF HandleEndTag, ParserTypes
<1>3. CASE current # NULL /\ cardDepth = 1
  BY <1>1, <1>3 DEF HandleEndTag, ParserTypes
<1>4. CASE current # NULL /\ cardDepth # 1
  BY <1>1, <1>4 DEF HandleEndTag, ParserTypes
<1> QED
  BY <1>2, <1>3, <1>4

\* And a text.
LEMMA DataTypes ==
  ASSUME ParserTypes, NEW text \in Texts, HandleData(text)
  PROVE  /\ current' \in CardRecords \cup {NULL}
         /\ current' = NULL <=> cardDepth' = 0
<1>1. CASE current # NULL /\ priceDepth > 0
  <2> DEFINE part == [n |-> tokens, text |-> text]
  <2>1. current \in CardRecords /\ part \in Parts
    BY <1>1 DEF ParserTypes, Parts
  <2>2. Append(current.parts, part) \in Seq(Parts)
    BY <2>1 DEF CardRecords
  <2>3. current' = [current EXCEPT !.parts = Append(current.parts, part)]
    BY <1>1 DEF HandleData
  <2>4. current' \in CardRecords
    BY <2>1, <2>2, <2>3 DEF CardRecords
  <2> QED
    BY <1>1, <2>4, ParserAssumption DEF HandleData, ParserTypes
<1>2. CASE ~(current # NULL /\ priceDepth > 0)
  BY <1>2 DEF HandleData, ParserTypes
<1> QED
  BY <1>1, <1>2

LEMMA TypesStep ==
  ASSUME ParserTypes, ParserNext
  PROVE  ParserTypes'
<1>1. tokens' \in Nat
  BY DEF ParserNext, StartTag, VoidTag, EndTag, StrayEndTag, Text, Token, ParserTypes
<1>2. ASSUME NEW tag \in Tags, StartTag(tag) PROVE ParserTypes'
  <2>1. tag \in AllTags
    BY ParserAssumption
  <2>2. open' \in Seq(AllTags) /\ Len(open') = Len(open) + 1
    BY <1>2, <2>1 DEF StartTag, ParserTypes
  <2> QED
    BY <1>1, <1>2, <2>2, StartTagTypes DEF StartTag, ParserTypes
<1>3. ASSUME NEW tag \in Tags, VoidTag(tag) PROVE ParserTypes'
  <2>1. broken' \in BOOLEAN
    BY <1>3 DEF VoidTag
  <2> QED
    BY <1>1, <1>3, <2>1, StartTagTypes DEF VoidTag, ParserTypes
<1>4. ASSUME EndTag PROVE ParserTypes'
  <2>1. Len(open) \in Nat \ {0} /\ open' = SubSeq(open, 1, Len(open) - 1)
    BY <1>4 DEF EndTag, ParserTypes
  <2>2. open' \in Seq(AllTags) /\ Len(open') = Len(open) - 1
    BY <1>4, <2>1, FrontOf DEF EndTag, ParserTypes
  <2>3. outer' \in 0 .. Len(open')
    BY <1>4, <2>1, <2>2 DEF EndTag, ParserTypes
  <2> QED
    BY <1>1, <1>4, <2>2, <2>3, EndTagTypes DEF EndTag, ParserTypes
<1>5. ASSUME StrayEndTag PROVE ParserTypes'
  <2>1. broken' \in BOOLEAN
    BY <1>5 DEF StrayEndTag
  <2> QED
    BY <1>1, <1>5, <2>1, EndTagTypes DEF StrayEndTag, ParserTypes
<1>6. ASSUME NEW text \in Texts, Text(text) PROVE ParserTypes'
  <2>1. UNCHANGED <<cardDepth, priceDepth, cards>>
    BY <1>6 DEF Text, HandleData
  <2> QED
    BY <1>1, <1>6, <2>1, DataTypes DEF Text, ParserTypes
<1> QED
  BY <1>2, <1>3, <1>4, <1>5, <1>6 DEF ParserNext

(***************************************************************************)
(* Depths.                                                                 *)
(***************************************************************************)
\* Outside any card nothing is counted, in a page balanced so far.
LEMMA NothingCountedOutside ==
  ASSUME ParserTypes, DepthsMatchPage, ~broken, outer = 0
  PROVE  current = NULL /\ cardDepth = 0 /\ priceDepth = 0
BY DEF DepthsMatchPage, ParserTypes

LEMMA StartTagDepths ==
  ASSUME ParserTypes, DepthsMatchPage, NEW tag \in Tags, StartTag(tag)
  PROVE  DepthsMatchPage'
<1> SUFFICES ASSUME ~broken PROVE DepthsMatchPage'
  BY DEF StartTag, DepthsMatchPage
<1>1. /\ open' = Append(open, tag) /\ Len(open') = Len(open) + 1
      /\ open'[Len(open) + 1] = tag
      /\ \A i \in 1 .. Len(open) : open'[i] = open[i]
  BY ParserAssumption DEF StartTag, ParserTypes
<1>2. NewCard(tag) # NULL /\ NewCard(tag).id = seen + 1
  BY NewCardTypes DEF ParserTypes
<1>3. CASE outer = 0 /\ tag.card
  <2>1. current = NULL /\ cardDepth = 0 /\ priceDepth = 0
    BY <1>3, NothingCountedOutside
  <2>2. /\ current' = NewCard(tag) /\ cardDepth' = 1
        /\ outer' = Len(open) + 1 /\ seen' = seen + 1
        /\ priceDepth' = IF tag.price THEN 1 ELSE 0
    BY <1>3, <2>1 DEF StartTag, HandleStartTag, CardDepthAfterStart, PriceDepthAfterStart, InCard
  <2> QED
    BY <1>1, <1>2, <2>2 DEF DepthsMatchPage, ParserTypes
<1>4. CASE outer = 0 /\ ~tag.card
  <2>1. current = NULL /\ cardDepth = 0 /\ priceDepth = 0
    BY <1>4, NothingCountedOutside
  <2>2. current' = NULL /\ outer' = 0 /\ priceDepth' = 0
    BY <1>4, <2>1 DEF StartTag, HandleStartTag, PriceDepthAfterStart, InCard
  <2> QED
    BY <2>2 DEF DepthsMatchPage
<1>5. CASE outer # 0
  <2>1. current # NULL /\ current.id = seen /\ cardDepth = Len(open) - outer + 1
    BY <1>5 DEF DepthsMatchPage
  <2>2. /\ current' = current /\ cardDepth' = cardDepth + 1
        /\ outer' = outer /\ seen' = seen
        /\ priceDepth' = IF tag.price THEN 1 ELSE IF priceDepth > 0 THEN priceDepth + 1 ELSE 0
    BY <1>5, <2>1 DEF StartTag, HandleStartTag, CardDepthAfterStart, PriceDepthAfterStart, InCard
  <2>3. cardDepth' = Len(open') - outer' + 1
    BY <1>1, <2>1, <2>2 DEF ParserTypes
  <2>4. priceDepth' > 0 => /\ priceDepth' <= cardDepth'
                           /\ open'[Len(open') - priceDepth' + 1].price
    <3>1. CASE tag.price
      BY <1>1, <2>2, <3>1 DEF ParserTypes
    <3>2. CASE ~tag.price /\ priceDepth > 0
      <4>1. priceDepth <= cardDepth /\ open[Len(open) - priceDepth + 1].price
        BY <3>2 DEF DepthsMatchPage
      <4>2. priceDepth' = priceDepth + 1
        BY <2>2, <3>2
      <4>3. /\ Len(open) - priceDepth + 1 \in 1 .. Len(open)
            /\ Len(open') - priceDepth' + 1 = Len(open) - priceDepth + 1
        BY <1>1, <1>5, <2>1, <3>2, <4>1, <4>2 DEF ParserTypes
      <4>4. open'[Len(open) - priceDepth + 1] = open[Len(open) - priceDepth + 1]
        BY <1>1, <4>3
      <4> QED
        BY <2>2, <4>1, <4>2, <4>3, <4>4 DEF ParserTypes
    <3>3. CASE ~tag.price /\ ~(priceDepth > 0)
      BY <2>2, <3>3
    <3> QED
      BY <3>1, <3>2, <3>3
  <2> QED
    BY <1>5, <2>1, <2>2, <2>3, <2>4 DEF DepthsMatchPage
<1> QED
  BY <1>3, <1>4, <1>5

LEMMA EndTagDepths ==
  ASSUME ParserTypes, DepthsMatchPage, EndTag
  PROVE  DepthsMatchPage'
<1> SUFFICES ASSUME ~broken PROVE DepthsMatchPage'
  BY DEF EndTag, DepthsMatchPage
<1>1. Len(open) \in Nat \ {0} /\ open' = SubSeq(open, 1, Len(open) - 1)
  BY DEF EndTag, ParserTypes
<1>2. /\ Len(open') = Len(open) - 1
      /\ \A i \in 1 .. Len(open) - 1 : open'[i] = open[i]
  BY <1>1, FrontOf DEF EndTag, ParserTypes
<1>3. CASE outer = 0
  <2>1. current = NULL /\ cardDepth = 0 /\ priceDepth = 0
    BY <1>3, NothingCountedOutside
  <2>2. current' = NULL /\ outer' = 0 /\ priceDepth' = 0
    BY <1>3, <2>1 DEF EndTag, HandleEndTag, PriceDepthAfterEnd
  <2> QED
    BY <2>2 DEF DepthsMatchPage
<1>4. CASE outer # 0 /\ outer = Len(open)
  <2>1. current # NULL /\ cardDepth = 1
    BY <1>4 DEF DepthsMatchPage, ParserTypes
  <2>2. priceDepth \in {0, 1}
    BY <2>1 DEF DepthsMatchPage, ParserTypes
  <2>3. current' = NULL /\ outer' = 0 /\ priceDepth' = 0
    BY <1>4, <2>1, <2>2 DEF EndTag, HandleEndTag, PriceDepthAfterEnd
  <2> QED
    BY <2>3 DEF DepthsMatchPage
<1>5. CASE outer # 0 /\ outer # Len(open)
  <2>1. current # NULL /\ current.id = seen /\ cardDepth = Len(open) - outer + 1
    BY <1>5 DEF DepthsMatchPage
  <2>2. cardDepth # 1
    BY <1>5, <2>1 DEF ParserTypes
  <2>3. /\ current' = current /\ cardDepth' = cardDepth - 1
        /\ outer' = outer /\ seen' = seen
        /\ priceDepth' = IF priceDepth > 0 THEN priceDepth - 1 ELSE 0
    BY <1>5, <2>1, <2>2 DEF EndTag, HandleEndTag, PriceDepthAfterEnd
  <2>4. cardDepth' = Len(open') - outer' + 1
    BY <1>2, <2>1, <2>3 DEF ParserTypes
  <2>5. priceDepth' > 0 => /\ priceDepth' <= cardDepth'
                           /\ open'[Len(open') - priceDepth' + 1].price
    <3> SUFFICES ASSUME priceDepth' > 0
                 PROVE  /\ priceDepth' <= cardDepth'
                        /\ open'[Len(open') - priceDepth' + 1].price
      OBVIOUS
    <3>1. priceDepth > 1 /\ priceDepth' = priceDepth - 1
      BY <2>3 DEF ParserTypes
    <3>2. priceDepth <= cardDepth /\ open[Len(open) - priceDepth + 1].price
      BY <3>1 DEF DepthsMatchPage, ParserTypes
    <3>3. /\ Len(open) - priceDepth + 1 \in 1 .. Len(open) - 1
          /\ Len(open') - priceDepth' + 1 = Len(open) - priceDepth + 1
      BY <1>2, <1>5, <2>1, <3>1, <3>2 DEF ParserTypes
    <3>4. open'[Len(open) - priceDepth + 1] = open[Len(open) - priceDepth + 1]
      BY <1>2, <3>3
    <3> QED
      BY <2>3, <3>1, <3>2, <3>3, <3>4 DEF ParserTypes
  <2> QED
    BY <1>5, <2>1, <2>3, <2>4, <2>5 DEF DepthsMatchPage
<1> QED
  BY <1>3, <1>4, <1>5

\* Tokens that break the balance of a card are excused; elsewhere they change
\* nothing.
LEMMA OddTagDepths ==
  ASSUME ParserTypes, DepthsMatchPage, StrayEndTag \/ \E tag \in Tags : VoidTag(tag)
  PROVE  DepthsMatchPage'
<1> SUFFICES ASSUME ~broken' PROVE DepthsMatchPage'
  BY DEF DepthsMatchPage
<1>1. ~broken /\ outer = 0
  BY DEF StrayEndTag, VoidTag, InCard
<1>2. current = NULL /\ cardDepth = 0 /\ priceDepth = 0
  BY <1>1, NothingCountedOutside
<1>3. current' = NULL /\ outer' = 0 /\ priceDepth' = 0
  <2>1. CASE StrayEndTag
    BY <1>1, <1>2, <2>1 DEF StrayEndTag, HandleEndTag, PriceDepthAfterEnd
  <2>2. ASSUME NEW tag \in Tags, VoidTag(tag) PROVE current' = NULL /\ outer' = 0 /\ priceDepth' = 0
    <3>1. ~tag.card
      BY <2>2 DEF VoidTag
    <3> QED
      BY <1>1, <1>2, <2>2, <3>1 DEF VoidTag, HandleStartTag, PriceDepthAfterStart
  <2> QED
    BY <2>1, <2>2
<1> QED
  BY <1>3 DEF DepthsMatchPage

LEMMA TextDepths ==
  ASSUME ParserTypes, DepthsMatchPage, NEW text \in Texts, Text(text)
  PROVE  DepthsMatchPage'
<1>1. /\ current' # NULL <=> current # NULL
      /\ current # NULL => current'.id = current.id
  <2>1. CASE current # NULL /\ priceDepth > 0
    <3>1. current' = [current EXCEPT !.parts = Append(current.parts, [n |-> tokens, text |-> text])]
      BY <2>1 DEF Text, HandleData
    <3>2. current \in CardRecords
      BY <2>1 DEF ParserTypes
    <3>3. current'.id = current.id
      BY <3>1, <3>2 DEF CardRecords
    <3>4. current' # NULL
      BY <2>1, DataTypes DEF Text, HandleData, ParserTypes
    <3> QED
      BY <2>1, <3>3, <3>4
  <2>2. CASE ~(current # NULL /\ priceDepth > 0)
    BY <2>2 DEF Text, HandleData
  <2> QED
    BY <2>1, <2>2
<1>2. UNCHANGED <<cardDepth, priceDepth, open, outer, seen, broken>>
  BY DEF Text, HandleData
<1> QED
  BY <1>1, <1>2 DEF DepthsMatchPage

LEMMA DepthsStep ==
  ASSUME ParserTypes, DepthsMatchPage, ParserNext
  PROVE  DepthsMatchPage'
BY StartTagDepths, EndTagDepths, OddTagDepths, TextDepths DEF ParserNext

(***************************************************************************)
(* Prices.                                                                 *)
(***************************************************************************)
\* A start tag adds no card but one without text.
LEMMA StartTagCards ==
  ASSUME ParserTypes, NEW tag \in Tags, HandleStartTag(tag), NEW card \in CardsRead'
  PROVE  card \in CardsRead \/ card.parts = <<>>
<1>1. CASE current = NULL /\ tag.card
  BY <1>1, NewCardTypes DEF HandleStartTag, CardsRead, ParserTypes
<1>2. CASE ~(current = NULL /\ tag.card)
  BY <1>2 DEF HandleStartTag, CardsRead
<1> QED
  BY <1>1, <1>2

\* An end tag adds none: it moves the card being read to the finished ones.
LEMMA EndTagCards ==
  ASSUME ParserTypes, HandleEndTag, NEW card \in CardsRead'
  PROVE  card \in CardsRead
<1>1. CASE current # NULL /\ cardDepth = 1
  <2>1. cards' = Append(cards, current) /\ current' = NULL
    BY <1>1 DEF HandleEndTag
  <2>2. PICK i \in DOMAIN cards' : card = cards'[i]
    BY <2>1 DEF CardsRead
  <2>3. current \in CardRecords
    BY <1>1 DEF ParserTypes
  <2>4. CASE i = Len(cards) + 1
    BY <1>1, <2>1, <2>2, <2>3, <2>4 DEF ParserTypes, CardsRead
  <2>5. CASE i # Len(cards) + 1
    <3>1. i \in DOMAIN cards /\ card = cards[i]
      BY <2>1, <2>2, <2>3, <2>5 DEF ParserTypes
    <3> QED
      BY <3>1 DEF CardsRead
  <2> QED
    BY <2>4, <2>5
<1>2. CASE ~(current # NULL /\ cardDepth = 1)
  BY <1>2 DEF HandleEndTag, CardsRead
<1> QED
  BY <1>1, <1>2

\* A text is filed under a card only where the page shows it as that card's
\* price: the innermost element with data-price lies inside the card.
LEMMA TextPrices ==
  ASSUME ParserTypes, DepthsMatchPage, PricesOfOwnCard, NEW text \in Texts, Text(text)
  PROVE  PricesOfOwnCard'
<1> SUFFICES ASSUME ~broken, NEW card \in CardsRead', NEW i \in DOMAIN card.parts
             PROVE  <<card.parts[i].n, card.id>> \in priced'
  BY DEF Text, PricesOfOwnCard
<1>1. priced \subseteq priced' /\ cards' = cards
  BY DEF Text, HandleData
<1>2. CASE card \in CardsRead
  BY <1>1, <1>2 DEF PricesOfOwnCard
<1>3. CASE card \notin CardsRead
  <2>1. card = current' /\ current # NULL /\ priceDepth > 0
    BY <1>1, <1>3 DEF CardsRead, Text, HandleData
  <2>2. current \in CardRecords /\ current \in CardsRead
    BY <2>1 DEF ParserTypes, CardsRead
  <2> DEFINE part == [n |-> tokens, text |-> text]
  <2>3. /\ card.id = current.id
        /\ card.parts = Append(current.parts, part)
    BY <2>1, <2>2 DEF Text, HandleData, CardRecords
  <2>4. current.parts \in Seq(Parts) /\ part \in Parts
    BY <2>2 DEF CardRecords, Parts, ParserTypes
  <2>5. CASE i = Len(current.parts) + 1
    <3>1. card.parts[i].n = tokens
      BY <2>3, <2>4, <2>5
    <3>2. /\ current.id = seen /\ outer # 0
          /\ Len(open) - priceDepth + 1 \in outer .. Len(open)
          /\ open[Len(open) - priceDepth + 1].price
      BY <2>1 DEF DepthsMatchPage, ParserTypes
    <3>3. priced' = priced \cup {<<tokens, seen>>}
      BY <3>2 DEF Text, InCard
    <3> QED
      BY <2>3, <3>1, <3>2, <3>3
  <2>6. CASE i # Len(current.parts) + 1
    <3>1. i \in DOMAIN current.parts /\ card.parts[i] = current.parts[i]
      BY <2>3, <2>4, <2>6
    <3>2. <<current.parts[i].n, current.id>> \in priced
      BY <2>2, <3>1 DEF PricesOfOwnCard
    <3> QED
      BY <1>1, <2>3, <3>1, <3>2
  <2> QED
    BY <2>5, <2>6
<1> QED
  BY <1>2, <1>3

LEMMA PricesStep ==
  ASSUME ParserTypes, DepthsMatchPage, PricesOfOwnCard, ParserNext
  PROVE  PricesOfOwnCard'
<1>1. CASE \E text \in Texts : Text(text)
  BY <1>1, TextPrices
<1>2. CASE ~ \E text \in Texts : Text(text)
  <2>1. priced' = priced
    BY <1>2 DEF ParserNext, StartTag, VoidTag, EndTag, StrayEndTag
  <2>2. HandleEndTag \/ \E tag \in Tags : HandleStartTag(tag)
    BY <1>2 DEF ParserNext, StartTag, VoidTag, EndTag, StrayEndTag
  <2>3. \A card \in CardsRead' : card \in CardsRead \/ card.parts = <<>>
    BY <2>2, StartTagCards, EndTagCards
  <2>4. ~broken' => ~broken
    <3>1. ASSUME NEW tag \in Tags, VoidTag(tag), broken PROVE broken'
      BY <3>1 DEF VoidTag
    <3>2. ASSUME NEW tag \in Tags, StartTag(tag) PROVE broken' = broken
      BY <3>2 DEF StartTag
    <3>3. ASSUME EndTag PROVE broken' = broken
      BY <3>3 DEF EndTag
    <3>4. ASSUME StrayEndTag, broken PROVE broken'
      BY <3>4 DEF StrayEndTag
    <3> QED
      BY <1>2, <3>1, <3>2, <3>3, <3>4 DEF ParserNext
  <2>5. DOMAIN <<>> = {}
    OBVIOUS
  <2> QED
    BY <2>1, <2>3, <2>4, <2>5 DEF PricesOfOwnCard
<1> QED
  BY <1>1, <1>2

(***************************************************************************)
(* Cards.                                                                  *)
(***************************************************************************)
\* The end tag that closes the outermost card of the page is the one that
\* closes the parser's.
LEMMA EndTagFinishes ==
  ASSUME ParserTypes, DepthsMatchPage, EveryCardOnce, EndTag
  PROVE  EveryCardOnce'
<1> SUFFICES ASSUME ~broken PROVE EveryCardOnce'
  BY DEF EndTag, EveryCardOnce
<1>1. CASE outer = 0
  <2>1. current = NULL
    BY <1>1, NothingCountedOutside
  <2>2. UNCHANGED <<cards, seen>> /\ outer' = 0
    BY <1>1, <2>1 DEF EndTag, HandleEndTag
  <2> QED
    BY <1>1, <2>2 DEF EveryCardOnce, InCard
<1>2. CASE outer # 0 /\ outer = Len(open)
  <2>1. current \in CardRecords /\ current # NULL /\ cardDepth = 1 /\ current.id = seen
    BY <1>2 DEF DepthsMatchPage, ParserTypes
  <2>2. cards' = Append(cards, current) /\ seen' = seen /\ outer' = 0
    BY <1>2, <2>1 DEF EndTag, HandleEndTag
  <2>3. Len(cards) = seen - 1 /\ \A i \in DOMAIN cards : cards[i].id = i
    BY <1>2 DEF EveryCardOnce, InCard
  <2>4. Len(cards') = seen' /\ \A i \in DOMAIN cards' : cards'[i].id = i
    BY <2>1, <2>2, <2>3 DEF ParserTypes
  <2> QED
    BY <2>2, <2>4 DEF EveryCardOnce, InCard
<1>3. CASE outer # 0 /\ outer # Len(open)
  <2>1. current # NULL /\ cardDepth # 1
    BY <1>3 DEF DepthsMatchPage, ParserTypes
  <2>2. UNCHANGED <<cards, seen, outer>>
    BY <1>3, <2>1 DEF EndTag, HandleEndTag
  <2> QED
    BY <2>2 DEF EveryCardOnce, InCard
<1> QED
  BY <1>1, <1>2, <1>3

LEMMA CardsStep ==
  ASSUME ParserTypes, DepthsMatchPage, EveryCardOnce, ParserNext
  PROVE  EveryCardOnce'
<1>1. ASSUME NEW tag \in Tags, StartTag(tag) PROVE EveryCardOnce'
  <2>1. cards' = cards /\ (broken => broken')
    BY <1>1 DEF StartTag, HandleStartTag
  <2>2. CASE ~InCard /\ tag.card
    BY <1>1, <2>1, <2>2 DEF StartTag, EveryCardOnce, InCard, ParserTypes
  <2>3. CASE ~(~InCard /\ tag.card)
    BY <1>1, <2>1, <2>3 DEF StartTag, EveryCardOnce, InCard
  <2> QED
    BY <2>2, <2>3
<1>2. ASSUME NEW tag \in Tags, VoidTag(tag) PROVE EveryCardOnce'
  BY <1>2 DEF VoidTag, HandleStartTag, EveryCardOnce, InCard
<1>3. ASSUME StrayEndTag PROVE EveryCardOnce'
  <2> SUFFICES ASSUME ~broken' PROVE EveryCardOnce'
    BY DEF EveryCardOnce
  <2>1. ~broken /\ outer = 0
    BY <1>3 DEF StrayEndTag, InCard
  <2>2. current = NULL
    BY <2>1, NothingCountedOutside
  <2> QED
    BY <1>3, <2>1, <2>2 DEF StrayEndTag, HandleEndTag, EveryCardOnce, InCard
<1>4. ASSUME NEW text \in Texts, Text(text) PROVE EveryCardOnce'
  BY <1>4 DEF Text, HandleData, EveryCardOnce, InCard
<1> QED
  BY <1>1, <1>2, <1>3, <1>4, EndTagFinishes DEF ParserNext

(***************************************************************************)
(* The runner.                                                             *)
(***************************************************************************)
RunnerTypes ==
  /\ phase \in {"start", "browsing", "landed", "checked", "parsing", "done"}
  /\ run \in Runs
  /\ host \in Hosts \cup {NULL} /\ read \in Hosts \cup {NULL, "saved"}
  /\ moved \in BOOLEAN

LEMMA ParserStart ==
  ASSUME ParserInit
  PROVE  ParserInv
<1>1. <<>> \in Seq(CardRecords) /\ <<>> \in Seq(AllTags) /\ Len(<<>>) = 0 /\ DOMAIN <<>> = {}
  OBVIOUS
<1>2. ParserTypes
  <2>1. broken \in BOOLEAN
    BY DEF ParserInit
  <2>2. open \in Seq(AllTags) /\ outer \in 0 .. Len(open) /\ cards \in Seq(CardRecords)
    BY <1>1 DEF ParserInit
  <2> QED
    BY <2>1, <2>2 DEF ParserInit, ParserTypes
<1>3. CardsRead = {}
  BY <1>1 DEF ParserInit, CardsRead
<1> QED
  BY <1>1, <1>2, <1>3 DEF ParserInit, ParserInv, DepthsMatchPage, PricesOfOwnCard, EveryCardOnce, InCard

LEMMA ParserStep ==
  ASSUME ParserInv, ParserNext
  PROVE  ParserInv'
BY TypesStep, DepthsStep, PricesStep, CardsStep DEF ParserInv

LEMMA ParserStutter ==
  ASSUME ParserInv, UNCHANGED <<parser, page>>
  PROVE  ParserInv'
<1>1. ParserTypes'
  BY DEF ParserInv, ParserTypes, parser, page
<1>2. DepthsMatchPage'
  BY DEF ParserInv, DepthsMatchPage, parser, page
<1>3. PricesOfOwnCard'
  BY DEF ParserInv, PricesOfOwnCard, CardsRead, parser, page
<1>4. EveryCardOnce'
  BY DEF ParserInv, EveryCardOnce, InCard, parser, page
<1> QED
  BY <1>1, <1>2, <1>3, <1>4 DEF ParserInv

\* Every step of the runner is a token for the parser or leaves it alone.
LEMMA RunnerParser ==
  ASSUME ParserInv, [Next]_vars
  PROVE  ParserInv'
<1>1. CASE Feed
  BY <1>1, ParserStep DEF Feed
<1>2. CASE ~Feed
  <2>1. UNCHANGED <<parser, page>>
    BY <1>2 DEF Next, vars, Observe, BrowserFails, CheckHost, ReadContent, Extract, Land, Move
  <2> QED
    BY <2>1, ParserStutter
<1> QED
  BY <1>1, <1>2

LEMMA RunnerStep ==
  ASSUME RunnerTypes, [Next]_vars
  PROVE  RunnerTypes'
<1> USE DEF RunnerTypes, Hosts
<1>1. CASE Observe
  BY <1>1 DEF Observe, Refuse
<1>2. CASE BrowserFails
  BY <1>2 DEF BrowserFails, Refuse
<1>3. CASE CheckHost
  BY <1>3 DEF CheckHost, Refuse
<1>4. CASE ReadContent
  BY <1>4 DEF ReadContent
<1>5. CASE Extract
  BY <1>5 DEF Extract
<1>6. CASE Feed \/ UNCHANGED vars
  BY <1>6 DEF Feed, observer, vars
<1>7. ASSUME NEW h \in Hosts, Land(h) PROVE RunnerTypes'
  BY <1>7 DEF Land
<1>8. ASSUME NEW h \in Hosts, Move(h) PROVE RunnerTypes'
  BY <1>8 DEF Move
<1> QED
  BY <1>1, <1>2, <1>3, <1>4, <1>5, <1>6, <1>7, <1>8 DEF Next

LEMMA RunnerInvariant == Spec => [](ParserInv /\ RunnerTypes)
<1>1. Init => ParserInv /\ RunnerTypes
  BY ParserStart DEF Init, RunnerTypes
<1>2. ParserInv /\ RunnerTypes /\ [Next]_vars => (ParserInv /\ RunnerTypes)'
  BY RunnerParser, RunnerStep
<1> QED
  BY <1>1, <1>2, PTL DEF Spec

\* The runner and its parser keep the types of their state; in particular the
\* two depths of _OfferHtmlParser never fall below zero, whatever the page.
THEOREM ObserverTypes == Spec => []TypeOK
<1>1. ParserInv /\ RunnerTypes => TypeOK
  BY DEF ParserInv, ParserTypes, RunnerTypes, TypeOK
<1> QED
  BY <1>1, RunnerInvariant, PTL

\* On a page whose cards are balanced the two depths of _OfferHtmlParser tell
\* exactly whether it stands in a card and in a price.
THEOREM DepthsFollowThePage == Spec => []DepthsMatchPage
<1>1. ParserInv => DepthsMatchPage
  BY DEF ParserInv
<1> QED
  BY <1>1, RunnerInvariant, PTL

\* On such a page no card gets a price from another card or from outside.
THEOREM PricesStayInTheirCard == Spec => []PricesOfOwnCard
<1>1. ParserInv => PricesOfOwnCard
  BY DEF ParserInv
<1> QED
  BY <1>1, RunnerInvariant, PTL

\* And every card is read once, in the order of the page.
THEOREM CardsAreReadOnce == Spec => []EveryCardOnce
<1>1. ParserInv => EveryCardOnce
  BY DEF ParserInv
<1> QED
  BY <1>1, RunnerInvariant, PTL

(***************************************************************************)
(* Offers.                                                                 *)
(***************************************************************************)
LEMMA Least ==
  ASSUME NEW T \in SUBSET Nat, T # {}
  PROVE  \E x \in T : \A y \in T : x <= y
<1>1. IsWellFoundedOn(OpToRel(<, Nat), Nat)
  BY NatLessThanWellFounded
<1>2. PICK x \in T : \A y \in T : ~(<<y, x>> \in OpToRel(<, Nat))
  BY <1>1, WFMin
<1>3. \A y \in T : ~(y < x)
  BY <1>2 DEF OpToRel
<1> QED
  BY <1>3

\* _first_price returns one of the card's texts.
LEMMA FirstPriceIsOfCard ==
  ASSUME NEW card \in CardRecords, Priced(card)
  PROVE  \E i \in DOMAIN card.parts : FirstPrice(card) = card.parts[i]
<1> DEFINE fares == {i \in DOMAIN card.parts : card.parts[i].text = "fare"}
<1>1. card.parts \in Seq(Parts) /\ DOMAIN card.parts = 1 .. Len(card.parts)
  BY DEF CardRecords
<1>2. fares \in SUBSET Nat /\ fares # {}
  BY <1>1 DEF Priced
<1>3. PICK i \in fares : \A j \in fares : i <= j
  BY <1>2, Least
<1>4. \A j \in 1 .. i - 1 : card.parts[j].text # "fare"
  BY <1>1, <1>3
<1>5. \E k \in DOMAIN card.parts : /\ card.parts[k].text = "fare"
                                  /\ \A j \in 1 .. k - 1 : card.parts[j].text # "fare"
  BY <1>3, <1>4
<1> QED
  BY <1>5 DEF FirstPrice

LEMMA ExtractedOffers ==
  ASSUME ParserInv, NEW o \in Extraction.offers
  PROVE  /\ o.attrs \in {"silent", "same"}
         /\ ~broken => <<o.price, o.card>> \in priced
<1>1. PICK c \in Finished : /\ Accepted(c)
                            /\ o = [card |-> c.id, attrs |-> c.attrs, price |-> FirstPrice(c).n]
  BY DEF Extraction
<1>2. c \in CardRecords /\ c \in CardsRead
  BY <1>1 DEF Finished, CardsRead, ParserInv, ParserTypes
<1>3. PICK i \in DOMAIN c.parts : FirstPrice(c) = c.parts[i]
  BY <1>1, <1>2, FirstPriceIsOfCard DEF Accepted
<1>4. ~broken => <<c.parts[i].n, c.id>> \in priced
  BY <1>2 DEF ParserInv, PricesOfOwnCard
<1>5. c.attrs \in {"silent", "same"}
  BY <1>1, <1>2 DEF Accepted, MatchesRoute, MatchesDates, CardRecords, Attributes
<1> QED
  BY <1>1, <1>3, <1>4, <1>5

Grounds ==
  /\ phase = "parsing" => read = "saved" \/ (LiveRunAllowed /\ (read = "allowed" \/ moved))
  /\ phase \in {"browsing", "landed", "checked"} => LiveRunAllowed
  /\ phase = "checked" => host = "allowed" \/ moved
  /\ phase # "done" => result = NULL

LEMMA GroundsStep ==
  ASSUME RunnerTypes, Grounds, [Next]_vars
  PROVE  Grounds'
<1> USE DEF Grounds, LiveRunAllowed, RunnerTypes
<1>1. CASE Observe
  BY <1>1 DEF Observe, Refuse
<1>2. CASE BrowserFails
  BY <1>2 DEF BrowserFails, Refuse
<1>3. CASE CheckHost
  BY <1>3 DEF CheckHost, Refuse
<1>4. CASE ReadContent
  BY <1>4 DEF ReadContent
<1>5. CASE Extract
  BY <1>5 DEF Extract
<1>6. CASE Feed \/ UNCHANGED vars
  BY <1>6 DEF Feed, observer, vars
<1>7. ASSUME NEW h \in Hosts, Land(h) PROVE Grounds'
  BY <1>7 DEF Land
<1>8. ASSUME NEW h \in Hosts, Move(h) PROVE Grounds'
  BY <1>8 DEF Move
<1> QED
  BY <1>1, <1>2, <1>3, <1>4, <1>5, <1>6, <1>7, <1>8 DEF Next

LEMMA OffersStep ==
  ASSUME ParserInv, RunnerTypes, Grounds, OffersHaveGrounds, [Next]_vars
  PROVE  OffersHaveGrounds'
<1>1. CASE Extract
  <2> SUFFICES ASSUME result' # NULL, result'.code = "ok" PROVE OffersHaveGrounds'
    BY DEF OffersHaveGrounds
  <2>1. result'.extraction.offers = Extraction.offers
    BY <1>1 DEF Extract, Error
  <2>2. read = "saved" \/ (LiveRunAllowed /\ (read = "allowed" \/ moved))
    BY <1>1 DEF Extract, Grounds
  <2>3. UNCHANGED <<run, read, moved, priced, broken>>
    BY <1>1 DEF Extract, page
  <2>4. \A o \in result'.extraction.offers :
          o.attrs \in {"silent", "same"} /\ (~broken => <<o.price, o.card>> \in priced)
    BY <2>1, ExtractedOffers
  <2> QED
    BY <2>2, <2>3, <2>4 DEF OffersHaveGrounds, LiveRunAllowed
<1>2. CASE ~Extract /\ result' # result
  <2>1. result'.code # "ok"
    BY <1>2 DEF Next, vars, observer, Observe, BrowserFails, CheckHost, ReadContent, Feed, Land,
                Move, Refuse, Error
  <2> QED
    BY <2>1 DEF OffersHaveGrounds
<1>3. CASE result' = result /\ ~Extract
  <2>1. CASE result = NULL
    BY <1>3, <2>1 DEF OffersHaveGrounds
  <2>2. CASE result # NULL
    <3>1. phase = "done"
      BY <2>2 DEF Grounds
    <3>2. UNCHANGED vars
      BY <1>3, <3>1 DEF Next, vars, Observe, BrowserFails, CheckHost, ReadContent, Feed, Land, Move
    <3> QED
      BY <3>2 DEF vars, observer, page, OffersHaveGrounds, LiveRunAllowed
  <2> QED
    BY <2>1, <2>2
<1> QED
  BY <1>1, <1>2, <1>3

\* An offer is reported only from a page the runner may look at, and with the
\* first price in range of its own card: all the gates of observe and the two
\* counters of the parser taken together.
THEOREM OffersAreGrounded == Spec => []OffersHaveGrounds
<1>1. Init => Grounds /\ OffersHaveGrounds
  BY DEF Init, Grounds, OffersHaveGrounds
<1>2. ParserInv /\ RunnerTypes /\ Grounds /\ OffersHaveGrounds /\ [Next]_vars
        => (Grounds /\ OffersHaveGrounds)'
  BY GroundsStep, OffersStep
<1> QED
  BY <1>1, <1>2, RunnerInvariant, PTL DEF Spec
=============================================================================
