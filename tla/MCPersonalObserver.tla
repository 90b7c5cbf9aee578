------------------------- MODULE MCPersonalObserver -------------------------
(***************************************************************************)
(* An instance of PersonalObserver for TLC: cards for the search and for    *)
(* another route or date, and one run per way through the gates.            *)
(***************************************************************************)
EXTENDS PersonalObserver

Tag(card, price, attrs) == [card |-> card, price |-> price, attrs |-> attrs]

MCTags == {Tag(TRUE, FALSE, "same"), Tag(TRUE, FALSE, "other_route"), Tag(TRUE, TRUE, "other_date"),
           Tag(FALSE, TRUE, "silent"), Tag(FALSE, FALSE, "silent")}

RunOf(spec, link, saved, enabled, require, action) ==
  [spec |-> spec, linkAllowed |-> link, saved |-> saved, enabled |-> enabled,
   requireUserAction |-> require, userAction |-> action]

MCRuns == {RunOf("unknown", TRUE, TRUE, TRUE, TRUE, TRUE),
           RunOf("link_only", TRUE, TRUE, TRUE, TRUE, TRUE),
           RunOf("observable", FALSE, TRUE, TRUE, TRUE, TRUE),
           RunOf("observable", TRUE, FALSE, FALSE, TRUE, TRUE),
           RunOf("observable", TRUE, FALSE, TRUE, TRUE, FALSE),
           RunOf("observable", TRUE, FALSE, TRUE, TRUE, TRUE)}
=============================================================================
