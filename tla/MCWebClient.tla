---------------------------- MODULE MCWebClient ----------------------------
(***************************************************************************)
(* An instance of WebClient for TLC: two origins, and answers of the agent  *)
(* that settle the route, leave the origin open, or miss the date.          *)
(***************************************************************************)
EXTENDS WebClient, TLC

Form(o, d, dep, ret) ==
  [origin |-> o, destination |-> d, departure_date |-> dep, return_date |-> ret]

MCPage == Form("WAW", "BCN", "d1", "d1")

MCBodies == {
  [extracted |-> Form("BCN", "WAW", "d1", Empty), missing |-> {},
   options |-> [origin |-> {"BCN"}, destination |-> {"WAW"}]],
  [extracted |-> Form(Empty, "BCN", Empty, Empty), missing |-> {"origin", "departure_date"},
   options |-> [origin |-> {"WAW", "BCN"}, destination |-> {"BCN"}]] }

Symmetry == Permutations(Checks) \cup Permutations(Turns)
=============================================================================
