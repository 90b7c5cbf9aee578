------------------------ MODULE MCTelegramWebhook ------------------------
(***************************************************************************)
(* Instances of TelegramWebhook for TLC.                                    *)
(***************************************************************************)
EXTENDS TelegramWebhook, TLC

Symmetry == Permutations(Workers) \cup Permutations(Slots) \cup Permutations(Updates)
=============================================================================
