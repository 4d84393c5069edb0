------------------------ MODULE MCSubscriptionPoll ------------------------
(* One watch and one lane on the same channel. *)
EXTENDS SubscriptionPoll, TLC
CONSTANTS W, L, H
OneChannel == [s \in {W, L} |-> H]
=============================================================================
