------------------------ MODULE MCChannelDispatcher ------------------------
(***************************************************************************)
(* Instances of ChannelDispatcher for TLC.                                 *)
(***************************************************************************)
EXTENDS ChannelDispatcher, TLC

CONSTANTS C, D, V, W

\* One channel request or cancellation at a time.
UserOnly == C :> {"process", "cancel"}

\* ... and the reaper or the operator beside it.
UserAndCare == C :> {"process", "cancel"} @@ D :> {"reaper", "operator"}

\* Two executions of tasks are alike.
Alike == Permutations({V, W})
=============================================================================
