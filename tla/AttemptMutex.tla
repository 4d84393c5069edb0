---------------------------- MODULE AttemptMutex ----------------------------
(***************************************************************************)
(* What the attempts of a video promise, seen from outside: they own the   *)
(* video one at a time, and it passes from one to another only through a   *)
(* moment in which none owns it, so that a successor finds its predecessor *)
(* settled.                                                                *)
(***************************************************************************)
CONSTANT Attempts

VARIABLE owner    \* the set of attempts that own the video

Init == owner = {}

\* An attempt becomes active: a new one, or a settled one that is resumed.
Acquire(a) ==
    /\ owner = {}
    /\ owner' = {a}

\* The owner completes, fails or is cancelled.
Release ==
    /\ owner # {}
    /\ owner' = {}

Next == Release \/ \E a \in Attempts : Acquire(a)

Spec == Init /\ [][Next]_owner
=============================================================================
