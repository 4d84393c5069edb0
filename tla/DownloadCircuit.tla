-------------------------- MODULE DownloadCircuit --------------------------
(***************************************************************************)
(* The circuit that defers subscription ingest while YouTube refuses       *)
(* downloads: two Redis keys, the set of videos whose download was refused *)
(* and the mark that the circuit is open, each with a time to live.        *)
(* Every Redis command is a step; a caller may die, or lose Redis, between *)
(* any two of its commands, and its error handler lets ingest go on.       *)
(* Time is counted in ticks.                                               *)
(***************************************************************************)
EXTENDS Integers, FiniteSets

CONSTANTS
    Videos,
    Threshold,      \* settings.download_circuit_failure_threshold
    Window,         \* settings.download_circuit_window_seconds, in ticks
    Cooldown,       \* settings.download_circuit_cooldown_seconds, in ticks
    Downloaders,    \* processes that execute download tasks
    Pollers         \* runs of the subscription poll

ASSUME CircuitAssumption ==
    /\ Threshold \in Nat \ {0}
    /\ Window \in Nat \ {0}
    /\ Cooldown \in Nat \ {0}
    /\ Downloaders \cap Pollers = {}

Processes == Downloaders \cup Pollers

\* The time to live of a failure set that was never given one.
NoExpiry == Window + 1

VARIABLES
    failures,    \* _FAILURE_SET_KEY
    window,      \* its time to live; 0 when the set is empty, that is, not there
    open,        \* _OPEN_KEY: its time to live, and open_until relative to now
    process,     \* what each process is about to do
    quiet,       \* history, for properties: ticks since the last refused download
    blamed       \* ... and the videos the circuit opened for that have not been
                 \* downloaded since

vars == <<failures, window, open, process, quiet, blamed>>

Closed == [ttl |-> 0, left |-> 0]

\* A process carries the open_until it computed when it began, relative to now, and
\* the failures it counted (of which it stores the number).
Idle == [phase |-> "idle", left |-> 0, counted |-> {}]

Do(p, phase) == process' = [process EXCEPT ![p].phase = phase]
Done(p) == process' = [process EXCEPT ![p] = Idle]
IsAt(p, phase) == process[p].phase = phase

-----------------------------------------------------------------------------
(***************************************************************************)
(* record_download_access_failure.                                         *)
(***************************************************************************)
Fails(p, v) ==
    /\ p \in Downloaders /\ IsAt(p, "idle")
    /\ failures' = failures \cup {v}
    /\ window' = IF failures = {} THEN NoExpiry ELSE window
    /\ process' = [process EXCEPT ![p] = [Idle EXCEPT !.phase = "expire", !.left = Cooldown]]
    /\ quiet' = 0
    /\ UNCHANGED <<open, blamed>>

\* Mutant: the set is kept for the time of the circuit.
LifetimeOfCircuit == Cooldown

Lifetime == Window

\* EXPIRE covers the whole set; there is nothing to do if the set is gone by now.
Expire(p) ==
    /\ IsAt(p, "expire")
    /\ window' = IF failures = {} THEN window ELSE Lifetime
    /\ Do(p, "count")
    /\ UNCHANGED <<failures, open, quiet, blamed>>

Count(p) ==
    /\ IsAt(p, "count")
    /\ IF Cardinality(failures) < Threshold THEN Done(p)
       ELSE process' = [process EXCEPT ![p].phase = "open", ![p].counted = failures]
    /\ UNCHANGED <<failures, window, open, quiet, blamed>>

\* Mutant: open_until is computed when the circuit opens.
OpenUntilLate(p) == Cooldown

OpenUntil(p) == process[p].left

Open(p) ==
    /\ IsAt(p, "open")
    /\ open' = [ttl |-> Cooldown, left |-> OpenUntil(p)]
    /\ blamed' = process[p].counted
    /\ Done(p)
    /\ UNCHANGED <<failures, window, quiet>>

-----------------------------------------------------------------------------
(***************************************************************************)
(* record_download_access_success.                                         *)
(***************************************************************************)
Succeeds(p, v) ==
    /\ p \in Downloaders /\ IsAt(p, "idle")
    /\ failures' = failures \ {v}
    /\ window' = IF failures \subseteq {v} THEN 0 ELSE window
    /\ blamed' = blamed \ {v}
    /\ Do(p, "recount")
    /\ UNCHANGED <<open, quiet>>

\* Mutant: a cluster of just the threshold does not keep the circuit open.
FewRemainAtMost == Cardinality(failures) <= Threshold

FewRemain == Cardinality(failures) < Threshold

Recount(p) ==
    /\ IsAt(p, "recount")
    /\ IF FewRemain THEN Do(p, "close") ELSE Done(p)
    /\ UNCHANGED <<failures, window, open, quiet, blamed>>

Close(p) ==
    /\ IsAt(p, "close")
    /\ open' = Closed
    /\ Done(p)
    /\ UNCHANGED <<failures, window, quiet, blamed>>

-----------------------------------------------------------------------------
(***************************************************************************)
(* get_download_circuit_state, by the subscription poll and after a failed *)
(* download that YouTube did not refuse.                                   *)
(***************************************************************************)
Expired == open.ttl > 0 /\ open.left = 0

\* An open or a closed circuit is only read ...
Read(p) ==
    /\ IsAt(p, "idle")
    /\ Expired
    /\ Do(p, "delete")
    /\ UNCHANGED <<failures, window, open, quiet, blamed>>

\* ... one that has lasted long enough is deleted, by a second command.
Delete(p) ==
    /\ IsAt(p, "delete")
    /\ open' = Closed
    /\ Done(p)
    /\ UNCHANGED <<failures, window, quiet, blamed>>

-----------------------------------------------------------------------------
\* The process dies, or Redis fails it.
Interrupted(p) ==
    /\ ~IsAt(p, "idle")
    /\ Done(p)
    /\ UNCHANGED <<failures, window, open, quiet, blamed>>

Before(n) == IF n = 0 THEN 0 ELSE n - 1

Tick ==
    /\ window' = IF window = NoExpiry THEN window ELSE Before(window)
    /\ failures' = IF window' = 0 THEN {} ELSE failures
    /\ open' = IF open.ttl <= 1 THEN Closed
               ELSE [open EXCEPT !.ttl = @ - 1, !.left = Before(@)]
    /\ process' = [p \in Processes |-> [process[p] EXCEPT !.left = Before(@)]]
    /\ quiet' = IF quiet > Cooldown THEN quiet ELSE quiet + 1
    /\ UNCHANGED blamed

Init ==
    /\ failures = {} /\ window = 0
    /\ open = Closed
    /\ process = [p \in Processes |-> Idle]
    /\ quiet = Cooldown + 1 /\ blamed = {}

Next ==
    \/ \E p \in Processes :
          \/ \E v \in Videos : Fails(p, v) \/ Succeeds(p, v)
          \/ Expire(p) \/ Count(p) \/ Open(p)
          \/ Recount(p) \/ Close(p)
          \/ Read(p) \/ Delete(p)
          \/ Interrupted(p)
    \/ Tick

Spec == Init /\ [][Next]_vars

-----------------------------------------------------------------------------
TypeOK ==
    /\ failures \subseteq Videos
    /\ window \in 0..NoExpiry /\ (window = 0 <=> failures = {})
    /\ open \in [ttl : 0..Cooldown, left : 0..Cooldown]
    /\ process \in [Processes ->
          [phase : {"idle", "expire", "count", "open", "recount", "close", "delete"},
           left : 0..Cooldown, counted : SUBSET Videos]]
    /\ quiet \in 0..(Cooldown + 1) /\ blamed \subseteq Videos

\* The circuit is bounded: ingest is deferred for no longer than the cooldown after
\* the last download that was refused, however slow the process that opened it.
DeferralIsBounded == open.left > 0 => open.left + quiet <= Cooldown

\* Step by which the success of a download closes an open circuit.
SuccessCloses(p) ==
    p \in Downloaders /\ IsAt(p, "close") /\ process'[p] = Idle
    /\ open.left > 0 /\ open' = Closed

\* As long as enough refused videos are on record, no success closes the circuit.
ClusterStaysOpen ==
    [][\A p \in Processes : SuccessCloses(p) => Cardinality(failures) < Threshold]_vars

\* "Successful downloads remove only their own circuit failure; unrelated success
\* cannot clear a clustered incident" (T090): when a success closes the circuit, some
\* of the videos it opened for have been downloaded since.
UnrelatedSuccessKeepsOpen ==
    [][\A p \in Processes : SuccessCloses(p) => Cardinality(blamed) < Threshold]_vars
=============================================================================
