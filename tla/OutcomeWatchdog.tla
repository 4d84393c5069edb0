-------------------------- MODULE OutcomeWatchdog --------------------------
(***************************************************************************)
(* The watchdog over the videos that came in through subscriptions: every  *)
(* check looks at the latest attempt of each, and tells the operator of an *)
(* incident when it begins, changes, lasts or ends.  What it last told is  *)
(* kept in a file, which is written before the message goes out.           *)
(***************************************************************************)
EXTENDS Integers, FiniteSets

CONSTANTS
    Ingested,          \* the videos of the channels that are followed
    FailureThreshold,  \* --failure-threshold
    Reminder,          \* --alert-reminder-seconds, in ticks
    MaxNumber          \* bound: attempts of a video

ASSUME WatchdogAssumption ==
    FailureThreshold \in Nat \ {0} /\ Reminder \in Nat \ {0} /\ MaxNumber \in Nat \ {0}

VARIABLES
    outcomes,    \* the latest attempt of each video
    incidentFile,\* the alert state file
    check,       \* the run of the watchdog
    heard,       \* history: what the operator last heard
    sinceHeard,  \* history: ticks since the operator heard of this incident
    lost         \* history: a run was killed, and its message may be lost, since then

watchdogVars == <<outcomes, incidentFile, check, heard, sinceHeard, lost>>

\* `recent`: its attempt by the auto-ingest, and later ones, are within the window.
NoAttempt == [recent |-> FALSE, number |-> 0, status |-> "none"]

\* An incident is the attempts that failed and those that are overdue.
NoIncident == [failed |-> {}, overdue |-> {}]

\* `asked` is what the run has collected, `kind` the decision it is about to print.
NoCheck == [phase |-> "idle", asked |-> NoIncident, kind |-> "none"]

-----------------------------------------------------------------------------
\* Videos whose auto-ingest is recent; a later attempt for another reason still counts.
Cohort == {v \in Ingested : outcomes[v].recent}

WithStatus(status) == {<<v, outcomes[v].number>> : v \in {u \in Cohort : outcomes[u].status = status}}

Collected == [failed |-> WithStatus("failed"), overdue |-> WithStatus("overdue")]

Degraded(incident) ==
    Cardinality(incident.failed) >= FailureThreshold \/ incident.overdue # {}

\* Mutant: a reminder that is not due hides that the incident has changed.
KindReminderFirst(incident) ==
    CASE ~Degraded(incident) /\ ~incidentFile.degraded -> "healthy"
      [] ~Degraded(incident) /\ incidentFile.degraded -> "recovered"
      [] Degraded(incident) /\ ~incidentFile.degraded -> "new"
      [] OTHER -> IF incidentFile.alerted < Reminder THEN "suppressed" ELSE "changed"

\* decide_pipeline_outcome_alert.
Kind(incident) ==
    CASE ~Degraded(incident) /\ ~incidentFile.degraded -> "healthy"
      [] ~Degraded(incident) /\ incidentFile.degraded -> "recovered"
      [] Degraded(incident) /\ ~incidentFile.degraded -> "new"
      [] OTHER -> IF incident # incidentFile.incident THEN "changed"
                  ELSE IF incidentFile.alerted >= Reminder THEN "reminder" ELSE "suppressed"

\* Ticks since last_alert_at.
Alerted(kind) == IF kind = "suppressed" THEN incidentFile.alerted ELSE 0

NextFile(incident, kind) ==
    CASE kind = "healthy" -> incidentFile
      [] kind = "recovered" -> [degraded |-> FALSE, incident |-> NoIncident, alerted |-> 0]
      [] OTHER -> [degraded |-> TRUE, incident |-> incident, alerted |-> Alerted(kind)]

-----------------------------------------------------------------------------
Collect ==
    /\ check.phase = "idle"
    /\ check' = [NoCheck EXCEPT !.phase = "collected", !.asked = Collected]
    /\ UNCHANGED <<outcomes, incidentFile, heard, sinceHeard, lost>>

Save ==
    /\ check.phase = "collected"
    /\ incidentFile' = NextFile(check.asked, Kind(check.asked))
    /\ check' = [check EXCEPT !.phase = "saved", !.kind = Kind(check.asked)]
    /\ UNCHANGED <<outcomes, heard, sinceHeard, lost>>

\* The message, or NO_REPLY.
Emit ==
    /\ check.phase = "saved"
    /\ IF check.kind \in {"healthy", "suppressed"} THEN UNCHANGED <<heard, sinceHeard, lost>>
       ELSE /\ heard' = IF check.kind = "recovered" THEN NoIncident ELSE check.asked
            /\ sinceHeard' = 0
            /\ lost' = FALSE
    /\ check' = NoCheck
    /\ UNCHANGED <<outcomes, incidentFile>>

\* A file that is lost or cannot be read counts as one that says nothing.
CheckDies ==
    /\ check.phase # "idle"
    /\ check' = NoCheck
    /\ lost' = TRUE
    /\ incidentFile' \in {incidentFile, [degraded |-> FALSE, incident |-> NoIncident, alerted |-> 0]}
    /\ UNCHANGED <<outcomes, heard, sinceHeard>>

-----------------------------------------------------------------------------
Outcome(v, o) ==
    /\ outcomes' = [outcomes EXCEPT ![v] = o]
    /\ UNCHANGED <<incidentFile, check, heard, sinceHeard, lost>>

Attempt(v) ==
    LET o == outcomes[v] IN
    /\ o.number < MaxNumber /\ o.status \in {"none", "failed"}
    /\ \E recent \in {TRUE, o.recent} :
          Outcome(v, [recent |-> recent, number |-> o.number + 1, status |-> "active"])

Advance(v) ==
    LET o == outcomes[v] IN
    /\ o.status \in {"active", "overdue"}
    /\ \E status \in {"overdue", "failed", "completed"} : Outcome(v, [o EXCEPT !.status = status])

LeavesWindow(v) ==
    /\ outcomes[v].recent
    /\ Outcome(v, [outcomes[v] EXCEPT !.recent = FALSE])

\* A check takes less than a tick (a bound).
WatchdogTick ==
    /\ check.phase = "idle"
    /\ incidentFile' = [incidentFile EXCEPT !.alerted = IF @ = Reminder \/ ~incidentFile.degraded THEN @ ELSE @ + 1]
    /\ sinceHeard' = IF sinceHeard = Reminder THEN Reminder ELSE sinceHeard + 1
    /\ UNCHANGED <<outcomes, check, heard, lost>>

WatchdogInit ==
    /\ outcomes = [v \in Ingested |-> NoAttempt]
    /\ incidentFile = [degraded |-> FALSE, incident |-> NoIncident, alerted |-> 0]
    /\ check = NoCheck
    /\ heard = NoIncident
    /\ sinceHeard = Reminder
    /\ lost = FALSE

WatchdogNext ==
    \/ Collect \/ Save \/ Emit \/ CheckDies \/ WatchdogTick
    \/ \E v \in Ingested : Attempt(v) \/ Advance(v) \/ LeavesWindow(v)

WatchdogSpec == WatchdogInit /\ [][WatchdogNext]_watchdogVars

-----------------------------------------------------------------------------
\* Between two checks the operator has heard of the incident that the file has, as it
\* now is, and of no incident when there is none, unless a run died before its message
\* went out (_run).
OperatorKnows ==
    check.phase = "idle" /\ ~lost =>
        heard = IF incidentFile.degraded THEN incidentFile.incident ELSE NoIncident

\* The same incident is not told twice within the time of a reminder, however often it
\* is checked (decide_pipeline_outcome_alert); after a run that died it may be.
NoRepeatedAlert ==
    Emit /\ check.kind \in {"new", "changed", "reminder"} /\ check.asked = heard /\ ~lost
       => sinceHeard >= Reminder

\* A message that was lost is made up for: when an incident is checked and nothing is
\* said, the operator was told, or a run died, less than the time of a reminder ago.
SilenceIsShort ==
    Emit /\ check.kind = "suppressed" /\ ~lost
       => sinceHeard < Reminder

\* Every step leaves an operator who knows the incident, and who was neither told too often
\* nor left without a reminder (decide_pipeline_outcome_alert, _run).
AlertsAreTimely ==
    [][OperatorKnows' /\ NoRepeatedAlert /\ SilenceIsShort]_watchdogVars
=============================================================================
