--------------------------- MODULE CookieProfiles ---------------------------
(***************************************************************************)
(* Two named cookie jars for YouTube, the state file that says which one   *)
(* is active and what the last probes found, and the programs that change  *)
(* them: the operator's probes and switches, and the refresh that exports  *)
(* a new jar from the browser.                                             *)
(*                                                                         *)
(* Programs run concurrently and may be killed at any step; a lock on the  *)
(* state file, and one for the refreshes of a jar, are freed with their    *)
(* holder.  Files are replaced as a whole.                                 *)
(***************************************************************************)
EXTENDS Integers, FiniteSets, FiniteSetsExt

CONSTANTS
    A, B,           \* PROFILE_A, PROFILE_B
    Operators,      \* runs of manage_youtube_cookie_profiles
    Refreshers,     \* runs of refresh_youtube_cookies
    Refreshed,      \* the profiles whose jar they are given
    MaxJars         \* bound: jars that were ever exported

ASSUME CookieAssumption ==
    /\ A # B /\ Refreshed \subseteq {A, B} /\ Operators \cap Refreshers = {}
    /\ MaxJars \in Nat \ {0}

Profiles  == {A, B}
Programs  == Operators \cup Refreshers
NoJar     == 0
Jars      == 0..MaxJars

VARIABLES
    state,       \* the state file
    jars,        \* the production jar of each profile
    previous,    \* the rollback file of each profile
    quality,     \* what each jar is worth to YouTube
    program,     \* what each program is doing
    stateLock,   \* the holder of profile_state_lock
    jarLock,     \* the holder of cookie_jar_lock of each profile
    chosen,      \* history: the profile that was last activated
    fellBack,    \* history: a program took the default for the state file since then
    accepted,    \* history: jars that passed every probe of a refresh, or were there first
    replaced,    \* history: the jar that the last refresh of each profile replaced
    proven       \* history: profiles that passed a media probe within the maximal age

cookieVars == <<state, jars, previous, quality, program, stateLock, jarLock,
                chosen, fellBack, accepted, replaced, proven>>

\* What the record of a profile says at a time: no probe yet, a success that is recent
\* or stale, a failure that is cooling down or over (last_probe_ok, last_probe_at,
\* cooldown_until).
Records == {"none", "recent", "stale", "cooling", "failed"}
DefaultState == [active |-> A, record |-> [p \in Profiles |-> "none"]]

Resting == [phase |-> "rest", profile |-> A, jar |-> NoJar, ok |-> FALSE, loaded |-> DefaultState]

Is(o, phase) == program[o].phase = phase
Becomes(o, phase) == program' = [program EXCEPT ![o].phase = phase]

\* A program that has found out whether the jar of a profile works.
Finds(o, ok) == program' = [program EXCEPT ![o].phase = "report", ![o].ok = ok]

\* inspect_cookie_file: a jar that is missing, empty, anonymous or expired is not probed.
Healthy(jar) == jar # NoJar /\ quality[jar] # "worthless"

\* probe_youtube_media_download.
MediaProbe(jar) == quality[jar] = "works"

-----------------------------------------------------------------------------
(***************************************************************************)
(* The state file: record_profile_probe and activate_profile.              *)
(***************************************************************************)
\* Mutant: the lock is not waited for.
StateLockUnheeded(o) == TRUE

StateLockFree(o) == stateLock = {}

\* The lock is taken and the file read; one that cannot be read, whatever it says, counts
\* as the default.
Lock(o) ==
    /\ Is(o, "report") \/ Is(o, "switch")
    /\ StateLockFree(o)
    /\ stateLock' = stateLock \cup {o}
    /\ \E read \in {state, DefaultState} :
          /\ fellBack' = (fellBack \/ read # state)
          /\ program' = [program EXCEPT ![o].loaded = read,
                            ![o].phase = IF Is(o, "report") THEN "record" ELSE "activate"]
    /\ UNCHANGED <<state, jars, previous, quality, jarLock, chosen, accepted, replaced, proven>>

Recorded(ok) == IF ok THEN "recent" ELSE "cooling"

Ends(o) == /\ program' = [program EXCEPT ![o] = Resting]
           /\ jarLock' = [p \in Profiles |-> jarLock[p] \ {o}]

\* The whole state is written back, with the record of one profile replaced.
Record(o) ==
    /\ Is(o, "record")
    /\ state' = [program[o].loaded EXCEPT !.record[program[o].profile] = Recorded(program[o].ok)]
    /\ stateLock' = stateLock \ {o}
    /\ Ends(o)
    /\ UNCHANGED <<jars, previous, quality, chosen, fellBack, accepted, replaced, proven>>

\* The write of a success fails: a refresh then reports a failure, a probe is over.
RecordFails(o) ==
    /\ Is(o, "record") /\ program[o].ok
    /\ stateLock' = stateLock \ {o}
    /\ IF o \in Refreshers THEN Finds(o, FALSE) /\ UNCHANGED jarLock ELSE Ends(o)
    /\ UNCHANGED <<state, jars, previous, quality, chosen, fellBack, accepted, replaced, proven>>

\* Mutant: evidence does not grow old.
EvidenceOfAnyAge(record) == record \in {"recent", "stale"}

Evidence(record) == record = "recent"

Activate(o) ==
    LET p == program[o].profile IN
    /\ Is(o, "activate")
    /\ IF Evidence(program[o].loaded.record[p])
       THEN /\ state' = [program[o].loaded EXCEPT !.active = p]
            /\ chosen' = p /\ fellBack' = FALSE
       ELSE UNCHANGED <<state, chosen, fellBack>>
    /\ stateLock' = stateLock \ {o}
    /\ Ends(o)
    /\ UNCHANGED <<jars, previous, quality, accepted, replaced, proven>>

-----------------------------------------------------------------------------
(***************************************************************************)
(* manage_youtube_cookie_profiles.                                         *)
(***************************************************************************)
Probe(o, p) ==
    /\ o \in Operators /\ Is(o, "rest")
    /\ program' = [program EXCEPT ![o] = [Resting EXCEPT !.profile = p,
                      !.phase = IF Healthy(jars[p]) THEN "probe" ELSE "report"]]
    /\ UNCHANGED <<state, jars, previous, quality, stateLock, jarLock,
                   chosen, fellBack, accepted, replaced, proven>>

\* The jar that is probed is the one of the profile now: the snapshot is taken late.
ProbeEnds(o) ==
    LET p == program[o].profile IN
    /\ Is(o, "probe")
    /\ Finds(o, MediaProbe(jars[p]))
    /\ proven' = IF MediaProbe(jars[p]) THEN proven \cup {p} ELSE proven
    /\ UNCHANGED <<state, jars, previous, quality, stateLock, jarLock, chosen, fellBack, accepted, replaced>>

\* activate and failback: the health of the jar is looked at first, and a failure recorded.
Switch(o, p) ==
    /\ o \in Operators /\ Is(o, "rest")
    /\ program' = [program EXCEPT ![o] = [Resting EXCEPT !.profile = p,
                      !.phase = IF Healthy(jars[p]) THEN "switch" ELSE "report"]]
    /\ UNCHANGED <<state, jars, previous, quality, stateLock, jarLock,
                   chosen, fellBack, accepted, replaced, proven>>

-----------------------------------------------------------------------------
(***************************************************************************)
(* refresh_cookie_jar.                                                     *)
(***************************************************************************)
Exported == {n \in Jars : n # NoJar /\ quality[n] # "none"}

\* The lock of the jar is taken and the browser's cookies exported and filtered; there is
\* no candidate if that fails or yields no healthy jar.
Export(o, p) ==
    /\ o \in Refreshers /\ p \in Refreshed /\ Is(o, "rest") /\ jarLock[p] = {}
    /\ jarLock' = [jarLock EXCEPT ![p] = {o}]
    /\ \/ /\ Exported # 1..MaxJars
          /\ LET n == Min((1..MaxJars) \ Exported) IN
                /\ \E q \in {"works", "refused"} : quality' = [quality EXCEPT ![n] = q]
                /\ program' = [program EXCEPT ![o] =
                       [Resting EXCEPT !.profile = p, !.jar = n, !.phase = "canaries"]]
       \/ /\ UNCHANGED quality
          /\ program' = [program EXCEPT ![o] = [Resting EXCEPT !.profile = p, !.phase = "report"]]
    /\ UNCHANGED <<state, jars, previous, stateLock, chosen, fellBack, accepted, replaced, proven>>

\* The candidate is removed, and the failure reported.
GivesUp(o) ==
    /\ program' = [program EXCEPT ![o].phase = "report", ![o].jar = NoJar]
    /\ quality' = [quality EXCEPT ![program[o].jar] = "none"]

CanariesPass(jar) == MediaProbe(jar)

Canaries(o) ==
    LET n == program[o].jar IN
    /\ Is(o, "canaries")
    /\ IF CanariesPass(n) THEN Becomes(o, "backup") /\ UNCHANGED quality ELSE GivesUp(o)
    /\ accepted' = accepted \cup (IF MediaProbe(n) THEN {n} ELSE {})
    /\ proven' = IF MediaProbe(n) THEN proven \cup {program[o].profile} ELSE proven
    /\ UNCHANGED <<state, jars, previous, stateLock, jarLock, chosen, fellBack, replaced>>

\* Mutant: a rollback file is made only where there is one.
BackupOfBackup(p) == IF previous[p] = NoJar THEN previous[p] ELSE jars[p]

BackedUp(p) == IF jars[p] = NoJar THEN previous[p] ELSE jars[p]

Backup(o) ==
    LET p == program[o].profile IN
    /\ Is(o, "backup")
    /\ previous' = [previous EXCEPT ![p] = BackedUp(p)]
    /\ Becomes(o, "replace")
    /\ UNCHANGED <<state, jars, quality, stateLock, jarLock, chosen, fellBack, accepted, replaced, proven>>

Replace(o) ==
    LET p == program[o].profile IN
    /\ Is(o, "replace")
    /\ jars' = [jars EXCEPT ![p] = program[o].jar]
    /\ replaced' = [replaced EXCEPT ![p] = IF jars[p] = NoJar THEN @ ELSE jars[p]]
    /\ program' = [program EXCEPT ![o].phase = "report", ![o].ok = TRUE, ![o].jar = NoJar]
    /\ UNCHANGED <<state, previous, quality, stateLock, jarLock, chosen, fellBack, accepted, proven>>

\* An exception before the jar is replaced.
RefreshFails(o) ==
    /\ Is(o, "backup") \/ Is(o, "replace")
    /\ GivesUp(o)
    /\ accepted' = accepted \ {program[o].jar}
    /\ UNCHANGED <<state, jars, previous, stateLock, jarLock, chosen, fellBack, replaced, proven>>

-----------------------------------------------------------------------------
Killed(o) ==
    /\ ~Is(o, "rest")
    /\ stateLock' = stateLock \ {o}
    /\ Ends(o)
    /\ UNCHANGED <<state, jars, previous, quality, chosen, fellBack, accepted, replaced, proven>>

\* YouTube no longer accepts a production jar, or its cookies expire.
Revoked(n) ==
    /\ quality[n] = "works" /\ \E p \in Profiles : jars[p] = n
    /\ \E q \in {"refused", "worthless"} : quality' = [quality EXCEPT ![n] = q]
    /\ UNCHANGED <<state, jars, previous, program, stateLock, jarLock,
                   chosen, fellBack, accepted, replaced, proven>>

\* The times pass, all in one step; they are longer than a write of the state file
\* (a bound): no report or switch is under way.
NoWriteUnderWay == \A o \in Programs : Is(o, "rest") \/ Is(o, "probe") \/ Is(o, "canaries")

ProbesGrowOld(p) ==
    /\ NoWriteUnderWay
    /\ p \in proven \/ state.record[p] = "recent"
    /\ state' = [state EXCEPT !.record[p] = IF @ = "recent" THEN "stale" ELSE @]
    /\ proven' = proven \ {p}
    /\ UNCHANGED <<jars, previous, quality, program, stateLock, jarLock, chosen, fellBack, accepted, replaced>>

CoolsDown(p) ==
    /\ NoWriteUnderWay
    /\ state.record[p] = "cooling"
    /\ state' = [state EXCEPT !.record[p] = "failed"]
    /\ UNCHANGED <<jars, previous, quality, program, stateLock, jarLock,
                   chosen, fellBack, accepted, replaced, proven>>

CookieInit ==
    /\ state = DefaultState
    /\ jars \in {[p \in Profiles |-> 1], [p \in Profiles |-> IF p = A THEN NoJar ELSE 1]}
    /\ quality = [n \in Jars |-> IF n = 1 THEN "works" ELSE "none"]
    /\ previous = [p \in Profiles |-> NoJar]
    /\ program = [o \in Programs |-> Resting]
    /\ stateLock = {}
    /\ jarLock = [p \in Profiles |-> {}]
    /\ chosen = A
    /\ fellBack = FALSE
    /\ accepted = {1}
    /\ replaced = [p \in Profiles |-> NoJar]
    /\ proven = {}

CookieNext ==
    \/ \E o \in Programs :
          \/ Lock(o) \/ Record(o) \/ RecordFails(o) \/ Activate(o) \/ Killed(o)
          \/ ProbeEnds(o) \/ Canaries(o) \/ Backup(o) \/ Replace(o) \/ RefreshFails(o)
          \/ \E p \in Profiles : Probe(o, p) \/ Switch(o, p) \/ Export(o, p)
    \/ \E n \in Jars : Revoked(n)
    \/ \E p \in Profiles : ProbesGrowOld(p) \/ CoolsDown(p)

CookieSpec == CookieInit /\ [][CookieNext]_cookieVars

\* Bound of the checks: while the default stands for a file that was not read, no refresh
\* has a candidate: one that found none may report it.
FallbackOrRefresh == fellBack' => \A n \in Jars \ {1} : quality'[n] = "none"

-----------------------------------------------------------------------------
\* At most one program is between the read and the write of the state file.
CookieTypeOK ==
    /\ state \in [active : Profiles, record : [Profiles -> Records]]
    /\ jars \in [Profiles -> Jars] /\ previous \in [Profiles -> Jars]
    /\ quality \in [Jars -> {"none", "works", "refused", "worthless"}]
    /\ stateLock \subseteq Programs /\ Cardinality(stateLock) <= 1
    /\ \A p \in Profiles : Cardinality(jarLock[p]) <= 1

\* The active slot is the one that an operator activated last: no probe or refresh that
\* runs at the same time writes an older choice back (record_profile_probe).  The one
\* exception is a program that could not read the state file since that choice
\* (load_profile_state): it writes the default back, whose active slot is A.
ActiveIsChosen == state.active = chosen \/ (fellBack /\ state.active = A)

\* Every production jar passed the media probes of its refresh, or was there before
\* (_refresh_cookie_jar_unlocked), whatever fails or is killed on the way.
ProductionJarIsProbed == \A p \in Profiles : jars[p] = NoJar \/ jars[p] \in accepted

\* The rollback file has the jar that the last refresh replaced, or already the present
\* one while the next refresh is about to replace it or stopped there.
RollbackIsKept ==
    \A p \in Profiles : replaced[p] # NoJar => previous[p] \in {replaced[p], jars[p]}

\* However a refresh ends, the jar that downloads use works and the one before it is at hand
\* (_refresh_cookie_jar_unlocked).
JarsAreSafe ==
    ProductionJarIsProbed /\ RollbackIsKept

\* A switch rests on a media probe of the profile that succeeded a short time ago
\* (activate_profile), although probe, record and switch are separate steps.
SwitchHasEvidence ==
    [][chosen' # chosen => chosen' \in proven]_cookieVars
=============================================================================
