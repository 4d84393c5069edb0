------------------------ MODULE CookieProfiles_proofs ------------------------
(***************************************************************************)
(* Proofs about the cookie profiles: for any number of operators and       *)
(* refreshes that run at the same time, each killed at any step, and any   *)
(* number of exported jars,                                                *)
(*                                                                         *)
(*   CookieTypeCorrect        the types, and each lock has one holder      *)
(*   ChoiceIsKept             the active profile is the one chosen last,   *)
(*                            or A after a read of the state that failed   *)
(*   JarsStaySafe             production jars were probed, and the jar     *)
(*                            before the last refresh is kept              *)
(*   SwitchesRestOnEvidence   a switch rests on a recent media probe       *)
(*                                                                         *)
(* The properties speak of the files.  What they need of the programs is   *)
(* what each one has in hand between two of its steps, so the inductive    *)
(* invariant IInv adds to the types                                        *)
(*   LockInv         what was read of the state file is still in force,    *)
(*                   since the reader holds its lock alone;                *)
(*   EvidenceInv     a success that is recorded, read or about to be       *)
(*                   recorded was probed within the maximal age;           *)
(*   CandidatesInv   the candidate of a refresh is nobody else's jar, and  *)
(*                   its lock keeps other refreshes of the profile away;   *)
(*   JarsInv         a candidate past its probes is accepted, and one      *)
(*                   about to be installed has the present jar saved.      *)
(***************************************************************************)
EXTENDS CookieProfiles, FiniteSetTheorems, WellFoundedInduction, NaturalsInduction, TLAPS

\* What the records of the state are made of.
Phases    == {"rest", "probe", "report", "record", "switch", "activate",
              "canaries", "backup", "replace"}
StateFile == [active : Profiles, record : [Profiles -> Records]]
Program   == [phase : Phases, profile : Profiles, jar : Jars, ok : BOOLEAN, loaded : StateFile]
Qualities == {"none", "works", "refused", "worthless"}

\* The values that the state has.
TypeInv ==
    /\ state \in StateFile
    /\ jars \in [Profiles -> Jars]
    /\ previous \in [Profiles -> Jars]
    /\ replaced \in [Profiles -> Jars]
    /\ quality \in [Jars -> Qualities]
    /\ program \in [Programs -> Program]
    /\ stateLock \in SUBSET Programs
    /\ jarLock \in [Profiles -> SUBSET Programs]
    /\ chosen \in Profiles
    /\ fellBack \in BOOLEAN
    /\ accepted \in SUBSET Jars
    /\ proven \in SUBSET Profiles

\* Between the read and the write of the state file.
Writing(o) == Is(o, "record") \/ Is(o, "activate")
\* A refresh whose candidate passed, and one that has a candidate.
Replacing(o) == Is(o, "backup") \/ Is(o, "replace")
Refreshing(o) == Is(o, "canaries") \/ Replacing(o)

\* The active profile is the one chosen last, or the default's once a read has failed.
InForce(active) == active = chosen \/ (fellBack /\ active = A)

\* A program between the read and the write of the state file holds its lock alone, and
\* has read the choice that is in force.
LockInv ==
    /\ \A o \in Programs : Writing(o) =>
          /\ stateLock = {o}
          /\ InForce(program[o].loaded.active)
    /\ \A o \in stateLock : Writing(o)
    /\ InForce(state.active)

\* A recent success, in the file or on its way to it, comes from a probe within the age.
EvidenceOf(o) ==
    /\ Writing(o) => \A p \in Profiles : program[o].loaded.record[p] = "recent" => p \in proven
    /\ Replacing(o) => program[o].profile \in proven
    /\ Refreshing(o) => ~ program[o].ok
    /\ (Is(o, "report") \/ Is(o, "record")) /\ program[o].ok => program[o].profile \in proven

EvidenceInv ==
    /\ \A p \in Profiles : state.record[p] = "recent" => p \in proven
    /\ \A o \in Programs : EvidenceOf(o)

\* The candidate of a refresh is a jar of its own, and the lock of the jar is held.
CandidatesInv ==
    /\ \A o \in Programs : Refreshing(o) =>
          /\ program[o].jar \in Exported
          /\ \A p \in Profiles : jars[p] # program[o].jar
          /\ jarLock[program[o].profile] = {o}
    /\ \A o1, o2 \in Programs : Refreshing(o1) /\ Refreshing(o2) /\ o1 # o2 =>
          program[o1].jar # program[o2].jar
    /\ \A p \in Profiles : jars[p] = NoJar \/ jars[p] \in Exported
    /\ \A p \in Profiles : jarLock[p] = {} \/ \E o \in Programs : jarLock[p] = {o}

\* What a refresh past its probes has in hand, and the files it works on.
JarsInv ==
    /\ \A o \in Programs : Replacing(o) => program[o].jar \in accepted
    /\ \A o \in Programs : Is(o, "replace") =>
          LET p == program[o].profile IN jars[p] # NoJar => previous[p] = jars[p]
    /\ \A p \in Profiles : replaced[p] # NoJar => jars[p] # NoJar
    /\ JarsAreSafe

\* The inductive invariant.
IInv == TypeInv /\ LockInv /\ EvidenceInv /\ CandidatesInv /\ JarsInv

-----------------------------------------------------------------------------
\* A set of numbers that is not empty has a smallest one.
LEMMA SmallestExists ==
    ASSUME NEW T, T \subseteq Nat, T # {}
    PROVE  \E x \in T : \A y \in T : x <= y
<1> DEFINE R == OpToRel(<, Nat)
<1>1. IsWellFoundedOn(R, Nat)
  BY NatLessThanWellFounded
<1>2. \A x, y \in Nat : y < x => <<y, x>> \in R
  BY DEF OpToRel
<1> HIDE DEF R
<1>3. \E x \in T : \A y \in T : ~(<<y, x>> \in R)
  BY <1>1, WFMin, Zenon
<1>4. PICK x \in T : \A y \in T : ~(<<y, x>> \in R)
  BY <1>3
<1>5. x \in Nat /\ \A y \in T : y \in Nat
  OBVIOUS
<1>6. \A y \in T : ~(y < x)
  BY <1>2, <1>4, <1>5
<1>7. \A y \in T : x <= y
  BY <1>6, <1>5
<1>8. QED
  BY <1>7

\* Export picks a jar that was not exported before (Min chooses).
LEMMA NextJar ==
    ASSUME Exported # 1..MaxJars
    PROVE  Min((1..MaxJars) \ Exported) \in (1..MaxJars) \ Exported
<1> DEFINE T == (1..MaxJars) \ Exported
<1>1. T \subseteq Nat
  OBVIOUS
<1>2. T # {}
  BY CookieAssumption DEF Exported, Jars, NoJar
<1> HIDE DEF T
<1>3. \E x \in T : \A y \in T : x <= y
  BY <1>1, <1>2, SmallestExists
<1>4. Min(T) \in T
  BY <1>3 DEF Min
<1>5. QED
  BY <1>4 DEF T

\* What an export does to the jars and the program, its choice of a jar named.
LEMMA ExportDoes ==
    ASSUME NEW o \in Programs, NEW p \in Profiles, Export(o, p)
    PROVE  \/ \E n \in (1..MaxJars) \ Exported, q \in {"works", "refused"} :
                 /\ quality' = [quality EXCEPT ![n] = q]
                 /\ program' = [program EXCEPT ![o] =
                       [Resting EXCEPT !.profile = p, !.jar = n, !.phase = "canaries"]]
           \/ /\ quality' = quality
              /\ program' = [program EXCEPT ![o] =
                    [Resting EXCEPT !.profile = p, !.phase = "report"]]
<1> DEFINE n == Min((1..MaxJars) \ Exported)
<1>1. CASE quality' = quality /\ program' = [program EXCEPT ![o] =
                    [Resting EXCEPT !.profile = p, !.phase = "report"]]
  BY <1>1
<1>2. CASE /\ Exported # 1..MaxJars
           /\ \E q \in {"works", "refused"} : quality' = [quality EXCEPT ![n] = q]
           /\ program' = [program EXCEPT ![o] =
                 [Resting EXCEPT !.profile = p, !.jar = n, !.phase = "canaries"]]
  <2>1. n \in (1..MaxJars) \ Exported
    BY <1>2, NextJar
  <2> HIDE DEF n
  <2>2. QED
    BY <1>2, <2>1
<1>3. QED
  BY <1>1, <1>2 DEF Export

-----------------------------------------------------------------------------
\* The state has its types at first.
LEMMA TypeInit == ASSUME CookieInit PROVE TypeInv
<1>1. 1 \in Jars /\ NoJar \in Jars
  BY CookieAssumption DEF Jars, NoJar
<1>2. Resting \in Program /\ DefaultState \in StateFile
  BY <1>1 DEF Resting, Program, Phases, DefaultState, StateFile, Profiles, Records
<1>3. QED
  BY <1>1, <1>2 DEF CookieInit, TypeInv, Qualities, Profiles

\* Every step keeps the types.
LEMMA TypeStep ==
    ASSUME TypeInv, [CookieNext]_cookieVars
    PROVE  TypeInv'
<1> USE DEF TypeInv
<1>a. NoJar \in Jars
  BY CookieAssumption DEF Jars, NoJar
<1>b. Resting \in Program /\ DefaultState \in StateFile /\ TRUE \in BOOLEAN /\ FALSE \in BOOLEAN
  BY <1>a DEF Resting, Program, Phases, DefaultState, StateFile, Profiles, Records
<1>0. CASE UNCHANGED cookieVars
  BY <1>0 DEF cookieVars
<1>1. ASSUME NEW o \in Programs, Lock(o) PROVE TypeInv'
  <2>1. PICK read \in {state, DefaultState} :
            program' = [program EXCEPT ![o].loaded = read,
                          ![o].phase = IF Is(o, "report") THEN "record" ELSE "activate"]
    BY <1>1 DEF Lock
  <2>2. read \in StateFile
    BY <1>b
  <2>3. program' \in [Programs -> Program]
    BY <2>1, <2>2 DEF Program, Phases
  <2>4. QED
    BY <1>1, <2>3 DEF Lock
<1>2. ASSUME NEW o \in Programs, Record(o) PROVE TypeInv'
  BY <1>2, <1>b DEF Record, Ends, Recorded, Program, StateFile, Records
<1>3. ASSUME NEW o \in Programs, RecordFails(o) PROVE TypeInv'
  BY <1>3, <1>b DEF RecordFails, Ends, Finds, Program, Phases
<1>4. ASSUME NEW o \in Programs, Activate(o) PROVE TypeInv'
  BY <1>4, <1>b DEF Activate, Ends, Program, StateFile
<1>5. ASSUME NEW o \in Programs, Killed(o) PROVE TypeInv'
  BY <1>5, <1>b DEF Killed, Ends
<1>6. ASSUME NEW o \in Programs, ProbeEnds(o) PROVE TypeInv'
  BY <1>6, <1>b DEF ProbeEnds, Finds, MediaProbe, Program, Phases
<1>7. ASSUME NEW o \in Programs, Canaries(o) PROVE TypeInv'
  BY <1>7, <1>a, <1>b DEF Canaries, Becomes, GivesUp, Program, Phases, Qualities
<1>8. ASSUME NEW o \in Programs, Backup(o) PROVE TypeInv'
  BY <1>8 DEF Backup, BackedUp, Becomes, Program, Phases
<1>9. ASSUME NEW o \in Programs, Replace(o) PROVE TypeInv'
  BY <1>9, <1>a, <1>b DEF Replace, Program, Phases
<1>10. ASSUME NEW o \in Programs, RefreshFails(o) PROVE TypeInv'
  BY <1>10, <1>a DEF RefreshFails, GivesUp, Program, Phases, Qualities
<1>11. ASSUME NEW o \in Programs, NEW p \in Profiles, Probe(o, p) PROVE TypeInv'
  BY <1>11, <1>b DEF Probe, Program, Phases
<1>12. ASSUME NEW o \in Programs, NEW p \in Profiles, Switch(o, p) PROVE TypeInv'
  BY <1>12, <1>b DEF Switch, Program, Phases
<1>13. ASSUME NEW o \in Programs, NEW p \in Profiles, Export(o, p) PROVE TypeInv'
  <2>1. jarLock' \in [Profiles -> SUBSET Programs]
    BY <1>13 DEF Export
  <2>2. UNCHANGED <<state, jars, previous, stateLock, chosen, fellBack, accepted, replaced, proven>>
    BY <1>13 DEF Export
  <2>3. ASSUME NEW n \in (1..MaxJars) \ Exported, NEW q \in {"works", "refused"},
               quality' = [quality EXCEPT ![n] = q],
               program' = [program EXCEPT ![o] =
                       [Resting EXCEPT !.profile = p, !.jar = n, !.phase = "canaries"]]
        PROVE  TypeInv'
    <3>1. n \in Jars
      BY CookieAssumption DEF Jars
    <3>2. QED
      BY <2>1, <2>2, <2>3, <3>1, <1>b DEF Program, Phases, Qualities
  <2>4. CASE quality' = quality /\ program' = [program EXCEPT ![o] =
                    [Resting EXCEPT !.profile = p, !.phase = "report"]]
    BY <2>1, <2>2, <2>4, <1>b DEF Program, Phases
  <2>5. QED
    BY <1>13, <2>3, <2>4, ExportDoes
<1>14. ASSUME NEW m \in Jars, Revoked(m) PROVE TypeInv'
  BY <1>14 DEF Revoked, Qualities
<1>15. ASSUME NEW p \in Profiles, ProbesGrowOld(p) PROVE TypeInv'
  BY <1>15 DEF ProbesGrowOld, StateFile, Records
<1>16. ASSUME NEW p \in Profiles, CoolsDown(p) PROVE TypeInv'
  BY <1>16 DEF CoolsDown, StateFile, Records
<1>17. QED
  BY <1>0, <1>1, <1>2, <1>3, <1>4, <1>5, <1>6, <1>7, <1>8, <1>9, <1>10, <1>11, <1>12, <1>13,
     <1>14, <1>15, <1>16 DEF CookieNext

-----------------------------------------------------------------------------
\* No program holds the state file at first.
LEMMA LockInit == ASSUME CookieInit PROVE LockInv
  BY DEF CookieInit, LockInv, InForce, Writing, Is, Resting, DefaultState

\* A step of one program leaves what the others have in hand alone.
LEMMA OthersWait ==
    ASSUME TypeInv, NEW o \in Programs,
           \/ Lock(o) \/ Record(o) \/ RecordFails(o) \/ Activate(o) \/ Killed(o)
           \/ ProbeEnds(o) \/ Canaries(o) \/ Backup(o) \/ Replace(o) \/ RefreshFails(o)
           \/ \E p \in Profiles : Probe(o, p) \/ Switch(o, p) \/ Export(o, p)
    PROVE  \A x \in Programs \ {o} : program'[x] = program[x]
  BY DEF TypeInv, Lock, Record, RecordFails, Activate, Killed, ProbeEnds, Canaries, Backup,
         Replace, RefreshFails, Probe, Switch, Export, Ends, Finds, Becomes, GivesUp

\* profile_state_lock keeps the read and the write of a program together: every other step
\* of a program is Quiet, or frees the lock it held.
LEMMA LockStep ==
    ASSUME TypeInv, TypeInv', LockInv, [CookieNext]_cookieVars
    PROVE  LockInv'
<1> USE DEF LockInv, InForce, Writing, Is
<1> DEFINE Quiet(o) == /\ program'[o].phase \notin {"record", "activate"}
                       /\ \A x \in Programs \ {o} : program'[x] = program[x]
                       /\ o \notin stateLock
                       /\ UNCHANGED <<state, stateLock, chosen, fellBack>>
<1>q. ASSUME NEW o \in Programs, Quiet(o) PROVE LockInv'
  BY <1>q DEF TypeInv
<1>0. CASE UNCHANGED cookieVars
  BY <1>0 DEF cookieVars
<1>1. ASSUME NEW o \in Programs, Lock(o) PROVE LockInv'
  <2>1. PICK read \in {state, DefaultState} :
            /\ fellBack' = (fellBack \/ read # state)
            /\ program' = [program EXCEPT ![o].loaded = read,
                          ![o].phase = IF Is(o, "report") THEN "record" ELSE "activate"]
    BY <1>1 DEF Lock
  <2>f. /\ fellBack => fellBack'
        /\ read = state \/ (fellBack' /\ read = DefaultState)
    BY <2>1
  <2>d. DefaultState.active = A /\ InForce(state.active) /\ UNCHANGED <<state, chosen>>
    BY <1>1 DEF Lock, DefaultState
  <2>2. InForce(state.active)' /\ (read.active = chosen \/ (fellBack' /\ read.active = A))
    BY <2>f, <2>d
  <2>3. program'[o].phase \in {"record", "activate"} /\ program'[o].loaded = read
    BY <2>1 DEF TypeInv, Program
  <2>4. stateLock' = {o} /\ UNCHANGED <<state, chosen>>
    BY <1>1 DEF Lock, StateLockFree
  <2>5. \A x \in Programs \ {o} : program'[x] = program[x]
    BY <1>1, OthersWait
  <2>6. \A x \in Programs : ~ Writing(x)
    BY <1>1 DEF Lock, StateLockFree
  <2>7. QED
    BY <2>2, <2>3, <2>4, <2>5, <2>6
<1>2. ASSUME NEW o \in Programs, Record(o) PROVE LockInv'
  <2>1. InForce(program[o].loaded.active) /\ stateLock = {o}
    BY <1>2 DEF Record
  <2>2. InForce(state'.active) /\ UNCHANGED <<chosen, fellBack>> /\ stateLock' = {}
    BY <1>2, <2>1 DEF Record, TypeInv, Program, StateFile
  <2>3. program'[o].phase = "rest"
    BY <1>2 DEF Record, Ends, Resting, TypeInv
  <2>4. \A x \in Programs \ {o} : program'[x] = program[x] /\ ~ Writing(x)
    BY <1>2, <2>1, OthersWait
  <2>5. QED
    BY <2>2, <2>3, <2>4
<1>3. ASSUME NEW o \in Programs, RecordFails(o) PROVE LockInv'
  <2>1. stateLock = {o}
    BY <1>3 DEF RecordFails
  <2>2. stateLock' = {} /\ UNCHANGED <<state, chosen, fellBack>>
    BY <1>3, <2>1 DEF RecordFails
  <2>3. program'[o].phase \in {"rest", "report"}
    BY <1>3 DEF RecordFails, Ends, Finds, Resting, TypeInv, Program
  <2>4. \A x \in Programs \ {o} : program'[x] = program[x] /\ ~ Writing(x)
    BY <1>3, <2>1, OthersWait
  <2>5. QED
    BY <2>2, <2>3, <2>4
<1>4. ASSUME NEW o \in Programs, Activate(o) PROVE LockInv'
  <2>1. stateLock = {o}
    BY <1>4 DEF Activate
  <2>2. InForce(state.active)' /\ stateLock' = {}
    BY <1>4, <2>1 DEF Activate, TypeInv, Program, StateFile
  <2>3. program'[o].phase = "rest"
    BY <1>4 DEF Activate, Ends, Resting, TypeInv
  <2>4. \A x \in Programs \ {o} : program'[x] = program[x] /\ ~ Writing(x)
    BY <1>4, <2>1, OthersWait
  <2>5. QED
    BY <2>2, <2>3, <2>4
<1>5. ASSUME NEW o \in Programs, Killed(o) PROVE LockInv'
  <2>1. program'[o].phase = "rest"
    BY <1>5 DEF Killed, Ends, Resting, TypeInv
  <2>2. \A x \in Programs \ {o} : program'[x] = program[x]
    BY <1>5, OthersWait
  <2>3. stateLock' = stateLock \ {o} /\ UNCHANGED <<state, chosen, fellBack>>
    BY <1>5 DEF Killed
  <2>4. QED
    BY <2>1, <2>2, <2>3 DEF TypeInv
<1>6. ASSUME NEW o \in Programs, ProbeEnds(o) PROVE LockInv'
  <2>1. program'[o].phase = "report" /\ ~ Writing(o) /\ UNCHANGED <<state, stateLock, chosen, fellBack>>
    BY <1>6 DEF ProbeEnds, Finds, TypeInv, Program
  <2>2. Quiet(o)
    BY <1>6, <2>1, OthersWait
  <2>3. QED
    BY <1>q, <2>2
<1>7. ASSUME NEW o \in Programs, Canaries(o) PROVE LockInv'
  <2>1. Quiet(o)
    BY <1>7, OthersWait DEF Canaries, Becomes, GivesUp, TypeInv, Program
  <2>2. QED
    BY <1>q, <2>1
<1>8. ASSUME NEW o \in Programs, Backup(o) PROVE LockInv'
  <2>1. Quiet(o)
    BY <1>8, OthersWait DEF Backup, Becomes, TypeInv, Program
  <2>2. QED
    BY <1>q, <2>1
<1>9. ASSUME NEW o \in Programs, Replace(o) PROVE LockInv'
  <2>1. Quiet(o)
    BY <1>9, OthersWait DEF Replace, TypeInv, Program
  <2>2. QED
    BY <1>q, <2>1
<1>10. ASSUME NEW o \in Programs, RefreshFails(o) PROVE LockInv'
  <2>1. program'[o].phase = "report" /\ ~ Writing(o) /\ UNCHANGED <<state, stateLock, chosen, fellBack>>
    BY <1>10 DEF RefreshFails, GivesUp, TypeInv, Program
  <2>2. Quiet(o)
    BY <1>10, <2>1, OthersWait
  <2>3. QED
    BY <1>q, <2>2
<1>11. ASSUME NEW o \in Programs, NEW p \in Profiles, Probe(o, p) PROVE LockInv'
  <2>1. Quiet(o)
    BY <1>11, OthersWait DEF Probe, Resting, TypeInv, Program
  <2>2. QED
    BY <1>q, <2>1
<1>12. ASSUME NEW o \in Programs, NEW p \in Profiles, Switch(o, p) PROVE LockInv'
  <2>1. Quiet(o)
    BY <1>12, OthersWait DEF Switch, Resting, TypeInv, Program
  <2>2. QED
    BY <1>q, <2>1
<1>13. ASSUME NEW o \in Programs, NEW p \in Profiles, Export(o, p) PROVE LockInv'
  <2>1. program'[o].phase \in {"canaries", "report"}
    <3>1. CASE \E n \in (1..MaxJars) \ Exported : program' = [program EXCEPT ![o] =
                  [Resting EXCEPT !.profile = p, !.jar = n, !.phase = "canaries"]]
      BY <3>1 DEF Resting, TypeInv
    <3>2. CASE program' = [program EXCEPT ![o] =
                  [Resting EXCEPT !.profile = p, !.phase = "report"]]
      BY <3>2 DEF Resting, TypeInv
    <3>3. QED
      BY <1>13, <3>1, <3>2, ExportDoes
  <2>2. Quiet(o)
    BY <1>13, <2>1, OthersWait DEF Export
  <2>3. QED
    BY <1>q, <2>2
<1>14. ASSUME NEW m \in Jars, Revoked(m) PROVE LockInv'
  BY <1>14 DEF Revoked
<1>15. ASSUME NEW p \in Profiles, ProbesGrowOld(p) PROVE LockInv'
  BY <1>15 DEF ProbesGrowOld, TypeInv, StateFile
<1>16. ASSUME NEW p \in Profiles, CoolsDown(p) PROVE LockInv'
  BY <1>16 DEF CoolsDown, TypeInv, StateFile
<1>17. QED
  BY <1>0, <1>1, <1>2, <1>3, <1>4, <1>5, <1>6, <1>7, <1>8, <1>9, <1>10, <1>11, <1>12, <1>13,
     <1>14, <1>15, <1>16 DEF CookieNext

-----------------------------------------------------------------------------
\* Nothing is recorded at first.
LEMMA EvidenceInit == ASSUME CookieInit PROVE EvidenceInv
  BY DEF CookieInit, EvidenceInv, EvidenceOf, Writing, Refreshing, Replacing, Is, Resting,
         DefaultState, Profiles

\* A success goes from a probe to the file with its evidence, which only grows old when no
\* write is under way.
LEMMA EvidenceStep ==
    ASSUME TypeInv, TypeInv', EvidenceInv, [CookieNext]_cookieVars
    PROVE  EvidenceInv'
<1> DEFINE InFile == \A p \in Profiles : state.record[p] = "recent" => p \in proven
<1>q. ASSUME NEW o \in Programs, proven \subseteq proven', InFile', EvidenceOf(o)',
             \A x \in Programs \ {o} : program'[x] = program[x]
      PROVE  EvidenceInv'
  <2>1. \A x \in Programs \ {o} : EvidenceOf(x)'
    BY <1>q DEF EvidenceInv, EvidenceOf, Writing, Refreshing, Replacing, Is
  <2>2. QED
    BY <1>q, <2>1 DEF EvidenceInv
<1>s. state' = state /\ proven \subseteq proven' => InFile'
  BY DEF EvidenceInv
<1>0. CASE UNCHANGED cookieVars
  BY <1>0 DEF cookieVars, EvidenceInv, EvidenceOf, Writing, Refreshing, Replacing, Is
<1>1. ASSUME NEW o \in Programs, Lock(o) PROVE EvidenceInv'
  <2>1. PICK read \in {state, DefaultState} :
            program' = [program EXCEPT ![o].loaded = read,
                          ![o].phase = IF Is(o, "report") THEN "record" ELSE "activate"]
    BY <1>1 DEF Lock
  <2>2. \A p \in Profiles : read.record[p] = "recent" => p \in proven
    BY <2>1 DEF EvidenceInv, DefaultState
  <2>3. /\ program'[o] = [program[o] EXCEPT !.loaded = read,
                          !.phase = IF Is(o, "report") THEN "record" ELSE "activate"]
        /\ proven' = proven /\ state' = state
    BY <1>1, <2>1 DEF Lock, TypeInv
  <2>4. /\ program'[o].loaded = read /\ program'[o].profile = program[o].profile
        /\ program'[o].ok = program[o].ok
        /\ program'[o].phase = IF Is(o, "report") THEN "record" ELSE "activate"
    BY <2>3 DEF TypeInv, Program
  <2>5. EvidenceOf(o)'
    BY <2>2, <2>3, <2>4 DEF EvidenceInv, EvidenceOf, Writing, Refreshing, Replacing, Is
  <2>6. QED
    BY <1>1, <1>q, <1>s, <2>3, <2>5, OthersWait
<1>2. ASSUME NEW o \in Programs, Record(o) PROVE EvidenceInv'
  <2>1. program'[o] = Resting /\ proven' = proven
    BY <1>2 DEF Record, Ends, TypeInv
  <2>2. EvidenceOf(o)'
    BY <2>1 DEF EvidenceOf, Writing, Refreshing, Replacing, Is, Resting
  <2>3. EvidenceOf(o) /\ Is(o, "record")
    BY <1>2 DEF EvidenceInv, Record
  <2>4. ASSUME NEW p \in Profiles, state'.record[p] = "recent" PROVE p \in proven
    <3>1. CASE p = program[o].profile
      <4>1. state'.record[p] = Recorded(program[o].ok)
        BY <1>2, <3>1 DEF Record, TypeInv, Program, StateFile
      <4>2. QED
        BY <2>3, <2>4, <3>1, <4>1 DEF EvidenceOf, Recorded
    <3>2. CASE p # program[o].profile
      <4>1. state'.record[p] = program[o].loaded.record[p]
        BY <1>2, <3>2 DEF Record, TypeInv, Program, StateFile
      <4>2. QED
        BY <2>3, <2>4, <4>1 DEF EvidenceOf, Writing
    <3>3. QED
      BY <3>1, <3>2
  <2>5. QED
    BY <1>2, <1>q, <2>1, <2>2, <2>4, OthersWait
<1>3. ASSUME NEW o \in Programs, RecordFails(o) PROVE EvidenceInv'
  <2>1. \/ program'[o] = Resting
        \/ program'[o].phase = "report" /\ program'[o].ok = FALSE
    BY <1>3 DEF RecordFails, Ends, Finds, TypeInv, Program
  <2>2. EvidenceOf(o)'
    BY <2>1 DEF EvidenceOf, Writing, Refreshing, Replacing, Is, Resting
  <2>3. proven' = proven /\ state' = state
    BY <1>3 DEF RecordFails
  <2>4. QED
    BY <1>3, <1>q, <1>s, <2>2, <2>3, OthersWait
<1>4. ASSUME NEW o \in Programs, Activate(o) PROVE EvidenceInv'
  <2>1. program'[o] = Resting /\ proven' = proven
    BY <1>4 DEF Activate, Ends, TypeInv
  <2>2. EvidenceOf(o)'
    BY <2>1 DEF EvidenceOf, Writing, Refreshing, Replacing, Is, Resting
  <2>3. EvidenceOf(o) /\ Writing(o)
    BY <1>4 DEF EvidenceInv, Activate, Writing
  <2>4. state' = state \/ state'.record = program[o].loaded.record
    BY <1>4 DEF Activate, TypeInv, Program, StateFile
  <2>5. InFile'
    BY <2>1, <2>3, <2>4 DEF EvidenceInv, EvidenceOf
  <2>6. QED
    BY <1>4, <1>q, <2>1, <2>2, <2>5, OthersWait
<1>5. ASSUME NEW o \in Programs, Killed(o) PROVE EvidenceInv'
  <2>1. program'[o] = Resting /\ proven' = proven /\ state' = state
    BY <1>5 DEF Killed, Ends, TypeInv
  <2>2. EvidenceOf(o)'
    BY <2>1 DEF EvidenceOf, Writing, Refreshing, Replacing, Is, Resting
  <2>3. QED
    BY <1>5, <1>q, <1>s, <2>1, <2>2, OthersWait
<1>6. ASSUME NEW o \in Programs, ProbeEnds(o) PROVE EvidenceInv'
  <2> DEFINE p == program[o].profile
  <2>1. /\ program'[o].phase = "report" /\ program'[o].profile = p
        /\ program'[o].ok = MediaProbe(jars[p])
    BY <1>6 DEF ProbeEnds, Finds, TypeInv, Program
  <2>2. proven' = IF MediaProbe(jars[p]) THEN proven \cup {p} ELSE proven
    BY <1>6 DEF ProbeEnds
  <2>3. EvidenceOf(o)'
    BY <2>1, <2>2 DEF EvidenceOf, Writing, Refreshing, Replacing, Is
  <2>4. proven \subseteq proven' /\ state' = state
    BY <1>6, <2>2 DEF ProbeEnds
  <2>5. QED
    BY <1>6, <1>q, <1>s, <2>3, <2>4, OthersWait
<1>7. ASSUME NEW o \in Programs, Canaries(o) PROVE EvidenceInv'
  <2> DEFINE n == program[o].jar
             p == program[o].profile
  <2>1. proven' = IF MediaProbe(n) THEN proven \cup {p} ELSE proven
    BY <1>7 DEF Canaries
  <2>2. ASSUME MediaProbe(n) PROVE EvidenceOf(o)'
    <3>1. /\ program'[o].phase = "backup" /\ program'[o].profile = p
          /\ program'[o].ok = program[o].ok
      BY <1>7, <2>2 DEF Canaries, CanariesPass, Becomes, TypeInv, Program
    <3>2. ~ program[o].ok
      BY <1>7 DEF Canaries, EvidenceInv, EvidenceOf, Refreshing
    <3>3. QED
      BY <2>1, <2>2, <3>1, <3>2 DEF EvidenceOf, Writing, Refreshing, Replacing, Is
  <2>3. ASSUME ~ MediaProbe(n) PROVE EvidenceOf(o)'
    <3>1. program'[o].phase = "report" /\ program'[o].ok = program[o].ok
      BY <1>7, <2>3 DEF Canaries, CanariesPass, GivesUp, TypeInv, Program
    <3>2. ~ program[o].ok
      BY <1>7 DEF Canaries, EvidenceInv, EvidenceOf, Refreshing
    <3>3. QED
      BY <3>1, <3>2 DEF EvidenceOf, Writing, Refreshing, Replacing, Is
  <2>4. EvidenceOf(o)'
    BY <2>2, <2>3
  <2>5. proven \subseteq proven' /\ state' = state
    BY <1>7, <2>1 DEF Canaries
  <2>6. QED
    BY <1>7, <1>q, <1>s, <2>4, <2>5, OthersWait
<1>8. ASSUME NEW o \in Programs, Backup(o) PROVE EvidenceInv'
  <2>1. EvidenceOf(o) /\ Is(o, "backup")
    BY <1>8 DEF Backup, EvidenceInv
  <2>2. /\ program'[o].phase = "replace" /\ program'[o].ok = program[o].ok
        /\ program'[o].profile = program[o].profile
    BY <1>8 DEF Backup, Becomes, TypeInv, Program
  <2>3. proven' = proven /\ state' = state
    BY <1>8 DEF Backup
  <2>4. EvidenceOf(o)'
    BY <2>1, <2>2, <2>3 DEF EvidenceOf, Writing, Refreshing, Replacing, Is
  <2>5. QED
    BY <1>8, <1>q, <1>s, <2>3, <2>4, OthersWait
<1>9. ASSUME NEW o \in Programs, Replace(o) PROVE EvidenceInv'
  <2>1. EvidenceOf(o) /\ Is(o, "replace")
    BY <1>9 DEF Replace, EvidenceInv
  <2>2. program'[o].phase = "report" /\ program'[o].profile = program[o].profile
    BY <1>9 DEF Replace, TypeInv, Program
  <2>3. proven' = proven /\ state' = state
    BY <1>9 DEF Replace
  <2>4. EvidenceOf(o)'
    BY <2>1, <2>2, <2>3 DEF EvidenceOf, Writing, Refreshing, Replacing, Is
  <2>5. QED
    BY <1>9, <1>q, <1>s, <2>3, <2>4, OthersWait
<1>10. ASSUME NEW o \in Programs, RefreshFails(o) PROVE EvidenceInv'
  <2>1. EvidenceOf(o) /\ Replacing(o)
    BY <1>10 DEF RefreshFails, EvidenceInv, Replacing
  <2>2. program'[o].phase = "report" /\ program'[o].ok = program[o].ok
    BY <1>10 DEF RefreshFails, GivesUp, TypeInv, Program
  <2>3. proven' = proven /\ state' = state
    BY <1>10 DEF RefreshFails
  <2>4. EvidenceOf(o)'
    BY <2>1, <2>2, <2>3 DEF EvidenceOf, Writing, Refreshing, Replacing, Is
  <2>5. QED
    BY <1>10, <1>q, <1>s, <2>3, <2>4, OthersWait
<1>11. ASSUME NEW o \in Programs, NEW p \in Profiles, Probe(o, p) PROVE EvidenceInv'
  <2>1. program'[o].phase \in {"probe", "report"} /\ program'[o].ok = FALSE
    BY <1>11 DEF Probe, Resting, TypeInv
  <2>2. proven' = proven /\ state' = state
    BY <1>11 DEF Probe
  <2>3. EvidenceOf(o)'
    BY <2>1 DEF EvidenceOf, Writing, Refreshing, Replacing, Is
  <2>4. QED
    BY <1>11, <1>q, <1>s, <2>2, <2>3, OthersWait
<1>12. ASSUME NEW o \in Programs, NEW p \in Profiles, Switch(o, p) PROVE EvidenceInv'
  <2>1. program'[o].phase \in {"switch", "report"} /\ program'[o].ok = FALSE
    BY <1>12 DEF Switch, Resting, TypeInv
  <2>2. proven' = proven /\ state' = state
    BY <1>12 DEF Switch
  <2>3. EvidenceOf(o)'
    BY <2>1 DEF EvidenceOf, Writing, Refreshing, Replacing, Is
  <2>4. QED
    BY <1>12, <1>q, <1>s, <2>2, <2>3, OthersWait
<1>13. ASSUME NEW o \in Programs, NEW p \in Profiles, Export(o, p) PROVE EvidenceInv'
  <2>1. program'[o].phase \in {"canaries", "report"} /\ program'[o].ok = FALSE
    <3>1. CASE \E n \in (1..MaxJars) \ Exported : program' = [program EXCEPT ![o] =
                  [Resting EXCEPT !.profile = p, !.jar = n, !.phase = "canaries"]]
      BY <3>1 DEF Resting, TypeInv
    <3>2. CASE program' = [program EXCEPT ![o] =
                  [Resting EXCEPT !.profile = p, !.phase = "report"]]
      BY <3>2 DEF Resting, TypeInv
    <3>3. QED
      BY <1>13, <3>1, <3>2, ExportDoes
  <2>2. proven' = proven /\ state' = state
    BY <1>13 DEF Export
  <2>3. EvidenceOf(o)'
    BY <2>1 DEF EvidenceOf, Writing, Refreshing, Replacing, Is
  <2>4. QED
    BY <1>13, <1>q, <1>s, <2>2, <2>3, OthersWait
<1>14. ASSUME NEW m \in Jars, Revoked(m) PROVE EvidenceInv'
  BY <1>14 DEF Revoked, EvidenceInv, EvidenceOf, Writing, Refreshing, Replacing, Is
<1>15. ASSUME NEW p \in Profiles, ProbesGrowOld(p) PROVE EvidenceInv'
  <2>1. \A o \in Programs : EvidenceOf(o)'
    BY <1>15 DEF ProbesGrowOld, NoWriteUnderWay, EvidenceInv, EvidenceOf,
                 Writing, Refreshing, Replacing, Is
  <2>2. ASSUME NEW x \in Profiles, state'.record[x] = "recent" PROVE x \in proven'
    <3>1. x # p /\ state'.record[x] = state.record[x]
      BY <1>15, <2>2 DEF ProbesGrowOld, TypeInv, StateFile
    <3>2. QED
      BY <1>15, <2>2, <3>1 DEF ProbesGrowOld, EvidenceInv
  <2>3. QED
    BY <2>1, <2>2 DEF EvidenceInv
<1>16. ASSUME NEW p \in Profiles, CoolsDown(p) PROVE EvidenceInv'
  <2>1. \A o \in Programs : EvidenceOf(o)'
    BY <1>16 DEF CoolsDown, EvidenceInv, EvidenceOf, Writing, Refreshing, Replacing, Is
  <2>2. \A x \in Profiles : state'.record[x] = "recent" => state.record[x] = "recent"
    BY <1>16 DEF CoolsDown, TypeInv, StateFile
  <2>3. proven' = proven
    BY <1>16 DEF CoolsDown
  <2>4. QED
    BY <2>1, <2>2, <2>3 DEF EvidenceInv
<1>17. QED
  BY <1>0, <1>1, <1>2, <1>3, <1>4, <1>5, <1>6, <1>7, <1>8, <1>9, <1>10, <1>11, <1>12, <1>13,
     <1>14, <1>15, <1>16 DEF CookieNext


\* The switch reads its evidence under the lock under which it writes its choice.
LEMMA SwitchStep ==
    ASSUME TypeInv, EvidenceInv, [CookieNext]_cookieVars
    PROVE  [chosen' # chosen => chosen' \in proven]_cookieVars
<1>1. ASSUME NEW o \in Programs, Activate(o), chosen' # chosen PROVE chosen' \in proven
  <2>1. /\ chosen' = program[o].profile
        /\ program[o].loaded.record[program[o].profile] = "recent"
    BY <1>1 DEF Activate, Evidence
  <2>2. Writing(o) /\ EvidenceOf(o) /\ program[o].profile \in Profiles
    BY <1>1 DEF Activate, Writing, EvidenceInv, TypeInv, Program
  <2>3. QED
    BY <2>1, <2>2 DEF EvidenceOf
<1>2. chosen' # chosen => \E o \in Programs : Activate(o)
  BY DEF CookieNext, cookieVars, Lock, Record, RecordFails, Killed, ProbeEnds, Canaries, Backup,
         Replace, RefreshFails, Probe, Switch, Export, Revoked, ProbesGrowOld, CoolsDown
<1>3. QED
  BY <1>1, <1>2

-----------------------------------------------------------------------------
\* There are no candidates at first.
LEMMA CandidatesInit == ASSUME CookieInit PROVE CandidatesInv
  BY CookieAssumption DEF CookieInit, CandidatesInv, Refreshing, Replacing, Is, Resting, Exported, Jars, NoJar,
         Profiles

\* cookie_jar_lock keeps candidates apart, and a removed candidate is no production jar.
LEMMA CandidatesStep ==
    ASSUME TypeInv, TypeInv', CandidatesInv, [CookieNext]_cookieVars
    PROVE  CandidatesInv'
<1>0. CASE UNCHANGED cookieVars
  BY <1>0 DEF cookieVars, CandidatesInv, Refreshing, Replacing, Is, Exported
<1>q. ASSUME NEW o \in Programs, ~ Refreshing(o)',
             \A x \in Programs \ {o} : program'[x] = program[x],
             jars' = jars, quality' = quality,
             jarLock' = jarLock \/ jarLock' = [p \in Profiles |-> jarLock[p] \ {o}]
      PROVE  CandidatesInv'
  <2>1. \A x \in Programs : Refreshing(x)' => x # o /\ Refreshing(x) /\ program'[x] = program[x]
    BY <1>q DEF Refreshing, Replacing, Is
  <2>2. Exported' = Exported
    BY <1>q DEF Exported
  <2>3. \A x \in Programs : Refreshing(x)' => jarLock'[program[x].profile] = {x}
    BY <1>q, <2>1 DEF CandidatesInv, TypeInv, Program
  <2>4. \A p \in Profiles : jarLock'[p] = {} \/ \E x \in Programs : jarLock'[p] = {x}
    BY <1>q DEF CandidatesInv
  <2>5. \A x \in Programs : Refreshing(x)' =>
          /\ program'[x].jar \in Exported'
          /\ \A p \in Profiles : jars'[p] # program'[x].jar
          /\ jarLock'[program'[x].profile] = {x}
    BY <1>q, <2>1, <2>2, <2>3 DEF CandidatesInv
  <2>6. \A x, y \in Programs : Refreshing(x)' /\ Refreshing(y)' /\ x # y =>
          program'[x].jar # program'[y].jar
    BY <2>1 DEF CandidatesInv
  <2>7. \A p \in Profiles : jars'[p] = NoJar \/ jars'[p] \in Exported'
    BY <1>q, <2>2 DEF CandidatesInv
  <2>8. QED
    BY <2>4, <2>5, <2>6, <2>7 DEF CandidatesInv
<1>c. ASSUME NEW o \in Programs, Refreshing(o),
             program'[o].jar = program[o].jar, program'[o].profile = program[o].profile,
             \A x \in Programs \ {o} : program'[x] = program[x],
             jars' = jars, quality' = quality, jarLock' = jarLock
      PROVE  CandidatesInv'
  <2>1. \A x \in Programs : /\ Refreshing(x)' => Refreshing(x)
                            /\ program'[x].jar = program[x].jar
                            /\ program'[x].profile = program[x].profile
    BY <1>c DEF Refreshing, Replacing, Is
  <2>2. Exported' = Exported
    BY <1>c DEF Exported
  <2>3. QED
    BY <1>c, <2>1, <2>2 DEF CandidatesInv
<1>g. ASSUME NEW o \in Programs, Refreshing(o), GivesUp(o),
             \A x \in Programs \ {o} : program'[x] = program[x],
             jars' = jars, jarLock' = jarLock
      PROVE  CandidatesInv'
  <2>1. \A x \in Programs : Refreshing(x)' => x # o /\ Refreshing(x) /\ program'[x] = program[x]
    BY <1>g DEF Refreshing, Replacing, Is, GivesUp, TypeInv, Program
  <2>2. Exported \ {program[o].jar} \subseteq Exported'
    BY <1>g DEF Exported, GivesUp, TypeInv, Program
  <2>3. \A x \in Programs : Refreshing(x)' => program[x].jar \in Exported'
    BY <1>g, <2>1, <2>2 DEF CandidatesInv
  <2>4. \A p \in Profiles : jars[p] = NoJar \/ jars[p] \in Exported'
    BY <1>g, <2>2 DEF CandidatesInv
  <2>5. QED
    BY <1>g, <2>1, <2>3, <2>4 DEF CandidatesInv
<1>1. ASSUME NEW o \in Programs, Lock(o) PROVE CandidatesInv'
  <2>1. ~ Refreshing(o)'
    BY <1>1 DEF Lock, Refreshing, Replacing, Is, TypeInv, Program
  <2>2. QED
    BY <1>1, <1>q, <2>1, OthersWait DEF Lock
<1>2. ASSUME NEW o \in Programs, Record(o) PROVE CandidatesInv'
  <2>1. ~ Refreshing(o)'
    BY <1>2 DEF Record, Ends, Resting, Refreshing, Replacing, Is, TypeInv
  <2>2. QED
    BY <1>2, <1>q, <2>1, OthersWait DEF Record, Ends
<1>3. ASSUME NEW o \in Programs, RecordFails(o) PROVE CandidatesInv'
  <2>1. ~ Refreshing(o)'
    BY <1>3 DEF RecordFails, Ends, Finds, Resting, Refreshing, Replacing, Is, TypeInv, Program
  <2>2. QED
    BY <1>3, <1>q, <2>1, OthersWait DEF RecordFails, Ends
<1>4. ASSUME NEW o \in Programs, Activate(o) PROVE CandidatesInv'
  <2>1. ~ Refreshing(o)'
    BY <1>4 DEF Activate, Ends, Resting, Refreshing, Replacing, Is, TypeInv
  <2>2. QED
    BY <1>4, <1>q, <2>1, OthersWait DEF Activate, Ends
<1>5. ASSUME NEW o \in Programs, Killed(o) PROVE CandidatesInv'
  <2>1. ~ Refreshing(o)'
    BY <1>5 DEF Killed, Ends, Resting, Refreshing, Replacing, Is, TypeInv
  <2>2. QED
    BY <1>5, <1>q, <2>1, OthersWait DEF Killed, Ends
<1>6. ASSUME NEW o \in Programs, ProbeEnds(o) PROVE CandidatesInv'
  <2>1. ~ Refreshing(o)'
    BY <1>6 DEF ProbeEnds, Finds, Refreshing, Replacing, Is, TypeInv, Program
  <2>2. QED
    BY <1>6, <1>q, <2>1, OthersWait DEF ProbeEnds
<1>7. ASSUME NEW o \in Programs, Canaries(o) PROVE CandidatesInv'
  <2>1. Refreshing(o) /\ jars' = jars /\ jarLock' = jarLock
    BY <1>7 DEF Canaries, Refreshing
  <2>2. CASE Becomes(o, "backup") /\ UNCHANGED quality
    <3>1. program'[o].jar = program[o].jar /\ program'[o].profile = program[o].profile
      BY <2>2 DEF Becomes, TypeInv, Program
    <3>2. QED
      BY <1>7, <1>c, <2>1, <2>2, <3>1, OthersWait
  <2>3. CASE GivesUp(o)
    BY <1>7, <1>g, <2>1, <2>3, OthersWait
  <2>4. QED
    BY <1>7, <2>2, <2>3 DEF Canaries
<1>8. ASSUME NEW o \in Programs, Backup(o) PROVE CandidatesInv'
  <2>1. Refreshing(o) /\ jars' = jars /\ jarLock' = jarLock /\ quality' = quality
    BY <1>8 DEF Backup, Refreshing, Replacing
  <2>2. program'[o].jar = program[o].jar /\ program'[o].profile = program[o].profile
    BY <1>8 DEF Backup, Becomes, TypeInv, Program
  <2>3. QED
    BY <1>8, <1>c, <2>1, <2>2, OthersWait
<1>9. ASSUME NEW o \in Programs, Replace(o) PROVE CandidatesInv'
  <2>1. ~ Refreshing(o)'
    BY <1>9 DEF Replace, Refreshing, Replacing, Is, TypeInv, Program
  <2>2. \A x \in Programs : Refreshing(x)' => x # o /\ Refreshing(x) /\ program'[x] = program[x]
    BY <1>9, <2>1, OthersWait DEF Refreshing, Replacing, Is
  <2>3. Exported' = Exported /\ jarLock' = jarLock
    BY <1>9 DEF Replace, Exported
  <2>4. Refreshing(o)
    BY <1>9 DEF Replace, Refreshing, Replacing
  <2>5. \A p \in Profiles : jars'[p] = jars[p] \/ jars'[p] = program[o].jar
    BY <1>9 DEF Replace, TypeInv
  <2>6. QED
    BY <2>2, <2>3, <2>4, <2>5 DEF CandidatesInv
<1>10. ASSUME NEW o \in Programs, RefreshFails(o) PROVE CandidatesInv'
  <2>1. Refreshing(o) /\ jars' = jars /\ jarLock' = jarLock /\ GivesUp(o)
    BY <1>10 DEF RefreshFails, Refreshing, Replacing
  <2>2. QED
    BY <1>10, <1>g, <2>1, OthersWait
<1>11. ASSUME NEW o \in Programs, NEW p \in Profiles, Probe(o, p) PROVE CandidatesInv'
  <2>1. ~ Refreshing(o)'
    BY <1>11 DEF Probe, Resting, Refreshing, Replacing, Is, TypeInv
  <2>2. QED
    BY <1>11, <1>q, <2>1, OthersWait DEF Probe
<1>12. ASSUME NEW o \in Programs, NEW p \in Profiles, Switch(o, p) PROVE CandidatesInv'
  <2>1. ~ Refreshing(o)'
    BY <1>12 DEF Switch, Resting, Refreshing, Replacing, Is, TypeInv
  <2>2. QED
    BY <1>12, <1>q, <2>1, OthersWait DEF Switch
<1>13. ASSUME NEW o \in Programs, NEW p \in Profiles, Export(o, p) PROVE CandidatesInv'
  <2>1. /\ jars' = jars /\ jarLock[p] = {} /\ jarLock' = [jarLock EXCEPT ![p] = {o}]
        /\ \A x \in Programs \ {o} : program'[x] = program[x]
    BY <1>13, OthersWait DEF Export
  <2>2. \A x \in Programs : Refreshing(x) => program[x].profile # p
    BY <2>1 DEF CandidatesInv
  <2>3. \A x \in Programs : Refreshing(x) => jarLock'[program[x].profile] = {x}
    BY <2>1, <2>2 DEF CandidatesInv, TypeInv, Program
  <2>4. \A x \in Programs : x # o /\ Refreshing(x)' => Refreshing(x) /\ program'[x] = program[x]
    BY <2>1 DEF Refreshing, Replacing, Is
  <2>5. \A r \in Profiles : jarLock'[r] = {} \/ \E x \in Programs : jarLock'[r] = {x}
    BY <2>1 DEF CandidatesInv, TypeInv
  <2>6. ASSUME NEW n \in (1..MaxJars) \ Exported, NEW q \in {"works", "refused"},
               quality' = [quality EXCEPT ![n] = q],
               program' = [program EXCEPT ![o] =
                       [Resting EXCEPT !.profile = p, !.jar = n, !.phase = "canaries"]]
        PROVE  CandidatesInv'
    <3>1. Exported' = Exported \cup {n} /\ n # NoJar
      BY <2>6, CookieAssumption DEF Exported, TypeInv, Jars, NoJar
    <3>2. program'[o].jar = n /\ program'[o].profile = p
      BY <2>6 DEF Resting, TypeInv
    <3>3. jarLock'[p] = {o}
      BY <2>1 DEF TypeInv
    <3>4. \A r \in Profiles : jars[r] # n
      BY <2>6, <3>1 DEF CandidatesInv
    <3>5. \A x \in Programs : x # o /\ Refreshing(x)' => program'[x].jar # n
      BY <2>4, <2>6 DEF CandidatesInv
    <3>6. \A x \in Programs : Refreshing(x)' =>
            /\ program'[x].jar \in Exported'
            /\ \A r \in Profiles : jars'[r] # program'[x].jar
            /\ jarLock'[program'[x].profile] = {x}
      BY <2>1, <2>3, <2>4, <3>1, <3>2, <3>3, <3>4 DEF CandidatesInv
    <3>7. \A x, y \in Programs : Refreshing(x)' /\ Refreshing(y)' /\ x # y =>
            program'[x].jar # program'[y].jar
      BY <2>4, <3>2, <3>5 DEF CandidatesInv
    <3>8. \A r \in Profiles : jars'[r] = NoJar \/ jars'[r] \in Exported'
      BY <2>1, <3>1 DEF CandidatesInv
    <3>9. QED
      BY <2>5, <3>6, <3>7, <3>8 DEF CandidatesInv
  <2>7. CASE quality' = quality /\ program' = [program EXCEPT ![o] =
                    [Resting EXCEPT !.profile = p, !.phase = "report"]]
    <3>1. ~ Refreshing(o)'
      BY <2>7 DEF Resting, Refreshing, Replacing, Is, TypeInv
    <3>2. Exported' = Exported
      BY <2>7 DEF Exported
    <3>3. QED
      BY <2>1, <2>3, <2>4, <2>5, <3>1, <3>2 DEF CandidatesInv
  <2>8. QED
    BY <1>13, <2>6, <2>7, ExportDoes
<1>14. ASSUME NEW m \in Jars, Revoked(m) PROVE CandidatesInv'
  <2>1. Exported' = Exported
    BY <1>14 DEF Revoked, Exported, TypeInv
  <2>2. QED
    BY <1>14, <2>1 DEF Revoked, CandidatesInv, Refreshing, Replacing, Is
<1>15. ASSUME NEW p \in Profiles, ProbesGrowOld(p) PROVE CandidatesInv'
  BY <1>15 DEF ProbesGrowOld, CandidatesInv, Refreshing, Replacing, Is, Exported
<1>16. ASSUME NEW p \in Profiles, CoolsDown(p) PROVE CandidatesInv'
  BY <1>16 DEF CoolsDown, CandidatesInv, Refreshing, Replacing, Is, Exported
<1>17. QED
  BY <1>0, <1>1, <1>2, <1>3, <1>4, <1>5, <1>6, <1>7, <1>8, <1>9, <1>10, <1>11, <1>12, <1>13,
     <1>14, <1>15, <1>16 DEF CookieNext

-----------------------------------------------------------------------------
\* The first jar counts as accepted, and none was replaced.
LEMMA JarsInit == ASSUME CookieInit PROVE JarsInv
  BY CookieAssumption DEF CookieInit, JarsInv, JarsAreSafe, ProductionJarIsProbed, RollbackIsKept, Replacing, Is,
         Resting, NoJar, Profiles

\* Of a refresh, the canaries accept the candidate, the backup saves the present jar and only
\* then the replacement installs it; a refresh that fails or is killed changes no jar.
LEMMA JarsStep ==
    ASSUME TypeInv, TypeInv', CandidatesInv, JarsInv, [CookieNext]_cookieVars
    PROVE  JarsInv'
<1> USE DEF JarsAreSafe, ProductionJarIsProbed, RollbackIsKept
<1>0. CASE UNCHANGED cookieVars
  BY <1>0 DEF cookieVars, JarsInv, Replacing, Is
<1>q. ASSUME NEW o \in Programs, ~ Replacing(o)',
             \A x \in Programs \ {o} : program'[x] = program[x],
             accepted \subseteq accepted',
             jars' = jars, previous' = previous, replaced' = replaced
      PROVE  JarsInv'
  <2>1. \A x \in Programs : Replacing(x)' => Replacing(x) /\ program'[x] = program[x]
    BY <1>q DEF Replacing, Is
  <2>2. \A x \in Programs : Is(x, "replace")' => Is(x, "replace") /\ program'[x] = program[x]
    BY <1>q DEF Replacing, Is
  <2>3. QED
    BY <1>q, <2>1, <2>2 DEF JarsInv
<1>1. ASSUME NEW o \in Programs, Lock(o) PROVE JarsInv'
  <2>1. ~ Replacing(o)'
    BY <1>1 DEF Lock, Replacing, Is, TypeInv, Program
  <2>2. QED
    BY <1>1, <1>q, <2>1, OthersWait DEF Lock
<1>2. ASSUME NEW o \in Programs, Record(o) PROVE JarsInv'
  <2>1. ~ Replacing(o)'
    BY <1>2 DEF Record, Ends, Resting, Replacing, Is, TypeInv
  <2>2. QED
    BY <1>2, <1>q, <2>1, OthersWait DEF Record
<1>3. ASSUME NEW o \in Programs, RecordFails(o) PROVE JarsInv'
  <2>1. ~ Replacing(o)'
    BY <1>3 DEF RecordFails, Ends, Finds, Resting, Replacing, Is, TypeInv, Program
  <2>2. QED
    BY <1>3, <1>q, <2>1, OthersWait DEF RecordFails
<1>4. ASSUME NEW o \in Programs, Activate(o) PROVE JarsInv'
  <2>1. ~ Replacing(o)'
    BY <1>4 DEF Activate, Ends, Resting, Replacing, Is, TypeInv
  <2>2. QED
    BY <1>4, <1>q, <2>1, OthersWait DEF Activate
<1>5. ASSUME NEW o \in Programs, Killed(o) PROVE JarsInv'
  <2>1. ~ Replacing(o)'
    BY <1>5 DEF Killed, Ends, Resting, Replacing, Is, TypeInv
  <2>2. QED
    BY <1>5, <1>q, <2>1, OthersWait DEF Killed
<1>6. ASSUME NEW o \in Programs, ProbeEnds(o) PROVE JarsInv'
  <2>1. ~ Replacing(o)'
    BY <1>6 DEF ProbeEnds, Finds, Replacing, Is, TypeInv, Program
  <2>2. QED
    BY <1>6, <1>q, <2>1, OthersWait DEF ProbeEnds
<1>7. ASSUME NEW o \in Programs, Canaries(o) PROVE JarsInv'
  <2> DEFINE n == program[o].jar
  <2>1. /\ jars' = jars /\ previous' = previous /\ replaced' = replaced
        /\ accepted' = accepted \cup (IF MediaProbe(n) THEN {n} ELSE {})
        /\ \A x \in Programs \ {o} : program'[x] = program[x]
    BY <1>7, OthersWait DEF Canaries
  <2>2. CASE MediaProbe(n)
    <3>1. program'[o].phase = "backup" /\ program'[o].jar = n
      BY <1>7, <2>2 DEF Canaries, CanariesPass, Becomes, TypeInv, Program
    <3>2. \A x \in Programs : Replacing(x)' => program'[x].jar \in accepted'
      BY <2>1, <2>2, <3>1 DEF JarsInv, Replacing, Is
    <3>3. \A x \in Programs : Is(x, "replace")' => Is(x, "replace") /\ program'[x] = program[x]
      BY <2>1, <3>1 DEF Is
    <3>4. QED
      BY <2>1, <3>2, <3>3 DEF JarsInv
  <2>3. CASE ~ MediaProbe(n)
    <3>1. ~ Replacing(o)'
      BY <1>7, <2>3 DEF Canaries, CanariesPass, GivesUp, Replacing, Is, TypeInv, Program
    <3>2. QED
      BY <1>q, <2>1, <3>1
  <2>4. QED
    BY <2>2, <2>3
<1>8. ASSUME NEW o \in Programs, Backup(o) PROVE JarsInv'
  <2> DEFINE p == program[o].profile
  <2>1. /\ jars' = jars /\ replaced' = replaced /\ accepted' = accepted
        /\ previous' = [previous EXCEPT ![p] = BackedUp(p)]
        /\ \A x \in Programs \ {o} : program'[x] = program[x]
    BY <1>8, OthersWait DEF Backup
  <2>2. /\ program'[o].phase = "replace" /\ program'[o].jar = program[o].jar
        /\ program'[o].profile = p /\ p \in Profiles
    BY <1>8 DEF Backup, Becomes, TypeInv, Program
  <2>3. previous'[p] = BackedUp(p) /\ \A r \in Profiles \ {p} : previous'[r] = previous[r]
    BY <2>1, <2>2 DEF TypeInv
  <2>4. \A x \in Programs : x # o /\ Refreshing(x) => program[x].profile # p
    BY <1>8 DEF Backup, CandidatesInv, Refreshing, Replacing
  <2>5. \A x \in Programs : Replacing(x)' => Replacing(x) /\ program'[x].jar = program[x].jar
    BY <1>8, <2>1, <2>2 DEF Replacing, Is, Backup
  <2>6. ASSUME NEW x \in Programs, Is(x, "replace")', jars'[program'[x].profile] # NoJar
        PROVE  previous'[program'[x].profile] = jars'[program'[x].profile]
    <3>1. CASE x = o
      BY <2>1, <2>2, <2>3, <2>6, <3>1 DEF BackedUp
    <3>2. CASE x # o
      <4>1. program'[x] = program[x] /\ Is(x, "replace") /\ program[x].profile \in Profiles \ {p}
        BY <2>1, <2>4, <2>6, <3>2 DEF Is, Refreshing, Replacing, TypeInv, Program
      <4>2. QED
        BY <2>1, <2>3, <2>6, <4>1 DEF JarsInv
    <3>3. QED
      BY <3>1, <3>2
  <2>7. \A r \in Profiles : replaced'[r] # NoJar => previous'[r] \in {replaced'[r], jars'[r]}
    BY <2>1, <2>3 DEF JarsInv, BackedUp
  <2>8. QED
    BY <2>1, <2>5, <2>6, <2>7 DEF JarsInv
<1>9. ASSUME NEW o \in Programs, Replace(o) PROVE JarsInv'
  <2> DEFINE p == program[o].profile
  <2>1. /\ jars' = [jars EXCEPT ![p] = program[o].jar] /\ previous' = previous
        /\ replaced' = [replaced EXCEPT ![p] = IF jars[p] = NoJar THEN @ ELSE jars[p]]
        /\ accepted' = accepted
        /\ \A x \in Programs \ {o} : program'[x] = program[x]
    BY <1>9, OthersWait DEF Replace
  <2>2. program'[o].phase = "report" /\ p \in Profiles
    BY <1>9 DEF Replace, TypeInv, Program
  <2>3. Is(o, "replace") /\ Refreshing(o) /\ Replacing(o)
    BY <1>9 DEF Replace, Refreshing, Replacing
  <2>4. program[o].jar \in accepted /\ program[o].jar # NoJar
    BY <2>3 DEF JarsInv, CandidatesInv, Exported
  <2>5. /\ jars'[p] = program[o].jar
        /\ replaced'[p] = IF jars[p] = NoJar THEN replaced[p] ELSE jars[p]
        /\ \A r \in Profiles \ {p} : jars'[r] = jars[r] /\ replaced'[r] = replaced[r]
    BY <2>1, <2>2 DEF TypeInv
  <2>6. \A x \in Programs : x # o /\ Refreshing(x) => program[x].profile # p
    BY <2>3 DEF CandidatesInv
  <2>7. \A x \in Programs : Replacing(x)' => x # o /\ Replacing(x) /\ program'[x] = program[x]
    BY <2>1, <2>2 DEF Replacing, Is
  <2>8. ASSUME NEW x \in Programs, Is(x, "replace")', jars'[program'[x].profile] # NoJar
        PROVE  previous'[program'[x].profile] = jars'[program'[x].profile]
    <3>1. x # o /\ program'[x] = program[x] /\ Is(x, "replace")
      BY <2>1, <2>2, <2>8 DEF Is
    <3>2. program[x].profile \in Profiles \ {p}
      BY <2>6, <3>1 DEF Refreshing, Replacing, TypeInv, Program
    <3>3. QED
      BY <2>1, <2>5, <2>8, <3>1, <3>2 DEF JarsInv
  <2>9. ASSUME NEW r \in Profiles
        PROVE  /\ replaced'[r] # NoJar => jars'[r] # NoJar
               /\ jars'[r] = NoJar \/ jars'[r] \in accepted'
               /\ replaced'[r] # NoJar => previous'[r] \in {replaced'[r], jars'[r]}
    <3>1. CASE r = p
      <4>1. jars[p] # NoJar => previous[p] = jars[p]
        BY <2>3 DEF JarsInv
      <4>2. replaced[p] # NoJar => jars[p] # NoJar
        BY <2>2 DEF JarsInv
      <4>3. QED
        BY <2>1, <2>4, <2>5, <3>1, <4>1, <4>2
    <3>2. CASE r # p
      BY <2>1, <2>5, <3>2 DEF JarsInv
    <3>3. QED
      BY <3>1, <3>2
  <2>10. QED
    BY <2>1, <2>7, <2>8, <2>9 DEF JarsInv
<1>10. ASSUME NEW o \in Programs, RefreshFails(o) PROVE JarsInv'
  <2>1. /\ jars' = jars /\ previous' = previous /\ replaced' = replaced
        /\ accepted' = accepted \ {program[o].jar}
        /\ \A x \in Programs \ {o} : program'[x] = program[x]
    BY <1>10, OthersWait DEF RefreshFails
  <2>2. program'[o].phase = "report" /\ Refreshing(o)
    BY <1>10 DEF RefreshFails, GivesUp, Refreshing, Replacing, TypeInv, Program
  <2>3. \A x \in Programs : Replacing(x)' => x # o /\ Replacing(x) /\ program'[x] = program[x]
    BY <2>1, <2>2 DEF Replacing, Is
  <2>4. \A x \in Programs : Is(x, "replace")' => Is(x, "replace") /\ program'[x] = program[x]
    BY <2>1, <2>2 DEF Is
  <2>5. \A x \in Programs : Replacing(x)' => program'[x].jar \in accepted'
    BY <2>1, <2>2, <2>3 DEF JarsInv, CandidatesInv, Refreshing
  <2>6. \A p \in Profiles : jars'[p] = NoJar \/ jars'[p] \in accepted'
    BY <2>1, <2>2 DEF JarsInv, CandidatesInv
  <2>7. QED
    BY <2>1, <2>4, <2>5, <2>6 DEF JarsInv
<1>11. ASSUME NEW o \in Programs, NEW p \in Profiles, Probe(o, p) PROVE JarsInv'
  <2>1. ~ Replacing(o)'
    BY <1>11 DEF Probe, Resting, Replacing, Is, TypeInv
  <2>2. QED
    BY <1>11, <1>q, <2>1, OthersWait DEF Probe
<1>12. ASSUME NEW o \in Programs, NEW p \in Profiles, Switch(o, p) PROVE JarsInv'
  <2>1. ~ Replacing(o)'
    BY <1>12 DEF Switch, Resting, Replacing, Is, TypeInv
  <2>2. QED
    BY <1>12, <1>q, <2>1, OthersWait DEF Switch
<1>13. ASSUME NEW o \in Programs, NEW p \in Profiles, Export(o, p) PROVE JarsInv'
  <2>1. program'[o].phase \in {"canaries", "report"}
    <3>1. CASE \E n \in (1..MaxJars) \ Exported : program' = [program EXCEPT ![o] =
                  [Resting EXCEPT !.profile = p, !.jar = n, !.phase = "canaries"]]
      BY <3>1 DEF Resting, TypeInv
    <3>2. CASE program' = [program EXCEPT ![o] =
                  [Resting EXCEPT !.profile = p, !.phase = "report"]]
      BY <3>2 DEF Resting, TypeInv
    <3>3. QED
      BY <1>13, <3>1, <3>2, ExportDoes
  <2>2. ~ Replacing(o)'
    BY <2>1 DEF Replacing, Is
  <2>3. QED
    BY <1>13, <1>q, <2>2, OthersWait DEF Export
<1>14. ASSUME NEW m \in Jars, Revoked(m) PROVE JarsInv'
  BY <1>14 DEF Revoked, JarsInv, Replacing, Is
<1>15. ASSUME NEW p \in Profiles, ProbesGrowOld(p) PROVE JarsInv'
  BY <1>15 DEF ProbesGrowOld, JarsInv, Replacing, Is
<1>16. ASSUME NEW p \in Profiles, CoolsDown(p) PROVE JarsInv'
  BY <1>16 DEF CoolsDown, JarsInv, Replacing, Is
<1>17. QED
  BY <1>0, <1>1, <1>2, <1>3, <1>4, <1>5, <1>6, <1>7, <1>8, <1>9, <1>10, <1>11, <1>12, <1>13,
     <1>14, <1>15, <1>16 DEF CookieNext

-----------------------------------------------------------------------------
\* The inductive invariant.
THEOREM CookieInvariant == CookieSpec => []IInv
<1>1. CookieInit => IInv
  BY TypeInit, LockInit, EvidenceInit, CandidatesInit, JarsInit DEF IInv
<1>2. IInv /\ [CookieNext]_cookieVars => IInv'
  BY TypeStep, LockStep, EvidenceStep, CandidatesStep, JarsStep DEF IInv
<1>3. QED
  BY <1>1, <1>2, PTL DEF CookieSpec

\* No holder or one holder is at most one.
LEMMA FewHolders ==
    ASSUME NEW S, NEW o, S = {} \/ S = {o}
    PROVE  Cardinality(S) <= 1
<1>1. CASE S = {}
  <2>1. Cardinality(S) = 0
    BY <1>1, FS_EmptySet
  <2>2. QED
    BY <2>1
<1>2. CASE S = {o}
  <2>1. Cardinality(S) = 1
    BY <1>2, FS_Singleton
  <2>2. QED
    BY <2>1
<1>3. QED
  BY <1>1, <1>2

\* The locks of the invariant are held at most once.
LEMMA LocksAreHeldOnce == ASSUME TypeInv, LockInv, CandidatesInv PROVE CookieTypeOK
<1>1. \E o : stateLock = {} \/ stateLock = {o}
  BY DEF TypeInv, LockInv
<1>2. Cardinality(stateLock) <= 1
  BY <1>1, FewHolders
<1>3. ASSUME NEW p \in Profiles PROVE Cardinality(jarLock[p]) <= 1
  <2>1. \E o : jarLock[p] = {} \/ jarLock[p] = {o}
    BY DEF CandidatesInv
  <2>2. QED
    BY <2>1, FewHolders
<1>4. QED
  BY <1>2, <1>3 DEF CookieTypeOK, TypeInv, StateFile, Qualities

\* The files, jars and locks have their types, and profile_state_lock and each cookie_jar_lock
\* have at most one holder.
THEOREM CookieTypeCorrect == CookieSpec => []CookieTypeOK
<1>1. IInv => CookieTypeOK
  BY LocksAreHeldOnce DEF IInv
<1>2. QED
  BY <1>1, CookieInvariant, PTL

\* The active profile is the one that activate_profile chose last: the record of a probe that
\* ran meanwhile (record_profile_probe) writes no older choice back, but only the default, A,
\* after a read of the state file that failed (load_profile_state).
THEOREM ChoiceIsKept == CookieSpec => []ActiveIsChosen
<1>1. IInv => ActiveIsChosen
  BY DEF IInv, LockInv, InForce, ActiveIsChosen
<1>2. QED
  BY <1>1, CookieInvariant, PTL

\* A production jar passed the media probes of its refresh or was there first, and the rollback
\* file has the jar before it, wherever a refresh fails or is killed.
THEOREM JarsStaySafe == CookieSpec => []JarsAreSafe
<1>1. IInv => JarsAreSafe
  BY DEF IInv, JarsInv
<1>2. QED
  BY <1>1, CookieInvariant, PTL

\* activate_profile switches only to a profile whose media probe succeeded within the age.
THEOREM SwitchesRestOnEvidence == CookieSpec => SwitchHasEvidence
<1>1. IInv /\ [CookieNext]_cookieVars => [chosen' # chosen => chosen' \in proven]_cookieVars
  BY SwitchStep DEF IInv
<1>2. QED
  BY <1>1, CookieInvariant, PTL DEF CookieSpec, SwitchHasEvidence

=============================================================================
