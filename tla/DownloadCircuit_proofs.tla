------------------------ MODULE DownloadCircuit_proofs ------------------------
(***************************************************************************)
(* Proofs about DownloadCircuit, for any videos, times and processes: the  *)
(* variables keep their types, and the pause is bounded by the cooldown;   *)
(* and for any videos, times and polls beside one process that downloads:  *)
(* a success does not close the circuit over a cluster of failures.        *)
(***************************************************************************)
EXTENDS DownloadCircuit, FiniteSetTheorems, TLAPS

ProcessRecords ==
    [phase : {"idle", "expire", "count", "open", "recount", "close", "delete"},
     left : 0..Cooldown, counted : SUBSET Videos]

\* A process that goes on, or stops, keeps its record well typed.
LEMMA ProcessMoves ==
    ASSUME TypeOK, NEW p \in Processes, NEW r \in ProcessRecords,
           process' = [process EXCEPT ![p] = r]
    PROVE  process' \in [Processes -> ProcessRecords]
BY DEF TypeOK, ProcessRecords

\* A process that goes on to its next command keeps its type and the time it carries.
LEMMA ProcessDoes ==
    ASSUME TypeOK, NEW p \in Processes,
           NEW phase \in {"idle", "expire", "count", "open", "recount", "close", "delete"},
           Do(p, phase)
    PROVE  /\ process' \in [Processes -> ProcessRecords]
           /\ \A q \in Processes : process'[q].left = process[q].left
<1>1. process \in [Processes -> ProcessRecords]
  BY DEF TypeOK, ProcessRecords
<1>2. QED
  BY <1>1 DEF Do, ProcessRecords

\* A process that is done with its commands keeps its type and carries no time.
LEMMA ProcessDone ==
    ASSUME TypeOK, NEW p \in Processes, Done(p)
    PROVE  /\ process' \in [Processes -> ProcessRecords]
           /\ \A q \in Processes : process'[q].left > 0 => process'[q].left = process[q].left
<1>1. process \in [Processes -> ProcessRecords]
  BY DEF TypeOK, ProcessRecords
<1>2. Idle \in ProcessRecords /\ Idle.left = 0
  BY CircuitAssumption DEF Idle, ProcessRecords
<1>3. QED
  BY <1>1, <1>2 DEF Done, ProcessRecords

-----------------------------------------------------------------------------
(***************************************************************************)
(* The pause.  What is stored was computed before the first command of the *)
(* operation, so the bound holds of what each process carries, too.        *)
(***************************************************************************)
CarriedIsBounded ==
    \A p \in Processes : process[p].left > 0 => process[p].left + quiet <= Cooldown

CircuitInv == TypeOK /\ DeferralIsBounded /\ CarriedIsBounded

\* Nothing is open and nothing refused at the start.
LEMMA InitCircuit == Init => CircuitInv
<1>1. SUFFICES ASSUME Init PROVE CircuitInv
  OBVIOUS
<1>2. TypeOK
  BY <1>1, CircuitAssumption
     DEF Init, TypeOK, Closed, Idle, NoExpiry
<1>3. DeferralIsBounded /\ CarriedIsBounded
  BY <1>1 DEF Init, DeferralIsBounded, CarriedIsBounded, Closed, Idle
<1>4. QED
  BY <1>2, <1>3 DEF CircuitInv

\* Each command keeps the types and both bounds.
LEMMA CommandStep ==
    ASSUME CircuitInv, NEW p \in Processes,
           \/ \E v \in Videos : Fails(p, v) \/ Succeeds(p, v)
           \/ Expire(p) \/ Count(p) \/ Open(p)
           \/ Recount(p) \/ Close(p)
           \/ Read(p) \/ Delete(p)
           \/ Interrupted(p)
    PROVE  CircuitInv'
<1> USE DEF CircuitInv
<1>0. /\ process \in [Processes -> ProcessRecords]
      /\ TypeOK /\ DeferralIsBounded /\ CarriedIsBounded
      /\ quiet \in Nat /\ Cooldown \in Nat /\ Window \in Nat \ {0}
      /\ NoExpiry = Window + 1
  BY CircuitAssumption DEF TypeOK, ProcessRecords, NoExpiry
<1>1. CASE \E v \in Videos : Fails(p, v)
  <2>1. PICK v \in Videos : Fails(p, v)
    BY <1>1
  <2> DEFINE r == [Idle EXCEPT !.phase = "expire", !.left = Cooldown]
  <2>2. r \in ProcessRecords /\ r.left = Cooldown
    <3>1. Idle \in ProcessRecords /\ Cooldown \in 0..Cooldown
      BY CircuitAssumption DEF Idle, ProcessRecords
    <3>2. QED
      BY <3>1 DEF ProcessRecords
  <2>3. process' = [process EXCEPT ![p] = r]
    BY <2>1 DEF Fails
  <2> HIDE DEF r
  <2>4. process' \in [Processes -> ProcessRecords] /\ quiet' = 0
    BY <2>1, <2>2, <2>3, ProcessMoves DEF Fails
  <2>5. TypeOK'
    BY <1>0, <2>1, <2>4 DEF Fails, TypeOK, ProcessRecords
  <2>6. CarriedIsBounded'
    BY <1>0, <2>4 DEF CarriedIsBounded, ProcessRecords
  <2>7. DeferralIsBounded'
    BY <1>0, <2>1, <2>4 DEF Fails, DeferralIsBounded, TypeOK
  <2>8. QED
    BY <2>5, <2>6, <2>7
<1>2. CASE \E v \in Videos : Succeeds(p, v)
  <2>1. PICK v \in Videos : Succeeds(p, v)
    BY <1>2
  <2>2. /\ process' \in [Processes -> ProcessRecords]
        /\ \A q \in Processes : process'[q].left = process[q].left
    BY <1>0, <2>1, ProcessDoes DEF Succeeds
  <2>3. TypeOK'
    BY <1>0, <2>1, <2>2 DEF Succeeds, TypeOK, ProcessRecords
  <2>4. QED
    BY <1>0, <2>1, <2>2, <2>3 DEF Succeeds, CarriedIsBounded, DeferralIsBounded
<1>3. CASE Expire(p)
  <2>1. /\ process' \in [Processes -> ProcessRecords]
        /\ \A q \in Processes : process'[q].left = process[q].left
    BY <1>0, <1>3, ProcessDoes DEF Expire
  <2>2. TypeOK'
    BY <1>0, <1>3, <2>1 DEF Expire, Lifetime, TypeOK, ProcessRecords
  <2>3. QED
    BY <1>0, <1>3, <2>1, <2>2 DEF Expire, CarriedIsBounded, DeferralIsBounded
<1>4. CASE Count(p)
  <2>1. /\ process' \in [Processes -> ProcessRecords]
        /\ \A q \in Processes : process'[q].left > 0 => process'[q].left = process[q].left
    <3>1. CASE Done(p)
      BY <1>0, <3>1, ProcessDone
    <3>2. CASE process' = [process EXCEPT ![p].phase = "open", ![p].counted = failures]
      <4>1. failures \in SUBSET Videos
        BY <1>0 DEF TypeOK
      <4>2. QED
        BY <1>0, <3>2, <4>1 DEF ProcessRecords
    <3>3. QED
      BY <1>4, <3>1, <3>2 DEF Count
  <2>2. TypeOK'
    BY <1>0, <1>4, <2>1 DEF Count, TypeOK, ProcessRecords
  <2>3. QED
    BY <1>0, <1>4, <2>1, <2>2 DEF Count, CarriedIsBounded, DeferralIsBounded
<1>5. CASE Open(p)
  <2>1. /\ process' \in [Processes -> ProcessRecords]
        /\ \A q \in Processes : process'[q].left > 0 => process'[q].left = process[q].left
    BY <1>0, <1>5, ProcessDone DEF Open
  <2>2. process[p] \in ProcessRecords
    BY <1>0
  <2>3. TypeOK'
    BY <1>0, <1>5, <2>1, <2>2 DEF Open, OpenUntil, TypeOK, ProcessRecords
  <2>4. DeferralIsBounded'
    BY <1>0, <1>5 DEF Open, OpenUntil, CarriedIsBounded, DeferralIsBounded
  <2>5. CarriedIsBounded'
    BY <1>0, <1>5, <2>1 DEF Open, CarriedIsBounded
  <2>6. QED
    BY <2>3, <2>4, <2>5
<1>6. CASE Recount(p) \/ Read(p)
  <2>1. /\ process' \in [Processes -> ProcessRecords]
        /\ \A q \in Processes : process'[q].left > 0 => process'[q].left = process[q].left
    BY <1>0, <1>6, ProcessDoes, ProcessDone DEF Recount, Read
  <2>2. UNCHANGED <<failures, window, open, quiet, blamed>>
    BY <1>6 DEF Recount, Read
  <2>3. TypeOK'
    BY <1>0, <2>1, <2>2 DEF TypeOK, ProcessRecords
  <2>4. QED
    BY <1>0, <2>1, <2>2, <2>3 DEF CarriedIsBounded, DeferralIsBounded
<1>7. CASE Close(p) \/ Delete(p) \/ Interrupted(p)
  <2>1. /\ process' \in [Processes -> ProcessRecords]
        /\ \A q \in Processes : process'[q].left > 0 => process'[q].left = process[q].left
    BY <1>0, <1>7, ProcessDone DEF Close, Delete, Interrupted
  <2>2. UNCHANGED <<failures, window, quiet, blamed>> /\ (open' = open \/ open' = Closed)
    BY <1>7 DEF Close, Delete, Interrupted
  <2>3. TypeOK'
    BY <1>0, <2>1, <2>2 DEF TypeOK, ProcessRecords, Closed
  <2>4. QED
    BY <1>0, <2>1, <2>2, <2>3 DEF CarriedIsBounded, DeferralIsBounded, Closed
<1>8. QED
  BY <1>1, <1>2, <1>3, <1>4, <1>5, <1>6, <1>7

\* A tick lowers what is left of every pause and raises the quiet time.
LEMMA TickStep ==
    ASSUME CircuitInv, Tick
    PROVE  CircuitInv'
<1>1. /\ process \in [Processes -> ProcessRecords]
      /\ TypeOK /\ DeferralIsBounded /\ CarriedIsBounded
      /\ Cooldown \in Nat \ {0} /\ Window \in Nat \ {0}
      /\ NoExpiry = Window + 1
  BY CircuitAssumption DEF CircuitInv, TypeOK, ProcessRecords, NoExpiry
<1>2. \A n \in 0..Cooldown : /\ Before(n) \in 0..Cooldown
                             /\ Before(n) > 0 => Before(n) = n - 1 /\ n > 0
  BY <1>1 DEF Before
<1>3. \A q \in Processes :
         /\ process'[q].left = Before(process[q].left)
         /\ process'[q] \in ProcessRecords
  BY <1>1, <1>2 DEF Tick, ProcessRecords
<1>4. process' \in [Processes -> ProcessRecords]
  BY <1>3 DEF Tick
<1>5. quiet' \in 0..(Cooldown + 1) /\ (quiet <= Cooldown => quiet' = quiet + 1)
  BY <1>1 DEF Tick, TypeOK
<1>6. CarriedIsBounded'
  BY <1>1, <1>2, <1>3, <1>5 DEF CarriedIsBounded, ProcessRecords, TypeOK
<1>7. /\ open' \in [ttl : 0..Cooldown, left : 0..Cooldown]
      /\ open'.left > 0 => open'.left = open.left - 1 /\ open.left > 0
  <2>1. open \in [ttl : 0..Cooldown, left : 0..Cooldown]
    BY <1>1 DEF TypeOK
  <2>2. CASE open.ttl <= 1
    BY <1>1, <2>2 DEF Tick, Closed
  <2>3. CASE ~(open.ttl <= 1)
    <3>1. open' = [ttl |-> open.ttl - 1, left |-> Before(open.left)]
      BY <2>1, <2>3 DEF Tick
    <3>2. open.left \in 0..Cooldown /\ open.ttl - 1 \in 0..Cooldown
      BY <1>1, <2>1, <2>3
    <3>3. QED
      BY <1>2, <3>1, <3>2
  <2>4. QED
    BY <2>2, <2>3
<1>8. DeferralIsBounded'
  BY <1>1, <1>5, <1>7 DEF DeferralIsBounded, TypeOK
<1>9. window' \in 0..NoExpiry /\ (window = 0 => window' = 0)
  BY <1>1 DEF Tick, TypeOK, Before
<1>10. TypeOK'
  BY <1>1, <1>4, <1>5, <1>7, <1>9 DEF Tick, TypeOK, ProcessRecords
<1>11. QED
  BY <1>6, <1>8, <1>10 DEF CircuitInv

\* The inductive step of CircuitInv.
LEMMA CircuitStep == CircuitInv /\ [Next]_vars => CircuitInv'
<1>1. SUFFICES ASSUME CircuitInv, [Next]_vars PROVE CircuitInv'
  OBVIOUS
<1>2. CASE Tick
  BY <1>1, <1>2, TickStep
<1>3. CASE UNCHANGED vars
  BY <1>1, <1>3
     DEF vars, CircuitInv, TypeOK, DeferralIsBounded, CarriedIsBounded
<1>4. QED
  BY <1>1, <1>2, <1>3, CommandStep DEF Next

\* CircuitInv holds in every state.
LEMMA CircuitAlways == Spec => []CircuitInv
BY InitCircuit, CircuitStep, PTL DEF Spec

\* The keys, their times to live and what the processes carry keep their types; a
\* set of failures that is there has a time to live or none yet.
THEOREM CircuitTypeCorrect == Spec => []TypeOK
<1>1. CircuitInv => TypeOK
  BY DEF CircuitInv
<1>2. QED
  BY <1>1, CircuitAlways, PTL

\* Ingest is deferred for no longer than the cooldown after the last download that
\* was refused, for any number of processes, however slow they are.
THEOREM PauseIsBounded == Spec => []DeferralIsBounded
<1>1. CircuitInv => DeferralIsBounded
  BY DEF CircuitInv
<1>2. QED
  BY <1>1, CircuitAlways, PTL

-----------------------------------------------------------------------------
(***************************************************************************)
(* A success closes the circuit two commands after it has removed its own  *)
(* failure, and one after it has counted the others.  With one process     *)
(* that downloads (the audio lane's, which runs one task at a time) the    *)
(* count is not outdated by then: ticks only forget failures.              *)
(***************************************************************************)
OneDownloader == \A p, q \in Downloaders : p = q

CountIsCurrent ==
    /\ IsFiniteSet(failures)
    /\ \A p \in Downloaders : IsAt(p, "close") => FewRemain

\* Forgetting failures leaves the count below the threshold.
LEMMA FewerRemain ==
    ASSUME IsFiniteSet(failures), FewRemain, failures' \subseteq failures
    PROVE  FewRemain'
<1>1. /\ IsFiniteSet(failures') /\ Cardinality(failures') <= Cardinality(failures)
      /\ Cardinality(failures') \in Nat /\ Cardinality(failures) \in Nat
  BY FS_Subset, FS_CardinalityType
<1>2. QED
  BY <1>1, CircuitAssumption DEF FewRemain

\* No command makes a count that a process goes by out of date.
LEMMA CountStep == OneDownloader /\ TypeOK /\ CountIsCurrent /\ [Next]_vars => CountIsCurrent'
<1> SUFFICES ASSUME OneDownloader, TypeOK, CountIsCurrent, [Next]_vars PROVE CountIsCurrent'
  OBVIOUS
<1>1. process \in [Processes -> ProcessRecords] /\ IsFiniteSet(failures) /\ Downloaders \subseteq Processes
  BY DEF TypeOK, ProcessRecords, CountIsCurrent, Processes
<1>2. ASSUME failures' \subseteq failures,
             \A p \in Downloaders : IsAt(p, "close")' => IsAt(p, "close") \/ FewRemain
      PROVE  CountIsCurrent'
  <2>1. IsFiniteSet(failures')
    BY <1>1, <1>2, FS_Subset
  <2>2. \A p \in Downloaders : IsAt(p, "close")' => FewRemain
    BY <1>2 DEF CountIsCurrent
  <2>3. QED
    BY <1>1, <1>2, <2>1, <2>2, FewerRemain DEF CountIsCurrent
<1>3. ASSUME NEW p \in Processes, NEW v \in Videos, Fails(p, v)
      PROVE  CountIsCurrent'
  <2>1. process'[p] = [Idle EXCEPT !.phase = "expire", !.left = Cooldown]
    BY <1>1, <1>3 DEF Fails
  <2>2. p \in Downloaders /\ failures' = failures \cup {v} /\ ~IsAt(p, "close")'
    BY <1>3, <2>1 DEF Fails, IsAt, Idle
  <2>3. IsFiniteSet(failures')
    BY <1>1, <2>2, FS_AddElement
  <2>4. QED
    BY <2>2, <2>3 DEF CountIsCurrent, OneDownloader
<1>4. ASSUME NEW p \in Processes, NEW v \in Videos, Succeeds(p, v)
      PROVE  CountIsCurrent'
  BY <1>1, <1>2, <1>4 DEF Succeeds, Do, IsAt, ProcessRecords
<1>5. ASSUME NEW p \in Processes,
             Expire(p) \/ Count(p) \/ Open(p) \/ Recount(p) \/ Close(p) \/ Read(p) \/ Delete(p)
             \/ Interrupted(p)
      PROVE  CountIsCurrent'
  <2>1. failures' = failures
    BY <1>5 DEF Expire, Count, Open, Recount, Close, Read, Delete, Interrupted
  <2>2. \A q \in Processes \ {p} : IsAt(q, "close")' = IsAt(q, "close")
    BY <1>1, <1>5 DEF Expire, Count, Open, Recount, Close, Read, Delete, Interrupted, Do, Done, IsAt
  <2>3. IsAt(p, "close")' => FewRemain
    <3>1. Do(p, "count") \/ Do(p, "delete") \/ Done(p) => ~IsAt(p, "close")'
      BY <1>1 DEF Do, Done, IsAt, Idle, ProcessRecords
    <3>2. CASE Count(p)
      <4>1. process' = [process EXCEPT ![p].phase = "open", ![p].counted = failures] => ~IsAt(p, "close")'
        BY <1>1 DEF IsAt, ProcessRecords
      <4>2. QED
        BY <3>1, <3>2, <4>1 DEF Count
    <3>3. CASE Recount(p)
      BY <3>1, <3>3 DEF Recount
    <3>4. CASE Expire(p) \/ Open(p) \/ Close(p) \/ Read(p) \/ Delete(p) \/ Interrupted(p)
      BY <3>1, <3>4 DEF Expire, Open, Close, Read, Delete, Interrupted
    <3>5. QED
      BY <1>5, <3>2, <3>3, <3>4
  <2>4. QED
    BY <1>1, <1>2, <2>1, <2>2, <2>3
<1>6. CASE Tick
  <2>1. failures' \subseteq failures /\ \A p \in Processes : process'[p].phase = process[p].phase
    BY <1>1, <1>6 DEF Tick, ProcessRecords
  <2>2. QED
    BY <1>1, <1>2, <2>1 DEF IsAt
<1>7. CASE UNCHANGED vars
  BY <1>2, <1>7 DEF vars, IsAt
<1>8. QED
  BY <1>3, <1>4, <1>5, <1>6, <1>7 DEF Next

\* As long as enough refused videos are on record, no success closes the circuit, with
\* one process that downloads and any polls that read and delete the circuit beside it.
THEOREM ClusterKeepsCircuitOpen ==
    ASSUME OneDownloader
    PROVE  Spec => ClusterStaysOpen
<1>1. Init => CountIsCurrent
  BY FS_EmptySet DEF Init, CountIsCurrent, IsAt, Idle, Processes
<1>2. TypeOK /\ CountIsCurrent /\ [Next]_vars => CountIsCurrent'
  BY CountStep
<1>3. CountIsCurrent => \A p \in Processes : SuccessCloses(p) => Cardinality(failures) < Threshold
  BY DEF CountIsCurrent, SuccessCloses, FewRemain
<1>4. CountIsCurrent /\ [Next]_vars =>
          [\A p \in Processes : SuccessCloses(p) => Cardinality(failures) < Threshold]_vars
  BY <1>3
<1>5. QED
  BY <1>1, <1>2, <1>4, CircuitTypeCorrect, PTL DEF Spec, ClusterStaysOpen
=============================================================================
