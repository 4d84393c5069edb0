---------------------- MODULE ChannelDispatcher_proofs ----------------------
(***************************************************************************)
(* Proofs about ChannelDispatcher, for any number of tasks, attempts and   *)
(* batches, any batch size, with dying processes, lost publications and    *)
(* redelivered messages:                                                   *)
(*                                                                         *)
(*   DispatcherTypeCorrect    the variables keep their types, whatever the *)
(*                            clients do;                                  *)
(*   LimitIsKept              no more attempts are active than             *)
(*                            CHANNEL_ACTIVE_LIMIT;                        *)
(*   SettledBatchesAreDone    a settled batch has only settled attempts,   *)
(*                            and its counters are right;                  *)
(*   FinishedBatchesAreSettled    no batch is left unsettled when its last *)
(*                            attempt ends;                                *)
(*   BatchesStayInOrder       a batch waits for the ones before it.        *)
(*                                                                         *)
(* All but the first are about OneUser: one request at a time and no       *)
(* reaper, the limit as it is in the code, and task ids that are stored    *)
(* when a batch goes on.  Their inductive invariant is built in layers,    *)
(* each of which uses the ones before it:                                  *)
(*                                                                         *)
(*   TypeInv     types, numbering, what the processes have in hand;        *)
(*   ActiveInv   one attempt is active, and one process or message has it; *)
(*   CountInv    no counter of a batch, written or about to be written, is *)
(*               ahead of the attempts, and those of a settled batch are   *)
(*               right;                                                    *)
(*   FinishInv   the task that ends a batch's last attempt notices it;     *)
(*   OrderInv    which batches are open, and which is about to be opened.  *)
(***************************************************************************)
EXTENDS ChannelDispatcher, FiniteSetTheorems, TLAPS

-----------------------------------------------------------------------------
\* Attempts can be counted.
LEMMA JobsAreCounted ==
    ASSUME NEW S \in SUBSET JobIds
    PROVE  IsFiniteSet(S) /\ Cardinality(S) \in 0..MaxJobs
<1>1. IsFiniteSet(JobIds) /\ Cardinality(JobIds) = MaxJobs
  BY FS_Interval, DispatcherAssumption DEF JobIds
<1>2. IsFiniteSet(S) /\ Cardinality(S) <= MaxJobs
  BY <1>1, FS_Subset
<1>3. Cardinality(S) \in Nat
  BY <1>2, FS_CardinalityType
<1>4. QED
  BY <1>2, <1>3, DispatcherAssumption

\* Whole batches among x attempts: no more than attempts, and more attempts fill no
\* fewer.
LEMMA Quotients ==
    ASSUME NEW x \in Nat, NEW y \in Nat, x <= y
    PROVE  /\ x \div BatchSize \in Nat /\ x \div BatchSize <= x
           /\ x \div BatchSize <= y \div BatchSize
           /\ 0 \div BatchSize = 0
BY DispatcherAssumption

\* Full batches divide into as many.
LEMMA Multiples ==
    ASSUME NEW x \in Nat
    PROVE  /\ x * BatchSize \in Nat
           /\ (x * BatchSize) \div BatchSize = x
BY DispatcherAssumption

\* The full batches hold no more than there are attempts.
LEMMA QuotientFloor ==
    ASSUME NEW x \in Nat
    PROVE  (x \div BatchSize) * BatchSize <= x
BY DispatcherAssumption

\* More batches hold no fewer attempts.
LEMMA MultiplesGrow ==
    ASSUME NEW x \in Nat, NEW y \in Nat, x <= y
    PROVE  x * BatchSize <= y * BatchSize
BY DispatcherAssumption

\* refresh_batch_progress returns a row, and the row of an opened batch stays one.
LEMMA RefreshedType ==
    ASSUME TypeOK, NEW b \in BatchIds, NEW statuses
    PROVE  /\ Refreshed(b, statuses) \in BatchRecords
           /\ b \in Opened => Refreshed(b, statuses).status # "none"
<1> DEFINE C == {j \in JobsOf(b) : statuses[j] = "completed"}
           F == {j \in JobsOf(b) : statuses[j] \in {"failed", "cancelled"}}
<1>1. C \in SUBSET JobIds /\ F \in SUBSET JobIds
  BY DEF JobsOf, Created
<1>2. Cardinality(C) \in 0..MaxJobs /\ Cardinality(F) \in 0..MaxJobs
  BY <1>1, JobsAreCounted
<1>3. batches[b] \in BatchRecords
  BY DEF TypeOK
<1> HIDE DEF C, F
<1>4. QED
  BY <1>2, <1>3 DEF Refreshed, BatchRecords, DoneStatuses, Opened, C, F

\* What a transaction leaves of the row it had loaded is a row.
LEMMA WrittenType ==
    ASSUME NEW b \in BatchIds, NEW loaded \in BatchRecords, NEW fresh \in BatchRecords,
           batches[b] \in BatchRecords
    PROVE  /\ Written(b, loaded, fresh) \in BatchRecords
           /\ fresh.status # "none" /\ batches[b].status # "none"
              => Written(b, loaded, fresh).status # "none"
<1>1. DOMAIN loaded = {"status", "request", "number", "completed", "failed"}
  BY DEF BatchRecords
<1> DEFINE row == Written(b, loaded, fresh)
<1>2. row = [f \in {"status", "request", "number", "completed", "failed"} |->
               IF fresh[f] = loaded[f] THEN batches[b][f] ELSE fresh[f]]
  BY <1>1 DEF Written
<1>3. row = [status |-> row.status, request |-> row.request, number |-> row.number,
             completed |-> row.completed, failed |-> row.failed]
  BY <1>2
<1>4. QED
  BY <1>2, <1>3 DEF BatchRecords

-----------------------------------------------------------------------------
(***************************************************************************)
(* Types, for any number of clients in any roles.                          *)
(***************************************************************************)
\* Attempts and batches are numbered without gaps, and there are no more batches
\* than attempts.
NumberedInOrder ==
    \E n \in 0..MaxJobs : \E m \in 0..n : Created = 1..n /\ Opened = 1..m

JobsAreBatched == \A j \in Created : jobs[j].batch \in Opened

\* What a process has in hand exists.
HandsHoldJobs ==
    /\ queue \subseteq Created
    /\ \A c \in Clients : client[c].phase \in {"picked", "publishing"}
                          => client[c].job \in Created
    /\ \A w \in Workers :
          /\ Busy(w) => worker[w].job \in Created
          /\ worker[w].phase = "refreshed" => worker[w].fresh.status # "none"
          /\ worker[w].phase = "advancing" => worker[w].next \in Created

TypeInv == TypeOK /\ NumberedInOrder /\ JobsAreBatched /\ HandsHoldJobs

\* Empty rows and idle processes are values of the variables' types.
LEMMA IdleTypes ==
    /\ NoJob \in JobRecords /\ NoBatch \in BatchRecords
    /\ IdleClient.phase = "idle" /\ IdleWorker.phase = "idle"
    /\ IdleClient \in [phase : {"idle", "dispatching", "counting", "picking", "picked",
                                "publishing"},
                       role : {"process", "reaper"}, job : JobIds, opens : BOOLEAN]
    /\ IdleWorker \in [phase : {"idle", "working", "refreshed", "advancing"}, job : JobIds,
                       outcome : {"completed", "failed"}, loaded : BatchRecords,
                       fresh : BatchRecords, next : JobIds]
<1>1. NoJob \in JobRecords
  BY DEF NoJob, JobRecords
<1>2. NoBatch \in BatchRecords
  BY DispatcherAssumption DEF NoBatch, BatchRecords
<1>3. 1 \in JobIds
  BY DispatcherAssumption DEF JobIds
<1>4. QED
  BY <1>1, <1>2, <1>3 DEF IdleClient, IdleWorker

\* The invariant of types holds at the start.
LEMMA InitTypes == Init => TypeInv
<1> SUFFICES ASSUME Init PROVE TypeInv
  OBVIOUS
<1>1. TypeOK
  BY IdleTypes DEF Init, TypeOK
<1>2. Created = {} /\ Opened = {}
  BY DEF Init, Created, Opened, NoJob, NoBatch
<1>3. NumberedInOrder
  BY <1>2, DispatcherAssumption DEF NumberedInOrder
<1>4. HandsHoldJobs
  BY IdleTypes DEF Init, HandsHoldJobs, Busy
<1>5. QED
  BY <1>1, <1>2, <1>3, <1>4 DEF TypeInv, JobsAreBatched

\* A request numbers its attempts and batches after the earlier ones, in batches of
\* BatchSize of which each has an attempt.
LEMMA RequestIsNumbered ==
    ASSUME TypeInv, NEW last \in Cardinality(Created) + 1 .. MaxJobs
    PROVE  LET made  == Cardinality(Created)
               first == Cardinality(Opened) + 1
               batchOf(j) == first + (j - made - 1) \div BatchSize
           IN  /\ Created = 1..made /\ Opened = 1..(first - 1)
               /\ made \in Nat /\ first \in Nat \ {0} /\ first <= made + 1
               /\ batchOf(last) \in first..last
               /\ \A j \in made + 1 .. last : batchOf(j) \in first..batchOf(last)
               /\ \A b \in first..batchOf(last) : \E j \in made + 1 .. last : batchOf(j) = b
<1> DEFINE made  == Cardinality(Created)
           first == Cardinality(Opened) + 1
           batchOf(j) == first + (j - made - 1) \div BatchSize
<1>1. PICK n \in 0..MaxJobs : \E m \in 0..n : Created = 1..n /\ Opened = 1..m
  BY DEF TypeInv, NumberedInOrder
<1>2. PICK m \in 0..n : Created = 1..n /\ Opened = 1..m
  BY <1>1
<1>3. made = n /\ first = m + 1
  <2>1. n \in Int /\ m \in Int /\ 1 \in Int /\ n >= 0 /\ m >= 0
    BY DispatcherAssumption
  <2>2. Cardinality(1..n) = n /\ Cardinality(1..m) = m
    BY <2>1, FS_Interval
  <2>3. QED
    BY <1>2, <2>2
<1>4. last \in n + 1 .. MaxJobs
  BY <1>3
<1> HIDE DEF made, first
<1>5. last - n - 1 \in Nat /\ n \in Nat /\ m \in Nat
  BY <1>4, DispatcherAssumption
<1> DEFINE q == (last - n - 1) \div BatchSize
<1>6. q \in Nat /\ q <= last - n - 1
  BY <1>5, Quotients
<1>7. batchOf(last) \in first..last
  BY <1>3, <1>4, <1>5, <1>6
<1>8. \A j \in made + 1 .. last : batchOf(j) \in first..batchOf(last)
  <2> SUFFICES ASSUME NEW j \in n + 1 .. last
               PROVE  batchOf(j) \in first..batchOf(last)
    BY <1>3
  <2>1. j - n - 1 \in Nat /\ j - n - 1 <= last - n - 1
    BY <1>4, <1>5
  <2>2. (j - n - 1) \div BatchSize \in Nat /\ (j - n - 1) \div BatchSize <= q
    BY <2>1, <1>5, Quotients
  <2>3. QED
    BY <2>2, <1>3, <1>5, <1>6
<1>9. \A b \in first..batchOf(last) : \E j \in made + 1 .. last : batchOf(j) = b
  <2> SUFFICES ASSUME NEW b \in m + 1 .. m + 1 + q
               PROVE  \E j \in n + 1 .. last : batchOf(j) = b
    BY <1>3
  <2> DEFINE i == b - m - 1
  <2>1. i \in Nat /\ i <= q
    BY <1>5, <1>6
  <2> HIDE DEF i
  <2>2. i * BatchSize \in Nat /\ (i * BatchSize) \div BatchSize = i
    BY <2>1, Multiples
  <2>3. i * BatchSize <= q * BatchSize /\ q * BatchSize <= last - n - 1
    BY <2>1, <1>5, <1>6, MultiplesGrow, QuotientFloor
  <2> DEFINE k == i * BatchSize
  <2>4. k \in Nat /\ k <= last - n - 1 /\ k \div BatchSize = i
    <3>1. q * BatchSize \in Nat
      BY <1>6, Multiples
    <3>2. QED
      BY <2>2, <2>3, <3>1, <1>5
  <2> HIDE DEF k, q
  <2>5. n + 1 + k \in n + 1 .. last /\ (n + 1 + k) - n - 1 = k
    BY <2>4, <1>4, <1>5
  <2>6. batchOf(n + 1 + k) = b
    BY <2>4, <2>5, <1>3, <1>5, <2>1 DEF i
  <2>7. QED
    BY <2>5, <2>6
<1>10. QED
  BY <1>2, <1>3, <1>5, <1>7, <1>8, <1>9 DEF made, first

ClientRecords ==
    [phase : {"idle", "dispatching", "counting", "picking", "picked", "publishing"},
     role : {"process", "reaper"}, job : JobIds, opens : BOOLEAN]

WorkerRecords ==
    [phase : {"idle", "working", "refreshed", "advancing"}, job : JobIds,
     outcome : {"completed", "failed"}, loaded : BatchRecords, fresh : BatchRecords,
     next : JobIds]

\* A step that creates nothing, and leaves every attempt in its batch.
LEMMA NothingCreated ==
    ASSUME TypeInv,
           jobs' \in [JobIds -> JobRecords], batches' \in [BatchIds -> BatchRecords],
           \A j \in JobIds : /\ jobs'[j].batch = jobs[j].batch
                             /\ jobs'[j].status = "none" <=> jobs[j].status = "none",
           \A b \in BatchIds : batches'[b].status = "none" <=> batches[b].status = "none"
    PROVE  Created' = Created /\ Opened' = Opened /\ NumberedInOrder' /\ JobsAreBatched'
<1>1. Created' = Created /\ Opened' = Opened
  BY DEF Created, Opened
<1>2. NumberedInOrder'
  BY <1>1 DEF TypeInv, NumberedInOrder
<1>3. JobsAreBatched'
  BY <1>1 DEF TypeInv, JobsAreBatched, Created
<1>4. QED
  BY <1>1, <1>2, <1>3

\* The moves of a client and of a worker.
LEMMA ClientMoves ==
    ASSUME TypeInv, Created \subseteq Created', NEW c \in Clients, NEW r \in ClientRecords,
           r.phase \in {"picked", "publishing"} => r.job \in Created',
           client' = [client EXCEPT ![c] = r]
    PROVE  /\ client' \in [Clients -> ClientRecords]
           /\ \A d \in Clients : client'[d].phase \in {"picked", "publishing"}
                                 => client'[d].job \in Created'
BY DEF TypeInv, TypeOK, HandsHoldJobs, ClientRecords

\* A task that takes a typed step with a known attempt in hand leaves the rest in order.
LEMMA WorkerMoves ==
    ASSUME TypeInv, Created \subseteq Created', NEW w \in Workers, NEW r \in WorkerRecords,
           r.phase # "idle" => r.job \in Created',
           r.phase = "refreshed" => r.fresh.status # "none",
           r.phase = "advancing" => r.next \in Created',
           worker' = [worker EXCEPT ![w] = r]
    PROVE  /\ worker' \in [Workers -> WorkerRecords]
           /\ \A v \in Workers :
                 /\ worker'[v].phase # "idle" => worker'[v].job \in Created'
                 /\ worker'[v].phase = "refreshed" => worker'[v].fresh.status # "none"
                 /\ worker'[v].phase = "advancing" => worker'[v].next \in Created'
BY DEF TypeInv, TypeOK, HandsHoldJobs, WorkerRecords, Busy

\* Creating the attempts of a request, in consecutive batches, keeps types and numbering.
LEMMA ProcessSelectedType ==
    ASSUME TypeInv, NEW c \in Clients, ProcessSelected(c)
    PROVE  TypeInv'
<1> DEFINE made  == Cardinality(Created)
           first == Cardinality(Opened) + 1
           batchOf(j) == first + (j - made - 1) \div BatchSize
<1>1. PICK last \in made + 1 .. MaxJobs :
          /\ jobs' = [j \in JobIds |->
                IF j \in made + 1 .. last
                THEN [NoJob EXCEPT !.status = "pending", !.batch = batchOf(j)] ELSE jobs[j]]
          /\ batches' = [b \in BatchIds |->
                IF b \in first .. batchOf(last)
                THEN [NoBatch EXCEPT !.status  = IF b = first THEN "running" ELSE "pending",
                                     !.request = first,
                                     !.number  = b - first + 1]
                ELSE batches[b]]
  BY DEF ProcessSelected
<1>2. /\ Created = 1..made /\ Opened = 1..(first - 1)
      /\ made \in Nat /\ first \in Nat \ {0} /\ first <= made + 1
      /\ batchOf(last) \in first..last
      /\ \A j \in made + 1 .. last : batchOf(j) \in first..batchOf(last)
  BY RequestIsNumbered
<1> DEFINE final == batchOf(last)
<1> HIDE DEF made, first, batchOf, final
<1>3. last \in Nat /\ last <= MaxJobs /\ last >= made + 1 /\ final \in first..last
  BY <1>2, DispatcherAssumption DEF final
<1>4. /\ made + 1 .. last \subseteq JobIds /\ first .. final \subseteq BatchIds
      /\ \A b \in first .. final : b - first + 1 \in 0..MaxJobs
  BY <1>2, <1>3, DispatcherAssumption DEF JobIds, BatchIds
<1>5. jobs' \in [JobIds -> JobRecords]
  <2>1. ASSUME NEW j \in made + 1 .. last
        PROVE  [NoJob EXCEPT !.status = "pending", !.batch = batchOf(j)] \in JobRecords
    BY <1>2, <1>4 DEF NoJob, JobRecords, final
  <2>2. QED
    BY <1>1, <2>1 DEF TypeInv, TypeOK
<1>6. batches' \in [BatchIds -> BatchRecords]
  <2>1. ASSUME NEW b \in first .. final
        PROVE  [NoBatch EXCEPT !.status  = IF b = first THEN "running" ELSE "pending",
                               !.request = first,
                               !.number  = b - first + 1] \in BatchRecords
    <3>1. first \in BatchIds
      BY <1>2, <1>3, <1>4
    <3>2. QED
      BY <1>4, <3>1, IdleTypes DEF BatchRecords
  <2>2. QED
    BY <1>1, <2>1 DEF TypeInv, TypeOK, final
<1>7. Created' = 1..last
  <2>1. \A j \in JobIds : jobs'[j].status # "none" <=> j \in made + 1 .. last \/ j \in Created
    BY <1>1 DEF NoJob, Created
  <2>2. Created' = (made + 1 .. last) \cup Created
    BY <2>1, <1>4 DEF Created
  <2>3. QED
    BY <2>2, <1>2, <1>3
<1>8. Opened' = 1..final
  <2>1. \A b \in BatchIds : batches'[b].status # "none" <=> b \in first .. final \/ b \in Opened
    BY <1>1 DEF NoBatch, Opened, final
  <2>2. Opened' = (first .. final) \cup Opened
    BY <2>1, <1>4 DEF Opened
  <2>3. QED
    BY <2>2, <1>2, <1>3
<1>9. NumberedInOrder'
  <2>1. last \in 0..MaxJobs /\ final \in 0..last
    BY <1>2, <1>3
  <2>2. QED
    BY <1>7, <1>8, <2>1 DEF NumberedInOrder
<1>10. JobsAreBatched'
  <2>1. ASSUME NEW j \in Created' PROVE jobs'[j].batch \in Opened'
    <3>1. j \in JobIds /\ (j \in made + 1 .. last \/ j \in Created)
      BY <1>2, <1>3, <1>7, DispatcherAssumption DEF JobIds
    <3>2. CASE j \in made + 1 .. last
      <4>1. jobs'[j].batch = batchOf(j)
        BY <1>1, <3>1, <3>2 DEF NoJob
      <4>2. batchOf(j) \in first..final
        BY <1>2, <3>2 DEF final
      <4>3. QED
        BY <4>1, <4>2, <1>2, <1>3, <1>8
    <3>3. CASE j \notin made + 1 .. last
      <4>1. jobs'[j].batch \in Opened
        BY <1>1, <3>1, <3>3 DEF TypeInv, JobsAreBatched
      <4>2. QED
        BY <4>1, <1>2, <1>3, <1>8
    <3>4. QED
      BY <3>2, <3>3
  <2>2. QED
    BY <2>1 DEF JobsAreBatched
<1>11. Created \subseteq Created'
  BY <1>2, <1>3, <1>7
<1>12. client' \in [Clients -> ClientRecords]
       /\ \A d \in Clients : client'[d].phase \in {"picked", "publishing"} => client'[d].job \in Created'
  <2>1. client' = [client EXCEPT ![c].phase = "dispatching"]
    BY DEF ProcessSelected, Enter
  <2>2. client \in [Clients -> ClientRecords]
    BY DEF TypeInv, TypeOK, ClientRecords
  <2>3. client' \in [Clients -> ClientRecords]
    BY <2>1, <2>2 DEF ClientRecords
  <2>4. QED
    BY <1>11, <2>1, <2>2, <2>3 DEF TypeInv, HandsHoldJobs
<1>13. HandsHoldJobs'
  BY <1>11, <1>12 DEF ProcessSelected, TypeInv, HandsHoldJobs, Busy
<1>14. TypeOK'
  BY <1>5, <1>6, <1>11, <1>12 DEF ProcessSelected, TypeInv, TypeOK, ClientRecords, Created
<1>15. QED
  BY <1>9, <1>10, <1>13, <1>14 DEF TypeInv

\* What a transaction may write to an attempt.
LEMMA StatusWrites ==
    ASSUME TypeOK, NEW j \in Created, NEW status \in {"queued", "running"} \cup TerminalStatuses,
           NEW cause \in {"none", "task", "enqueue", "stale"}, NEW recovered \in BOOLEAN,
           \/ jobs' = [jobs EXCEPT ![j].status = status]
           \/ jobs' = [jobs EXCEPT ![j].status = status, ![j].cause = cause]
           \/ jobs' = [jobs EXCEPT ![j].status = status, ![j].cause = cause,
                                   ![j].recovered = recovered]
    PROVE  /\ jobs' \in [JobIds -> JobRecords]
           /\ \A k \in JobIds : /\ jobs'[k].batch = jobs[k].batch
                                /\ jobs'[k].status = "none" <=> jobs[k].status = "none"
<1>1. /\ j \in JobIds /\ jobs[j].status # "none" /\ status # "none"
      /\ jobs \in [JobIds -> JobRecords]
  BY DEF TypeOK, Created, TerminalStatuses
<1>2. QED
  BY <1>1 DEF JobRecords

\* A step of a client alone, or of a client that changes the status of an attempt.
LEMMA ClientSteps ==
    ASSUME TypeInv, NEW c \in Clients, NEW r \in ClientRecords,
           r.phase \in {"picked", "publishing"} => r.job \in Created,
           client' = [client EXCEPT ![c] = r],
           jobs' \in [JobIds -> JobRecords], batches' \in [BatchIds -> BatchRecords],
           \A j \in JobIds : /\ jobs'[j].batch = jobs[j].batch
                             /\ jobs'[j].status = "none" <=> jobs[j].status = "none",
           \A b \in BatchIds : batches'[b].status = "none" <=> batches[b].status = "none",
           queue' \subseteq Created, worker' = worker
    PROVE  TypeInv'
<1>1. Created' = Created /\ Opened' = Opened /\ NumberedInOrder' /\ JobsAreBatched'
  BY NothingCreated
<1>2. /\ client' \in [Clients -> ClientRecords]
      /\ \A d \in Clients : client'[d].phase \in {"picked", "publishing"}
                            => client'[d].job \in Created'
  BY <1>1, ClientMoves
<1>3. TypeOK'
  BY <1>2 DEF TypeInv, TypeOK, ClientRecords, Created
<1>4. HandsHoldJobs'
  BY <1>1, <1>2 DEF TypeInv, HandsHoldJobs, Busy
<1>5. QED
  BY <1>1, <1>3, <1>4 DEF TypeInv

\* So does each step of a dispatch ...
LEMMA DispatchTypes ==
    ASSUME TypeInv, NEW c \in Clients, Dispatch(c) \/ ClientDies(c)
    PROVE  TypeInv'
<1>1. /\ TypeOK /\ client[c] \in ClientRecords /\ IdleClient \in ClientRecords
      /\ jobs \in [JobIds -> JobRecords] /\ batches \in [BatchIds -> BatchRecords]
      /\ queue \subseteq Created /\ IdleClient.phase = "idle"
      /\ client \in [Clients -> ClientRecords]
  BY IdleTypes DEF TypeInv, TypeOK, HandsHoldJobs, ClientRecords
<1>2. ASSUME NEW phase \in {"idle", "dispatching", "counting", "picking"}
      PROVE  /\ [client[c] EXCEPT !.phase = phase] \in ClientRecords
             /\ [client[c] EXCEPT !.phase = phase].phase = phase
  BY <1>1 DEF ClientRecords
<1>3. CASE Finish(c) /\ UNCHANGED <<jobs, batches, queue, worker>>
  BY <1>1, <1>3, ClientSteps DEF Finish
<1>4. CASE \/ Enter(c, "counting") /\ UNCHANGED <<jobs, batches, queue, worker>>
           \/ Enter(c, "picking") /\ UNCHANGED <<jobs, batches, queue, worker>>
  <2>1. PICK phase \in {"counting", "picking"} :
             client' = [client EXCEPT ![c] = [client[c] EXCEPT !.phase = phase]]
    BY <1>1, <1>4 DEF Enter
  <2> DEFINE r == [client[c] EXCEPT !.phase = phase]
  <2>2. r \in ClientRecords /\ r.phase \notin {"picked", "publishing"}
    BY <1>2
  <2>3. client' = [client EXCEPT ![c] = r]
    BY <2>1
  <2> HIDE DEF r
  <2>4. QED
    BY <1>1, <1>4, <2>2, <2>3, ClientSteps
<1>5. CASE CheckManual(c) \/ CountActive(c) \/ ClientDies(c)
  BY <1>3, <1>4, <1>5 DEF CheckManual, CountActive, ClientDies
<1>6. CASE Pick(c)
  <2>1. CASE Finish(c)
    BY <1>3, <1>6, <2>1 DEF Pick
  <2>2. CASE ~Finish(c)
    <3>1. PICK b \in BatchIds, j \in JobIds :
               /\ IsDispatchable(b, j)
               /\ client' = [client EXCEPT ![c].phase = "picked", ![c].job = j,
                                           ![c].opens = batches[b].status = "pending"]
      BY <1>6, <2>2 DEF Pick
    <3> DEFINE r == [client[c] EXCEPT !.phase = "picked", !.job = j,
                                      !.opens = batches[b].status = "pending"]
    <3>2. r \in ClientRecords /\ r.job = j
      BY <1>1 DEF ClientRecords
    <3>3. client' = [client EXCEPT ![c] = r]
      BY <1>1, <3>1
    <3>4. j \in Created
      BY <3>1 DEF IsDispatchable, PendingOf, JobsOf
    <3> HIDE DEF r
    <3>5. QED
      BY <1>1, <1>6, <3>2, <3>3, <3>4, ClientSteps DEF Pick
  <2>3. QED
    BY <2>1, <2>2
<1>7. CASE Promote(c)
  <2> DEFINE j == client[c].job
             r == [client[c] EXCEPT !.phase = "publishing"]
  <2>1. j \in Created /\ jobs[j].batch \in Opened
    BY <1>7 DEF Promote, TypeInv, HandsHoldJobs, JobsAreBatched
  <2>2. r \in ClientRecords /\ r.job = j
    BY <1>1 DEF ClientRecords
  <2>3. client' = [client EXCEPT ![c] = r]
    BY <1>1, <1>7 DEF Promote, Enter
  <2>4. /\ batches' \in [BatchIds -> BatchRecords]
        /\ \A b \in BatchIds : batches'[b].status = "none" <=> batches[b].status = "none"
    BY <1>1, <1>7, <2>1 DEF Promote, BatchRecords, Opened
  <2>5. jobs' = [jobs EXCEPT ![j].status = "queued"]
    BY <1>7 DEF Promote
  <2> HIDE DEF j, r
  <2>6. /\ jobs' \in [JobIds -> JobRecords]
        /\ \A k \in JobIds : /\ jobs'[k].batch = jobs[k].batch
                             /\ jobs'[k].status = "none" <=> jobs[k].status = "none"
    BY <1>1, <2>1, <2>5, StatusWrites
  <2>7. QED
    BY <1>1, <1>7, <2>1, <2>2, <2>3, <2>4, <2>6, ClientSteps DEF Promote
<1>8. CASE Publish(c)
  <2> DEFINE r == [IdleClient EXCEPT !.phase = "counting"]
  <2>1. r \in ClientRecords /\ r.phase = "counting"
    BY <1>1 DEF ClientRecords
  <2>2. client[c].job \in Created
    BY <1>8 DEF Publish, TypeInv, HandsHoldJobs
  <2>3. client' = [client EXCEPT ![c] = r] \/ client' = [client EXCEPT ![c] = IdleClient]
    BY <1>8 DEF Publish, Finish
  <2> HIDE DEF r
  <2>4. QED
    BY <1>1, <1>8, <2>1, <2>2, <2>3, ClientSteps DEF Publish
<1>9. CASE PublishFails(c)
  <2>1. client[c].job \in Created
    BY <1>9 DEF PublishFails, TypeInv, HandsHoldJobs
  <2>2. CASE jobs' = jobs
    BY <1>3, <1>9, <2>2 DEF PublishFails
  <2>3. CASE jobs' # jobs
    <3>1. jobs' = [jobs EXCEPT ![client[c].job].status = "failed",
                               ![client[c].job].cause = "enqueue"]
      BY <1>9, <2>3 DEF PublishFails, Refused
    <3>2. /\ jobs' \in [JobIds -> JobRecords]
          /\ \A k \in JobIds : /\ jobs'[k].batch = jobs[k].batch
                               /\ jobs'[k].status = "none" <=> jobs[k].status = "none"
      BY <1>1, <2>1, <3>1, StatusWrites DEF TerminalStatuses
    <3>3. QED
      BY <1>1, <1>9, <3>2, ClientSteps DEF PublishFails, Finish
  <2>4. QED
    BY <2>2, <2>3
<1>10. QED
  BY <1>5, <1>6, <1>7, <1>8, <1>9 DEF Dispatch

\* ... a cancellation, a recovery and a reconciliation ...
LEMMA CareTypes ==
    ASSUME TypeInv, NEW c \in Clients,
           \/ \E j \in JobIds : Cancel(c, j) \/ RecoverStale(c, j) \/ FailStale(c, j)
           \/ \E b \in BatchIds : Reconcile(c, b)
    PROVE  TypeInv'
<1>1. /\ TypeOK /\ client[c] \in ClientRecords /\ IdleClient \in ClientRecords
      /\ jobs \in [JobIds -> JobRecords] /\ batches \in [BatchIds -> BatchRecords]
      /\ queue \subseteq Created /\ IdleClient.phase = "idle"
      /\ client \in [Clients -> ClientRecords]
  BY IdleTypes DEF TypeInv, TypeOK, HandsHoldJobs, ClientRecords
<1>2. client = [client EXCEPT ![c] = client[c]] /\ (Idle(c) => client[c] = IdleClient)
  BY <1>1 DEF Idle
<1>3. ASSUME NEW j \in JobIds, Cancel(c, j) \/ FailStale(c, j)
      PROVE  TypeInv'
  <2>1. j \in Created
    BY <1>3 DEF Cancel, FailStale, Stale, Created
  <2>2. \/ jobs' = [jobs EXCEPT ![j].status = "cancelled"]
        \/ jobs' = [jobs EXCEPT ![j].status = "failed", ![j].cause = "stale"]
    BY <1>3 DEF Cancel, FailStale
  <2>3. /\ jobs' \in [JobIds -> JobRecords]
        /\ \A k \in JobIds : /\ jobs'[k].batch = jobs[k].batch
                             /\ jobs'[k].status = "none" <=> jobs[k].status = "none"
    BY <1>1, <2>1, <2>2, StatusWrites DEF TerminalStatuses
  <2>4. client' = client /\ client[c] = IdleClient /\ UNCHANGED <<batches, queue, worker>>
    BY <1>3 DEF Cancel, FailStale, MayRun, Idle
  <2>5. QED
    BY <1>1, <1>2, <2>3, <2>4, ClientSteps
<1>4. ASSUME NEW j \in JobIds, RecoverStale(c, j)
      PROVE  TypeInv'
  <2>1. j \in Created
    BY <1>4 DEF RecoverStale, Stale, Created
  <2>2. jobs' = [jobs EXCEPT ![j].status = "queued", ![j].cause = "none",
                             ![j].recovered = TRUE]
    BY <1>4 DEF RecoverStale
  <2>3. /\ jobs' \in [JobIds -> JobRecords]
        /\ \A k \in JobIds : /\ jobs'[k].batch = jobs[k].batch
                             /\ jobs'[k].status = "none" <=> jobs[k].status = "none"
    BY <1>1, <2>1, <2>2, StatusWrites
  <2> DEFINE r == [IdleClient EXCEPT !.phase = "publishing", !.role = "reaper", !.job = j]
  <2>4. r \in ClientRecords /\ r.job = j
    BY <1>1 DEF ClientRecords
  <2>5. client' = [client EXCEPT ![c] = r]
    BY <1>4 DEF RecoverStale
  <2> HIDE DEF r
  <2>6. QED
    BY <1>1, <1>4, <2>1, <2>3, <2>4, <2>5, ClientSteps DEF RecoverStale
<1>5. ASSUME NEW b \in BatchIds, Reconcile(c, b)
      PROVE  TypeInv'
  <2> DEFINE completed == Cardinality({j \in JobsOf(b) : jobs[j].status = "completed"})
             failed    == Cardinality(JobsOf(b)) - completed
  <2>1. completed \in 0..MaxJobs /\ failed \in 0..MaxJobs
    <3>1. JobsOf(b) \in SUBSET JobIds
      BY DEF JobsOf, Created
    <3>2. {j \in JobsOf(b) : jobs[j].status = "completed"} \in SUBSET JobsOf(b)
      OBVIOUS
    <3>3. IsFiniteSet(JobsOf(b)) /\ Cardinality(JobsOf(b)) \in 0..MaxJobs /\ completed \in 0..MaxJobs
      BY <3>1, <3>2, JobsAreCounted
    <3>4. completed <= Cardinality(JobsOf(b))
      BY <3>2, <3>3, FS_Subset
    <3> HIDE DEF completed
    <3>5. QED
      BY <3>3, <3>4, DispatcherAssumption
  <2>2. /\ batches' = [batches EXCEPT
              ![b].completed = completed, ![b].failed = failed,
              ![b].status = IF failed > 0 THEN "completed_with_errors" ELSE "completed"]
        /\ batches[b].status # "none"
    BY <1>5 DEF Reconcile, Warning, Unsettled
  <2> HIDE DEF completed, failed
  <2>3. /\ batches' \in [BatchIds -> BatchRecords]
        /\ \A o \in BatchIds : batches'[o].status = "none" <=> batches[o].status = "none"
    BY <1>1, <2>1, <2>2 DEF BatchRecords, DoneStatuses
  <2>4. client' = client /\ client[c] = IdleClient /\ UNCHANGED <<jobs, queue, worker>>
    BY <1>5 DEF Reconcile, MayRun, Idle
  <2>5. QED
    BY <1>1, <1>2, <2>3, <2>4, ClientSteps
<1>6. QED
  BY <1>3, <1>4, <1>5

\* A step of a task that changes the status of attempts.
LEMMA TaskSteps ==
    ASSUME TypeInv, NEW w \in Workers, NEW r \in WorkerRecords,
           r.phase # "idle" => r.job \in Created,
           r.phase = "refreshed" => r.fresh.status # "none",
           r.phase = "advancing" => r.next \in Created,
           worker' = [worker EXCEPT ![w] = r],
           jobs' \in [JobIds -> JobRecords], batches' \in [BatchIds -> BatchRecords],
           \A j \in JobIds : /\ jobs'[j].batch = jobs[j].batch
                             /\ jobs'[j].status = "none" <=> jobs[j].status = "none",
           \A b \in BatchIds : batches'[b].status = "none" <=> batches[b].status = "none",
           queue' \subseteq Created, client' = client
    PROVE  TypeInv'
<1>1. Created' = Created /\ Opened' = Opened /\ NumberedInOrder' /\ JobsAreBatched'
  BY NothingCreated
<1>2. /\ worker' \in [Workers -> WorkerRecords]
      /\ \A v \in Workers :
            /\ worker'[v].phase # "idle" => worker'[v].job \in Created'
            /\ worker'[v].phase = "refreshed" => worker'[v].fresh.status # "none"
            /\ worker'[v].phase = "advancing" => worker'[v].next \in Created'
  BY <1>1, WorkerMoves
<1>3. TypeOK'
  BY <1>2 DEF TypeInv, TypeOK, WorkerRecords, Created
<1>4. HandsHoldJobs'
  BY <1>1, <1>2 DEF TypeInv, HandsHoldJobs, Busy
<1>5. QED
  BY <1>1, <1>3, <1>4 DEF TypeInv

\* The rows that a task's commit leaves.
LEMMA EndedTypes ==
    ASSUME TypeInv, NEW w \in Workers, worker[w].phase = "refreshed"
    PROVE  /\ worker[w].job \in Created /\ jobs[worker[w].job].batch \in Opened
           /\ EndedJobs(w) \in [JobIds -> JobRecords]
           /\ EndedBatches(w) \in [BatchIds -> BatchRecords]
           /\ \A j \in JobIds : /\ EndedJobs(w)[j].batch = jobs[j].batch
                                /\ EndedJobs(w)[j].status = "none" <=> jobs[j].status = "none"
           /\ \A b \in BatchIds : EndedBatches(w)[b].status = "none" <=> batches[b].status = "none"
<1> DEFINE j == worker[w].job
           b == jobs[j].batch
<1>1. worker[w] \in WorkerRecords /\ worker[w].fresh.status # "none"
  BY DEF TypeInv, TypeOK, HandsHoldJobs, WorkerRecords
<1>2. j \in Created /\ b \in Opened
  BY DEF TypeInv, HandsHoldJobs, JobsAreBatched, Busy
<1>3. /\ jobs \in [JobIds -> JobRecords] /\ batches \in [BatchIds -> BatchRecords]
      /\ j \in JobIds /\ b \in BatchIds /\ jobs[j].status # "none" /\ batches[b].status # "none"
  BY <1>2 DEF TypeInv, TypeOK, Created, Opened
<1>4. /\ EndedJobs(w) \in [JobIds -> JobRecords]
      /\ \A k \in JobIds : /\ EndedJobs(w)[k].batch = jobs[k].batch
                           /\ EndedJobs(w)[k].status = "none" <=> jobs[k].status = "none"
  <2>1. worker[w].outcome \in {"completed", "failed"}
    BY <1>1 DEF WorkerRecords
  <2>2. QED
    BY <1>3, <2>1 DEF EndedJobs, JobRecords, TerminalStatuses
<1>5. /\ Written(b, worker[w].loaded, worker[w].fresh) \in BatchRecords
      /\ Written(b, worker[w].loaded, worker[w].fresh).status # "none"
  BY <1>1, <1>3, WrittenType DEF WorkerRecords
<1>6. /\ EndedBatches(w) \in [BatchIds -> BatchRecords]
      /\ \A o \in BatchIds : EndedBatches(w)[o].status = "none" <=> batches[o].status = "none"
  BY <1>3, <1>5 DEF EndedBatches
<1>7. QED
  BY <1>2, <1>4, <1>6

\* ... the end of a task, whichever columns its commit writes ...
LEMMA EndTaskTypes ==
    ASSUME TypeInv, NEW w \in Workers, EndTask(w)
    PROVE  TypeInv'
<1>1. /\ worker[w] \in WorkerRecords /\ IdleWorker \in WorkerRecords
      /\ IdleWorker.phase = "idle" /\ queue \subseteq Created
      /\ worker \in [Workers -> WorkerRecords] /\ worker[w].phase = "refreshed"
  BY IdleTypes DEF TypeInv, TypeOK, HandsHoldJobs, WorkerRecords, EndTask, Commit, CommitAndAdvance
<1>2. /\ worker[w].job \in Created
      /\ EndedJobs(w) \in [JobIds -> JobRecords]
      /\ EndedBatches(w) \in [BatchIds -> BatchRecords]
      /\ \A j \in JobIds : /\ EndedJobs(w)[j].batch = jobs[j].batch
                           /\ EndedJobs(w)[j].status = "none" <=> jobs[j].status = "none"
      /\ \A b \in BatchIds : EndedBatches(w)[b].status = "none" <=> batches[b].status = "none"
  BY <1>1, EndedTypes
<1>3. CASE Commit(w)
  BY <1>1, <1>2, <1>3, TaskSteps DEF Commit, Rest
<1>4. CASE CommitAndAdvance(w)
  <2>1. PICK n \in BatchIds :
          /\ IsNextBatch(jobs[worker[w].job].batch, n)
          /\ batches' = [EndedBatches(w) EXCEPT ![n].status = "running"]
          /\ \/ \E k \in PendingOf(n) :
                   /\ jobs' = [EndedJobs(w) EXCEPT ![k].status = "queued"]
                   /\ worker' = [worker EXCEPT ![w].phase = "advancing", ![w].next = k]
                   /\ UNCHANGED queue
             \/ /\ PendingOf(n) = {}
                /\ jobs' = EndedJobs(w)
                /\ queue' = queue \ {worker[w].job}
                /\ Rest(w)
    BY <1>4 DEF CommitAndAdvance
  <2>2. batches[n].status # "none"
    BY <2>1 DEF IsNextBatch
  <2>3. /\ batches' \in [BatchIds -> BatchRecords]
        /\ \A b \in BatchIds : batches'[b].status = "none" <=> batches[b].status = "none"
    BY <1>2, <2>1, <2>2 DEF BatchRecords
  <2>4. client' = client
    BY <1>4 DEF CommitAndAdvance
  <2>5. CASE \E k \in PendingOf(n) :
                   /\ jobs' = [EndedJobs(w) EXCEPT ![k].status = "queued"]
                   /\ worker' = [worker EXCEPT ![w].phase = "advancing", ![w].next = k]
                   /\ UNCHANGED queue
    <3>1. PICK k \in PendingOf(n) :
                   /\ jobs' = [EndedJobs(w) EXCEPT ![k].status = "queued"]
                   /\ worker' = [worker EXCEPT ![w].phase = "advancing", ![w].next = k]
                   /\ UNCHANGED queue
      BY <2>5
    <3>2. k \in Created /\ k \in JobIds /\ jobs[k].status # "none"
      BY DEF PendingOf, JobsOf, Created
    <3>3. /\ jobs' \in [JobIds -> JobRecords]
          /\ \A j \in JobIds : /\ jobs'[j].batch = jobs[j].batch
                               /\ jobs'[j].status = "none" <=> jobs[j].status = "none"
      BY <1>2, <3>1, <3>2 DEF JobRecords
    <3> DEFINE r == [worker[w] EXCEPT !.phase = "advancing", !.next = k]
    <3>4. r \in WorkerRecords /\ r.phase = "advancing" /\ r.next = k /\ r.job = worker[w].job
      BY <1>1, <3>2 DEF WorkerRecords
    <3>5. worker' = [worker EXCEPT ![w] = r]
      BY <1>1, <3>1
    <3> HIDE DEF r
    <3>6. queue' \subseteq Created
      BY <1>1, <3>1
    <3>7. QED
      BY <1>2, <2>3, <2>4, <3>2, <3>3, <3>4, <3>5, <3>6, TaskSteps
  <2>6. CASE /\ PendingOf(n) = {}
             /\ jobs' = EndedJobs(w)
             /\ queue' = queue \ {worker[w].job}
             /\ Rest(w)
    BY <1>1, <1>2, <2>3, <2>4, <2>6, TaskSteps DEF Rest
  <2>7. QED
    BY <2>1, <2>5, <2>6
<1>5. QED
  BY <1>3, <1>4 DEF EndTask

\* ... and the other steps of a task.
LEMMA TaskTypes ==
    ASSUME TypeInv, NEW w \in Workers,
           \/ TakeAny(w) \/ Refresh(w) \/ AdvancePublish(w) \/ AdvancePublishFails(w)
           \/ AdvanceCommitFails(w) \/ WorkerDies(w)
    PROVE  TypeInv'
<1>1. /\ TypeOK /\ worker[w] \in WorkerRecords /\ IdleWorker \in WorkerRecords
      /\ IdleWorker.phase = "idle" /\ queue \subseteq Created
      /\ worker \in [Workers -> WorkerRecords]
      /\ jobs \in [JobIds -> JobRecords] /\ batches \in [BatchIds -> BatchRecords]
  BY IdleTypes DEF TypeInv, TypeOK, HandsHoldJobs, WorkerRecords
<1>2. ASSUME NEW j \in JobIds, Take(w, j)
      PROVE  TypeInv'
  <2>1. j \in Created
    BY <1>1, <1>2 DEF Take, Delivered
  <2>2. jobs' = [jobs EXCEPT ![j].status = "running"]
    BY <1>2 DEF Take
  <2>3. /\ jobs' \in [JobIds -> JobRecords]
        /\ \A k \in JobIds : /\ jobs'[k].batch = jobs[k].batch
                             /\ jobs'[k].status = "none" <=> jobs[k].status = "none"
    BY <1>1, <2>1, <2>2, StatusWrites
  <2> DEFINE r == [IdleWorker EXCEPT !.phase = "working", !.job = j]
  <2>4. r \in WorkerRecords /\ r.phase = "working" /\ r.job = j
    BY <1>1 DEF WorkerRecords
  <2>5. worker' = [worker EXCEPT ![w] = r]
    BY <1>2 DEF Take
  <2> HIDE DEF r
  <2>6. QED
    BY <1>1, <1>2, <2>1, <2>3, <2>4, <2>5, TaskSteps DEF Take
<1>3. ASSUME NEW j \in JobIds, Ignore(w, j)
      PROVE  TypeInv'
  <2>1. Created' = Created /\ Opened' = Opened
    BY <1>3 DEF Ignore, Created, Opened
  <2>2. QED
    BY <1>3, <2>1 DEF Ignore, TypeInv, TypeOK, NumberedInOrder, JobsAreBatched, HandsHoldJobs, Busy
<1>4. CASE Refresh(w)
  <2> DEFINE j == worker[w].job
             b == jobs[j].batch
  <2>1. PICK outcome \in {"completed", "failed"} :
             worker' = [worker EXCEPT ![w] =
                 [IdleWorker EXCEPT !.phase = "refreshed", !.job = j, !.outcome = outcome,
                    !.loaded = batches[b],
                    !.fresh = Refreshed(b, [k \in JobIds |-> IF k = j THEN outcome ELSE jobs[k].status])]]
    BY <1>4 DEF Refresh
  <2> DEFINE fresh == Refreshed(b, [k \in JobIds |-> IF k = j THEN outcome ELSE jobs[k].status])
             r == [IdleWorker EXCEPT !.phase = "refreshed", !.job = j, !.outcome = outcome,
                                     !.loaded = batches[b], !.fresh = fresh]
  <2>2. j \in Created /\ b \in Opened /\ b \in BatchIds /\ j \in JobIds
    BY <1>4 DEF Refresh, TypeInv, HandsHoldJobs, JobsAreBatched, Busy, Opened, Created
  <2>3. fresh \in BatchRecords /\ fresh.status # "none" /\ batches[b] \in BatchRecords
    BY <1>1, <2>2, RefreshedType
  <2> HIDE DEF fresh
  <2>4. r \in WorkerRecords /\ r.phase = "refreshed" /\ r.job = j /\ r.fresh = fresh
    BY <1>1, <2>2, <2>3 DEF WorkerRecords
  <2>5. worker' = [worker EXCEPT ![w] = r]
    BY <2>1 DEF fresh
  <2> HIDE DEF r
  <2>6. QED
    BY <1>1, <1>4, <2>2, <2>3, <2>4, <2>5, TaskSteps DEF Refresh
<1>5. CASE AdvancePublish(w)
  <2>1. worker[w].next \in Created
    BY <1>5 DEF AdvancePublish, TypeInv, HandsHoldJobs
  <2>2. QED
    BY <1>1, <1>5, <2>1, TaskSteps DEF AdvancePublish, Rest
<1>6. CASE AdvancePublishFails(w)
  <2> DEFINE k == worker[w].next
             n == jobs[k].batch
             fresh == Refreshed(n, [j \in JobIds |-> jobs'[j].status])
  <2>1. k \in Created /\ n \in Opened /\ n \in BatchIds
    BY <1>6 DEF AdvancePublishFails, TypeInv, HandsHoldJobs, JobsAreBatched, Opened
  <2>2. jobs' \in {jobs, Refused(k)} /\ batches' \in {batches, [batches EXCEPT ![n] = fresh]}
    BY <1>6 DEF AdvancePublishFails
  <2>3. fresh \in BatchRecords /\ fresh.status # "none"
    BY <1>1, <2>1, RefreshedType
  <2> HIDE DEF k, n, fresh
  <2>4. /\ jobs' \in [JobIds -> JobRecords]
        /\ \A j \in JobIds : /\ jobs'[j].batch = jobs[j].batch
                             /\ jobs'[j].status = "none" <=> jobs[j].status = "none"
    <3>1. CASE jobs' = jobs
      BY <1>1, <3>1
    <3>2. CASE jobs' = [jobs EXCEPT ![k].status = "failed", ![k].cause = "enqueue"]
      BY <1>1, <2>1, <3>2, StatusWrites DEF TerminalStatuses
    <3>3. QED
      BY <2>2, <3>1, <3>2 DEF Refused
  <2>5. /\ batches' \in [BatchIds -> BatchRecords]
        /\ \A b \in BatchIds : batches'[b].status = "none" <=> batches[b].status = "none"
    BY <1>1, <2>1, <2>2, <2>3 DEF Opened
  <2>6. QED
    BY <1>1, <1>6, <2>4, <2>5, TaskSteps DEF AdvancePublishFails, Rest
<1>7. CASE AdvanceCommitFails(w)
  <2> DEFINE j == worker[w].job
             b == jobs[j].batch
             fresh == Refreshed(b, [k \in JobIds |-> IF k = j THEN "failed" ELSE jobs[k].status])
             r == [IdleWorker EXCEPT !.phase = "refreshed", !.job = j, !.outcome = "failed",
                                     !.loaded = batches[b], !.fresh = fresh]
  <2>1. /\ j \in Created /\ b \in Opened /\ b \in BatchIds /\ j \in JobIds
        /\ worker[w].next \in Created
    BY <1>7 DEF AdvanceCommitFails, TypeInv, HandsHoldJobs, JobsAreBatched, Busy, Opened, Created
  <2>2. queue' = queue \cup {worker[w].next} /\ UNCHANGED <<batches, client>>
    BY <1>7 DEF AdvanceCommitFails
  <2>3. fresh \in BatchRecords /\ fresh.status # "none" /\ batches[b] \in BatchRecords
    BY <1>1, <2>1, RefreshedType
  <2>4. \/ jobs' = [jobs EXCEPT ![j].status = "running"] /\ Rest(w)
        \/ worker' = [worker EXCEPT ![w] = r] /\ UNCHANGED jobs
    BY <1>7 DEF AdvanceCommitFails
  <2> HIDE DEF fresh
  <2>5. r \in WorkerRecords /\ r.phase = "refreshed" /\ r.job = j /\ r.fresh = fresh
    BY <1>1, <2>1, <2>3 DEF WorkerRecords
  <2> HIDE DEF r
  <2>6. CASE jobs' = [jobs EXCEPT ![j].status = "running"] /\ Rest(w)
    <3>1. /\ jobs' \in [JobIds -> JobRecords]
          /\ \A k \in JobIds : /\ jobs'[k].batch = jobs[k].batch
                               /\ jobs'[k].status = "none" <=> jobs[k].status = "none"
      BY <1>1, <2>1, <2>6, StatusWrites
    <3>2. QED
      BY <1>1, <2>1, <2>2, <2>6, <3>1, TaskSteps DEF Rest
  <2>7. CASE worker' = [worker EXCEPT ![w] = r] /\ UNCHANGED jobs
    BY <1>1, <2>1, <2>2, <2>3, <2>5, <2>7, TaskSteps
  <2>8. QED
    BY <2>4, <2>6, <2>7
<1>8. CASE WorkerDies(w)
  BY <1>1, <1>8, TaskSteps DEF WorkerDies, Rest
<1>9. QED
  BY <1>2, <1>3, <1>4, <1>5, <1>6, <1>7, <1>8 DEF TakeAny

\* No step spoils a type, whatever the clients do.
LEMMA TypeStep == TypeInv /\ [Next]_vars => TypeInv'
<1> SUFFICES ASSUME TypeInv, [Next]_vars PROVE TypeInv'
  OBVIOUS
<1>1. CASE UNCHANGED vars
  <2>1. Created' = Created /\ Opened' = Opened
    BY <1>1 DEF vars, Created, Opened
  <2>2. QED
    BY <1>1, <2>1 DEF vars, TypeInv, TypeOK, NumberedInOrder, JobsAreBatched, HandsHoldJobs, Busy
<1>2. ASSUME NEW c \in Clients,
             \/ ProcessSelected(c) \/ Dispatch(c) \/ ClientDies(c) \/ Reap(c)
             \/ \E j \in JobIds : Cancel(c, j)
             \/ \E b \in BatchIds : Reconcile(c, b)
      PROVE  TypeInv'
  BY <1>2, ProcessSelectedType, DispatchTypes, CareTypes DEF Reap
<1>3. ASSUME NEW w \in Workers,
             \/ TakeAny(w) \/ Refresh(w) \/ EndTask(w)
             \/ AdvancePublish(w) \/ AdvancePublishFails(w) \/ AdvanceCommitFails(w)
             \/ WorkerDies(w)
      PROVE  TypeInv'
  BY <1>3, EndTaskTypes, TaskTypes
<1>4. QED
  BY <1>1, <1>2, <1>3 DEF Next

\* Types, the numbering of attempts and batches, and what each process has in hand.
THEOREM TypesInvariant == Spec => []TypeInv
BY InitTypes, TypeStep, PTL DEF Spec

\* Attempts, batches, the queue and what each process carries keep their types, for
\* any number of clients in any roles, of tasks, attempts and batches.
THEOREM DispatcherTypeCorrect == Spec => []TypeOK
<1>1. TypeInv => TypeOK
  BY DEF TypeInv
<1>2. QED
  BY <1>1, TypesInvariant, PTL

-----------------------------------------------------------------------------
(***************************************************************************)
(* One attempt at a time.  The promises about limit, batches and order are *)
(* those of a channel with one user and no repairs: two requests, or a     *)
(* request and the reaper (run reaped_backlog), do break them.             *)
(***************************************************************************)
\* One request at a time, of a user who asks for batches or cancels attempts,
\* CHANNEL_ACTIVE_LIMIT as it is in the code, and no failing commit of a task id after a
\* batch went on: that one comes back to the attempt that had completed.
OneUser ==
    /\ \A c, d \in Clients : c = d
    /\ \A c \in Clients : Roles[c] \subseteq {"process", "cancel"}
    /\ ActiveLimit = 1
    /\ ~TaskIdErrors

\* Nor does a completed attempt come back then.
LEMMA NothingComesBack ==
    ASSUME OneUser, NEW w \in Workers
    PROVE  ~AdvanceCommitFails(w)
BY DEF OneUser, AdvanceCommitFails

AtMostOne == \A i, j \in ActiveJobs : i = j

\* Nothing is active from the count to the promotion ...
ClearToPromote ==
    \A c \in Clients : client[c].phase \in {"picking", "picked"} => ActiveJobs = {}

\* ... and the attempt that was picked still waits.
PickedWaits ==
    \A c \in Clients : client[c].phase = "picked" =>
        /\ jobs[client[c].job].status = "pending"
        /\ Unsettled(jobs[client[c].job].batch)

\* A message is published after its attempt has left the backlog.
QueuedLeft == \A j \in queue : jobs[j].status # "pending"

\* An attempt that the request promoted waits for its message, and no task has it.
PromotedWaits ==
    \A c \in Clients : client[c].phase = "publishing" =>
        /\ jobs[client[c].job].status = "queued"
        /\ client[c].job \notin queue
        /\ \A w \in Workers : worker[w].phase = "advancing" => worker[w].next # client[c].job

\* So does the one that the end of a batch released, unless it is cancelled.
ReleasedWaits ==
    \A w \in Workers : worker[w].phase = "advancing" =>
        /\ Terminal(worker[w].job)
        /\ jobs[worker[w].next].status \in {"queued", "cancelled"}
        /\ worker[w].next \notin queue
        /\ \A v \in Workers : v # w /\ worker[v].phase = "advancing"
                              => worker[v].next # worker[w].next

TasksRun ==
    \A w \in Workers : worker[w].phase \in {"working", "refreshed"}
                       => jobs[worker[w].job].status = "running"

TasksApart ==
    \A v, w \in Workers : v # w /\ Busy(v) /\ Busy(w) => worker[v].job # worker[w].job

ActiveInv ==
    /\ AtMostOne
    /\ ClearToPromote
    /\ PickedWaits
    /\ QueuedLeft
    /\ PromotedWaits
    /\ ReleasedWaits
    /\ TasksRun
    /\ TasksApart

\* A refreshed batch is settled if, and only if, the statuses are all terminal.
LEMMA RefreshedSettles ==
    ASSUME TypeOK, NEW b \in BatchIds, NEW statuses
    PROVE  LET C == {j \in JobsOf(b) : statuses[j] = "completed"}
               F == {j \in JobsOf(b) : statuses[j] \in {"failed", "cancelled"}}
               row == Refreshed(b, statuses)
           IN  /\ row.completed = Cardinality(C) /\ row.failed = Cardinality(F)
               /\ row.request = batches[b].request /\ row.number = batches[b].number
               /\ Cardinality(C) \in Nat /\ Cardinality(F) \in Nat
               /\ (\A j \in JobsOf(b) : statuses[j] \in TerminalStatuses)
                  => /\ row.status \in DoneStatuses
                     /\ row.failed = Cardinality(JobsOf(b)) - row.completed
               /\ ~(\A j \in JobsOf(b) : statuses[j] \in TerminalStatuses)
                  => row.status \in {"running", batches[b].status}
<1> DEFINE C == {j \in JobsOf(b) : statuses[j] = "completed"}
           F == {j \in JobsOf(b) : statuses[j] \in {"failed", "cancelled"}}
           row == Refreshed(b, statuses)
<1>1. JobsOf(b) \in SUBSET JobIds /\ C \in SUBSET JobIds /\ F \in SUBSET JobIds
      /\ C \cap F = {} /\ C \cup F \subseteq JobsOf(b)
  BY DEF JobsOf, Created
<1>2. /\ IsFiniteSet(C) /\ IsFiniteSet(F) /\ IsFiniteSet(JobsOf(b))
      /\ Cardinality(C) \in Nat /\ Cardinality(F) \in Nat /\ Cardinality(JobsOf(b)) \in Nat
  BY <1>1, JobsAreCounted
<1>3. Cardinality(C \cup F) = Cardinality(C) + Cardinality(F)
  <2>1. Cardinality(C \cup F) = Cardinality(C) + Cardinality(F) - Cardinality(C \cap F)
    BY <1>2, FS_Union
  <2>2. Cardinality(C \cap F) = 0
    BY <1>1, FS_EmptySet
  <2> HIDE DEF C, F
  <2>3. QED
    BY <1>2, <2>1, <2>2
<1>4. Cardinality(C) + Cardinality(F) = Cardinality(JobsOf(b))
      <=> \A j \in JobsOf(b) : statuses[j] \in TerminalStatuses
  <2>1. Cardinality(C \cup F) = Cardinality(JobsOf(b)) => C \cup F = JobsOf(b)
    BY <1>1, <1>2, FS_Subset
  <2>2. C \cup F = JobsOf(b) <=> \A j \in JobsOf(b) : statuses[j] \in TerminalStatuses
    BY <1>1 DEF TerminalStatuses
  <2>3. QED
    BY <1>3, <2>1, <2>2
<1>5. batches[b] \in BatchRecords
  BY DEF TypeOK
<1>6. row = [batches[b] EXCEPT
                !.completed = Cardinality(C), !.failed = Cardinality(F),
                !.status = IF Cardinality(C) + Cardinality(F) = Cardinality(JobsOf(b))
                           THEN IF Cardinality(F) > 0 THEN "completed_with_errors" ELSE "completed"
                           ELSE IF Cardinality(C) + Cardinality(F) > 0 THEN "running"
                           ELSE batches[b].status]
  BY DEF Refreshed
<1> HIDE DEF C, F, row
<1>7. row.completed = Cardinality(C) /\ row.failed = Cardinality(F)
      /\ row.request = batches[b].request /\ row.number = batches[b].number
  BY <1>5, <1>6 DEF BatchRecords
<1>8. row.status = IF Cardinality(C) + Cardinality(F) = Cardinality(JobsOf(b))
                           THEN IF Cardinality(F) > 0 THEN "completed_with_errors" ELSE "completed"
                           ELSE IF Cardinality(C) + Cardinality(F) > 0 THEN "running"
                           ELSE batches[b].status
  BY <1>5, <1>6 DEF BatchRecords
<1>9. (\A j \in JobsOf(b) : statuses[j] \in TerminalStatuses)
      => row.status \in DoneStatuses /\ row.failed = Cardinality(JobsOf(b)) - row.completed
  <2>1. Cardinality(C) + Cardinality(F) = Cardinality(JobsOf(b))
        => row.failed = Cardinality(JobsOf(b)) - row.completed
    BY <1>2, <1>7
  <2>2. QED
    BY <1>4, <1>8, <2>1 DEF DoneStatuses
<1>10. ~(\A j \in JobsOf(b) : statuses[j] \in TerminalStatuses)
       => row.status \in {"running", batches[b].status}
  BY <1>4, <1>8
<1>11. QED
  BY <1>2, <1>7, <1>9, <1>10 DEF C, F, row

\* Below a limit of one means none at all.
LEMMA NoneActive ==
    ASSUME OneUser
    PROVE  /\ BelowLimit => ActiveJobs = {}
           /\ AtMostOne => LimitKept
<1>1. ActiveJobs \in SUBSET JobIds
  BY DEF ActiveJobs
<1>2. IsFiniteSet(ActiveJobs) /\ Cardinality(ActiveJobs) \in Nat
  BY <1>1, JobsAreCounted
<1>3. BelowLimit => ActiveJobs = {}
  <2>1. BelowLimit => Cardinality(ActiveJobs) = 0
    BY <1>2 DEF BelowLimit, OneUser
  <2>2. QED
    BY <1>2, <2>1, FS_EmptySet
<1>4. AtMostOne => LimitKept
  <2>1. CASE ActiveJobs = {}
    BY <2>1, FS_EmptySet DEF LimitKept, OneUser
  <2>2. CASE ActiveJobs # {}
    <3>1. AtMostOne => \E j : ActiveJobs = {j}
      BY <2>2 DEF AtMostOne
    <3>2. AtMostOne => Cardinality(ActiveJobs) = 1
      BY <3>1, FS_Singleton
    <3>3. QED
      BY <3>2 DEF LimitKept, OneUser
  <2>3. QED
    BY <2>1, <2>2
<1>5. QED
  BY <1>3, <1>4

\* No attempt is active at the start.
LEMMA InitActive == Init => ActiveInv
BY DEF Init, ActiveInv, AtMostOne, ClearToPromote, PickedWaits, QueuedLeft, PromotedWaits,
       ReleasedWaits, TasksRun, TasksApart, ActiveJobs, Busy, NoJob, IdleClient, IdleWorker

\* A step of the user that leaves every attempt and task as it is.
LEMMA UserMoves ==
    ASSUME OneUser, TypeInv, ActiveInv, NEW c \in Clients,
           UNCHANGED <<jobs, batches, queue, worker>>,
           client'[c].phase \in {"picking", "picked"} => ActiveJobs = {},
           client'[c].phase = "picked" => /\ jobs[client'[c].job].status = "pending"
                                          /\ Unsettled(jobs[client'[c].job].batch),
           client'[c].phase # "publishing"
    PROVE  ActiveInv'
<1>1. \A d \in Clients : d = c
  BY DEF OneUser
<1>2. AtMostOne' /\ ClearToPromote'
  BY <1>1 DEF ActiveInv, AtMostOne, ClearToPromote, ActiveJobs
<1>3. PickedWaits' /\ PromotedWaits'
  BY <1>1 DEF ActiveInv, PickedWaits, PromotedWaits, Unsettled
<1>4. QueuedLeft' /\ ReleasedWaits' /\ TasksRun' /\ TasksApart'
  BY DEF ActiveInv, QueuedLeft, ReleasedWaits, TasksRun, TasksApart, Busy, Terminal
<1>5. QED
  BY <1>2, <1>3, <1>4 DEF ActiveInv

\* A dispatch promotes an attempt only when none is active and keeps the layer.
LEMMA DispatchKeepsActive ==
    ASSUME OneUser, TypeInv, ActiveInv, NEW c \in Clients, Dispatch(c) \/ ClientDies(c)
    PROVE  ActiveInv'
<1>1. /\ \A d \in Clients : d = c
      /\ jobs \in [JobIds -> JobRecords] /\ batches \in [BatchIds -> BatchRecords]
      /\ client \in [Clients -> ClientRecords]
      /\ queue \subseteq Created /\ IdleClient.phase = "idle"
      /\ \A w \in Workers : Busy(w) => worker[w].job \in Created
      /\ \A w \in Workers : worker[w].phase = "advancing" => worker[w].next \in Created
  BY IdleTypes DEF OneUser, TypeInv, TypeOK, HandsHoldJobs, ClientRecords
<1>2. ASSUME UNCHANGED <<jobs, batches, queue, worker>>,
             Finish(c) \/ Enter(c, "counting")
      PROVE  ActiveInv'
  <2>1. client'[c].phase \in {"idle", "counting"}
    BY <1>1, <1>2 DEF Finish, Enter, ClientRecords
  <2>2. QED
    BY <1>2, <2>1, UserMoves
<1>3. CASE CheckManual(c) \/ ClientDies(c)
  BY <1>2, <1>3 DEF CheckManual, ClientDies
<1>4. CASE CountActive(c)
  <2>1. CASE BelowLimit
    <3>1. ActiveJobs = {}
      BY <2>1, NoneActive
    <3>2. client'[c].phase = "picking"
      BY <1>1, <1>4, <2>1 DEF CountActive, Enter, ClientRecords
    <3>3. QED
      BY <1>4, <3>1, <3>2, UserMoves DEF CountActive
  <2>2. CASE ~BelowLimit
    BY <1>2, <1>4, <2>2 DEF CountActive
  <2>3. QED
    BY <2>1, <2>2
<1>5. CASE Pick(c)
  <2>1. CASE Finish(c)
    BY <1>2, <1>5, <2>1 DEF Pick
  <2>2. CASE ~Finish(c)
    <3>1. PICK b \in BatchIds, j \in JobIds :
               /\ IsDispatchable(b, j)
               /\ client' = [client EXCEPT ![c].phase = "picked", ![c].job = j,
                                           ![c].opens = batches[b].status = "pending"]
      BY <1>5, <2>2 DEF Pick
    <3>2. client'[c].phase = "picked" /\ client'[c].job = j
      BY <1>1, <3>1 DEF ClientRecords
    <3>3. jobs[j].status = "pending" /\ Unsettled(jobs[j].batch)
      BY <3>1 DEF IsDispatchable, PendingOf, JobsOf
    <3>4. ActiveJobs = {}
      BY <1>5 DEF Pick, ActiveInv, ClearToPromote
    <3>5. QED
      BY <1>5, <3>2, <3>3, <3>4, UserMoves DEF Pick
  <2>3. QED
    BY <2>1, <2>2
<1>6. CASE Promote(c)
  <2> DEFINE j == client[c].job
  <2>1. /\ j \in JobIds /\ jobs[j].status = "pending" /\ ActiveJobs = {}
        /\ jobs' = [jobs EXCEPT ![j].status = "queued"]
        /\ client'[c].phase = "publishing" /\ client'[c].job = j
        /\ UNCHANGED <<queue, worker>>
    BY <1>1, <1>6 DEF Promote, Enter, ActiveInv, PickedWaits, ClearToPromote, ClientRecords
  <2> HIDE DEF j
  <2>2. /\ jobs'[j].status = "queued"
        /\ \A k \in JobIds : k # j => jobs'[k] = jobs[k]
    BY <1>1, <2>1 DEF JobRecords
  <2>3. AtMostOne'
    BY <2>1, <2>2 DEF AtMostOne, ActiveJobs
  <2>4. ClearToPromote' /\ PickedWaits'
    BY <1>1, <2>1 DEF ClearToPromote, PickedWaits
  <2>5. QueuedLeft'
    BY <1>1, <2>1, <2>2 DEF ActiveInv, QueuedLeft, Created
  <2>6. PromotedWaits'
    BY <1>1, <2>1, <2>2 DEF ActiveInv, QueuedLeft, ReleasedWaits, PromotedWaits, Created
  <2>7. ReleasedWaits'
    BY <1>1, <2>1, <2>2 DEF ActiveInv, ReleasedWaits, Created, Busy, Terminal, TerminalStatuses
  <2>8. TasksRun' /\ TasksApart'
    BY <1>1, <2>1, <2>2 DEF ActiveInv, TasksRun, TasksApart, Busy, Created
  <2>9. QED
    BY <2>3, <2>4, <2>5, <2>6, <2>7, <2>8 DEF ActiveInv
<1>7. CASE Publish(c)
  <2> DEFINE j == client[c].job
  <2>1. /\ client'[c].phase \in {"counting", "idle"}
        /\ queue' = queue \cup {j} /\ UNCHANGED <<jobs, batches, worker>>
        /\ jobs[j].status = "queued"
        /\ \A w \in Workers : worker[w].phase = "advancing" => worker[w].next # j
    BY <1>1, <1>7, IdleTypes
       DEF Publish, Finish, ActiveInv, PromotedWaits, ClientRecords
  <2> HIDE DEF j
  <2>2. AtMostOne' /\ ClearToPromote' /\ PickedWaits' /\ PromotedWaits'
    BY <1>1, <2>1 DEF ActiveInv, AtMostOne, ActiveJobs, ClearToPromote, PickedWaits, PromotedWaits
  <2>3. QueuedLeft'
    BY <2>1 DEF ActiveInv, QueuedLeft
  <2>4. ReleasedWaits' /\ TasksRun' /\ TasksApart'
    BY <2>1 DEF ActiveInv, ReleasedWaits, TasksRun, TasksApart, Busy, Terminal
  <2>5. QED
    BY <2>2, <2>3, <2>4 DEF ActiveInv
<1>8. CASE PublishFails(c)
  <2> DEFINE j == client[c].job
  <2>1. /\ client'[c].phase = "idle"
        /\ UNCHANGED <<batches, queue, worker>>
        /\ j \in JobIds /\ jobs[j].status = "queued"
        /\ \A w \in Workers : worker[w].phase = "advancing" => worker[w].next # j
    BY <1>1, <1>8 DEF PublishFails, Finish, ActiveInv, PromotedWaits, ClientRecords
  <2>2. CASE jobs' = jobs
    BY <1>2, <1>8, <2>2 DEF PublishFails
  <2>3. CASE jobs' = Refused(j)
    <3> HIDE DEF j
    <3>1. /\ jobs'[j].status = "failed"
          /\ \A k \in JobIds : k # j => jobs'[k] = jobs[k]
      BY <1>1, <2>1, <2>3 DEF Refused, JobRecords
    <3>2. AtMostOne' /\ ClearToPromote' /\ PickedWaits' /\ PromotedWaits'
      BY <1>1, <2>1, <3>1
         DEF ActiveInv, AtMostOne, ActiveJobs, ClearToPromote, PickedWaits, PromotedWaits
    <3>3. QueuedLeft'
      BY <1>1, <2>1, <3>1 DEF ActiveInv, QueuedLeft, Created
    <3>4. ReleasedWaits'
      BY <1>1, <2>1, <3>1 DEF ActiveInv, ReleasedWaits, Created, Busy, Terminal, TerminalStatuses
    <3>5. TasksRun' /\ TasksApart'
      BY <1>1, <2>1, <3>1 DEF ActiveInv, TasksRun, TasksApart, Busy, Created
    <3>6. QED
      BY <3>2, <3>3, <3>4, <3>5 DEF ActiveInv
  <2>4. QED
    BY <1>8, <2>2, <2>3 DEF PublishFails
<1>9. QED
  BY <1>3, <1>4, <1>5, <1>6, <1>7, <1>8 DEF Dispatch

\* What a request adds, and that it leaves the earlier attempts and batches alone.
LEMMA RequestAdds ==
    ASSUME TypeInv, NEW c \in Clients, ProcessSelected(c)
    PROVE  LET first == Cardinality(Opened) + 1 IN
           /\ Idle(c) /\ client' = [client EXCEPT ![c].phase = "dispatching"]
           /\ UNCHANGED <<queue, worker>>
           /\ Opened = 1..(first - 1) /\ first \in Nat \ {0} /\ first \in Opened'
           /\ \A j \in Created : j \in Created' /\ jobs'[j] = jobs[j]
           /\ \A b \in Opened : b \in Opened' /\ batches'[b] = batches[b] /\ JobsOf(b)' = JobsOf(b)
           /\ \A j \in Created' : j \notin Created =>
                 /\ jobs'[j].status = "pending" /\ jobs'[j].cause = "none"
                 /\ jobs'[j].batch \in Opened' /\ jobs'[j].batch \notin Opened
           /\ \A b \in Opened' : b \notin Opened =>
                 /\ batches'[b].status = IF b = first THEN "running" ELSE "pending"
                 /\ batches'[b].completed = 0 /\ batches'[b].failed = 0
                 /\ batches'[b].request = first /\ batches'[b].number = b - first + 1
                 /\ JobsOf(b)' # {}
                 /\ \A j \in JobsOf(b)' : j \notin Created
<1> DEFINE made  == Cardinality(Created)
           first == Cardinality(Opened) + 1
           batchOf(j) == first + (j - made - 1) \div BatchSize
<1>1. PICK last \in made + 1 .. MaxJobs :
          /\ jobs' = [j \in JobIds |->
                IF j \in made + 1 .. last
                THEN [NoJob EXCEPT !.status = "pending", !.batch = batchOf(j)] ELSE jobs[j]]
          /\ batches' = [b \in BatchIds |->
                IF b \in first .. batchOf(last)
                THEN [NoBatch EXCEPT !.status  = IF b = first THEN "running" ELSE "pending",
                                     !.request = first,
                                     !.number  = b - first + 1]
                ELSE batches[b]]
  BY DEF ProcessSelected
<1>2. /\ Created = 1..made /\ Opened = 1..(first - 1)
      /\ made \in Nat /\ first \in Nat \ {0} /\ first <= made + 1
      /\ batchOf(last) \in first..last
      /\ \A j \in made + 1 .. last : batchOf(j) \in first..batchOf(last)
      /\ \A b \in first..batchOf(last) : \E j \in made + 1 .. last : batchOf(j) = b
  BY RequestIsNumbered
<1> DEFINE final == batchOf(last)
<1>3. Idle(c) /\ client' = [client EXCEPT ![c].phase = "dispatching"] /\ UNCHANGED <<queue, worker>>
  BY DEF ProcessSelected, MayRun, Enter
<1> HIDE DEF made, first, batchOf, final
<1>4. last \in Nat /\ last <= MaxJobs /\ last >= made + 1 /\ final \in first..last /\ final \in Nat
  BY <1>2, DispatcherAssumption DEF final
<1>5. /\ made + 1 .. last \subseteq JobIds /\ first .. final \subseteq BatchIds
      /\ Created \cap (made + 1 .. last) = {} /\ Opened \cap (first .. final) = {}
  BY <1>2, <1>4, DispatcherAssumption DEF JobIds, BatchIds
<1>6. \A j \in made + 1 .. last : /\ jobs'[j].status = "pending" /\ jobs'[j].cause = "none"
                                  /\ jobs'[j].batch = batchOf(j)
  BY <1>1, <1>5 DEF NoJob
<1>7. \A j \in JobIds : j \notin made + 1 .. last => jobs'[j] = jobs[j]
  BY <1>1
<1>8. \A b \in first .. final :
          /\ batches'[b].status = IF b = first THEN "running" ELSE "pending"
          /\ batches'[b].completed = 0 /\ batches'[b].failed = 0
          /\ batches'[b].request = first /\ batches'[b].number = b - first + 1
  BY <1>1, <1>5 DEF NoBatch, final
<1>9. \A b \in BatchIds : b \notin first .. final => batches'[b] = batches[b]
  BY <1>1 DEF final
<1>10. \A j \in JobIds : j \in Created' <=> j \in Created \/ j \in made + 1 .. last
  BY <1>6, <1>7, <1>5 DEF Created
<1>11. \A b \in BatchIds : b \in Opened' <=> b \in Opened \/ b \in first .. final
  <2>1. \A b \in first .. final : batches'[b].status # "none"
    BY <1>8
  <2>2. QED
    BY <1>5, <1>9, <2>1 DEF Opened
<1>12. Created \subseteq JobIds /\ Created' \subseteq JobIds
       /\ Opened \subseteq BatchIds /\ Opened' \subseteq BatchIds
  BY DEF Created, Opened
<1>13. \A j \in Created : j \in Created' /\ jobs'[j] = jobs[j] /\ jobs[j].batch \in Opened
  BY <1>5, <1>7, <1>10, <1>12 DEF TypeInv, JobsAreBatched
<1>14. \A j \in Created' : j \notin Created =>
          /\ j \in made + 1 .. last
          /\ jobs'[j].batch = batchOf(j) /\ batchOf(j) \in first .. final
          /\ batchOf(j) \in Opened' /\ batchOf(j) \notin Opened
  <2>1. \A j \in made + 1 .. last : batchOf(j) \in first .. final
    BY <1>2 DEF final
  <2>2. QED
    BY <1>5, <1>6, <1>10, <1>11, <1>12, <2>1
<1>15. \A b \in Opened : b \in Opened' /\ batches'[b] = batches[b]
  BY <1>5, <1>9, <1>11, <1>12
<1>16. \A b \in Opened : JobsOf(b)' = JobsOf(b)
  BY <1>13, <1>14 DEF JobsOf
<1>17. \A b \in Opened' : b \notin Opened =>
          /\ b \in first .. final
          /\ JobsOf(b)' # {}
          /\ \A j \in JobsOf(b)' : j \notin Created
  <2> SUFFICES ASSUME NEW b \in Opened', b \notin Opened
               PROVE  /\ b \in first .. final
                      /\ JobsOf(b)' # {}
                      /\ \A j \in JobsOf(b)' : j \notin Created
    OBVIOUS
  <2>1. b \in first .. final
    BY <1>11, <1>12
  <2>2. PICK j \in made + 1 .. last : batchOf(j) = b
    BY <1>2, <2>1 DEF final
  <2>3. j \in Created' /\ jobs'[j].batch = b
    BY <1>5, <1>6, <1>10, <2>2
  <2>4. QED
    BY <1>13, <2>1, <2>3 DEF JobsOf
<1>18. first \in Opened'
  BY <1>2, <1>4, <1>5, <1>11
<1>19. QED
  BY <1>2, <1>3, <1>6, <1>8, <1>13, <1>14, <1>15, <1>16, <1>17, <1>18 DEF first

\* A request only adds waiting attempts.
LEMMA RequestKeepsActive ==
    ASSUME OneUser, TypeInv, ActiveInv, NEW c \in Clients, ProcessSelected(c)
    PROVE  ActiveInv'
<1>1. /\ client' = [client EXCEPT ![c].phase = "dispatching"] /\ UNCHANGED <<queue, worker>>
      /\ \A j \in Created : j \in Created' /\ jobs'[j] = jobs[j]
      /\ \A j \in Created' : j \notin Created => jobs'[j].status = "pending"
  BY RequestAdds
<1>2. ActiveJobs' = ActiveJobs
  <2>1. \A j \in JobIds : j \in ActiveJobs => j \in Created
    BY DEF ActiveJobs, Created
  <2>2. \A j \in JobIds : j \in ActiveJobs' => j \in Created'
    BY DEF ActiveJobs, Created
  <2>3. QED
    BY <1>1, <2>1, <2>2 DEF ActiveJobs
<1>3. \A d \in Clients : client'[d].phase = "dispatching"
  BY <1>1 DEF OneUser, TypeInv, TypeOK
<1>4. AtMostOne' /\ ClearToPromote' /\ PickedWaits' /\ PromotedWaits'
  BY <1>2, <1>3 DEF ActiveInv, AtMostOne, ClearToPromote, PickedWaits, PromotedWaits
<1>5. QueuedLeft' /\ ReleasedWaits' /\ TasksRun' /\ TasksApart'
  BY <1>1 DEF ActiveInv, TypeInv, HandsHoldJobs, QueuedLeft, ReleasedWaits, TasksRun, TasksApart,
              Busy, Terminal
<1>6. QED
  BY <1>4, <1>5 DEF ActiveInv

\* A cancellation takes an attempt out of the backlog or off the queue, none from a task.
LEMMA CancelKeepsActive ==
    ASSUME OneUser, TypeInv, ActiveInv, NEW c \in Clients, NEW j \in JobIds, Cancel(c, j)
    PROVE  ActiveInv'
<1>1. /\ jobs[j].status \in {"pending", "queued"}
      /\ jobs' = [jobs EXCEPT ![j].status = "cancelled"]
      /\ UNCHANGED <<batches, queue, client, worker>>
      /\ client[c].phase = "idle"
      /\ jobs \in [JobIds -> JobRecords]
  BY IdleTypes DEF Cancel, MayRun, Idle, TypeInv, TypeOK
<1>2. /\ jobs'[j].status = "cancelled"
      /\ \A k \in JobIds : k # j => jobs'[k] = jobs[k]
  BY <1>1 DEF JobRecords
<1>3. \A d \in Clients : client'[d].phase = "idle"
  BY <1>1 DEF OneUser
<1>4. AtMostOne' /\ ClearToPromote' /\ PickedWaits' /\ PromotedWaits'
  BY <1>2, <1>3 DEF ActiveInv, AtMostOne, ActiveJobs, ClearToPromote, PickedWaits, PromotedWaits
<1>5. /\ queue \subseteq JobIds
      /\ \A w \in Workers : Busy(w) => worker[w].job \in JobIds
      /\ \A w \in Workers : worker[w].phase = "advancing" => worker[w].next \in JobIds
  BY DEF TypeInv, HandsHoldJobs, Created
<1>6. QueuedLeft' /\ TasksRun' /\ TasksApart'
  BY <1>1, <1>2, <1>5 DEF ActiveInv, QueuedLeft, TasksRun, TasksApart, Busy
<1>7. ReleasedWaits'
  BY <1>1, <1>2, <1>5 DEF ActiveInv, ReleasedWaits, Busy, Terminal, TerminalStatuses
<1>8. QED
  BY <1>4, <1>6, <1>7 DEF ActiveInv

\* Receiving, refreshing, publishing and dying leave one attempt active.
LEMMA TasksKeepActive ==
    ASSUME OneUser, TypeInv, ActiveInv, NEW w \in Workers,
           TakeAny(w) \/ Refresh(w) \/ AdvancePublish(w) \/ WorkerDies(w)
    PROVE  ActiveInv'
<1>1. /\ jobs \in [JobIds -> JobRecords] /\ worker \in [Workers -> WorkerRecords]
      /\ queue \subseteq Created /\ Created \subseteq JobIds /\ IdleWorker.phase = "idle"
      /\ \A v \in Workers : Busy(v) => worker[v].job \in Created
      /\ \A v \in Workers : worker[v].phase = "advancing" => worker[v].next \in Created
  BY IdleTypes DEF TypeInv, TypeOK, HandsHoldJobs, WorkerRecords, Created
<1>2. ASSUME NEW j \in JobIds, Take(w, j)
      PROVE  ActiveInv'
  <2>1. /\ j \in queue /\ jobs[j].status \in {"queued", "running"}
        /\ worker[w].phase = "idle"
        /\ \A v \in Workers : Busy(v) => worker[v].job # j
        /\ jobs' = [jobs EXCEPT ![j].status = "running"]
        /\ UNCHANGED <<batches, queue, client>>
    BY <1>1, <1>2 DEF Take, Delivered, Terminal, ActiveInv, QueuedLeft, Created, JobRecords, Busy
  <2>2. /\ jobs'[j].status = "running"
        /\ \A k \in JobIds : k # j => jobs'[k] = jobs[k]
    BY <1>1, <2>1 DEF JobRecords
  <2>3. /\ worker'[w].phase = "working" /\ worker'[w].job = j
        /\ \A v \in Workers : v # w => worker'[v] = worker[v]
    BY <1>1, <1>2 DEF Take, IdleWorker
  <2>4. ActiveJobs' = ActiveJobs /\ ActiveJobs # {}
    BY <2>1, <2>2 DEF ActiveJobs
  <2>5. AtMostOne' /\ ClearToPromote' /\ PickedWaits'
    BY <2>1, <2>4 DEF ActiveInv, AtMostOne, ClearToPromote, PickedWaits
  <2>6. QueuedLeft'
    BY <1>1, <2>1, <2>2 DEF ActiveInv, QueuedLeft
  <2>7. PromotedWaits'
    <3>1. ASSUME NEW d \in Clients, client[d].phase = "publishing"
          PROVE  client[d].job # j /\ client[d].job \in JobIds
      BY <2>1, <3>1, <1>1 DEF ActiveInv, PromotedWaits, TypeInv, HandsHoldJobs
    <3>2. QED
      BY <2>1, <2>2, <2>3, <3>1 DEF ActiveInv, PromotedWaits
  <2>8. ReleasedWaits'
    BY <1>1, <2>1, <2>2, <2>3 DEF ActiveInv, ReleasedWaits, Busy, Terminal
  <2>9. TasksRun' /\ TasksApart'
    BY <1>1, <2>1, <2>2, <2>3 DEF ActiveInv, TasksRun, TasksApart, Busy
  <2>10. QED
    BY <2>5, <2>6, <2>7, <2>8, <2>9 DEF ActiveInv
<1>3. ASSUME NEW j \in JobIds, Ignore(w, j)
      PROVE  ActiveInv'
  BY <1>3 DEF Ignore, ActiveInv, AtMostOne, ActiveJobs, ClearToPromote, PickedWaits, QueuedLeft,
              PromotedWaits, ReleasedWaits, TasksRun, TasksApart, Busy, Terminal, Unsettled
<1>4. ASSUME UNCHANGED <<jobs, batches, client>>, queue' \subseteq queue,
             NEW r \in WorkerRecords, worker' = [worker EXCEPT ![w] = r],
             \/ r.phase = "idle"
             \/ r.phase = "refreshed" /\ r.job = worker[w].job /\ worker[w].phase = "working"
      PROVE  ActiveInv'
  <2>1. worker'[w] = r /\ \A v \in Workers : v # w => worker'[v] = worker[v]
    BY <1>1, <1>4
  <2>2. AtMostOne' /\ ClearToPromote' /\ PickedWaits' /\ QueuedLeft'
    BY <1>4 DEF ActiveInv, AtMostOne, ActiveJobs, ClearToPromote, PickedWaits, QueuedLeft, Unsettled
  <2>3. PromotedWaits' /\ ReleasedWaits'
    BY <1>4, <2>1 DEF ActiveInv, PromotedWaits, ReleasedWaits, Terminal
  <2>4. TasksRun' /\ TasksApart'
    BY <1>4, <2>1 DEF ActiveInv, TasksRun, TasksApart, Busy
  <2>5. QED
    BY <2>2, <2>3, <2>4 DEF ActiveInv
<1>5. CASE Refresh(w)
  <2>1. PICK r : worker' = [worker EXCEPT ![w] = r] /\ r.phase = "refreshed" /\ r.job = worker[w].job
    BY <1>5 DEF Refresh, IdleWorker
  <2>2. worker[w].phase = "working" /\ UNCHANGED <<jobs, batches, queue, client>>
    BY <1>5 DEF Refresh
  <2>3. TypeInv'
    BY <1>5, TaskTypes
  <2>4. r \in WorkerRecords
    BY <1>1, <2>1, <2>3 DEF TypeInv, TypeOK, WorkerRecords
  <2>5. QED
    BY <1>4, <2>1, <2>2, <2>4
<1>6. CASE WorkerDies(w)
  <2>1. IdleWorker \in WorkerRecords
    BY IdleTypes DEF WorkerRecords
  <2>2. QED
    BY <1>1, <1>4, <1>6, <2>1 DEF WorkerDies, Rest
<1>7. CASE AdvancePublish(w)
  <2> DEFINE k == worker[w].next
  <2>1. /\ worker[w].phase = "advancing" /\ queue' \subseteq queue \cup {k}
        /\ UNCHANGED <<jobs, batches, client>>
        /\ worker'[w].phase = "idle" /\ \A v \in Workers : v # w => worker'[v] = worker[v]
        /\ jobs[k].status \in {"queued", "cancelled"}
        /\ \A v \in Workers : v # w /\ worker[v].phase = "advancing" => worker[v].next # k
    BY <1>1, <1>7 DEF AdvancePublish, Rest, ActiveInv, ReleasedWaits
  <2>2. \A d \in Clients : client[d].phase = "publishing" => client[d].job # k
    BY <2>1 DEF ActiveInv, PromotedWaits
  <2> HIDE DEF k
  <2>3. AtMostOne' /\ ClearToPromote' /\ PickedWaits' /\ QueuedLeft'
    BY <2>1 DEF ActiveInv, AtMostOne, ActiveJobs, ClearToPromote, PickedWaits, QueuedLeft, Unsettled
  <2>4. PromotedWaits'
    BY <2>1, <2>2 DEF ActiveInv, PromotedWaits
  <2>5. ReleasedWaits'
    BY <2>1 DEF ActiveInv, ReleasedWaits, Terminal
  <2>6. TasksRun' /\ TasksApart'
    BY <2>1 DEF ActiveInv, TasksRun, TasksApart, Busy
  <2>7. QED
    BY <2>3, <2>4, <2>5, <2>6 DEF ActiveInv
<1>8. QED
  BY <1>2, <1>3, <1>5, <1>6, <1>7 DEF TakeAny

\* A refused publication fails the attempt it released, which no process has.
LEMMA RefusalKeepsActive ==
    ASSUME OneUser, TypeInv, ActiveInv, NEW w \in Workers, AdvancePublishFails(w)
    PROVE  ActiveInv'
<1> DEFINE k == worker[w].next
           n == jobs[k].batch
<1>1. /\ TypeOK
      /\ jobs \in [JobIds -> JobRecords] /\ worker \in [Workers -> WorkerRecords]
      /\ queue \subseteq Created /\ Created \subseteq JobIds /\ IdleWorker.phase = "idle"
      /\ \A v \in Workers : Busy(v) => worker[v].job \in Created
      /\ \A v \in Workers : worker[v].phase = "advancing" => worker[v].next \in Created
      /\ batches \in [BatchIds -> BatchRecords]
  BY IdleTypes DEF TypeInv, TypeOK, HandsHoldJobs, WorkerRecords, Created
<1>2. /\ worker[w].phase = "advancing" /\ queue' \subseteq queue
      /\ jobs' \in {jobs, Refused(k)} /\ UNCHANGED client
      /\ batches' \in {batches, [batches EXCEPT ![n] = Refreshed(n, [j \in JobIds |-> jobs'[j].status])]}
      /\ worker'[w].phase = "idle" /\ \A v \in Workers : v # w => worker'[v] = worker[v]
      /\ jobs[k].status \in {"queued", "cancelled"} /\ k \in JobIds
      /\ \A v \in Workers : v # w /\ worker[v].phase = "advancing" => worker[v].next # k
  BY <1>1 DEF AdvancePublishFails, Rest, ActiveInv, ReleasedWaits
<1>3. \A d \in Clients : client[d].phase = "publishing" => client[d].job # k
  BY <1>2 DEF ActiveInv, PromotedWaits
<1>4. n \in BatchIds
  BY <1>1, <1>2 DEF TypeInv, JobsAreBatched, Opened
<1> HIDE DEF k, n
<1>5. /\ jobs'[k].status \in {jobs[k].status, "failed"}
      /\ jobs'[k].batch = jobs[k].batch
      /\ \A j \in JobIds : j # k => jobs'[j] = jobs[j]
  BY <1>1, <1>2 DEF Refused, JobRecords
<1>6. AtMostOne' /\ ClearToPromote'
  BY <1>2, <1>5 DEF ActiveInv, AtMostOne, ActiveJobs, ClearToPromote
<1>7. QueuedLeft' /\ TasksRun' /\ TasksApart'
  <2>1. QueuedLeft'
    BY <1>1, <1>2, <1>5 DEF ActiveInv, QueuedLeft
  <2>2. \A v \in Workers : worker[v].phase \in {"working", "refreshed"} => worker[v].job # k
    BY <1>2 DEF ActiveInv, TasksRun
  <2>3. TasksRun' /\ TasksApart'
    BY <1>1, <1>2, <1>5, <2>2 DEF ActiveInv, TasksRun, TasksApart, Busy
  <2>4. QED
    BY <2>1, <2>3
<1>8. PromotedWaits'
  BY <1>1, <1>2, <1>3, <1>5 DEF ActiveInv, PromotedWaits, TypeInv, HandsHoldJobs
<1>9. ReleasedWaits'
  <2>1. \A v \in Workers : worker[v].phase = "advancing" => jobs'[worker[v].job].status \in TerminalStatuses
    BY <1>1, <1>2, <1>5 DEF ActiveInv, ReleasedWaits, Terminal, TerminalStatuses, Busy
  <2>2. QED
    BY <1>1, <1>2, <1>5, <2>1 DEF ActiveInv, ReleasedWaits, Terminal
<1>10. PickedWaits'
  <2> SUFFICES ASSUME NEW d \in Clients, client[d].phase = "picked"
               PROVE  /\ jobs'[client[d].job].status = "pending"
                      /\ Unsettled(jobs[client[d].job].batch)'
                      /\ jobs'[client[d].job].batch = jobs[client[d].job].batch
    BY <1>2 DEF PickedWaits, Unsettled
  <2> DEFINE j == client[d].job
  <2>1. j \in Created /\ j \in JobIds /\ jobs[j].status = "pending" /\ Unsettled(jobs[j].batch)
    BY <1>1 DEF ActiveInv, PickedWaits, TypeInv, HandsHoldJobs
  <2> HIDE DEF j
  <2>2. j # k /\ jobs'[j] = jobs[j] /\ jobs[j].batch \in BatchIds
    BY <1>2, <1>5, <2>1 DEF TypeInv, JobsAreBatched, Opened
  <2>3. CASE jobs[j].batch # n \/ batches' = batches
    <3>1. batches'[jobs[j].batch] = batches[jobs[j].batch]
      BY <1>1, <1>2, <1>4, <2>2, <2>3
    <3>2. QED
      BY <1>2, <2>1, <2>2, <3>1 DEF Unsettled, j
  <2>4. CASE jobs[j].batch = n /\ batches' # batches
    <3> DEFINE statuses == [i \in JobIds |-> jobs'[i].status]
    <3>1. batches' = [batches EXCEPT ![n] = Refreshed(n, statuses)]
      BY <1>2, <2>4
    <3>2. j \in JobsOf(n) /\ statuses[j] = "pending"
      BY <2>1, <2>2, <2>4 DEF JobsOf
    <3> HIDE DEF statuses
    <3>3. ~(\A i \in JobsOf(n) : statuses[i] \in TerminalStatuses)
      BY <3>2 DEF TerminalStatuses
    <3>4. Refreshed(n, statuses).status \in {"running", batches[n].status}
      BY <1>1, <1>4, <3>3, RefreshedSettles
    <3>5. batches'[n].status \in {"running", batches[n].status}
      BY <1>1, <1>4, <3>1, <3>4
    <3>6. QED
      BY <1>2, <2>1, <2>2, <2>4, <3>5 DEF Unsettled, j
  <2>5. QED
    BY <2>3, <2>4
<1>11. QED
  BY <1>6, <1>7, <1>8, <1>9, <1>10 DEF ActiveInv

\* A task that ends its attempt and releases the next one leaves one active.
LEMMA EndTaskKeepsActive ==
    ASSUME OneUser, TypeInv, ActiveInv, NEW w \in Workers, EndTask(w)
    PROVE  ActiveInv'
<1> DEFINE i == worker[w].job
<1>1. /\ jobs \in [JobIds -> JobRecords] /\ worker \in [Workers -> WorkerRecords]
      /\ queue \subseteq Created /\ Created \subseteq JobIds /\ IdleWorker.phase = "idle"
      /\ \A v \in Workers : Busy(v) => worker[v].job \in Created
      /\ \A v \in Workers : worker[v].phase = "advancing" => worker[v].next \in Created
  BY IdleTypes DEF TypeInv, TypeOK, HandsHoldJobs, WorkerRecords, Created
<1>2. /\ worker[w].phase = "refreshed" /\ i \in JobIds /\ jobs[i].status = "running"
      /\ UNCHANGED client /\ worker[w].outcome \in {"completed", "failed"}
  BY <1>1 DEF EndTask, Commit, CommitAndAdvance, ActiveInv, TasksRun, Busy, WorkerRecords
<1>3. ActiveJobs = {i}
  <2>1. i \in ActiveJobs
    BY <1>2 DEF ActiveJobs
  <2> HIDE DEF i
  <2>2. QED
    BY <2>1 DEF ActiveInv, AtMostOne
<1>4. /\ EndedJobs(w)[i].status \in {"completed", "failed"}
      /\ EndedJobs(w) \in [JobIds -> JobRecords]
      /\ \A j \in JobIds : j # i => EndedJobs(w)[j] = jobs[j]
  <2>1. EndedJobs(w) \in [JobIds -> JobRecords]
    BY <1>2, EndedTypes
  <2>2. jobs[i] \in JobRecords
    BY <1>1, <1>2
  <2>3. QED
    BY <1>1, <1>2, <2>1, <2>2 DEF EndedJobs, JobRecords
<1>5. /\ \A d \in Clients : client[d].phase \notin {"picking", "picked", "publishing"}
      /\ \A v \in Workers : v # w => worker[v].phase \notin {"working", "refreshed"}
      /\ \A v \in Workers : v # w /\ Busy(v) => worker[v].job # i
  <2>1. \A d \in Clients : client[d].phase \notin {"picking", "picked"}
    BY <1>3 DEF ActiveInv, ClearToPromote
  <2>2. \A d \in Clients : client[d].phase = "publishing" => client[d].job \in ActiveJobs
    BY <1>1 DEF ActiveInv, PromotedWaits, ActiveJobs, TypeInv, HandsHoldJobs
  <2>3. \A v \in Workers : worker[v].phase \in {"working", "refreshed"} => worker[v].job \in ActiveJobs
    BY <1>1 DEF ActiveInv, TasksRun, ActiveJobs, Busy
  <2>4. \A v \in Workers : v # w /\ Busy(v) => worker[v].job # i
    BY <1>2 DEF ActiveInv, TasksApart, Busy
  <2>5. \A d \in Clients : client[d].phase # "publishing"
    BY <1>2, <1>3, <2>2 DEF ActiveInv, PromotedWaits
  <2>6. QED
    BY <1>3, <2>1, <2>3, <2>4, <2>5 DEF Busy
<1> HIDE DEF i
<1>6. CASE jobs' = EndedJobs(w) /\ queue' = queue \ {i} /\ Rest(w)
  <2>1. worker'[w].phase = "idle" /\ \A v \in Workers : v # w => worker'[v] = worker[v]
    BY <1>1, <1>6 DEF Rest
  <2>2. AtMostOne' /\ ClearToPromote' /\ PickedWaits' /\ PromotedWaits'
    BY <1>2, <1>3, <1>4, <1>5, <1>6
       DEF AtMostOne, ActiveJobs, ClearToPromote, PickedWaits, PromotedWaits
  <2>3. QueuedLeft' /\ TasksRun' /\ TasksApart'
    BY <1>1, <1>4, <1>5, <1>6, <2>1 DEF ActiveInv, QueuedLeft, TasksRun, TasksApart, Busy
  <2>4. ReleasedWaits'
    <3>1. \A v \in Workers : worker[v].phase = "advancing" => worker[v].next # i
      BY <1>2 DEF ActiveInv, ReleasedWaits
    <3>2. QED
      BY <1>1, <1>4, <1>5, <1>6, <2>1, <3>1 DEF ActiveInv, ReleasedWaits, Terminal, Busy
  <2>5. QED
    BY <2>2, <2>3, <2>4 DEF ActiveInv
<1>7. ASSUME NEW n \in BatchIds, NEW k \in PendingOf(n),
             jobs' = [EndedJobs(w) EXCEPT ![k].status = "queued"],
             worker' = [worker EXCEPT ![w].phase = "advancing", ![w].next = k],
             UNCHANGED queue
      PROVE  ActiveInv'
  <2>1. k \in JobIds /\ jobs[k].status = "pending" /\ k # i /\ k \notin queue
    BY <1>2 DEF PendingOf, JobsOf, Created, ActiveInv, QueuedLeft
  <2>2. /\ jobs'[k].status = "queued" /\ jobs'[i].status \in {"completed", "failed"}
        /\ \A j \in JobIds : j # i /\ j # k => jobs'[j] = jobs[j]
    BY <1>2, <1>4, <1>7, <2>1 DEF JobRecords
  <2>3. /\ worker'[w].phase = "advancing" /\ worker'[w].next = k /\ worker'[w].job = i
        /\ \A v \in Workers : v # w => worker'[v] = worker[v]
    BY <1>1, <1>7 DEF WorkerRecords, i
  <2>4. AtMostOne' /\ ClearToPromote' /\ PickedWaits' /\ PromotedWaits'
    BY <1>2, <1>3, <1>5, <2>1, <2>2
       DEF AtMostOne, ActiveJobs, ClearToPromote, PickedWaits, PromotedWaits
  <2>5. QueuedLeft' /\ TasksRun' /\ TasksApart'
    BY <1>1, <1>2, <1>5, <1>7, <2>1, <2>2, <2>3 DEF ActiveInv, QueuedLeft, TasksRun, TasksApart, Busy, i
  <2>6. \A v \in Workers : v # w /\ worker[v].phase = "advancing" =>
            /\ worker[v].next # k /\ worker[v].next # i
            /\ worker[v].job # k /\ worker[v].job # i
            /\ worker[v].next \in JobIds /\ worker[v].job \in JobIds
    BY <1>1, <1>2, <1>5, <2>1 DEF ActiveInv, ReleasedWaits, Terminal, TerminalStatuses, Busy
  <2>7. ReleasedWaits'
    <3>1. ASSUME NEW v \in Workers, v # w, worker'[v].phase = "advancing"
          PROVE  /\ Terminal(worker[v].job)' /\ jobs'[worker'[v].next].status \in {"queued", "cancelled"}
                 /\ worker'[v].next \notin queue' /\ worker'[v].next # worker'[w].next
                 /\ \A u \in Workers : u # v /\ u # w /\ worker'[u].phase = "advancing"
                                       => worker'[u].next # worker'[v].next
      <4>1. /\ worker'[v] = worker[v] /\ worker[v].phase = "advancing"
            /\ worker[v].next # k /\ jobs'[worker[v].next] = jobs[worker[v].next]
            /\ jobs'[worker[v].job] = jobs[worker[v].job]
            /\ \A u \in Workers : u # w => worker'[u] = worker[u]
        BY <2>2, <2>3, <2>6, <3>1
      <4>2. /\ Terminal(worker[v].job) /\ jobs[worker[v].next].status \in {"queued", "cancelled"}
            /\ worker[v].next \notin queue
            /\ \A u \in Workers : u # v /\ worker[u].phase = "advancing"
                                  => worker[u].next # worker[v].next
        BY <4>1 DEF ActiveInv, ReleasedWaits
      <4>3. Terminal(worker[v].job)'
        BY <4>1, <4>2 DEF Terminal
      <4>4. /\ jobs'[worker'[v].next].status \in {"queued", "cancelled"}
            /\ worker'[v].next \notin queue'
        <5>1. queue' = queue
          BY <1>7
        <5>2. worker'[v].next = worker[v].next
          BY <4>1
        <5>3. jobs'[worker'[v].next] = jobs[worker[v].next]
          BY <4>1
        <5>4. QED
          BY <4>2, <5>1, <5>2, <5>3
      <4>5. worker'[v].next # worker'[w].next
        BY <2>3, <4>1
      <4>6. \A u \in Workers : u # v /\ u # w /\ worker'[u].phase = "advancing"
                             => worker'[u].next # worker'[v].next
        BY <4>1, <4>2
      <4>7. QED
        BY <4>3, <4>4, <4>5, <4>6
    <3>2. /\ Terminal(worker[w].job)' /\ jobs'[worker'[w].next].status \in {"queued", "cancelled"}
          /\ worker'[w].next \notin queue'
      BY <1>7, <2>1, <2>2, <2>3 DEF Terminal, TerminalStatuses
    <3>3. \A v \in Workers : v # w /\ worker'[v].phase = "advancing" => worker'[v].next # worker'[w].next
      BY <3>1
    <3>4. SUFFICES ASSUME NEW v \in Workers, worker'[v].phase = "advancing"
                   PROVE  /\ Terminal(worker[v].job)'
                          /\ jobs'[worker'[v].next].status \in {"queued", "cancelled"}
                          /\ worker'[v].next \notin queue'
                          /\ \A u \in Workers : u # v /\ worker'[u].phase = "advancing"
                                                => worker'[u].next # worker'[v].next
      BY DEF ReleasedWaits
    <3>5. CASE v = w
      BY <3>2, <3>3, <3>5
    <3>6. CASE v # w
      BY <3>1, <3>4, <3>6
    <3>7. QED
      BY <3>5, <3>6
  <2>8. QED
    BY <2>4, <2>5, <2>7 DEF ActiveInv
<1>8. QED
  BY <1>6, <1>7 DEF EndTask, Commit, CommitAndAdvance, i

\* Every step of a channel with one user keeps one attempt active.
LEMMA ActiveStep == OneUser /\ TypeInv /\ ActiveInv /\ [Next]_vars => ActiveInv'
<1> SUFFICES ASSUME OneUser, TypeInv, ActiveInv, [Next]_vars PROVE ActiveInv'
  OBVIOUS
<1>1. CASE UNCHANGED vars
  BY <1>1 DEF vars, ActiveInv, AtMostOne, ActiveJobs, ClearToPromote, PickedWaits, QueuedLeft,
              PromotedWaits, ReleasedWaits, TasksRun, TasksApart, Busy, Terminal, Unsettled
<1>2. ASSUME NEW c \in Clients,
             \/ ProcessSelected(c) \/ Dispatch(c) \/ ClientDies(c) \/ Reap(c)
             \/ \E j \in JobIds : Cancel(c, j)
             \/ \E b \in BatchIds : Reconcile(c, b)
      PROVE  ActiveInv'
  <2>1. ~Reap(c) /\ \A b \in BatchIds : ~Reconcile(c, b)
    BY DEF OneUser, Reap, RecoverStale, FailStale, Reconcile, MayRun
  <2>2. QED
    BY <1>2, <2>1, RequestKeepsActive, DispatchKeepsActive, CancelKeepsActive
<1>3. ASSUME NEW w \in Workers,
             \/ TakeAny(w) \/ Refresh(w) \/ EndTask(w)
             \/ AdvancePublish(w) \/ AdvancePublishFails(w) \/ WorkerDies(w)
      PROVE  ActiveInv'
  BY <1>3, TasksKeepActive, RefusalKeepsActive, EndTaskKeepsActive
<1>4. QED
  BY <1>1, <1>2, <1>3, NothingComesBack DEF Next

\* For one user, any number of tasks, attempts and batches: no more attempts are
\* active than CHANNEL_ACTIVE_LIMIT, whoever dies and whatever is delivered again.
THEOREM LimitIsKept ==
    ASSUME OneUser
    PROVE  Spec => []LimitKept
<1>1. TypeInv /\ ActiveInv => LimitKept
  BY NoneActive DEF ActiveInv
<1>2. Spec => [](TypeInv /\ ActiveInv)
  <2>1. TypeInv /\ ActiveInv /\ [Next]_vars => (TypeInv /\ ActiveInv)'
    BY TypeStep, ActiveStep
  <2>2. QED
    BY <2>1, InitTypes, InitActive, PTL DEF Spec
<1>3. QED
  BY <1>1, <1>2, PTL

-----------------------------------------------------------------------------
(***************************************************************************)
(* What no step does: attempts and batches stay, an attempt stays in its   *)
(* batch and does not return to the backlog, and one that is settled stays *)
(* so, completed or not.                                                   *)
(***************************************************************************)
AttemptsGoOn ==
    /\ \A j \in Created : j \in Created' /\ jobs'[j].batch = jobs[j].batch
    /\ \A b \in Opened : b \in Opened' /\ JobsOf(b)' = JobsOf(b)
    /\ \A j \in Created :
          /\ Terminal(j) => jobs'[j].status \in TerminalStatuses
          /\ Terminal(j) => (jobs'[j].status = "completed" <=> jobs[j].status = "completed")
          /\ jobs'[j].status = "pending" => jobs[j].status = "pending"

\* ... as far as a step changes the status of a few attempts only.
LEMMA StatusesGoOn ==
    ASSUME TypeInv,
           jobs' \in [JobIds -> JobRecords], batches' \in [BatchIds -> BatchRecords],
           \A j \in JobIds : /\ jobs'[j].batch = jobs[j].batch
                             /\ jobs'[j].status = "none" <=> jobs[j].status = "none",
           \A b \in BatchIds : batches'[b].status = "none" <=> batches[b].status = "none",
           \A j \in JobIds : \/ jobs'[j].status = jobs[j].status
                             \/ /\ jobs[j].status \in {"pending", "queued", "running"}
                                /\ jobs'[j].status # "pending"
                             \/ /\ jobs[j].status = "cancelled"
                                /\ jobs'[j].status = "failed"
    PROVE  AttemptsGoOn
<1>1. Created' = Created /\ Opened' = Opened
  BY NothingCreated
<1>2. Created \subseteq JobIds
  BY DEF Created
<1>3. \A b \in Opened : JobsOf(b)' = JobsOf(b)
  BY <1>1, <1>2 DEF JobsOf
<1>4. ASSUME NEW j \in Created
      PROVE  /\ Terminal(j) => jobs'[j].status \in TerminalStatuses
             /\ Terminal(j) => (jobs'[j].status = "completed" <=> jobs[j].status = "completed")
             /\ jobs'[j].status = "pending" => jobs[j].status = "pending"
  BY <1>2 DEF Terminal, TerminalStatuses
<1>5. QED
  BY <1>1, <1>2, <1>3, <1>4 DEF AttemptsGoOn

\* The user's steps only add attempts and move them onward ...
LEMMA UserGoesOn ==
    ASSUME OneUser, TypeInv, ActiveInv, NEW c \in Clients,
           \/ ProcessSelected(c) \/ Dispatch(c) \/ ClientDies(c)
           \/ \E j \in JobIds : Cancel(c, j)
    PROVE  AttemptsGoOn
<1>1. /\ TypeOK /\ jobs \in [JobIds -> JobRecords] /\ batches \in [BatchIds -> BatchRecords]
      /\ Created \subseteq JobIds /\ Opened \subseteq BatchIds
  BY DEF TypeInv, TypeOK, Created, Opened
<1>2. CASE ProcessSelected(c)
  BY <1>2, RequestAdds DEF AttemptsGoOn, Terminal
<1>3. ASSUME UNCHANGED <<jobs, batches>>
      PROVE  AttemptsGoOn
  BY <1>1, <1>3, StatusesGoOn
<1>4. CASE CheckManual(c) \/ CountActive(c) \/ Pick(c) \/ Publish(c) \/ ClientDies(c)
  BY <1>3, <1>4 DEF CheckManual, CountActive, Pick, Publish, ClientDies
<1>5. CASE Promote(c)
  <2> DEFINE j == client[c].job
  <2>1. /\ j \in Created /\ jobs[j].batch \in Opened /\ jobs[j].status = "pending"
        /\ jobs' = [jobs EXCEPT ![j].status = "queued"]
    BY <1>5 DEF Promote, TypeInv, HandsHoldJobs, JobsAreBatched, ActiveInv, PickedWaits
  <2>2. /\ batches' \in [BatchIds -> BatchRecords]
        /\ \A b \in BatchIds : batches'[b].status = "none" <=> batches[b].status = "none"
    BY <1>1, <1>5, <2>1 DEF Promote, BatchRecords, Opened
  <2> HIDE DEF j
  <2>3. /\ jobs' \in [JobIds -> JobRecords]
        /\ \A k \in JobIds : /\ jobs'[k].batch = jobs[k].batch
                             /\ jobs'[k].status = "none" <=> jobs[k].status = "none"
    BY <1>1, <2>1, StatusWrites
  <2>4. \A k \in JobIds : jobs'[k].status = IF k = j THEN "queued" ELSE jobs[k].status
    BY <1>1, <2>1 DEF JobRecords
  <2>5. QED
    BY <2>1, <2>2, <2>3, <2>4, StatusesGoOn
<1>6. CASE PublishFails(c)
  <2> DEFINE j == client[c].job
  <2>1. /\ j \in Created /\ jobs[j].status = "queued" /\ UNCHANGED batches
        /\ jobs' = jobs \/ jobs' = [jobs EXCEPT ![j].status = "failed", ![j].cause = "enqueue"]
    BY <1>6 DEF PublishFails, Refused, TypeInv, HandsHoldJobs, ActiveInv, PromotedWaits
  <2>2. CASE jobs' = jobs
    BY <1>3, <2>1, <2>2
  <2>3. CASE jobs' = [jobs EXCEPT ![j].status = "failed", ![j].cause = "enqueue"]
    <3> HIDE DEF j
    <3>1. /\ jobs' \in [JobIds -> JobRecords]
          /\ \A k \in JobIds : /\ jobs'[k].batch = jobs[k].batch
                               /\ jobs'[k].status = "none" <=> jobs[k].status = "none"
      BY <1>1, <2>1, <2>3, StatusWrites DEF TerminalStatuses
    <3>2. \A k \in JobIds : jobs'[k].status = IF k = j THEN "failed" ELSE jobs[k].status
      BY <1>1, <2>1, <2>3 DEF JobRecords
    <3>3. QED
      BY <1>1, <2>1, <3>1, <3>2, StatusesGoOn
  <2>4. QED
    BY <2>1, <2>2, <2>3
<1>7. ASSUME NEW j \in JobIds, Cancel(c, j)
      PROVE  AttemptsGoOn
  <2>1. /\ jobs[j].status \in {"pending", "queued"} /\ UNCHANGED batches
        /\ jobs' = [jobs EXCEPT ![j].status = "cancelled"]
    BY <1>7 DEF Cancel
  <2>2. j \in Created
    BY <2>1 DEF Created
  <2>3. /\ jobs' \in [JobIds -> JobRecords]
        /\ \A k \in JobIds : /\ jobs'[k].batch = jobs[k].batch
                             /\ jobs'[k].status = "none" <=> jobs[k].status = "none"
    BY <1>1, <2>1, <2>2, StatusWrites DEF TerminalStatuses
  <2>4. \A k \in JobIds : jobs'[k].status = IF k = j THEN "cancelled" ELSE jobs[k].status
    BY <1>1, <2>1 DEF JobRecords
  <2>5. QED
    BY <1>1, <2>1, <2>3, <2>4, StatusesGoOn
<1>8. QED
  BY <1>2, <1>4, <1>5, <1>6, <1>7 DEF Dispatch

\* ... and so do the steps of the tasks.
LEMMA TasksGoOn ==
    ASSUME OneUser, TypeInv, ActiveInv, NEW w \in Workers,
           \/ TakeAny(w) \/ Refresh(w) \/ EndTask(w)
           \/ AdvancePublish(w) \/ AdvancePublishFails(w) \/ WorkerDies(w)
    PROVE  AttemptsGoOn
<1>1. /\ TypeOK /\ jobs \in [JobIds -> JobRecords] /\ batches \in [BatchIds -> BatchRecords]
      /\ Created \subseteq JobIds /\ Opened \subseteq BatchIds
  BY DEF TypeInv, TypeOK, Created, Opened
<1>2. ASSUME UNCHANGED <<jobs, batches>>
      PROVE  AttemptsGoOn
  BY <1>1, <1>2, StatusesGoOn
<1>3. CASE Refresh(w) \/ AdvancePublish(w) \/ WorkerDies(w) \/ \E j \in JobIds : Ignore(w, j)
  BY <1>2, <1>3 DEF Refresh, AdvancePublish, WorkerDies, Ignore
<1>4. ASSUME NEW j \in JobIds, Take(w, j)
      PROVE  AttemptsGoOn
  <2>1. /\ j \in Created /\ jobs[j].status \in {"queued", "running"} /\ UNCHANGED batches
        /\ jobs' = [jobs EXCEPT ![j].status = "running"]
    BY <1>1, <1>4 DEF Take, Delivered, Terminal, ActiveInv, QueuedLeft, TypeInv, HandsHoldJobs,
                      Created, JobRecords
  <2>2. /\ jobs' \in [JobIds -> JobRecords]
        /\ \A k \in JobIds : /\ jobs'[k].batch = jobs[k].batch
                             /\ jobs'[k].status = "none" <=> jobs[k].status = "none"
    BY <1>1, <2>1, StatusWrites
  <2>3. \A k \in JobIds : jobs'[k].status = IF k = j THEN "running" ELSE jobs[k].status
    BY <1>1, <2>1 DEF JobRecords
  <2>4. QED
    BY <1>1, <2>1, <2>2, <2>3, StatusesGoOn
<1>5. CASE AdvancePublishFails(w)
  <2> DEFINE k == worker[w].next
             n == jobs[k].batch
             fresh == Refreshed(n, [j \in JobIds |-> jobs'[j].status])
  <2>1. k \in Created /\ n \in Opened /\ n \in BatchIds /\ jobs[k].status \in {"queued", "cancelled"}
    BY <1>5 DEF AdvancePublishFails, TypeInv, HandsHoldJobs, JobsAreBatched, Opened, ActiveInv,
                ReleasedWaits
  <2>2. jobs' \in {jobs, Refused(k)} /\ batches' \in {batches, [batches EXCEPT ![n] = fresh]}
    BY <1>5 DEF AdvancePublishFails
  <2>3. fresh \in BatchRecords /\ fresh.status # "none"
    BY <1>1, <2>1, RefreshedType
  <2> HIDE DEF k, n, fresh
  <2>4. /\ batches' \in [BatchIds -> BatchRecords]
        /\ \A b \in BatchIds : batches'[b].status = "none" <=> batches[b].status = "none"
    BY <1>1, <2>1, <2>2, <2>3 DEF Opened
  <2>5. CASE jobs' = jobs
    BY <1>1, <2>4, <2>5, StatusesGoOn
  <2>6. CASE jobs' = [jobs EXCEPT ![k].status = "failed", ![k].cause = "enqueue"]
    <3>1. /\ jobs' \in [JobIds -> JobRecords]
          /\ \A j \in JobIds : /\ jobs'[j].batch = jobs[j].batch
                               /\ jobs'[j].status = "none" <=> jobs[j].status = "none"
      BY <1>1, <2>1, <2>6, StatusWrites DEF TerminalStatuses
    <3>2. \A j \in JobIds : jobs'[j].status = IF j = k THEN "failed" ELSE jobs[j].status
      BY <1>1, <2>1, <2>6 DEF JobRecords
    <3>3. QED
      BY <2>1, <2>4, <3>1, <3>2, StatusesGoOn
  <2>7. QED
    BY <2>2, <2>5, <2>6 DEF Refused
<1>6. CASE EndTask(w)
  <2> DEFINE i == worker[w].job
  <2>1. /\ worker[w].phase = "refreshed" /\ i \in JobIds /\ jobs[i].status = "running"
        /\ worker[w].outcome \in {"completed", "failed"}
    BY <1>6 DEF EndTask, Commit, CommitAndAdvance, ActiveInv, TasksRun, Busy, TypeInv, TypeOK
  <2>2. /\ EndedJobs(w) \in [JobIds -> JobRecords]
        /\ EndedBatches(w) \in [BatchIds -> BatchRecords]
        /\ \A j \in JobIds : /\ EndedJobs(w)[j].batch = jobs[j].batch
                             /\ EndedJobs(w)[j].status = "none" <=> jobs[j].status = "none"
        /\ \A b \in BatchIds : EndedBatches(w)[b].status = "none" <=> batches[b].status = "none"
    BY <2>1, EndedTypes
  <2>3. \A j \in JobIds : EndedJobs(w)[j].status = IF j = i THEN worker[w].outcome ELSE jobs[j].status
    BY <1>1, <2>1, <2>2 DEF EndedJobs, JobRecords
  <2> HIDE DEF i
  <2>4. ASSUME jobs' = EndedJobs(w),
               \/ batches' = EndedBatches(w)
               \/ \E n \in BatchIds : /\ batches[n].status = "pending"
                                      /\ batches' = [EndedBatches(w) EXCEPT ![n].status = "running"]
        PROVE  AttemptsGoOn
    <3>1. /\ batches' \in [BatchIds -> BatchRecords]
          /\ \A b \in BatchIds : batches'[b].status = "none" <=> batches[b].status = "none"
      BY <2>2, <2>4 DEF BatchRecords
    <3>2. QED
      BY <2>1, <2>2, <2>3, <2>4, <3>1, StatusesGoOn
  <2>5. ASSUME NEW n \in BatchIds, NEW k \in PendingOf(n), batches[n].status = "pending",
               batches' = [EndedBatches(w) EXCEPT ![n].status = "running"],
               jobs' = [EndedJobs(w) EXCEPT ![k].status = "queued"]
        PROVE  AttemptsGoOn
    <3>1. /\ batches' \in [BatchIds -> BatchRecords]
          /\ \A b \in BatchIds : batches'[b].status = "none" <=> batches[b].status = "none"
      BY <2>2, <2>5 DEF BatchRecords
    <3>2. k \in JobIds /\ jobs[k].status = "pending"
      BY DEF PendingOf, JobsOf, Created
    <3>3. /\ jobs' \in [JobIds -> JobRecords]
          /\ \A j \in JobIds : /\ jobs'[j].batch = jobs[j].batch
                               /\ jobs'[j].status = "none" <=> jobs[j].status = "none"
      BY <2>2, <2>5, <3>2 DEF JobRecords
    <3>4. \A j \in JobIds : jobs'[j].status = IF j = k THEN "queued" ELSE EndedJobs(w)[j].status
      BY <2>2, <2>5, <3>2 DEF JobRecords
    <3>5. QED
      BY <2>1, <2>3, <3>1, <3>2, <3>3, <3>4, StatusesGoOn
  <2>6. QED
    BY <1>6, <2>4, <2>5 DEF EndTask, Commit, CommitAndAdvance, IsNextBatch
<1>7. QED
  BY <1>3, <1>4, <1>5, <1>6 DEF TakeAny

-----------------------------------------------------------------------------
(***************************************************************************)
(* The counters of a batch.                                                *)
(***************************************************************************)
CompletedOf(b) == {j \in JobsOf(b) : jobs[j].status = "completed"}
FailedOf(b)    == {j \in JobsOf(b) : jobs[j].status \in {"failed", "cancelled"}}

\* The row of a batch may be behind its attempts, never ahead of them.
CountersLag ==
    \A b \in Opened : /\ batches[b].completed <= Cardinality(CompletedOf(b))
                      /\ batches[b].failed <= Cardinality(FailedOf(b))

\* The attempts as a task that has refreshed its batch is about to leave them.
BatchOf(w)  == jobs[worker[w].job].batch
After(w, k) == IF k = worker[w].job THEN worker[w].outcome ELSE jobs[k].status
CompletedAfter(w) == {k \in JobsOf(BatchOf(w)) : After(w, k) = "completed"}
FailedAfter(w)    == {k \in JobsOf(BatchOf(w)) : After(w, k) \in {"failed", "cancelled"}}

\* The row it loaded was unsettled; neither that row nor the refreshed one is ahead.
RefreshLags ==
    \A w \in Workers : worker[w].phase = "refreshed" =>
        /\ worker[w].loaded.status \in {"pending", "running"}
        /\ worker[w].loaded.completed <= Cardinality(CompletedOf(BatchOf(w)))
        /\ worker[w].loaded.failed <= Cardinality(FailedOf(BatchOf(w)))
        /\ worker[w].fresh.completed <= Cardinality(CompletedAfter(w))
        /\ worker[w].fresh.failed <= Cardinality(FailedAfter(w))

\* A refreshed row that is settled has counted all attempts, and a counter that the
\* refresh left as it was loaded, so that the commit does not write it, is right by now.
RefreshCounts ==
    \A w \in Workers : worker[w].phase = "refreshed" /\ worker[w].fresh.status \in DoneStatuses =>
        /\ \A k \in JobsOf(BatchOf(w)) : k # worker[w].job => Terminal(k)
        /\ worker[w].fresh.completed = Cardinality(CompletedAfter(w))
        /\ worker[w].fresh.failed = Cardinality(JobsOf(BatchOf(w))) - worker[w].fresh.completed
        /\ worker[w].fresh.completed = worker[w].loaded.completed
           => batches[BatchOf(w)].completed = worker[w].fresh.completed
        /\ worker[w].fresh.failed = worker[w].loaded.failed
           => batches[BatchOf(w)].failed = worker[w].fresh.failed

CountInv ==
    /\ SettledBatchIsDone
    /\ CountersLag
    /\ RefreshLags
    /\ RefreshCounts

\* Counters are right at the start: there is no batch.
LEMMA InitCounts == Init => CountInv
BY DEF Init, CountInv, SettledBatchIsDone, CountersLag, RefreshLags, RefreshCounts, Opened,
       NoBatch, IdleWorker

\* More attempts count for more.
LEMMA CountsGrow ==
    ASSUME NEW T \in SUBSET JobIds, NEW S \in SUBSET T
    PROVE  /\ Cardinality(S) \in Nat /\ Cardinality(T) \in Nat
           /\ Cardinality(S) <= Cardinality(T)
<1>1. S \in SUBSET JobIds
  OBVIOUS
<1>2. IsFiniteSet(T) /\ Cardinality(S) \in Nat /\ Cardinality(T) \in Nat
  BY <1>1, JobsAreCounted
<1>3. QED
  BY <1>2, FS_Subset

\* Attempts that are settled or not, of an opened batch and of a refreshed one, over
\* a step of others.
LEMMA AttemptsCount ==
    ASSUME TypeInv, TypeInv', AttemptsGoOn
    PROVE  /\ \A b \in Opened :
                 /\ CompletedOf(b) \subseteq CompletedOf(b)' /\ FailedOf(b) \subseteq FailedOf(b)'
                 /\ CompletedOf(b)' \in SUBSET JobIds /\ FailedOf(b)' \in SUBSET JobIds
                 /\ (\A j \in JobsOf(b) : Terminal(j)) =>
                       /\ \A j \in JobsOf(b)' : Terminal(j)'
                       /\ CompletedOf(b)' = CompletedOf(b)
           /\ \A w \in Workers :
                 worker[w].phase = "refreshed" /\ worker'[w] = worker[w] =>
                 /\ BatchOf(w)' = BatchOf(w) /\ BatchOf(w) \in Opened
                 /\ CompletedAfter(w) \subseteq CompletedAfter(w)'
                 /\ FailedAfter(w) \subseteq FailedAfter(w)'
                 /\ CompletedAfter(w)' \in SUBSET JobIds /\ FailedAfter(w)' \in SUBSET JobIds
                 /\ (\A k \in JobsOf(BatchOf(w)) : k # worker[w].job => Terminal(k)) =>
                       /\ \A k \in JobsOf(BatchOf(w))' : k # worker[w].job => Terminal(k)'
                       /\ CompletedAfter(w)' = CompletedAfter(w)
<1>1. ASSUME NEW b \in Opened
      PROVE  /\ CompletedOf(b) \subseteq CompletedOf(b)' /\ FailedOf(b) \subseteq FailedOf(b)'
             /\ CompletedOf(b)' \in SUBSET JobIds /\ FailedOf(b)' \in SUBSET JobIds
             /\ (\A j \in JobsOf(b) : Terminal(j)) =>
                       /\ \A j \in JobsOf(b)' : Terminal(j)'
                       /\ CompletedOf(b)' = CompletedOf(b)
  <2>1. JobsOf(b)' = JobsOf(b) /\ JobsOf(b) \subseteq Created /\ JobsOf(b) \subseteq JobIds
    BY DEF AttemptsGoOn, JobsOf, Created
  <2>2. \A j \in JobsOf(b) :
          /\ jobs[j].status \in TerminalStatuses => jobs'[j].status \in TerminalStatuses
          /\ jobs[j].status \in TerminalStatuses
             => (jobs'[j].status = "completed" <=> jobs[j].status = "completed")
    BY <2>1 DEF AttemptsGoOn, Terminal
  <2>3. QED
    BY <2>1, <2>2 DEF CompletedOf, FailedOf, Terminal, TerminalStatuses
<1>2. ASSUME NEW w \in Workers, worker[w].phase = "refreshed", worker'[w] = worker[w]
      PROVE  /\ BatchOf(w)' = BatchOf(w) /\ BatchOf(w) \in Opened
             /\ CompletedAfter(w) \subseteq CompletedAfter(w)'
             /\ FailedAfter(w) \subseteq FailedAfter(w)'
             /\ CompletedAfter(w)' \in SUBSET JobIds /\ FailedAfter(w)' \in SUBSET JobIds
             /\ (\A k \in JobsOf(BatchOf(w)) : k # worker[w].job => Terminal(k)) =>
                       /\ \A k \in JobsOf(BatchOf(w))' : k # worker[w].job => Terminal(k)'
                       /\ CompletedAfter(w)' = CompletedAfter(w)
  <2> DEFINE j == worker[w].job
             b == BatchOf(w)
  <2>1. j \in Created /\ b \in Opened /\ BatchOf(w)' = b
    BY <1>2 DEF TypeInv, HandsHoldJobs, JobsAreBatched, Busy, BatchOf, AttemptsGoOn
  <2>2. JobsOf(b)' = JobsOf(b) /\ JobsOf(b) \subseteq Created /\ JobsOf(b) \subseteq JobIds
    BY <2>1 DEF AttemptsGoOn, JobsOf, Created
  <2>3. \A k \in JobsOf(b) :
          /\ jobs[k].status \in TerminalStatuses => jobs'[k].status \in TerminalStatuses
          /\ jobs[k].status \in TerminalStatuses
             => (jobs'[k].status = "completed" <=> jobs[k].status = "completed")
    BY <2>2 DEF AttemptsGoOn, Terminal
  <2>4. /\ CompletedAfter(w) = {k \in JobsOf(b) : After(w, k) = "completed"}
        /\ FailedAfter(w) = {k \in JobsOf(b) : After(w, k) \in {"failed", "cancelled"}}
        /\ CompletedAfter(w)' = {k \in JobsOf(b) : After(w, k)' = "completed"}
        /\ FailedAfter(w)' = {k \in JobsOf(b) : After(w, k)' \in {"failed", "cancelled"}}
        /\ JobsOf(BatchOf(w))' = JobsOf(b)
    <3>1. JobsOf(BatchOf(w))' = JobsOf(b)
      BY <2>1, <2>2 DEF JobsOf
    <3>2. QED
      BY <3>1 DEF CompletedAfter, FailedAfter
  <2>5. \A k \in JobsOf(b) :
          /\ After(w, k) = IF k = j THEN worker[w].outcome ELSE jobs[k].status
          /\ After(w, k)' = IF k = j THEN worker[w].outcome ELSE jobs'[k].status
    BY <1>2 DEF After
  <2> HIDE DEF b, j
  <2>6. /\ CompletedAfter(w) \subseteq CompletedAfter(w)'
        /\ FailedAfter(w) \subseteq FailedAfter(w)'
        /\ CompletedAfter(w)' \in SUBSET JobIds /\ FailedAfter(w)' \in SUBSET JobIds
    BY <2>2, <2>3, <2>4, <2>5 DEF TerminalStatuses
  <2>7. ASSUME \A k \in JobsOf(b) : k # j => Terminal(k)
        PROVE  /\ \A k \in JobsOf(b) : k # j => Terminal(k)'
               /\ CompletedAfter(w)' = CompletedAfter(w)
    BY <2>2, <2>3, <2>4, <2>5, <2>7 DEF Terminal
  <2>8. QED
    BY <2>1, <2>4, <2>6, <2>7 DEF b, j
<1>3. QED
  BY <1>1, <1>2

\* A batch is right after a step that leaves its row, as far as a counter goes.
LEMMA QuietBatch ==
    ASSUME TypeInv, TypeInv', AttemptsGoOn, CountInv, NEW b \in Opened,
           batches'[b].completed = batches[b].completed, batches'[b].failed = batches[b].failed,
           Unsettled(b)' <=> Unsettled(b)
    PROVE  /\ batches'[b].completed <= Cardinality(CompletedOf(b)')
           /\ batches'[b].failed <= Cardinality(FailedOf(b)')
           /\ ~Unsettled(b)' =>
                 /\ \A j \in JobsOf(b)' : Terminal(j)'
                 /\ batches'[b].completed = Cardinality(CompletedOf(b)')
                 /\ batches'[b].failed = Cardinality(JobsOf(b)') - batches'[b].completed
<1>1. /\ CompletedOf(b) \subseteq CompletedOf(b)' /\ FailedOf(b) \subseteq FailedOf(b)'
      /\ CompletedOf(b)' \in SUBSET JobIds /\ FailedOf(b)' \in SUBSET JobIds
      /\ (\A j \in JobsOf(b) : Terminal(j)) =>
             /\ \A j \in JobsOf(b)' : Terminal(j)'
             /\ CompletedOf(b)' = CompletedOf(b)
      /\ JobsOf(b)' = JobsOf(b)
  BY AttemptsCount DEF AttemptsGoOn
<1>2. /\ Cardinality(CompletedOf(b)) <= Cardinality(CompletedOf(b)')
      /\ Cardinality(FailedOf(b)) <= Cardinality(FailedOf(b)')
      /\ Cardinality(CompletedOf(b)) \in Nat /\ Cardinality(CompletedOf(b)') \in Nat
      /\ Cardinality(FailedOf(b)) \in Nat /\ Cardinality(FailedOf(b)') \in Nat
  BY <1>1, CountsGrow
<1>3. batches[b].completed \in Nat /\ batches[b].failed \in Nat
  BY DEF TypeInv, TypeOK, BatchRecords, Opened
<1>4. /\ batches[b].completed <= Cardinality(CompletedOf(b))
      /\ batches[b].failed <= Cardinality(FailedOf(b))
  BY DEF CountInv, CountersLag
<1>5. ~Unsettled(b) => /\ \A j \in JobsOf(b) : Terminal(j)
                       /\ batches[b].completed = Cardinality(CompletedOf(b))
                       /\ batches[b].failed = Cardinality(JobsOf(b)) - batches[b].completed
  BY DEF CountInv, SettledBatchIsDone, CompletedOf
<1>6. batches'[b].completed <= Cardinality(CompletedOf(b)')
      /\ batches'[b].failed <= Cardinality(FailedOf(b)')
  BY <1>2, <1>3, <1>4
<1>7. QED
  BY <1>1, <1>5, <1>6

\* ... and so is a task that has refreshed the batch.
LEMMA QuietTask ==
    ASSUME TypeInv, TypeInv', AttemptsGoOn, CountInv, NEW w \in Workers,
           worker[w].phase = "refreshed", worker'[w] = worker[w]
    PROVE  /\ worker'[w].loaded.status \in {"pending", "running"}
           /\ worker'[w].loaded.completed <= Cardinality(CompletedOf(BatchOf(w))')
           /\ worker'[w].loaded.failed <= Cardinality(FailedOf(BatchOf(w))')
           /\ worker'[w].fresh.completed <= Cardinality(CompletedAfter(w)')
           /\ worker'[w].fresh.failed <= Cardinality(FailedAfter(w)')
           /\ worker'[w].fresh.status \in DoneStatuses =>
                 /\ \A k \in JobsOf(BatchOf(w))' : k # worker'[w].job => Terminal(k)'
                 /\ worker'[w].fresh.completed = Cardinality(CompletedAfter(w)')
                 /\ worker'[w].fresh.failed
                       = Cardinality(JobsOf(BatchOf(w))') - worker'[w].fresh.completed
                 /\ batches'[BatchOf(w)].completed = batches[BatchOf(w)].completed =>
                    (worker'[w].fresh.completed = worker'[w].loaded.completed
                     => batches'[BatchOf(w)'].completed = worker'[w].fresh.completed)
                 /\ batches'[BatchOf(w)].failed = batches[BatchOf(w)].failed =>
                    (worker'[w].fresh.failed = worker'[w].loaded.failed
                     => batches'[BatchOf(w)'].failed = worker'[w].fresh.failed)
<1> DEFINE b == BatchOf(w)
<1>1. /\ BatchOf(w)' = b /\ b \in Opened
      /\ CompletedAfter(w) \subseteq CompletedAfter(w)' /\ FailedAfter(w) \subseteq FailedAfter(w)'
      /\ CompletedAfter(w)' \in SUBSET JobIds /\ FailedAfter(w)' \in SUBSET JobIds
      /\ (\A k \in JobsOf(b) : k # worker[w].job => Terminal(k)) =>
             /\ \A k \in JobsOf(BatchOf(w))' : k # worker[w].job => Terminal(k)'
             /\ CompletedAfter(w)' = CompletedAfter(w)
  BY AttemptsCount
<1>2. /\ JobsOf(BatchOf(w))' = JobsOf(b)
      /\ CompletedOf(BatchOf(w))' = CompletedOf(b)' /\ FailedOf(BatchOf(w))' = FailedOf(b)'
  BY <1>1 DEF AttemptsGoOn, JobsOf, CompletedOf, FailedOf
<1>3. /\ CompletedOf(b) \subseteq CompletedOf(b)' /\ FailedOf(b) \subseteq FailedOf(b)'
      /\ CompletedOf(b)' \in SUBSET JobIds /\ FailedOf(b)' \in SUBSET JobIds
  BY <1>1, AttemptsCount
<1>4. /\ Cardinality(CompletedOf(b)) <= Cardinality(CompletedOf(b)')
      /\ Cardinality(FailedOf(b)) <= Cardinality(FailedOf(b)')
      /\ Cardinality(CompletedOf(b)) \in Nat /\ Cardinality(CompletedOf(b)') \in Nat
      /\ Cardinality(FailedOf(b)) \in Nat /\ Cardinality(FailedOf(b)') \in Nat
  BY <1>3, CountsGrow
<1>5. /\ Cardinality(CompletedAfter(w)) <= Cardinality(CompletedAfter(w)')
      /\ Cardinality(FailedAfter(w)) <= Cardinality(FailedAfter(w)')
      /\ Cardinality(CompletedAfter(w)) \in Nat /\ Cardinality(CompletedAfter(w)') \in Nat
      /\ Cardinality(FailedAfter(w)) \in Nat /\ Cardinality(FailedAfter(w)') \in Nat
  BY <1>1, CountsGrow
<1>6. /\ worker[w].loaded.completed \in Nat /\ worker[w].loaded.failed \in Nat
      /\ worker[w].fresh.completed \in Nat /\ worker[w].fresh.failed \in Nat
  BY DEF TypeInv, TypeOK, BatchRecords
<1>7. /\ worker[w].loaded.status \in {"pending", "running"}
      /\ worker[w].loaded.completed <= Cardinality(CompletedOf(b))
      /\ worker[w].loaded.failed <= Cardinality(FailedOf(b))
      /\ worker[w].fresh.completed <= Cardinality(CompletedAfter(w))
      /\ worker[w].fresh.failed <= Cardinality(FailedAfter(w))
  BY DEF CountInv, RefreshLags
<1>8. worker[w].fresh.status \in DoneStatuses =>
        /\ \A k \in JobsOf(b) : k # worker[w].job => Terminal(k)
        /\ worker[w].fresh.completed = Cardinality(CompletedAfter(w))
        /\ worker[w].fresh.failed = Cardinality(JobsOf(b)) - worker[w].fresh.completed
        /\ worker[w].fresh.completed = worker[w].loaded.completed
           => batches[b].completed = worker[w].fresh.completed
        /\ worker[w].fresh.failed = worker[w].loaded.failed
           => batches[b].failed = worker[w].fresh.failed
  BY DEF CountInv, RefreshCounts
<1>9. \/ batches'[b].completed # batches[b].completed
      \/ worker[w].fresh.status \in DoneStatuses /\ worker[w].fresh.completed = worker[w].loaded.completed
         => batches'[b].completed = worker[w].fresh.completed
  BY <1>8
<1>10. \/ batches'[b].failed # batches[b].failed
       \/ worker[w].fresh.status \in DoneStatuses /\ worker[w].fresh.failed = worker[w].loaded.failed
          => batches'[b].failed = worker[w].fresh.failed
  BY <1>8
<1>11. /\ worker[w].loaded.completed <= Cardinality(CompletedOf(b)')
       /\ worker[w].loaded.failed <= Cardinality(FailedOf(b)')
       /\ worker[w].fresh.completed <= Cardinality(CompletedAfter(w)')
       /\ worker[w].fresh.failed <= Cardinality(FailedAfter(w)')
  BY <1>4, <1>5, <1>6, <1>7
<1>12. ASSUME worker[w].fresh.status \in DoneStatuses
       PROVE  /\ \A k \in JobsOf(BatchOf(w))' : k # worker[w].job => Terminal(k)'
              /\ worker[w].fresh.completed = Cardinality(CompletedAfter(w)')
              /\ worker[w].fresh.failed = Cardinality(JobsOf(BatchOf(w))') - worker[w].fresh.completed
  BY <1>1, <1>2, <1>8, <1>12
<1>13. QED
  BY <1>1, <1>2, <1>7, <1>9, <1>11, <1>12, <1>10

\* A step that writes no counter, and settles no batch, keeps the layer.
LEMMA QuietCounts ==
    ASSUME TypeInv, TypeInv', AttemptsGoOn, CountInv,
           \A b \in Opened : /\ batches'[b].completed = batches[b].completed
                             /\ batches'[b].failed = batches[b].failed
                             /\ Unsettled(b)' <=> Unsettled(b),
           \A b \in Opened' : b \notin Opened =>
              Unsettled(b)' /\ batches'[b].completed = 0 /\ batches'[b].failed = 0,
           \A w \in Workers : worker'[w].phase = "refreshed" => worker'[w] = worker[w]
    PROVE  CountInv'
<1>1. ASSUME NEW b \in Opened'
      PROVE  /\ batches'[b].completed <= Cardinality(CompletedOf(b)')
             /\ batches'[b].failed <= Cardinality(FailedOf(b)')
             /\ ~Unsettled(b)' =>
                   /\ \A j \in JobsOf(b)' : Terminal(j)'
                   /\ batches'[b].completed = Cardinality(CompletedOf(b)')
                   /\ batches'[b].failed = Cardinality(JobsOf(b)') - batches'[b].completed
  <2>1. CASE b \in Opened
    BY <2>1, QuietBatch
  <2>2. CASE b \notin Opened
    <3>1. CompletedOf(b)' \in SUBSET JobIds /\ FailedOf(b)' \in SUBSET JobIds
      BY DEF CompletedOf, FailedOf, JobsOf, Created
    <3>2. Cardinality(CompletedOf(b)') \in Nat /\ Cardinality(FailedOf(b)') \in Nat
      BY <3>1, CountsGrow
    <3>3. QED
      BY <2>2, <3>2
  <2>3. QED
    BY <2>1, <2>2
<1>2. SettledBatchIsDone' /\ CountersLag'
  BY <1>1 DEF SettledBatchIsDone, CountersLag, CompletedOf
<1>3. ASSUME NEW w \in Workers, worker'[w].phase = "refreshed"
      PROVE  /\ worker[w].phase = "refreshed" /\ worker'[w] = worker[w]
             /\ batches'[BatchOf(w)].completed = batches[BatchOf(w)].completed
             /\ batches'[BatchOf(w)].failed = batches[BatchOf(w)].failed
  <2>1. worker[w].phase = "refreshed" /\ worker'[w] = worker[w]
    BY <1>3
  <2>2. BatchOf(w) \in Opened
    BY <2>1 DEF TypeInv, HandsHoldJobs, JobsAreBatched, Busy, BatchOf
  <2>3. QED
    BY <2>1, <2>2
<1>4. RefreshLags'
  BY <1>3, QuietTask DEF RefreshLags
<1>5. RefreshCounts'
  BY <1>3, QuietTask DEF RefreshCounts
<1>6. QED
  BY <1>2, <1>4, <1>5 DEF CountInv

\* Requests, cancellations, and the steps of tasks that leave the rows of batches alone.
LEMMA QuietSteps ==
    ASSUME OneUser, TypeInv, TypeInv', ActiveInv, CountInv, AttemptsGoOn,
           \/ \E c \in Clients : \/ ProcessSelected(c) \/ Dispatch(c) \/ ClientDies(c)
                                 \/ \E j \in JobIds : Cancel(c, j)
           \/ \E w \in Workers : TakeAny(w) \/ AdvancePublish(w) \/ WorkerDies(w)
    PROVE  CountInv'
<1>1. worker \in [Workers -> WorkerRecords] /\ IdleWorker.phase = "idle"
  BY IdleTypes DEF TypeInv, TypeOK, WorkerRecords
<1>2. ASSUME UNCHANGED batches,
             \A w \in Workers : worker'[w].phase = "refreshed" => worker'[w] = worker[w]
      PROVE  CountInv'
  <2>1. Opened' = Opened /\ \A b \in Opened : Unsettled(b)' <=> Unsettled(b)
    BY <1>2 DEF Opened, Unsettled
  <2>2. QED
    BY <1>2, <2>1, QuietCounts
<1>3. ASSUME NEW c \in Clients,
             \/ CheckManual(c) \/ CountActive(c) \/ Pick(c) \/ Publish(c) \/ PublishFails(c)
             \/ ClientDies(c) \/ \E j \in JobIds : Cancel(c, j)
      PROVE  CountInv'
  <2>1. UNCHANGED <<batches, worker>>
    BY <1>3 DEF CheckManual, CountActive, Pick, Publish, PublishFails, ClientDies, Cancel
  <2>2. QED
    BY <1>2, <2>1
<1>4. ASSUME NEW c \in Clients, ProcessSelected(c)
      PROVE  CountInv'
  <2>1. /\ UNCHANGED worker
        /\ \A b \in Opened : batches'[b] = batches[b]
        /\ \A b \in Opened' : b \notin Opened =>
                 /\ batches'[b].status \in {"running", "pending"}
                 /\ batches'[b].completed = 0 /\ batches'[b].failed = 0
    BY <1>4, RequestAdds
  <2>2. QED
    BY <2>1, QuietCounts DEF Unsettled
<1>5. ASSUME NEW c \in Clients, Promote(c)
      PROVE  CountInv'
  <2> DEFINE o == jobs[client[c].job].batch
  <2>1. /\ UNCHANGED worker /\ Unsettled(o)
        /\ batches' = batches \/ batches' = [batches EXCEPT ![o].status = "running"]
    BY <1>5 DEF Promote, ActiveInv, PickedWaits
  <2>2. batches \in [BatchIds -> BatchRecords] /\ Opened \subseteq BatchIds
    BY DEF TypeInv, TypeOK, Opened
  <2> HIDE DEF o
  <2>3. \A b \in BatchIds : /\ batches'[b].completed = batches[b].completed
                            /\ batches'[b].failed = batches[b].failed
                            /\ Unsettled(b)' <=> Unsettled(b)
    BY <2>1, <2>2 DEF Unsettled, BatchRecords
  <2>4. Opened' \subseteq Opened
    BY <2>1, <2>2 DEF Opened, Unsettled, BatchRecords
  <2>5. QED
    BY <2>1, <2>2, <2>3, <2>4, QuietCounts
<1>6. ASSUME NEW w \in Workers, TakeAny(w) \/ AdvancePublish(w) \/ WorkerDies(w)
      PROVE  CountInv'
  <2>1. UNCHANGED batches
    BY <1>6 DEF TakeAny, Take, Ignore, AdvancePublish, WorkerDies
  <2>2. CASE UNCHANGED worker
    BY <1>2, <2>1, <2>2
  <2>3. CASE ~UNCHANGED worker
    <3>1. PICK r : worker' = [worker EXCEPT ![w] = r] /\ r.phase \in {"idle", "working"}
      <4>1. CASE \E j \in JobIds : Take(w, j)
        <5>1. PICK j \in JobIds : Take(w, j)
          BY <4>1
        <5> DEFINE x == [IdleWorker EXCEPT !.phase = "working", !.job = j]
        <5>2. x.phase = "working"
          BY DEF IdleWorker
        <5>3. worker' = [worker EXCEPT ![w] = x]
          BY <5>1 DEF Take
        <5> HIDE DEF x
        <5>4. QED
          BY <5>2, <5>3
      <4>2. CASE AdvancePublish(w) \/ WorkerDies(w)
        BY <1>1, <4>2 DEF AdvancePublish, WorkerDies, Rest
      <4>3. QED
        BY <1>6, <2>3, <4>1, <4>2 DEF TakeAny, Ignore
    <3>2. \A v \in Workers : worker'[v].phase = "refreshed" => worker'[v] = worker[v]
      BY <1>1, <3>1
    <3>3. QED
      BY <1>2, <2>1, <3>2
  <2>4. QED
    BY <2>2, <2>3
<1>7. QED
  BY <1>3, <1>4, <1>5, <1>6 DEF Dispatch

\* A refresh computes counters that are not ahead and settles only what is settled.
LEMMA RefreshKeepsCounts ==
    ASSUME OneUser, TypeInv, TypeInv', ActiveInv, CountInv, AttemptsGoOn,
           NEW w \in Workers, Refresh(w)
    PROVE  CountInv'
<1> DEFINE j == worker[w].job
           b == BatchOf(w)
           statuses(outcome) == [k \in JobIds |-> IF k = j THEN outcome ELSE jobs[k].status]
<1>1. PICK outcome \in {"completed", "failed"} :
          worker' = [worker EXCEPT ![w] =
                 [IdleWorker EXCEPT !.phase = "refreshed", !.job = j, !.outcome = outcome,
                    !.loaded = batches[b], !.fresh = Refreshed(b, statuses(outcome))]]
  BY DEF Refresh, BatchOf
<1>2. /\ TypeOK /\ worker \in [Workers -> WorkerRecords]
      /\ j \in Created /\ b \in Opened /\ b \in BatchIds /\ j \in JobIds /\ j \in JobsOf(b)
      /\ jobs[j].status = "running" /\ UNCHANGED <<jobs, batches>>
  BY DEF Refresh, TypeInv, TypeOK, HandsHoldJobs, JobsAreBatched, Busy, Opened, Created, BatchOf,
         JobsOf, ActiveInv, TasksRun, WorkerRecords
<1>3. /\ worker'[w].phase = "refreshed" /\ worker'[w].job = j /\ worker'[w].outcome = outcome
      /\ worker'[w].loaded = batches[b] /\ worker'[w].fresh = Refreshed(b, statuses(outcome))
      /\ \A v \in Workers : v # w => worker'[v] = worker[v]
  BY <1>1, <1>2 DEF IdleWorker
<1>4. /\ Opened' = Opened /\ Created' = Created /\ BatchOf(w)' = b
      /\ \A o : JobsOf(o)' = JobsOf(o)
      /\ \A o \in Opened : Unsettled(o)' <=> Unsettled(o)
  BY <1>2, <1>3 DEF Opened, Created, JobsOf, BatchOf, Unsettled
<1>5. /\ CompletedAfter(w)' = {k \in JobsOf(b) : statuses(outcome)[k] = "completed"}
      /\ FailedAfter(w)' = {k \in JobsOf(b) : statuses(outcome)[k] \in {"failed", "cancelled"}}
      /\ CompletedOf(b)' = CompletedOf(b) /\ FailedOf(b)' = FailedOf(b)
  <2>1. JobsOf(b) \subseteq JobIds /\ JobsOf(BatchOf(w))' = JobsOf(b)
    BY <1>4 DEF JobsOf, Created
  <2>2. \A k \in JobsOf(b) : After(w, k)' = statuses(outcome)[k]
    BY <1>2, <1>3, <2>1 DEF After
  <2>3. QED
    BY <1>2, <1>4, <2>1, <2>2 DEF CompletedAfter, FailedAfter, CompletedOf, FailedOf
<1>6. Unsettled(b)
  BY <1>2 DEF CountInv, SettledBatchIsDone, Terminal, TerminalStatuses
<1> DEFINE row == Refreshed(b, statuses(outcome))
<1>7. /\ row.completed = Cardinality(CompletedAfter(w)')
      /\ row.failed = Cardinality(FailedAfter(w)')
      /\ Cardinality(CompletedAfter(w)') \in Nat /\ Cardinality(FailedAfter(w)') \in Nat
      /\ (\A k \in JobsOf(b) : statuses(outcome)[k] \in TerminalStatuses)
         => row.failed = Cardinality(JobsOf(b)) - row.completed
      /\ ~(\A k \in JobsOf(b) : statuses(outcome)[k] \in TerminalStatuses)
         => row.status \in {"running", batches[b].status}
  <2> DEFINE seen == statuses(outcome)
  <2>1. b \in BatchIds /\ TypeOK
    BY <1>2
  <2>2. /\ CompletedAfter(w)' = {k \in JobsOf(b) : seen[k] = "completed"}
        /\ FailedAfter(w)' = {k \in JobsOf(b) : seen[k] \in {"failed", "cancelled"}}
        /\ row = Refreshed(b, seen)
    BY <1>5
  <2> HIDE DEF b, seen, row
  <2>3. /\ row.completed = Cardinality(CompletedAfter(w)')
        /\ row.failed = Cardinality(FailedAfter(w)')
        /\ Cardinality(CompletedAfter(w)') \in Nat /\ Cardinality(FailedAfter(w)') \in Nat
        /\ (\A k \in JobsOf(b) : seen[k] \in TerminalStatuses)
           => row.failed = Cardinality(JobsOf(b)) - row.completed
        /\ ~(\A k \in JobsOf(b) : seen[k] \in TerminalStatuses)
           => row.status \in {"running", batches[b].status}
    <3> DEFINE C == {k \in JobsOf(b) : seen[k] = "completed"}
               F == {k \in JobsOf(b) : seen[k] \in {"failed", "cancelled"}}
               new == Refreshed(b, seen)
    <3>1. /\ new.completed = Cardinality(C) /\ new.failed = Cardinality(F)
          /\ Cardinality(C) \in Nat /\ Cardinality(F) \in Nat
          /\ (\A k \in JobsOf(b) : seen[k] \in TerminalStatuses)
             => new.failed = Cardinality(JobsOf(b)) - new.completed
          /\ ~(\A k \in JobsOf(b) : seen[k] \in TerminalStatuses)
             => new.status \in {"running", batches[b].status}
      BY <2>1, RefreshedSettles
    <3>2. CompletedAfter(w)' = C /\ FailedAfter(w)' = F /\ row = new
      BY <2>2
    <3> HIDE DEF C, F, new
    <3>3. QED
      BY <3>1, <3>2
  <2>4. QED
    BY <2>3 DEF seen
<1>8. (\A k \in JobsOf(b) : statuses(outcome)[k] \in TerminalStatuses)
      => \A k \in JobsOf(b) : k # j => Terminal(k)'
  BY <1>2, <1>3 DEF JobsOf, Created, Terminal
<1> HIDE DEF row, j, b, statuses
<1>9. row.status \in DoneStatuses
      => /\ \A k \in JobsOf(b) : k # j => Terminal(k)'
         /\ row.failed = Cardinality(JobsOf(b)) - row.completed
  BY <1>6, <1>7, <1>8 DEF DoneStatuses, Unsettled
<1>10. SettledBatchIsDone' /\ CountersLag'
  BY <1>2, <1>4 DEF CountInv, SettledBatchIsDone, CountersLag, CompletedOf, FailedOf, Terminal
<1>11. RefreshLags'
  <2>1. ASSUME NEW v \in Workers, v # w, worker'[v].phase = "refreshed"
        PROVE  worker[v].phase = "refreshed" /\ worker'[v] = worker[v]
    BY <1>3, <2>1
  <2>2. /\ batches[b].completed <= Cardinality(CompletedOf(b))
        /\ batches[b].failed <= Cardinality(FailedOf(b))
    BY <1>2 DEF CountInv, CountersLag
  <2>3. /\ worker'[w].loaded.status \in {"pending", "running"}
        /\ worker'[w].loaded.completed <= Cardinality(CompletedOf(BatchOf(w))')
        /\ worker'[w].loaded.failed <= Cardinality(FailedOf(BatchOf(w))')
        /\ worker'[w].fresh.completed <= Cardinality(CompletedAfter(w)')
        /\ worker'[w].fresh.failed <= Cardinality(FailedAfter(w)')
    <3>1. CompletedOf(BatchOf(w))' = CompletedOf(b) /\ FailedOf(BatchOf(w))' = FailedOf(b)
      BY <1>2, <1>4 DEF CompletedOf, FailedOf
    <3>2. QED
      BY <1>3, <1>6, <1>7, <2>2, <3>1 DEF row, Unsettled
  <2>4. QED
    BY <2>1, <2>3, QuietTask DEF RefreshLags
<1>12. RefreshCounts'
  <2>1. ASSUME NEW v \in Workers, v # w, worker'[v].phase = "refreshed"
        PROVE  worker[v].phase = "refreshed" /\ worker'[v] = worker[v]
    BY <1>3, <2>1
  <2>2. ASSUME worker'[w].fresh.status \in DoneStatuses
        PROVE  /\ \A k \in JobsOf(BatchOf(w))' : k # worker'[w].job => Terminal(k)'
               /\ worker'[w].fresh.completed = Cardinality(CompletedAfter(w)')
               /\ worker'[w].fresh.failed = Cardinality(JobsOf(BatchOf(w))') - worker'[w].fresh.completed
               /\ batches'[BatchOf(w)'] = worker'[w].loaded
    <3>1. JobsOf(BatchOf(w))' = JobsOf(b)
      BY <1>4 DEF JobsOf
    <3>2. QED
      BY <1>2, <1>3, <1>4, <1>7, <1>9, <2>2, <3>1 DEF row
  <2>3. QED
    BY <1>2, <2>1, <2>2, QuietTask DEF RefreshCounts
<1>13. QED
  BY <1>10, <1>11, <1>12 DEF CountInv

\* The row as a commit leaves it, column by column.
LEMMA WrittenColumns ==
    ASSUME NEW b, NEW loaded \in BatchRecords, NEW fresh
    PROVE  LET row == Written(b, loaded, fresh)
               column(f) == IF fresh[f] = loaded[f] THEN batches[b][f] ELSE fresh[f]
           IN  /\ row["status"] = column("status") /\ row["request"] = column("request")
               /\ row["number"] = column("number") /\ row["completed"] = column("completed")
               /\ row["failed"] = column("failed")
BY DEF Written, BatchRecords

\* What a commit does to the attempts of its batch, to the row of the batch and to
\* those of others.
LEMMA EndTaskWrites ==
    ASSUME OneUser, TypeInv, ActiveInv, NEW w \in Workers, EndTask(w)
    PROVE  /\ worker[w].phase = "refreshed"
           /\ \A v \in Workers : worker'[v].phase # "refreshed"
           /\ BatchOf(w) \in Opened /\ worker[w].job \in JobsOf(BatchOf(w))
           /\ jobs[worker[w].job].status = "running"
           /\ \A j \in JobsOf(BatchOf(w)) : jobs'[j].status = After(w, j)
           /\ batches'[BatchOf(w)] = Written(BatchOf(w), worker[w].loaded, worker[w].fresh)
           /\ \A o \in BatchIds : o # BatchOf(w) =>
                 \/ batches'[o] = batches[o]
                 \/ /\ batches[o].status = "pending"
                    /\ IsNextBatch(BatchOf(w), o) /\ Releases(w)
                    /\ batches'[o] = [batches[o] EXCEPT !.status = "running"]
<1> DEFINE i == worker[w].job
           b == BatchOf(w)
<1>1. /\ jobs \in [JobIds -> JobRecords] /\ worker \in [Workers -> WorkerRecords]
      /\ batches \in [BatchIds -> BatchRecords]
      /\ Created \subseteq JobIds /\ IdleWorker.phase = "idle"
  BY IdleTypes DEF TypeInv, TypeOK, WorkerRecords, Created
<1>2. worker[w].phase = "refreshed"
  BY DEF EndTask, Commit, CommitAndAdvance
<1>3. /\ i \in JobIds /\ i \in Created /\ jobs[i].status = "running"
      /\ b \in Opened /\ b \in BatchIds /\ i \in JobsOf(b)
  BY <1>1, <1>2 DEF TypeInv, HandsHoldJobs, JobsAreBatched, ActiveInv, TasksRun, Busy, BatchOf,
                    JobsOf, Opened
<1>4. \A v \in Workers : v # w => worker[v].phase \notin {"working", "refreshed"}
  <2>1. \A v \in Workers : worker[v].phase \in {"working", "refreshed"}
                           => worker[v].job \in JobIds /\ jobs[worker[v].job].status = "running"
    BY <1>1 DEF ActiveInv, TasksRun, WorkerRecords
  <2>2. \A v \in Workers : worker[v].phase \in {"working", "refreshed"} => worker[v].job = i
    BY <1>3, <2>1 DEF ActiveInv, AtMostOne, ActiveJobs
  <2>3. QED
    BY <1>2, <2>2 DEF ActiveInv, TasksApart, Busy
<1>5. \A v \in Workers : worker'[v].phase # "refreshed"
  <2>1. /\ worker'[w].phase \in {"idle", "advancing"}
        /\ \A v \in Workers : v # w => worker'[v] = worker[v]
    BY <1>1 DEF EndTask, Commit, CommitAndAdvance, Rest, WorkerRecords
  <2>2. QED
    BY <1>4, <2>1
<1>6. EndedJobs(w) \in [JobIds -> JobRecords]
      /\ \A j \in JobsOf(b) : EndedJobs(w)[j].status = After(w, j)
  <2>1. EndedJobs(w) \in [JobIds -> JobRecords]
    BY <1>2, <1>3, EndedTypes
  <2>2. JobsOf(b) \subseteq JobIds
    BY <1>1 DEF JobsOf
  <2>3. ASSUME NEW j \in JobIds
        PROVE  EndedJobs(w)[j].status = After(w, j)
    BY <1>1, <1>3 DEF EndedJobs, After, JobRecords
  <2>4. QED
    BY <2>1, <2>2, <2>3
<1>7. /\ EndedBatches(w)[b] = Written(b, worker[w].loaded, worker[w].fresh)
      /\ \A o \in BatchIds : o # b => EndedBatches(w)[o] = batches[o]
      /\ DOMAIN EndedBatches(w) = BatchIds
  BY <1>1, <1>3 DEF EndedBatches, BatchOf
<1> HIDE DEF i
<1>8. CASE Commit(w)
  BY <1>2, <1>3, <1>5, <1>6, <1>7, <1>8 DEF Commit, i
<1>9. CASE CommitAndAdvance(w)
  <2>1. PICK n \in BatchIds :
          /\ IsNextBatch(b, n) /\ Releases(w)
          /\ batches' = [EndedBatches(w) EXCEPT ![n].status = "running"]
          /\ \/ \E k \in PendingOf(n) : jobs' = [EndedJobs(w) EXCEPT ![k].status = "queued"]
             \/ jobs' = EndedJobs(w)
    BY <1>9 DEF CommitAndAdvance, BatchOf
  <2> HIDE DEF b
  <2>2. n # b /\ batches[n].status = "pending"
    BY <1>1, <1>3, <2>1 DEF IsNextBatch, BatchRecords
  <2>3. /\ batches'[b] = EndedBatches(w)[b]
        /\ batches'[n] = [batches[n] EXCEPT !.status = "running"]
        /\ \A o \in BatchIds : o # b /\ o # n => batches'[o] = batches[o]
    BY <1>3, <1>7, <2>1, <2>2
  <2>4. \A j \in JobsOf(b) : jobs'[j].status = After(w, j)
    <3>1. ASSUME NEW k \in PendingOf(n), jobs' = [EndedJobs(w) EXCEPT ![k].status = "queued"],
                 NEW j \in JobsOf(b)
          PROVE  jobs'[j] = EndedJobs(w)[j]
      <4>1. k # j /\ j \in JobIds
        BY <1>1, <2>2 DEF PendingOf, JobsOf
      <4>2. QED
        BY <1>6, <3>1, <4>1
    <3>2. QED
      BY <1>6, <2>1, <3>1
  <2>5. QED
    BY <1>2, <1>3, <1>5, <1>7, <2>1, <2>2, <2>3, <2>4 DEF b, i
<1>10. QED
  BY <1>8, <1>9 DEF EndTask

\* A commit that writes only the columns it changed leaves counters that are not ahead,
\* and right ones on a settled batch.
LEMMA EndTaskKeepsCounts ==
    ASSUME OneUser, TypeInv, TypeInv', ActiveInv, CountInv, AttemptsGoOn,
           NEW w \in Workers, EndTask(w)
    PROVE  CountInv'
<1> DEFINE l == worker[w].loaded
           f == worker[w].fresh
<1>0. PICK b : b = BatchOf(w)
  OBVIOUS
<1>1. /\ worker[w].phase = "refreshed" /\ b \in Opened /\ worker[w].job \in JobsOf(b)
      /\ jobs[worker[w].job].status = "running"
      /\ \A v \in Workers : worker'[v].phase # "refreshed"
      /\ \A j \in JobsOf(b) : jobs'[j].status = After(w, j)
      /\ batches'[b] = Written(b, l, f)
      /\ \A o \in BatchIds : o # b =>
                 \/ batches'[o] = batches[o]
                 \/ /\ batches[o].status = "pending"
                    /\ batches'[o] = [batches[o] EXCEPT !.status = "running"]
  BY <1>0, EndTaskWrites
<1>2. /\ l \in BatchRecords /\ f \in BatchRecords /\ b \in BatchIds
      /\ batches \in [BatchIds -> BatchRecords] /\ batches' \in [BatchIds -> BatchRecords]
  BY <1>1 DEF TypeInv, TypeOK, Opened
<1>3. RefreshLags' /\ RefreshCounts'
  BY <1>1 DEF RefreshLags, RefreshCounts
<1>4. /\ CompletedOf(b)' = CompletedAfter(w) /\ FailedOf(b)' = FailedAfter(w)
      /\ JobsOf(b)' = JobsOf(b)
  BY <1>0, <1>1 DEF AttemptsGoOn, CompletedOf, FailedOf, CompletedAfter, FailedAfter
<1>5. /\ batches'[b].completed = IF f.completed = l.completed THEN batches[b].completed ELSE f.completed
      /\ batches'[b].failed = IF f.failed = l.failed THEN batches[b].failed ELSE f.failed
      /\ batches'[b].status = IF f.status = l.status THEN batches[b].status ELSE f.status
  <2> HIDE DEF l, f
  <2>1. QED
    BY <1>1, <1>2, WrittenColumns
<1>6. Unsettled(b)
  BY <1>1 DEF CountInv, SettledBatchIsDone, Terminal, TerminalStatuses
<1>7. /\ f.completed <= Cardinality(CompletedAfter(w)) /\ f.failed <= Cardinality(FailedAfter(w))
      /\ l.status \in {"pending", "running"}
      /\ f.status \in DoneStatuses =>
            /\ \A k \in JobsOf(b) : k # worker[w].job => Terminal(k)
            /\ f.completed = Cardinality(CompletedAfter(w))
            /\ f.failed = Cardinality(JobsOf(b)) - f.completed
            /\ f.completed = l.completed => batches[b].completed = f.completed
            /\ f.failed = l.failed => batches[b].failed = f.failed
  BY <1>0, <1>1 DEF CountInv, RefreshLags, RefreshCounts
<1>8. /\ batches[b].completed <= Cardinality(CompletedOf(b)')
      /\ batches[b].failed <= Cardinality(FailedOf(b)')
  <2>1. /\ batches[b].completed <= Cardinality(CompletedOf(b))
        /\ batches[b].failed <= Cardinality(FailedOf(b))
        /\ batches[b].completed \in Nat /\ batches[b].failed \in Nat
    BY <1>1, <1>2 DEF CountInv, CountersLag, BatchRecords
  <2>2. /\ CompletedOf(b) \subseteq CompletedOf(b)' /\ FailedOf(b) \subseteq FailedOf(b)'
        /\ CompletedOf(b)' \in SUBSET JobIds /\ FailedOf(b)' \in SUBSET JobIds
    BY <1>1, AttemptsCount
  <2>3. /\ Cardinality(CompletedOf(b)) <= Cardinality(CompletedOf(b)')
        /\ Cardinality(FailedOf(b)) <= Cardinality(FailedOf(b)')
        /\ Cardinality(CompletedOf(b)) \in Nat /\ Cardinality(CompletedOf(b)') \in Nat
        /\ Cardinality(FailedOf(b)) \in Nat /\ Cardinality(FailedOf(b)') \in Nat
    BY <2>2, CountsGrow
  <2>4. QED
    BY <2>1, <2>3
<1>9. f.status \in DoneStatuses => \A j \in JobsOf(b)' : Terminal(j)'
  <2>1. worker[w].outcome \in {"completed", "failed"}
    BY DEF TypeInv, TypeOK
  <2>2. QED
    BY <1>1, <1>4, <1>7, <2>1 DEF After, Terminal, TerminalStatuses
<1>10. ASSUME ~Unsettled(b)', b \in Opened'
       PROVE  f.status \in DoneStatuses /\ f.status # l.status
  <2>1. batches'[b].status \notin {"none", "pending", "running"}
    BY <1>10 DEF Unsettled, Opened
  <2>2. f.status # l.status /\ batches'[b].status = f.status
    BY <1>5, <1>6, <2>1 DEF Unsettled
  <2>3. QED
    BY <1>2, <2>1, <2>2 DEF BatchRecords
<1>11. ASSUME NEW o \in Opened'
       PROVE  /\ batches'[o].completed <= Cardinality(CompletedOf(o)')
              /\ batches'[o].failed <= Cardinality(FailedOf(o)')
              /\ ~Unsettled(o)' =>
                    /\ \A j \in JobsOf(o)' : Terminal(j)'
                    /\ batches'[o].completed = Cardinality(CompletedOf(o)')
                    /\ batches'[o].failed = Cardinality(JobsOf(o)') - batches'[o].completed
  <2>1. CASE o = b
    <3> HIDE DEF l, f
    <3>1. /\ batches'[b].completed <= Cardinality(CompletedOf(b)')
          /\ batches'[b].failed <= Cardinality(FailedOf(b)')
      BY <1>4, <1>5, <1>7, <1>8
    <3>2. ASSUME ~Unsettled(b)'
          PROVE  /\ \A j \in JobsOf(b)' : Terminal(j)'
                 /\ batches'[b].completed = Cardinality(CompletedOf(b)')
                 /\ batches'[b].failed = Cardinality(JobsOf(b)') - batches'[b].completed
      <4>1. f.status \in DoneStatuses
        BY <1>10, <1>11, <2>1, <3>2
      <4>2. batches'[b].completed = f.completed /\ batches'[b].failed = f.failed
        BY <1>5, <1>7, <4>1
      <4>3. QED
        BY <1>4, <1>7, <1>9, <4>1, <4>2
    <3>3. QED
      BY <2>1, <3>1, <3>2
  <2>2. CASE o # b
    <3>1. o \in BatchIds /\ batches[o] \in BatchRecords
      BY <1>2 DEF Opened
    <3>2. /\ batches'[o].completed = batches[o].completed /\ batches'[o].failed = batches[o].failed
          /\ Unsettled(o)' <=> Unsettled(o)
          /\ batches'[o].status = "none" <=> batches[o].status = "none"
      BY <1>1, <2>2, <3>1 DEF Unsettled, BatchRecords
    <3>3. o \in Opened
      BY <3>1, <3>2 DEF Opened
    <3>4. QED
      BY <3>2, <3>3, QuietBatch
  <2>3. QED
    BY <2>1, <2>2
<1>12. SettledBatchIsDone' /\ CountersLag'
  BY <1>11 DEF SettledBatchIsDone, CountersLag, CompletedOf
<1>13. QED
  BY <1>3, <1>12 DEF CountInv

\* Disjoint sets of attempts count separately.
LEMMA CountsAdd ==
    ASSUME NEW C \in SUBSET JobIds, NEW F \in SUBSET JobIds, C \cap F = {}
    PROVE  /\ Cardinality(C) \in Nat /\ Cardinality(F) \in Nat
           /\ Cardinality(C \cup F) = Cardinality(C) + Cardinality(F)
           /\ \A j \in JobIds : j \notin C => Cardinality(C \cup {j}) = Cardinality(C) + 1
<1>1. IsFiniteSet(C) /\ IsFiniteSet(F) /\ Cardinality(C) \in Nat /\ Cardinality(F) \in Nat
  BY JobsAreCounted
<1>2. Cardinality(C \cup F) = Cardinality(C) + Cardinality(F) - Cardinality(C \cap F)
  BY <1>1, FS_Union
<1>3. Cardinality(C \cap F) = 0
  BY FS_EmptySet
<1>4. \A j \in JobIds : j \notin C => Cardinality(C \cup {j}) = Cardinality(C) + 1
  BY <1>1, FS_AddElement
<1>5. QED
  BY <1>1, <1>2, <1>3, <1>4

\* A refused message is counted at once: a task that refreshed the batch meanwhile
\* counts one attempt more, so that its commit writes the counter it changed.
LEMMA RefusedIsCounted ==
    ASSUME TypeInv, TypeInv', ActiveInv', CountInv, AttemptsGoOn, NEW v \in Workers, NEW n \in Opened,
           worker[v].phase = "refreshed", worker'[v] = worker[v], BatchOf(v) = n,
           worker[v].fresh.status \in DoneStatuses,
           batches'[n].completed = Cardinality(CompletedOf(n)'),
           batches'[n].failed = Cardinality(FailedOf(n)')
    PROVE  /\ worker[v].fresh.completed = worker[v].loaded.completed
              => batches'[n].completed = worker[v].fresh.completed
           /\ worker[v].fresh.failed = worker[v].loaded.failed
              => batches'[n].failed = worker[v].fresh.failed
<1>1. PICK j : j = worker[v].job
  OBVIOUS
<1>2. PICK f : f = worker[v].fresh
  OBVIOUS
<1>3. PICK l : l = worker[v].loaded
  OBVIOUS
<1>4. BatchOf(v)' = n /\ worker[v].outcome \in {"completed", "failed"}
      /\ f \in BatchRecords /\ l \in BatchRecords
  BY <1>2, <1>3, AttemptsCount DEF TypeInv, TypeOK
<1>5. j \in JobsOf(n)' /\ j \in JobIds /\ jobs'[j].status = "running" /\ JobsOf(n)' \in SUBSET JobIds
  BY <1>1, <1>4 DEF TypeInv, HandsHoldJobs, Busy, BatchOf, JobsOf, ActiveInv, TasksRun, Created
<1>6. /\ CompletedOf(n)' = {k \in JobsOf(n)' : jobs'[k].status = "completed"}
      /\ FailedOf(n)' = {k \in JobsOf(n)' : jobs'[k].status \in {"failed", "cancelled"}}
      /\ CompletedAfter(v)' = {k \in JobsOf(n)' : After(v, k)' = "completed"}
      /\ FailedAfter(v)' = {k \in JobsOf(n)' : After(v, k)' \in {"failed", "cancelled"}}
      /\ \A k \in JobsOf(n)' : After(v, k)' = IF k = j THEN worker[v].outcome ELSE jobs'[k].status
  BY <1>1, <1>4 DEF CompletedOf, FailedOf, CompletedAfter, FailedAfter, JobsOf, After
<1>7. /\ l.completed <= Cardinality(CompletedOf(n)') /\ l.failed <= Cardinality(FailedOf(n)')
      /\ f.completed = Cardinality(CompletedAfter(v)')
      /\ f.failed = Cardinality(JobsOf(n)') - f.completed
      /\ \A k \in JobsOf(n)' : k # j => Terminal(k)'
  <2>1. /\ CompletedOf(BatchOf(v))' = CompletedOf(n)' /\ FailedOf(BatchOf(v))' = FailedOf(n)'
        /\ JobsOf(BatchOf(v))' = JobsOf(n)'
    BY <1>4 DEF CompletedOf, FailedOf, JobsOf
  <2>2. QED
    BY <1>1, <1>2, <1>3, <2>1, QuietTask
<1> DEFINE C == CompletedOf(n)'
           F == FailedOf(n)'
           D == CompletedAfter(v)'
           G == FailedAfter(v)'
           S == JobsOf(n)'
<1>8. /\ C \in SUBSET JobIds /\ F \in SUBSET JobIds /\ D \in SUBSET JobIds /\ G \in SUBSET JobIds
      /\ C \cap F = {} /\ D \cap G = {} /\ j \notin C /\ j \notin F
  BY <1>5, <1>6
<1>9. D \cup G = S
  BY <1>4, <1>5, <1>6, <1>7 DEF Terminal, TerminalStatuses
<1>10. /\ worker[v].outcome = "completed" => D = C \cup {j} /\ G = F
       /\ worker[v].outcome = "failed" => D = C /\ G = F \cup {j}
  BY <1>5, <1>6
<1> HIDE DEF C, F, D, G, S
<1>11. /\ Cardinality(S) = Cardinality(D) + Cardinality(G)
       /\ Cardinality(D) \in Nat /\ Cardinality(G) \in Nat
  BY <1>8, <1>9, CountsAdd
<1>12. /\ Cardinality(C) \in Nat /\ Cardinality(F) \in Nat
       /\ Cardinality(C \cup {j}) = Cardinality(C) + 1
       /\ Cardinality(F \cup {j}) = Cardinality(F) + 1
  BY <1>5, <1>8, CountsAdd
<1>13. /\ f.completed = Cardinality(D) /\ f.failed = Cardinality(G)
       /\ l.completed <= Cardinality(C) /\ l.failed <= Cardinality(F)
       /\ batches'[n].completed = Cardinality(C) /\ batches'[n].failed = Cardinality(F)
       /\ l.completed \in Nat /\ l.failed \in Nat
  <2>1. f.completed = Cardinality(D) /\ f.failed = Cardinality(S) - Cardinality(D)
    BY <1>7 DEF D, S
  <2>2. f.failed = Cardinality(G)
    BY <1>11, <2>1
  <2>3. l.completed <= Cardinality(C) /\ l.failed <= Cardinality(F)
    BY <1>7 DEF C, F
  <2>4. batches'[n].completed = Cardinality(C) /\ batches'[n].failed = Cardinality(F)
    BY DEF C, F
  <2>5. l.completed \in Nat /\ l.failed \in Nat
    BY <1>4 DEF BatchRecords
  <2>6. QED
    BY <2>1, <2>2, <2>3, <2>4, <2>5
<1>14. CASE worker[v].outcome = "completed"
  <2>1. D = C \cup {j} /\ G = F
    BY <1>10, <1>14
  <2>2. f.completed # l.completed /\ batches'[n].failed = f.failed
    BY <1>12, <1>13, <2>1
  <2>3. QED
    BY <1>2, <1>3, <2>2
<1>15. CASE worker[v].outcome = "failed"
  <2>1. D = C /\ G = F \cup {j}
    BY <1>10, <1>15
  <2>2. f.failed # l.failed /\ batches'[n].completed = f.completed
    BY <1>12, <1>13, <2>1
  <2>3. QED
    BY <1>2, <1>3, <2>2
<1>16. QED
  BY <1>4, <1>14, <1>15

\* The attempt a refused publication fails is counted at once.
LEMMA RefusalKeepsCounts ==
    ASSUME OneUser, TypeInv, TypeInv', ActiveInv, ActiveInv', CountInv, AttemptsGoOn,
           NEW w \in Workers, AdvancePublishFails(w)
    PROVE  CountInv'
<1>1. PICK k : k = worker[w].next
  OBVIOUS
<1>2. PICK n : n = jobs[k].batch
  OBVIOUS
<1>3. /\ worker[w].phase = "advancing" /\ k \in Created /\ n \in Opened /\ n \in BatchIds /\ TypeOK
      /\ batches \in [BatchIds -> BatchRecords] /\ worker \in [Workers -> WorkerRecords]
      /\ IdleWorker.phase = "idle"
  BY <1>1, <1>2, IdleTypes
     DEF AdvancePublishFails, TypeInv, TypeOK, HandsHoldJobs, JobsAreBatched, Opened, WorkerRecords
<1>4. \A v \in Workers : worker'[v].phase = "refreshed" => worker'[v] = worker[v]
  BY <1>3 DEF AdvancePublishFails, Rest
<1>5. CASE UNCHANGED batches
  <2>1. Opened' = Opened /\ \A b \in Opened : Unsettled(b)' <=> Unsettled(b)
    BY <1>5 DEF Opened, Unsettled
  <2>2. QED
    BY <1>4, <1>5, <2>1, QuietCounts
<1>6. CASE ~UNCHANGED batches
  <2> DEFINE seen == [j \in JobIds |-> jobs'[j].status]
             row == Refreshed(n, seen)
             C == {j \in JobsOf(n) : seen[j] = "completed"}
             F == {j \in JobsOf(n) : seen[j] \in {"failed", "cancelled"}}
  <2>1. batches' = [batches EXCEPT ![n] = row]
    BY <1>1, <1>2, <1>6 DEF AdvancePublishFails
  <2>2. /\ row.completed = Cardinality(C) /\ row.failed = Cardinality(F)
        /\ (\A j \in JobsOf(n) : seen[j] \in TerminalStatuses)
           => row.failed = Cardinality(JobsOf(n)) - row.completed
        /\ ~(\A j \in JobsOf(n) : seen[j] \in TerminalStatuses)
           => row.status \in {"running", batches[n].status}
    BY <1>3, RefreshedSettles
  <2>3. /\ JobsOf(n)' = JobsOf(n) /\ C = CompletedOf(n)' /\ F = FailedOf(n)'
        /\ \A j \in JobsOf(n) : seen[j] \in TerminalStatuses <=> Terminal(j)'
    <3>1. JobsOf(n)' = JobsOf(n) /\ JobsOf(n) \subseteq JobIds
      BY <1>3 DEF AttemptsGoOn, JobsOf, Created
    <3>2. QED
      BY <3>1 DEF CompletedOf, FailedOf, Terminal
  <2> HIDE DEF seen, row, C, F
  <2>4. /\ batches'[n].completed = Cardinality(CompletedOf(n)')
        /\ batches'[n].failed = Cardinality(FailedOf(n)')
        /\ (\A j \in JobsOf(n) : Terminal(j)')
           => batches'[n].failed = Cardinality(JobsOf(n)) - batches'[n].completed
        /\ ~(\A j \in JobsOf(n) : Terminal(j)')
           => batches'[n].status \in {"running", batches[n].status}
    BY <1>3, <2>1, <2>2, <2>3
  <2>5. \A o \in BatchIds : o # n => batches'[o] = batches[o]
    BY <1>3, <2>1
  <2>6. ~Unsettled(n) => \A j \in JobsOf(n) : Terminal(j)'
    BY <1>3 DEF CountInv, SettledBatchIsDone, AttemptsGoOn, Terminal, JobsOf
  <2>7. Opened' \subseteq Opened
    BY <1>3, <2>5 DEF Opened
  <2>8. ASSUME NEW b \in Opened'
        PROVE  /\ batches'[b].completed <= Cardinality(CompletedOf(b)')
               /\ batches'[b].failed <= Cardinality(FailedOf(b)')
               /\ ~Unsettled(b)' =>
                     /\ \A j \in JobsOf(b)' : Terminal(j)'
                     /\ batches'[b].completed = Cardinality(CompletedOf(b)')
                     /\ batches'[b].failed = Cardinality(JobsOf(b)') - batches'[b].completed
    <3>1. CASE b = n
      <4>1. ~Unsettled(n)' => \A j \in JobsOf(n) : Terminal(j)'
        BY <2>4, <2>6 DEF Unsettled
      <4>2. batches'[n].completed \in Nat /\ batches'[n].failed \in Nat
        BY <1>3 DEF TypeInv, TypeOK, BatchRecords
      <4>3. QED
        BY <2>3, <2>4, <3>1, <4>1, <4>2
    <3>2. CASE b # n
      <4>1. b \in Opened /\ batches'[b] = batches[b] /\ (Unsettled(b)' <=> Unsettled(b))
        BY <2>5, <2>7, <3>2 DEF Opened, Unsettled
      <4>2. QED
        BY <4>1, QuietBatch
    <3>3. QED
      BY <3>1, <3>2
  <2>9. SettledBatchIsDone' /\ CountersLag'
    BY <2>8 DEF SettledBatchIsDone, CountersLag, CompletedOf
  <2>10. ASSUME NEW v \in Workers, worker'[v].phase = "refreshed"
         PROVE  worker[v].phase = "refreshed" /\ worker'[v] = worker[v] /\ BatchOf(v) \in Opened
                /\ BatchOf(v)' = BatchOf(v)
    BY <1>4, <2>10, AttemptsCount
  <2>11. RefreshLags'
    BY <2>10, QuietTask DEF RefreshLags
  <2>12. ASSUME NEW v \in Workers, worker'[v].phase = "refreshed", worker'[v].fresh.status \in DoneStatuses
         PROVE  /\ worker'[v].fresh.completed = worker'[v].loaded.completed
                   => batches'[BatchOf(v)'].completed = worker'[v].fresh.completed
                /\ worker'[v].fresh.failed = worker'[v].loaded.failed
                   => batches'[BatchOf(v)'].failed = worker'[v].fresh.failed
    <3>1. CASE BatchOf(v) = n
      BY <1>3, <2>4, <2>10, <2>12, <3>1, RefusedIsCounted
    <3>2. CASE BatchOf(v) # n
      <4>1. batches'[BatchOf(v)] = batches[BatchOf(v)]
        BY <2>5, <2>10, <2>12, <3>2 DEF Opened
      <4>2. QED
        BY <2>10, <2>12, <4>1, QuietTask
    <3>3. QED
      BY <3>1, <3>2
  <2>13. RefreshCounts'
    BY <2>10, <2>12, QuietTask DEF RefreshCounts
  <2>14. QED
    BY <2>9, <2>11, <2>13 DEF CountInv
<1>7. QED
  BY <1>5, <1>6

\* Every step keeps the counters behind the attempts.
LEMMA CountStep ==
    ASSUME OneUser, TypeInv, ActiveInv, CountInv, [Next]_vars
    PROVE  CountInv'
<1>1. TypeInv' /\ ActiveInv'
  BY TypeStep, ActiveStep
<1>2. CASE UNCHANGED vars
  <2>1. UNCHANGED <<jobs, batches, worker>>
    BY <1>2 DEF vars
  <2>2. AttemptsGoOn
    BY <2>1, StatusesGoOn DEF TypeInv, TypeOK
  <2>3. Opened' = Opened /\ \A b \in Opened : Unsettled(b)' <=> Unsettled(b)
    BY <2>1 DEF Opened, Unsettled
  <2>4. QED
    BY <1>1, <2>1, <2>2, <2>3, QuietCounts
<1>3. ASSUME NEW c \in Clients,
             \/ ProcessSelected(c) \/ Dispatch(c) \/ ClientDies(c) \/ Reap(c)
             \/ \E j \in JobIds : Cancel(c, j)
             \/ \E b \in BatchIds : Reconcile(c, b)
      PROVE  CountInv'
  <2>1. ~Reap(c) /\ \A b \in BatchIds : ~Reconcile(c, b)
    BY DEF OneUser, Reap, RecoverStale, FailStale, Reconcile, MayRun
  <2>2. AttemptsGoOn
    BY <1>3, <2>1, UserGoesOn
  <2>3. QED
    BY <1>1, <1>3, <2>1, <2>2, QuietSteps
<1>4. ASSUME NEW w \in Workers,
             \/ TakeAny(w) \/ Refresh(w) \/ EndTask(w)
             \/ AdvancePublish(w) \/ AdvancePublishFails(w) \/ WorkerDies(w)
      PROVE  CountInv'
  <2>1. AttemptsGoOn
    BY <1>4, TasksGoOn
  <2>2. QED
    BY <1>1, <1>4, <2>1, QuietSteps, RefreshKeepsCounts, EndTaskKeepsCounts, RefusalKeepsCounts
<1>5. QED
  BY <1>2, <1>3, <1>4, NothingComesBack DEF Next

\* A batch that is settled has only settled attempts, and its counters say how they
\* ended, whichever tasks loaded its row before others wrote it.
THEOREM SettledBatchesAreDone ==
    ASSUME OneUser
    PROVE  Spec => []SettledBatchIsDone
<1>1. TypeInv /\ ActiveInv /\ CountInv /\ [Next]_vars => (TypeInv /\ ActiveInv /\ CountInv)'
  BY TypeStep, ActiveStep, CountStep
<1>2. CountInv => SettledBatchIsDone
  BY DEF CountInv
<1>3. QED
  BY <1>1, <1>2, InitTypes, InitActive, InitCounts, PTL DEF Spec

-----------------------------------------------------------------------------
(***************************************************************************)
(* The end of a batch is noticed.                                          *)
(***************************************************************************)
\* An attempt that a task ended.
Finished(j) == jobs[j].status = "completed" \/ jobs[j].cause = "task"

\* Only a task blames itself, and only for a failure.
TaskFailed == \A j \in JobIds : jobs[j].cause = "task" => jobs[j].status = "failed"

BatchesHaveJobs == \A b \in Opened : JobsOf(b) # {}

\* The task that is about to end the last attempt of its batch knows that it is the last.
RefreshNotices ==
    \A w \in Workers :
        /\ worker[w].phase = "refreshed"
        /\ \A k \in JobsOf(BatchOf(w)) : k # worker[w].job => Finished(k)
        => worker[w].fresh.status \in DoneStatuses

FinishInv ==
    /\ TaskFailed
    /\ BatchesHaveJobs
    /\ RefreshNotices
    /\ FinishedBatchIsSettled

\* No attempt has ended at the start.
LEMMA InitFinish == Init => FinishInv
BY DEF Init, FinishInv, TaskFailed, BatchesHaveJobs, RefreshNotices, FinishedBatchIsSettled,
       Opened, NoBatch, NoJob, IdleWorker

\* The steps that end no attempt by a task.
LEMMA QuietFinish ==
    ASSUME TypeInv, TypeInv', AttemptsGoOn, FinishInv,
           TaskFailed',
           \A j \in Created : Finished(j)' => Finished(j),
           \A b \in Opened : ~Unsettled(b) => ~Unsettled(b)',
           \A b \in Opened' : b \notin Opened => \E j \in JobsOf(b)' : ~Finished(j)',
           \A w \in Workers : worker'[w].phase = "refreshed" => worker'[w] = worker[w]
    PROVE  FinishInv'
<1>1. \A b \in Opened : JobsOf(b)' = JobsOf(b) /\ JobsOf(b) \subseteq Created
  BY DEF AttemptsGoOn, JobsOf
<1>2. BatchesHaveJobs'
  <2>1. \A b \in Opened' : JobsOf(b)' # {}
    BY <1>1 DEF FinishInv, BatchesHaveJobs
  <2>2. QED
    BY <2>1 DEF BatchesHaveJobs
<1>3. FinishedBatchIsSettled'
  <2>1. \A b \in Opened' : (\A j \in JobsOf(b)' : Finished(j)') => ~Unsettled(b)'
    BY <1>1 DEF FinishInv, FinishedBatchIsSettled, Finished
  <2>2. QED
    BY <2>1 DEF FinishedBatchIsSettled, Finished
<1>4. RefreshNotices'
  <2> SUFFICES ASSUME NEW w \in Workers, worker'[w].phase = "refreshed",
                      \A k \in JobsOf(BatchOf(w))' : k # worker'[w].job => Finished(k)'
               PROVE  worker'[w].fresh.status \in DoneStatuses
    BY DEF RefreshNotices
  <2>1. worker[w].phase = "refreshed" /\ worker'[w] = worker[w]
    OBVIOUS
  <2>2. PICK b : b = BatchOf(w)
    OBVIOUS
  <2>3. b \in Opened /\ BatchOf(w)' = b
    BY <2>1, <2>2, AttemptsCount
  <2>4. JobsOf(BatchOf(w))' = JobsOf(b)
    BY <1>1, <2>3 DEF JobsOf
  <2>5. \A k \in JobsOf(b) : k # worker[w].job => Finished(k)
    BY <1>1, <2>1, <2>3, <2>4
  <2>6. QED
    BY <2>1, <2>2, <2>5 DEF FinishInv, RefreshNotices
<1>5. QED
  BY <1>2, <1>3, <1>4 DEF FinishInv

\* What becomes of an attempt that no task ends.
MovesAside(j) ==
    \/ jobs'[j] = jobs[j]
    \/ /\ jobs[j].status \in {"pending", "queued", "running"} /\ jobs'[j].cause = jobs[j].cause
       /\ jobs'[j].status # "completed"
    \/ jobs'[j].cause = "enqueue" /\ jobs'[j].status = "failed"

\* Attempts that are only moved, added, cancelled or lost are not ended by a task.
LEMMA AsideFinishesNothing ==
    ASSUME FinishInv, \A j \in JobIds : MovesAside(j)
    PROVE  /\ TaskFailed'
           /\ \A j \in Created : Finished(j)' => Finished(j)
<1>1. TaskFailed'
  BY DEF FinishInv, TaskFailed, MovesAside
<1>2. \A j \in JobIds : Finished(j)' => Finished(j)
  BY DEF MovesAside, Finished
<1>3. QED
  BY <1>1, <1>2 DEF Created

\* The user ends no attempt by a task ...
LEMMA UserKeepsFinish ==
    ASSUME OneUser, TypeInv, TypeInv', ActiveInv, CountInv, AttemptsGoOn, FinishInv,
           NEW c \in Clients,
           \/ ProcessSelected(c) \/ Dispatch(c) \/ ClientDies(c)
           \/ \E j \in JobIds : Cancel(c, j)
    PROVE  FinishInv'
<1>1. jobs \in [JobIds -> JobRecords] /\ batches \in [BatchIds -> BatchRecords]
  BY DEF TypeInv, TypeOK
<1>2. ASSUME UNCHANGED worker, Opened' = Opened, \A j \in JobIds : MovesAside(j),
             \A b \in Opened : ~Unsettled(b) => ~Unsettled(b)'
      PROVE  FinishInv'
  BY <1>2, AsideFinishesNothing, QuietFinish
<1>3. ASSUME UNCHANGED <<batches, worker>>, \A j \in JobIds : MovesAside(j)
      PROVE  FinishInv'
  <2>1. Opened' = Opened /\ \A b \in Opened : ~Unsettled(b) => ~Unsettled(b)'
    BY <1>3 DEF Opened, Unsettled
  <2>2. QED
    BY <1>2, <1>3, <2>1
<1>4. CASE CheckManual(c) \/ CountActive(c) \/ Pick(c) \/ Publish(c) \/ ClientDies(c)
  BY <1>3, <1>4 DEF CheckManual, CountActive, Pick, Publish, ClientDies, MovesAside
<1>5. CASE PublishFails(c)
  <2>1. UNCHANGED <<batches, worker>> /\ jobs' \in {jobs, Refused(client[c].job)}
    BY <1>5 DEF PublishFails
  <2>2. \A j \in JobIds : MovesAside(j)
    BY <1>1, <2>1 DEF Refused, MovesAside, JobRecords
  <2>3. QED
    BY <1>3, <2>1, <2>2
<1>6. ASSUME NEW j \in JobIds, Cancel(c, j)
      PROVE  FinishInv'
  <2>1. \A k \in JobIds : MovesAside(k)
    BY <1>1, <1>6 DEF Cancel, MovesAside, JobRecords
  <2>2. QED
    BY <1>3, <1>6, <2>1 DEF Cancel
<1>7. CASE Promote(c)
  <2> DEFINE j == client[c].job
             o == jobs[j].batch
  <2>1. /\ UNCHANGED worker /\ j \in JobIds /\ jobs[j].status = "pending" /\ Unsettled(o)
        /\ o \in BatchIds
        /\ jobs' = [jobs EXCEPT ![j].status = "queued"]
        /\ batches' = batches \/ batches' = [batches EXCEPT ![o].status = "running"]
    BY <1>7 DEF Promote, ActiveInv, PickedWaits, TypeInv, HandsHoldJobs, JobsAreBatched, Opened, Created
  <2> HIDE DEF j, o
  <2>2. \A k \in JobIds : MovesAside(k)
    BY <1>1, <2>1 DEF MovesAside, JobRecords
  <2>3. \A b \in BatchIds : /\ Unsettled(b)' <=> Unsettled(b)
                            /\ batches'[b].status = "none" <=> batches[b].status = "none"
    BY <1>1, <2>1 DEF Unsettled, BatchRecords
  <2>4. Opened' = Opened /\ \A b \in Opened : ~Unsettled(b) => ~Unsettled(b)'
    BY <2>3 DEF Opened
  <2>5. QED
    BY <1>2, <2>1, <2>2, <2>4
<1>8. CASE ProcessSelected(c)
  <2>1. /\ UNCHANGED worker
        /\ \A j \in Created : jobs'[j] = jobs[j]
        /\ \A b \in Opened : batches'[b] = batches[b]
        /\ \A j \in Created' : j \notin Created => jobs'[j].status = "pending" /\ jobs'[j].cause = "none"
        /\ \A b \in Opened' : b \notin Opened => JobsOf(b)' # {} /\ \A j \in JobsOf(b)' : j \notin Created
    BY <1>8, RequestAdds
  <2>2. \A j \in JobIds : j \notin Created' => j \notin Created
    BY <1>8, RequestAdds
  <2>3. TaskFailed'
    <3>1. \A j \in JobIds : j \notin Created => jobs'[j] = jobs[j] \/ jobs'[j].cause = "none"
      BY <1>8 DEF ProcessSelected, NoJob
    <3>2. QED
      BY <2>1, <3>1 DEF FinishInv, TaskFailed
  <2>4. \A b \in Opened' : b \notin Opened => \E j \in JobsOf(b)' : ~Finished(j)'
    BY <2>1 DEF Finished, JobsOf
  <2>5. \A j \in Created : Finished(j)' => Finished(j)
    BY <2>1 DEF Finished
  <2>6. \A b \in Opened : ~Unsettled(b) => ~Unsettled(b)'
    BY <2>1 DEF Unsettled
  <2>7. QED
    BY <2>1, <2>3, <2>4, <2>5, <2>6, QuietFinish
<1>9. QED
  BY <1>4, <1>5, <1>6, <1>7, <1>8 DEF Dispatch

\* ... nor does a task that starts, publishes or dies.
LEMMA TasksKeepFinish ==
    ASSUME OneUser, TypeInv, TypeInv', ActiveInv, CountInv, AttemptsGoOn, FinishInv,
           NEW w \in Workers,
           TakeAny(w) \/ AdvancePublish(w) \/ AdvancePublishFails(w) \/ WorkerDies(w)
    PROVE  FinishInv'
<1>1. /\ jobs \in [JobIds -> JobRecords] /\ batches \in [BatchIds -> BatchRecords]
      /\ worker \in [Workers -> WorkerRecords] /\ IdleWorker.phase = "idle" /\ TypeOK
  BY IdleTypes DEF TypeInv, TypeOK, WorkerRecords
<1>2. ASSUME UNCHANGED batches, \A j \in JobIds : MovesAside(j),
             \A v \in Workers : worker'[v].phase = "refreshed" => worker'[v] = worker[v]
      PROVE  FinishInv'
  <2>1. Opened' = Opened /\ \A b \in Opened : ~Unsettled(b) => ~Unsettled(b)'
    BY <1>2 DEF Opened, Unsettled
  <2>2. QED
    BY <1>2, <2>1, AsideFinishesNothing, QuietFinish
<1>3. ASSUME NEW j \in JobIds, Take(w, j)
      PROVE  FinishInv'
  <2>1. jobs[j].status \in {"queued", "running"}
    BY <1>1, <1>3 DEF Take, Delivered, Terminal, ActiveInv, QueuedLeft, TypeInv, HandsHoldJobs,
                      Created, JobRecords
  <2>2. \A k \in JobIds : MovesAside(k)
    BY <1>1, <1>3, <2>1 DEF Take, MovesAside, JobRecords
  <2> DEFINE x == [IdleWorker EXCEPT !.phase = "working", !.job = j]
  <2>3. x.phase = "working"
    BY DEF IdleWorker
  <2>4. worker' = [worker EXCEPT ![w] = x]
    BY <1>3 DEF Take
  <2> HIDE DEF x
  <2>5. \A v \in Workers : worker'[v].phase = "refreshed" => worker'[v] = worker[v]
    BY <1>1, <2>3, <2>4
  <2>6. QED
    BY <1>2, <1>3, <2>2, <2>5 DEF Take
<1>4. ASSUME NEW j \in JobIds, Ignore(w, j)
      PROVE  FinishInv'
  BY <1>2, <1>4 DEF Ignore, MovesAside
<1>5. Rest(w) => \A v \in Workers : worker'[v].phase = "refreshed" => worker'[v] = worker[v]
  BY <1>1 DEF Rest
<1>6. CASE AdvancePublish(w) \/ WorkerDies(w)
  BY <1>2, <1>5, <1>6 DEF AdvancePublish, WorkerDies, MovesAside
<1>7. CASE AdvancePublishFails(w)
  <2>1. PICK k : k = worker[w].next
    OBVIOUS
  <2>2. PICK n : n = jobs[k].batch
    OBVIOUS
  <2>3. /\ k \in Created /\ k \in JobIds /\ n \in Opened /\ n \in BatchIds
        /\ jobs' \in {jobs, Refused(k)} /\ Rest(w)
    BY <1>7, <2>1, <2>2 DEF AdvancePublishFails, TypeInv, HandsHoldJobs, JobsAreBatched, Opened, Created
  <2>4. \A j \in JobIds : MovesAside(j)
    BY <1>1, <2>3 DEF Refused, MovesAside, JobRecords
  <2>5. CASE UNCHANGED batches
    BY <1>2, <1>5, <2>3, <2>4, <2>5
  <2>6. CASE ~UNCHANGED batches
    <3> DEFINE seen == [j \in JobIds |-> jobs'[j].status]
    <3>1. batches' = [batches EXCEPT ![n] = Refreshed(n, seen)]
      BY <1>7, <2>1, <2>2, <2>6 DEF AdvancePublishFails
    <3>2. ~Unsettled(n) => \A j \in JobsOf(n) : seen[j] \in TerminalStatuses
      BY <2>3 DEF CountInv, SettledBatchIsDone, AttemptsGoOn, Terminal, JobsOf, Created
    <3> HIDE DEF seen
    <3>3. (\A j \in JobsOf(n) : seen[j] \in TerminalStatuses) => Refreshed(n, seen).status \in DoneStatuses
      BY <1>1, <2>3, RefreshedSettles
    <3>4. Refreshed(n, seen).status # "none"
      BY <1>1, <2>3, RefreshedType
    <3>5. /\ ~Unsettled(n) => ~Unsettled(n)'
          /\ batches'[n].status # "none"
          /\ \A b \in BatchIds : b # n => batches'[b] = batches[b]
      BY <1>1, <2>3, <3>1, <3>2, <3>3, <3>4 DEF Unsettled, DoneStatuses
    <3>6. Opened' = Opened /\ \A b \in Opened : ~Unsettled(b) => ~Unsettled(b)'
      BY <2>3, <3>5 DEF Opened, Unsettled
    <3>7. QED
      BY <1>5, <2>3, <2>4, <3>6, AsideFinishesNothing, QuietFinish
  <2>7. QED
    BY <2>5, <2>6
<1>8. QED
  BY <1>3, <1>4, <1>6, <1>7 DEF TakeAny

\* A refresh with every other attempt ended finds the batch done.
LEMMA RefreshKeepsFinish ==
    ASSUME OneUser, TypeInv, TypeInv', ActiveInv, CountInv, AttemptsGoOn, FinishInv,
           NEW w \in Workers, Refresh(w)
    PROVE  FinishInv'
<1>1. PICK j : j = worker[w].job
  OBVIOUS
<1>2. PICK b : b = BatchOf(w)
  OBVIOUS
<1> DEFINE seen(outcome) == [k \in JobIds |-> IF k = j THEN outcome ELSE jobs[k].status]
<1>3. PICK outcome \in {"completed", "failed"} :
          worker' = [worker EXCEPT ![w] =
                 [IdleWorker EXCEPT !.phase = "refreshed", !.job = j, !.outcome = outcome,
                    !.loaded = batches[b], !.fresh = Refreshed(b, seen(outcome))]]
  BY <1>1, <1>2 DEF Refresh, BatchOf
<1>4. /\ TypeOK /\ worker \in [Workers -> WorkerRecords] /\ b \in BatchIds
      /\ UNCHANGED <<jobs, batches>>
  BY <1>2 DEF Refresh, TypeInv, TypeOK, HandsHoldJobs, JobsAreBatched, Busy, Opened, BatchOf, WorkerRecords
<1>5. /\ worker'[w].job = j /\ worker'[w].fresh = Refreshed(b, seen(outcome))
      /\ \A v \in Workers : v # w => worker'[v] = worker[v]
  BY <1>3, <1>4 DEF IdleWorker
<1>6. /\ Opened' = Opened /\ BatchOf(w)' = b /\ \A o : JobsOf(o)' = JobsOf(o)
      /\ \A v \in Workers : v # w => BatchOf(v)' = BatchOf(v)
  BY <1>1, <1>2, <1>4, <1>5 DEF Opened, Created, JobsOf, BatchOf
<1>7. TaskFailed' /\ BatchesHaveJobs'
  BY <1>4, <1>6 DEF FinishInv, TaskFailed, BatchesHaveJobs
<1>8. FinishedBatchIsSettled'
  BY <1>4, <1>6 DEF FinishInv, FinishedBatchIsSettled, Unsettled
<1>9. (\A k \in JobsOf(b) : k # j => Finished(k))
      => worker'[w].fresh.status \in DoneStatuses
  <2>1. (\A k \in JobsOf(b) : k # j => Finished(k))
        => \A k \in JobsOf(b) : seen(outcome)[k] \in TerminalStatuses
    BY DEF FinishInv, TaskFailed, Finished, JobsOf, Created, TerminalStatuses
  <2> DEFINE row == Refreshed(b, seen(outcome))
             all == seen(outcome)
  <2> HIDE DEF seen
  <2>2. (\A k \in JobsOf(b) : all[k] \in TerminalStatuses) => Refreshed(b, all).status \in DoneStatuses
    BY <1>4, RefreshedSettles
  <2>3. QED
    BY <1>5, <2>1, <2>2
<1>10. RefreshNotices'
  <2> SUFFICES ASSUME NEW v \in Workers, worker'[v].phase = "refreshed",
                      \A k \in JobsOf(BatchOf(v))' : k # worker'[v].job => Finished(k)'
               PROVE  worker'[v].fresh.status \in DoneStatuses
    BY DEF RefreshNotices
  <2>1. \A k : Finished(k)' <=> Finished(k)
    BY <1>4 DEF Finished
  <2>2. PICK o : o = BatchOf(v)
    OBVIOUS
  <2>3. CASE v = w
    <3>1. JobsOf(BatchOf(v))' = JobsOf(b)
      BY <1>6, <2>3 DEF JobsOf
    <3>2. QED
      BY <1>5, <1>9, <2>1, <2>3, <3>1
  <2>4. CASE v # w
    <3>1. worker'[v] = worker[v] /\ JobsOf(BatchOf(v))' = JobsOf(o)
      BY <1>5, <1>6, <2>2, <2>4 DEF JobsOf
    <3>2. QED
      BY <2>1, <2>2, <3>1 DEF FinishInv, RefreshNotices
  <2>5. QED
    BY <2>3, <2>4
<1>11. QED
  BY <1>7, <1>8, <1>10 DEF FinishInv

\* What a commit does to each attempt.
LEMMA EndTaskEndsOne ==
    ASSUME OneUser, TypeInv, ActiveInv, NEW w \in Workers, EndTask(w)
    PROVE  /\ jobs'[worker[w].job].status = worker[w].outcome
           /\ jobs'[worker[w].job].cause
                 = IF worker[w].outcome = "failed" THEN "task" ELSE jobs[worker[w].job].cause
           /\ \A j \in JobIds : j # worker[w].job =>
                 \/ jobs'[j] = jobs[j]
                 \/ /\ jobs[j].status = "pending" /\ batches[jobs[j].batch].status = "pending"
                    /\ batches'[jobs[j].batch].status = "running"
                    /\ jobs'[j] = [jobs[j] EXCEPT !.status = "queued"]
<1>1. PICK i : i = worker[w].job
  OBVIOUS
<1>2. /\ worker[w].phase = "refreshed" /\ i \in JobIds /\ jobs[i].status = "running"
      /\ jobs \in [JobIds -> JobRecords]
  BY <1>1 DEF EndTask, Commit, CommitAndAdvance, TypeInv, TypeOK, HandsHoldJobs, Busy,
              ActiveInv, TasksRun
<1>3. /\ EndedJobs(w) \in [JobIds -> JobRecords]
      /\ EndedBatches(w) \in [BatchIds -> BatchRecords]
  BY <1>1, <1>2, EndedTypes
<1>4. /\ EndedJobs(w)[i].status = worker[w].outcome
      /\ EndedJobs(w)[i].cause = IF worker[w].outcome = "failed" THEN "task" ELSE jobs[i].cause
      /\ \A j \in JobIds : j # i => EndedJobs(w)[j] = jobs[j]
  BY <1>1, <1>2 DEF EndedJobs, JobRecords
<1>5. CASE jobs' = EndedJobs(w)
  BY <1>1, <1>4, <1>5
<1>6. ASSUME NEW n \in BatchIds, NEW k \in PendingOf(n), batches[n].status = "pending",
             batches' = [EndedBatches(w) EXCEPT ![n].status = "running"],
             jobs' = [EndedJobs(w) EXCEPT ![k].status = "queued"]
      PROVE  /\ jobs'[i] = EndedJobs(w)[i] /\ k # i /\ k \in JobIds
             /\ jobs[k].status = "pending" /\ batches[jobs[k].batch].status = "pending"
             /\ batches'[jobs[k].batch].status = "running"
             /\ jobs'[k] = [jobs[k] EXCEPT !.status = "queued"]
             /\ \A j \in JobIds : j # i /\ j # k => jobs'[j] = jobs[j]
  <2>1. k # i /\ k \in JobIds /\ jobs[k].status = "pending" /\ jobs[k].batch = n
    BY <1>2 DEF PendingOf, JobsOf, Created
  <2>2. jobs'[i] = EndedJobs(w)[i] /\ jobs'[k] = [jobs[k] EXCEPT !.status = "queued"]
    BY <1>2, <1>3, <1>4, <1>6, <2>1
  <2>3. batches'[n].status = "running"
    BY <1>3, <1>6 DEF BatchRecords
  <2>4. \A j \in JobIds : j # i /\ j # k => jobs'[j] = jobs[j]
    BY <1>3, <1>4, <1>6, <2>1
  <2>5. QED
    BY <1>6, <2>1, <2>2, <2>3, <2>4
<1>7. QED
  BY <1>1, <1>4, <1>5, <1>6 DEF EndTask, Commit, CommitAndAdvance, IsNextBatch

\* The commit of the last task settles its batch.
LEMMA EndTaskKeepsFinish ==
    ASSUME OneUser, TypeInv, TypeInv', ActiveInv, CountInv, AttemptsGoOn, FinishInv,
           NEW w \in Workers, EndTask(w)
    PROVE  FinishInv'
<1>1. PICK i : i = worker[w].job
  OBVIOUS
<1>2. PICK b : b = BatchOf(w)
  OBVIOUS
<1>3. /\ worker[w].phase = "refreshed" /\ b \in Opened /\ i \in JobsOf(b)
      /\ jobs[i].status = "running"
      /\ \A v \in Workers : worker'[v].phase # "refreshed"
      /\ batches'[b] = Written(b, worker[w].loaded, worker[w].fresh)
      /\ \A o \in BatchIds : o # b =>
                 \/ batches'[o] = batches[o]
                 \/ /\ batches[o].status = "pending"
                    /\ batches'[o] = [batches[o] EXCEPT !.status = "running"]
  BY <1>1, <1>2, EndTaskWrites
<1>4. /\ jobs'[i].status = worker[w].outcome
      /\ jobs'[i].cause = IF worker[w].outcome = "failed" THEN "task" ELSE jobs[i].cause
      /\ \A j \in JobIds : j # i =>
             \/ jobs'[j] = jobs[j]
             \/ jobs[j].status = "pending" /\ jobs'[j] = [jobs[j] EXCEPT !.status = "queued"]
  BY <1>1, EndTaskEndsOne
<1>5. /\ jobs \in [JobIds -> JobRecords] /\ worker[w].outcome \in {"completed", "failed"}
      /\ batches \in [BatchIds -> BatchRecords] /\ Opened \subseteq BatchIds /\ Opened' \subseteq BatchIds
      /\ Created \subseteq JobIds
      /\ worker[w].loaded \in BatchRecords /\ worker[w].fresh \in BatchRecords
  BY DEF TypeInv, TypeOK, Opened, Created
<1>6. \A j \in JobIds : j # i =>
          /\ jobs'[j].cause = jobs[j].cause
          /\ \/ jobs'[j].status = jobs[j].status
             \/ jobs[j].status = "pending" /\ jobs'[j].status = "queued"
  <2> SUFFICES ASSUME NEW j \in JobIds, j # i
               PROVE  /\ jobs'[j].cause = jobs[j].cause
                      /\ \/ jobs'[j].status = jobs[j].status
                         \/ jobs[j].status = "pending" /\ jobs'[j].status = "queued"
    OBVIOUS
  <2>1. jobs[j] \in JobRecords
    BY <1>5
  <2>2. QED
    BY <1>4, <2>1 DEF JobRecords
<1>7. TaskFailed' /\ \A j \in JobIds : j # i => (Finished(j)' => Finished(j))
  BY <1>3, <1>4, <1>5, <1>6 DEF FinishInv, TaskFailed, Finished
<1>8. \A o \in Opened : JobsOf(o)' = JobsOf(o) /\ JobsOf(o) \subseteq JobIds
  BY DEF AttemptsGoOn, JobsOf, Created
<1>9. Opened' \subseteq Opened
  BY <1>3, <1>5 DEF Opened
<1>10. RefreshNotices' /\ BatchesHaveJobs'
  BY <1>3, <1>8, <1>9 DEF FinishInv, RefreshNotices, BatchesHaveJobs
<1>11. ASSUME NEW o \in Opened', \A j \in JobsOf(o)' : Finished(j)'
       PROVE  ~Unsettled(o)'
  <2>1. CASE o = b
    <3>1. \A k \in JobsOf(b) : k # i => Finished(k)
      BY <1>3, <1>7, <1>8, <1>11, <2>1
    <3>2. worker[w].fresh.status \in DoneStatuses /\ worker[w].loaded.status \in {"pending", "running"}
      BY <1>1, <1>2, <1>3, <3>1 DEF FinishInv, RefreshNotices, CountInv, RefreshLags
    <3>3. batches'[b].status = worker[w].fresh.status
      <4>1. Written(b, worker[w].loaded, worker[w].fresh).status
               = IF worker[w].fresh.status = worker[w].loaded.status
                 THEN batches[b].status ELSE worker[w].fresh.status
        <5>1. PICK l \in BatchRecords : l = worker[w].loaded
          BY <1>5
        <5>2. PICK f : f = worker[w].fresh
          OBVIOUS
        <5>3. Written(b, l, f).status = IF f.status = l.status THEN batches[b].status ELSE f.status
          BY WrittenColumns
        <5>4. QED
          BY <5>1, <5>2, <5>3
      <4>2. QED
        BY <1>3, <3>2, <4>1 DEF DoneStatuses
    <3>4. QED
      BY <2>1, <3>2, <3>3 DEF Unsettled, DoneStatuses
  <2>2. CASE o # b
    <3>1. o \in Opened /\ o \in BatchIds
      BY <1>5, <1>9
    <3>2. \A j \in JobsOf(o) : Finished(j)
      BY <1>3, <1>7, <1>8, <1>11, <2>2, <3>1 DEF JobsOf
    <3>3. ~Unsettled(o)
      BY <3>1, <3>2 DEF FinishInv, FinishedBatchIsSettled, Finished
    <3>4. batches'[o] = batches[o]
      BY <1>3, <2>2, <3>1, <3>3 DEF Unsettled
    <3>5. QED
      BY <3>3, <3>4 DEF Unsettled
  <2>3. QED
    BY <2>1, <2>2
<1>12. FinishedBatchIsSettled'
  BY <1>11 DEF FinishedBatchIsSettled, Finished
<1>13. QED
  BY <1>7, <1>10, <1>12 DEF FinishInv

\* Every step leaves a finished batch settled.
LEMMA FinishStep ==
    ASSUME OneUser, TypeInv, ActiveInv, CountInv, FinishInv, [Next]_vars
    PROVE  FinishInv'
<1>1. TypeInv' /\ ActiveInv'
  BY TypeStep, ActiveStep
<1>2. CASE UNCHANGED vars
  <2>1. UNCHANGED <<jobs, batches, worker>>
    BY <1>2 DEF vars
  <2>2. AttemptsGoOn
    BY <2>1, StatusesGoOn DEF TypeInv, TypeOK
  <2>3. Opened' = Opened /\ (\A b \in Opened : ~Unsettled(b) => ~Unsettled(b)')
        /\ TaskFailed' /\ (\A j \in Created : Finished(j)' => Finished(j))
    BY <2>1 DEF Opened, Unsettled, FinishInv, TaskFailed, Finished
  <2>4. QED
    BY <1>1, <2>1, <2>2, <2>3, QuietFinish
<1>3. ASSUME NEW c \in Clients,
             \/ ProcessSelected(c) \/ Dispatch(c) \/ ClientDies(c) \/ Reap(c)
             \/ \E j \in JobIds : Cancel(c, j)
             \/ \E b \in BatchIds : Reconcile(c, b)
      PROVE  FinishInv'
  <2>1. ~Reap(c) /\ \A b \in BatchIds : ~Reconcile(c, b)
    BY DEF OneUser, Reap, RecoverStale, FailStale, Reconcile, MayRun
  <2>2. AttemptsGoOn
    BY <1>3, <2>1, UserGoesOn
  <2>3. QED
    BY <1>1, <1>3, <2>1, <2>2, UserKeepsFinish
<1>4. ASSUME NEW w \in Workers,
             \/ TakeAny(w) \/ Refresh(w) \/ EndTask(w)
             \/ AdvancePublish(w) \/ AdvancePublishFails(w) \/ WorkerDies(w)
      PROVE  FinishInv'
  <2>1. AttemptsGoOn
    BY <1>4, TasksGoOn
  <2>2. QED
    BY <1>1, <1>4, <2>1, TasksKeepFinish, RefreshKeepsFinish, EndTaskKeepsFinish
<1>5. QED
  BY <1>2, <1>3, <1>4, NothingComesBack DEF Next

\* A batch whose attempts have all been ended by their tasks is settled: no task takes
\* the batch for unfinished because it missed the end of another.
THEOREM FinishedBatchesAreSettled ==
    ASSUME OneUser
    PROVE  Spec => []FinishedBatchIsSettled
<1> DEFINE Inv == TypeInv /\ ActiveInv /\ CountInv /\ FinishInv
<1>1. Init => Inv
  BY InitTypes, InitActive, InitCounts, InitFinish
<1>2. Inv /\ [Next]_vars => Inv'
  BY TypeStep, ActiveStep, CountStep, FinishStep
<1>3. Inv => FinishedBatchIsSettled
  BY DEF FinishInv
<1>4. QED
  BY <1>1, <1>2, <1>3, PTL DEF Spec

-----------------------------------------------------------------------------
(***************************************************************************)
(* The batches of the channel's only request are released in order.        *)
(***************************************************************************)
Single == \A o, p \in Opened : batches[o].request = batches[p].request

\* The batches of a request are consecutive, and numbered from 1.
Numbered ==
    /\ \A b \in Opened : batches[b].number = b - batches[b].request + 1
    /\ 1 \in Opened => batches[1].request = 1

\* All attempts of a batch are settled.
Emptied(e) == \A j \in JobsOf(e) : Terminal(j)

\* A batch that was released follows settled attempts only ...
LaterBatchWaits ==
    Single => \A e, b \in Opened : e < b /\ batches[b].status # "pending" => Emptied(e)

\* ... and of one that was not, no attempt has left the backlog.
PendingBatchWaits ==
    \A b \in Opened : batches[b].status = "pending"
                      => \A j \in JobsOf(b) : jobs[j].status \in {"pending", "cancelled"}

\* The dispatcher saw that the batch of the attempt it picked is the first with work,
\* and that it has to be opened if it has.
OpensFirst(c) ==
    /\ batches[jobs[client[c].job].batch].status = "pending" => client[c].opens
    /\ \A e \in Opened : e < jobs[client[c].job].batch => Emptied(e)

PickedOpens == \A c \in Clients : client[c].phase = "picked" => OpensFirst(c)

\* The task that releases an attempt has released the batch.
OpensNext(w) == batches[jobs[worker[w].next].batch].status # "pending"

ReleasedOpens == \A w \in Workers : worker[w].phase = "advancing" => OpensNext(w)

\* A refresh does not close a batch again, nor give it another number.
KeepsRow(w) ==
    /\ worker[w].fresh.status # "pending"
    /\ worker[w].fresh.number = worker[w].loaded.number
    /\ worker[w].fresh.request = worker[w].loaded.request

RefreshKeeps == \A w \in Workers : worker[w].phase = "refreshed" => KeepsRow(w)

OrderInv ==
    /\ Numbered
    /\ LaterBatchWaits
    /\ PendingBatchWaits
    /\ PickedOpens
    /\ ReleasedOpens
    /\ RefreshKeeps

\* No batch is open at the start.
LEMMA InitOrder == Init => OrderInv
BY DEF Init, OrderInv, Numbered, LaterBatchWaits, PendingBatchWaits, PickedOpens, ReleasedOpens,
       RefreshKeeps, Opened, NoBatch, IdleClient, IdleWorker

\* A batch without waiting attempts gets none.
LEMMA EmptiedStays ==
    ASSUME TypeInv, AttemptsGoOn, NEW e \in Opened, Emptied(e)
    PROVE  Emptied(e)'
<1>1. JobsOf(e)' = JobsOf(e) /\ JobsOf(e) \subseteq Created
  BY DEF AttemptsGoOn, JobsOf
<1>2. \A j \in JobsOf(e) : Terminal(j) => Terminal(j)'
  BY <1>1 DEF AttemptsGoOn, Terminal
<1>3. QED
  BY <1>1, <1>2 DEF Emptied

\* Steps that open no batch: a batch that is released while it is the only request's
\* follows settled ones, and an attempt that leaves the backlog is of a released batch.
LEMMA QuietOrder ==
    ASSUME TypeInv, TypeInv', AttemptsGoOn, OrderInv, Opened' = Opened,
           \A b \in Opened : /\ batches'[b].number = batches[b].number
                             /\ batches'[b].request = batches[b].request
                             /\ batches'[b].status = "pending" => batches[b].status = "pending",
           \A b \in Opened :
              Single /\ batches[b].status = "pending" /\ batches'[b].status # "pending"
              => \A e \in Opened : e < b => Emptied(e)',
           \A b \in Opened : batches'[b].status = "pending"
                      => \A j \in JobsOf(b) : jobs'[j].status \in {"pending", jobs[j].status, "cancelled"},
           \A c \in Clients : client'[c].phase = "picked" => client'[c] = client[c] \/ OpensFirst(c)',
           \A w \in Workers : worker'[w].phase = "refreshed" => worker'[w] = worker[w] \/ KeepsRow(w)',
           \A w \in Workers : worker'[w].phase = "advancing" => worker'[w] = worker[w] \/ OpensNext(w)'
    PROVE  OrderInv'
<1>1. Numbered'
  BY DEF OrderInv, Numbered
<1>2. Single' <=> Single
  BY DEF Single
<1>3. LaterBatchWaits'
  <2> SUFFICES ASSUME Single, NEW e \in Opened, NEW b \in Opened, e < b, batches'[b].status # "pending"
               PROVE  Emptied(e)'
    BY <1>2 DEF LaterBatchWaits
  <2>1. CASE batches[b].status = "pending"
    BY <2>1
  <2>2. CASE batches[b].status # "pending"
    BY <2>2, EmptiedStays DEF OrderInv, LaterBatchWaits
  <2>3. QED
    BY <2>1, <2>2
<1>4. PendingBatchWaits'
  <2>1. \A b \in Opened : JobsOf(b)' = JobsOf(b)
    BY DEF AttemptsGoOn
  <2>2. QED
    BY <2>1 DEF OrderInv, PendingBatchWaits
<1>5. PickedOpens'
  <2> SUFFICES ASSUME NEW c \in Clients, client'[c].phase = "picked", client'[c] = client[c]
               PROVE  OpensFirst(c)'
    BY DEF PickedOpens
  <2>1. PICK j : j = client[c].job
    OBVIOUS
  <2>2. client'[c] = client[c] /\ client[c].phase = "picked" /\ j \in Created
    BY <2>1 DEF TypeInv, HandsHoldJobs
  <2>3. jobs'[j].batch = jobs[j].batch /\ jobs[j].batch \in Opened
    BY <2>2 DEF AttemptsGoOn, TypeInv, JobsAreBatched
  <2>4. /\ batches[jobs[j].batch].status = "pending" => client[c].opens
        /\ \A e \in Opened : e < jobs[j].batch => Emptied(e)
    BY <2>1, <2>2 DEF OrderInv, PickedOpens, OpensFirst
  <2>5. QED
    BY <2>1, <2>2, <2>3, <2>4, EmptiedStays DEF OpensFirst
<1>6. ReleasedOpens'
  <2> SUFFICES ASSUME NEW w \in Workers, worker'[w].phase = "advancing", worker'[w] = worker[w]
               PROVE  OpensNext(w)'
    BY DEF ReleasedOpens
  <2>1. PICK j : j = worker[w].next
    OBVIOUS
  <2>2. worker'[w] = worker[w] /\ worker[w].phase = "advancing" /\ j \in Created
    BY <2>1 DEF TypeInv, HandsHoldJobs
  <2>3. jobs'[j].batch = jobs[j].batch /\ jobs[j].batch \in Opened
    BY <2>2 DEF AttemptsGoOn, TypeInv, JobsAreBatched
  <2>4. batches[jobs[j].batch].status # "pending"
    BY <2>1, <2>2 DEF OrderInv, ReleasedOpens, OpensNext
  <2>5. QED
    BY <2>1, <2>2, <2>3, <2>4 DEF OpensNext
<1>7. RefreshKeeps'
  <2>1. \A w \in Workers : worker'[w] = worker[w] => (KeepsRow(w)' <=> KeepsRow(w))
    BY DEF KeepsRow
  <2>2. QED
    BY <2>1 DEF OrderInv, RefreshKeeps
<1>8. QED
  BY <1>1, <1>3, <1>4, <1>5, <1>6, <1>7 DEF OrderInv

\* An attempt that is active, or waits for a message, is of a released batch.
LEMMA ActiveIsReleased ==
    ASSUME TypeInv, OrderInv, NEW j \in Created, jobs[j].status \in {"queued", "running"}
    PROVE  jobs[j].batch \in Opened /\ batches[jobs[j].batch].status # "pending"
<1>1. jobs[j].batch \in Opened /\ j \in JobsOf(jobs[j].batch)
  BY DEF TypeInv, JobsAreBatched, JobsOf
<1>2. QED
  BY <1>1 DEF OrderInv, PendingBatchWaits

\* While no attempt is active, a batch without pending attempts is emptied.
LEMMA NothingLeft ==
    ASSUME TypeInv, CountInv, ActiveJobs = {}, NEW e \in Opened, Unsettled(e) => PendingOf(e) = {}
    PROVE  Emptied(e)
<1>1. CASE Unsettled(e)
  <2>1. \A j \in JobsOf(e) : /\ jobs[j].status \notin {"pending", "none", "queued", "running"}
                             /\ jobs[j] \in JobRecords
    BY <1>1 DEF PendingOf, JobsOf, Created, ActiveJobs, TypeInv, TypeOK
  <2>2. QED
    BY <2>1 DEF Emptied, Terminal, JobRecords
<1>2. CASE ~Unsettled(e)
  BY <1>2 DEF CountInv, SettledBatchIsDone, Emptied
<1>3. QED
  BY <1>1, <1>2

\* A second request ends the order: from then on the channel has two.
LEMMA RequestKeepsOrder ==
    ASSUME OneUser, TypeInv, TypeInv', AttemptsGoOn, OrderInv, NEW c \in Clients, ProcessSelected(c)
    PROVE  OrderInv'
<1>1. PICK first : first = Cardinality(Opened) + 1
  OBVIOUS
<1>2. /\ client' = [client EXCEPT ![c].phase = "dispatching"] /\ UNCHANGED worker
      /\ Opened = 1..(first - 1) /\ first \in Nat \ {0} /\ first \in Opened'
      /\ \A j \in Created : j \in Created' /\ jobs'[j] = jobs[j]
      /\ \A b \in Opened : b \in Opened' /\ batches'[b] = batches[b] /\ JobsOf(b)' = JobsOf(b)
      /\ \A j \in Created' : j \notin Created => jobs'[j].status = "pending"
      /\ \A b \in Opened' : b \notin Opened =>
             /\ batches'[b].status = IF b = first THEN "running" ELSE "pending"
             /\ batches'[b].request = first /\ batches'[b].number = b - first + 1
             /\ \A j \in JobsOf(b)' : j \notin Created
  BY <1>1, RequestAdds
<1>3. Opened' \subseteq BatchIds
  BY DEF Opened
<1>4. Numbered'
  <2>1. \A b \in Opened' : batches'[b].number = b - batches'[b].request + 1
    BY <1>2 DEF OrderInv, Numbered
  <2>2. 1 \in Opened' => batches'[1].request = 1
    <3>1. CASE 1 \in Opened
      BY <1>2, <3>1 DEF OrderInv, Numbered
    <3>2. CASE 1 \notin Opened
      BY <1>2, <3>2
    <3>3. QED
      BY <3>1, <3>2
  <2>3. QED
    BY <2>1, <2>2 DEF Numbered
<1>5. LaterBatchWaits'
  <2> SUFFICES ASSUME Single', NEW e \in Opened', NEW b \in Opened', e < b
               PROVE  batches'[b].status = "pending"
    BY DEF LaterBatchWaits
  <2>1. first = 1
    <3>1. CASE 1 \in Opened
      <4>1. batches'[1].request = 1 /\ batches'[first].request = first
        BY <1>2, <3>1 DEF OrderInv, Numbered
      <4>2. QED
        BY <1>2, <3>1, <4>1 DEF Single
    <3>2. CASE 1 \notin Opened
      BY <1>2, <3>2
    <3>3. QED
      BY <3>1, <3>2
  <2>2. b # first /\ b \notin Opened
    BY <1>2, <1>3, <2>1 DEF BatchIds
  <2>3. QED
    BY <1>2, <2>2
<1>6. PendingBatchWaits'
  <2> SUFFICES ASSUME NEW b \in Opened', batches'[b].status = "pending", NEW j \in JobsOf(b)'
               PROVE  jobs'[j].status \in {"pending", "cancelled"}
    BY DEF PendingBatchWaits
  <2>1. CASE b \in Opened
    <3>1. j \in JobsOf(b) /\ j \in Created
      BY <1>2, <2>1 DEF JobsOf
    <3>2. QED
      BY <1>2, <2>1, <3>1 DEF OrderInv, PendingBatchWaits
  <2>2. CASE b \notin Opened
    BY <1>2, <2>2 DEF JobsOf
  <2>3. QED
    BY <2>1, <2>2
<1>7. PickedOpens'
  <2>1. client \in [Clients -> ClientRecords]
    BY DEF TypeInv, TypeOK, ClientRecords
  <2>2. \A d \in Clients : client'[d].phase # "picked"
    BY <1>2, <2>1 DEF OneUser, ClientRecords
  <2>3. QED
    BY <2>2 DEF PickedOpens
<1>8. ReleasedOpens'
  <2> SUFFICES ASSUME NEW w \in Workers, worker[w].phase = "advancing"
               PROVE  OpensNext(w)'
    BY <1>2 DEF ReleasedOpens
  <2>1. PICK j : j = worker[w].next
    OBVIOUS
  <2>2. j \in Created /\ jobs[j].batch \in Opened /\ batches[jobs[j].batch].status # "pending"
    BY <2>1 DEF TypeInv, HandsHoldJobs, JobsAreBatched, OrderInv, ReleasedOpens, OpensNext
  <2>3. jobs'[j] = jobs[j] /\ batches'[jobs[j].batch] = batches[jobs[j].batch]
    BY <1>2, <2>2
  <2>4. QED
    BY <1>2, <2>1, <2>2, <2>3 DEF OpensNext
<1>9. RefreshKeeps'
  BY <1>2 DEF OrderInv, RefreshKeeps, KeepsRow
<1>10. QED
  BY <1>4, <1>5, <1>6, <1>7, <1>8, <1>9 DEF OrderInv

\* The dispatcher takes the batches in turn, and none before its predecessors are settled.
LEMMA UserKeepsOrder ==
    ASSUME OneUser, TypeInv, TypeInv', ActiveInv, CountInv, AttemptsGoOn, OrderInv,
           NEW c \in Clients,
           Dispatch(c) \/ ClientDies(c) \/ \E j \in JobIds : Cancel(c, j)
    PROVE  OrderInv'
<1>1. /\ jobs \in [JobIds -> JobRecords] /\ batches \in [BatchIds -> BatchRecords]
      /\ client \in [Clients -> ClientRecords] /\ Created \subseteq JobIds /\ Opened \subseteq BatchIds
      /\ IdleClient.phase = "idle"
  BY IdleTypes DEF TypeInv, TypeOK, ClientRecords, Created, Opened
<1>2. ASSUME UNCHANGED <<batches, worker>>,
             \A b \in Opened : batches[b].status = "pending"
                      => \A j \in JobsOf(b) : jobs'[j].status \in {"pending", jobs[j].status, "cancelled"},
             \A d \in Clients : client'[d].phase = "picked" => client'[d] = client[d] \/ OpensFirst(d)'
      PROVE  OrderInv'
  <2>1. Opened' = Opened
    BY <1>2 DEF Opened
  <2>2. QED
    BY <1>2, <2>1, QuietOrder
<1>3. Finish(c) => \A d \in Clients : client'[d].phase = "picked" => client'[d] = client[d]
  BY <1>1 DEF Finish
<1>4. CASE CheckManual(c) \/ CountActive(c) \/ Publish(c) \/ ClientDies(c)
  <2>1. UNCHANGED <<batches, worker, jobs>>
    BY <1>4 DEF CheckManual, CountActive, Publish, ClientDies
  <2>2. PICK r : client' = [client EXCEPT ![c] = r] /\ r.phase # "picked"
    <3>1. \A phase \in {"counting", "picking"} :
             Enter(c, phase) => \E r : client' = [client EXCEPT ![c] = r] /\ r.phase # "picked"
      <4> SUFFICES ASSUME NEW phase \in {"counting", "picking"}, Enter(c, phase)
                   PROVE  \E r : client' = [client EXCEPT ![c] = r] /\ r.phase # "picked"
        OBVIOUS
      <4> DEFINE x == [client[c] EXCEPT !.phase = phase]
      <4>1. client' = [client EXCEPT ![c] = x]
        BY DEF Enter
      <4>2. x.phase # "picked"
        BY <1>1 DEF ClientRecords
      <4> HIDE DEF x
      <4>3. QED
        BY <4>1, <4>2
    <3>2. Finish(c) => \E r : client' = [client EXCEPT ![c] = r] /\ r.phase # "picked"
      BY <1>1 DEF Finish
    <3>3. ASSUME client' = [client EXCEPT ![c] = [IdleClient EXCEPT !.phase = "counting"]]
          PROVE  \E r : client' = [client EXCEPT ![c] = r] /\ r.phase # "picked"
      <4> DEFINE x == [IdleClient EXCEPT !.phase = "counting"]
      <4>1. x.phase # "picked"
        BY DEF IdleClient
      <4>2. client' = [client EXCEPT ![c] = x]
        BY <3>3
      <4> HIDE DEF x
      <4>3. QED
        BY <4>1, <4>2
    <3>4. QED
      BY <1>4, <3>1, <3>2, <3>3 DEF CheckManual, CountActive, Publish, ClientDies
  <2>3. \A d \in Clients : client'[d].phase = "picked" => client'[d] = client[d]
    BY <1>1, <2>2
  <2>4. QED
    BY <1>2, <2>1, <2>3
<1>5. CASE PublishFails(c)
  <2>1. PICK k : k = client[c].job
    OBVIOUS
  <2>2. /\ UNCHANGED <<batches, worker>> /\ jobs' \in {jobs, Refused(k)} /\ Finish(c)
        /\ k \in Created /\ jobs[k].status = "queued"
    BY <1>5, <2>1 DEF PublishFails, TypeInv, HandsHoldJobs, ActiveInv, PromotedWaits
  <2>3. \A b \in Opened : batches[b].status = "pending" => k \notin JobsOf(b)
    BY <2>2, ActiveIsReleased DEF JobsOf
  <2>4. \A j \in JobIds : j # k => jobs'[j] = jobs[j]
    BY <1>1, <2>2 DEF Refused
  <2>5. QED
    BY <1>1, <1>2, <1>3, <2>2, <2>3, <2>4 DEF JobsOf
<1>6. ASSUME NEW k \in JobIds, Cancel(c, k)
      PROVE  OrderInv'
  <2>1. UNCHANGED <<batches, worker, client>> /\ jobs' = [jobs EXCEPT ![k].status = "cancelled"]
    BY <1>6 DEF Cancel
  <2>2. \A j \in JobIds : jobs'[j].status \in {jobs[j].status, "cancelled"}
    BY <1>1, <2>1 DEF JobRecords
  <2>3. QED
    BY <1>1, <1>2, <2>1, <2>2 DEF JobsOf
<1>7. CASE Pick(c)
  <2>1. UNCHANGED <<jobs, batches, worker>>
    BY <1>7 DEF Pick
  <2>2. CASE Finish(c)
    BY <1>2, <1>3, <2>1, <2>2
  <2>3. ASSUME NEW b \in BatchIds, NEW j \in JobIds, IsDispatchable(b, j),
               client' = [client EXCEPT ![c].phase = "picked", ![c].job = j,
                                        ![c].opens = batches[b].status = "pending"]
        PROVE  OrderInv'
    <3>1. /\ client'[c].job = j /\ client'[c].opens = (batches[b].status = "pending")
          /\ \A d \in Clients : d = c
      BY <1>1, <2>3 DEF ClientRecords, OneUser
    <3>2. jobs[j].batch = b /\ b \in Opened /\ \A e \in Opened : e < b /\ Unsettled(e) => PendingOf(e) = {}
      BY <1>1, <2>3 DEF IsDispatchable, PendingOf, JobsOf, Unsettled, Opened
    <3>3. ActiveJobs = {}
      BY <1>7 DEF Pick, ActiveInv, ClearToPromote
    <3>4. \A e \in Opened : e < b => Emptied(e)
      BY <3>2, <3>3, NothingLeft
    <3>5. \A e \in Opened' : e < b => Emptied(e)'
      BY <2>1, <3>4 DEF Opened, Emptied, JobsOf, Created, Terminal
    <3>6. OpensFirst(c)'
      BY <2>1, <3>1, <3>2, <3>5 DEF OpensFirst
    <3>7. QED
      BY <1>2, <2>1, <3>1, <3>6
  <2>4. QED
    BY <1>7, <2>2, <2>3 DEF Pick
<1>8. CASE Promote(c)
  <2>1. PICK j : j = client[c].job
    OBVIOUS
  <2>2. PICK o : o = jobs[j].batch
    OBVIOUS
  <2>3. /\ j \in Created /\ o \in Opened /\ Unsettled(o) /\ UNCHANGED worker
        /\ client[c].phase = "picked" /\ Enter(c, "publishing")
        /\ jobs' = [jobs EXCEPT ![j].status = "queued"]
        /\ batches' = IF client[c].opens THEN [batches EXCEPT ![o].status = "running"] ELSE batches
    BY <1>8, <2>1, <2>2 DEF Promote, ActiveInv, PickedWaits, TypeInv, HandsHoldJobs, JobsAreBatched
  <2>4. /\ batches[o].status = "pending" => client[c].opens
        /\ \A e \in Opened : e < o => Emptied(e)
    BY <2>1, <2>2, <2>3 DEF OrderInv, PickedOpens, OpensFirst
  <2>5. \A b \in BatchIds : /\ batches'[b].number = batches[b].number
                            /\ batches'[b].request = batches[b].request
                            /\ b # o => batches'[b] = batches[b]
    BY <1>1, <2>3 DEF BatchRecords
  <2>6. batches'[o].status \in {batches[o].status, "running"} /\ batches'[o].status # "pending"
    BY <1>1, <2>3, <2>4 DEF BatchRecords
  <2>7. Opened' = Opened
    BY <1>1, <2>3, <2>5, <2>6 DEF Opened
  <2>8. \A b \in Opened :
              Single /\ batches[b].status = "pending" /\ batches'[b].status # "pending"
              => \A e \in Opened : e < b => Emptied(e)'
    BY <1>1, <2>4, <2>5, EmptiedStays
  <2>9. \A b \in Opened : batches'[b].status = "pending" => \A k \in JobsOf(b) : jobs'[k].status = jobs[k].status
    <3>1. \A k \in JobIds : k # j => jobs'[k] = jobs[k]
      BY <1>1, <2>3
    <3>2. \A b \in Opened : batches'[b].status = "pending" => j \notin JobsOf(b)
      BY <2>2, <2>6 DEF JobsOf
    <3>3. QED
      BY <1>1, <3>1, <3>2 DEF JobsOf
  <2>10. \A d \in Clients : client'[d].phase = "picked" => client'[d] = client[d]
    BY <1>1, <2>3 DEF Enter, ClientRecords
  <2>11. QED
    BY <1>1, <2>3, <2>5, <2>6, <2>7, <2>8, <2>9, <2>10, QuietOrder
<1>9. QED
  BY <1>4, <1>5, <1>6, <1>7, <1>8 DEF Dispatch

\* Starting, refreshing, publishing and dying open no batch.
LEMMA TasksKeepOrder ==
    ASSUME OneUser, TypeInv, TypeInv', ActiveInv, CountInv, AttemptsGoOn, OrderInv,
           NEW w \in Workers,
           \/ TakeAny(w) \/ Refresh(w)
           \/ AdvancePublish(w) \/ AdvancePublishFails(w) \/ WorkerDies(w)
    PROVE  OrderInv'
<1>1. /\ jobs \in [JobIds -> JobRecords] /\ batches \in [BatchIds -> BatchRecords]
      /\ worker \in [Workers -> WorkerRecords] /\ Created \subseteq JobIds /\ Opened \subseteq BatchIds
      /\ IdleWorker.phase = "idle" /\ TypeOK
  BY IdleTypes DEF TypeInv, TypeOK, WorkerRecords, Created, Opened
<1>2. ASSUME UNCHANGED <<batches, client>>,
             \A b \in Opened : batches[b].status = "pending"
                      => \A j \in JobsOf(b) : jobs'[j].status \in {"pending", jobs[j].status, "cancelled"},
             \A v \in Workers : worker'[v].phase \in {"refreshed", "advancing"} => worker'[v] = worker[v]
      PROVE  OrderInv'
  <2>1. Opened' = Opened
    BY <1>2 DEF Opened
  <2>2. QED
    BY <1>2, <2>1, QuietOrder
<1>3. ASSUME NEW k \in JobIds, Take(w, k)
      PROVE  OrderInv'
  <2>1. k \in Created /\ jobs[k].status \in {"queued", "running"} /\ UNCHANGED <<batches, client>>
    BY <1>1, <1>3 DEF Take, Delivered, Terminal, ActiveInv, QueuedLeft, TypeInv, HandsHoldJobs,
                      Created, JobRecords
  <2>2. \A b \in Opened : batches[b].status = "pending" => k \notin JobsOf(b)
    BY <2>1, ActiveIsReleased DEF JobsOf
  <2>3. \A j \in JobIds : j # k => jobs'[j] = jobs[j]
    BY <1>1, <1>3 DEF Take
  <2> DEFINE x == [IdleWorker EXCEPT !.phase = "working", !.job = k]
  <2>4. x.phase = "working"
    BY DEF IdleWorker
  <2>5. worker' = [worker EXCEPT ![w] = x]
    BY <1>3 DEF Take
  <2> HIDE DEF x
  <2>6. \A v \in Workers : worker'[v].phase \in {"refreshed", "advancing"} => worker'[v] = worker[v]
    BY <1>1, <2>4, <2>5
  <2>7. QED
    BY <1>1, <1>2, <2>1, <2>2, <2>3, <2>6 DEF JobsOf
<1>4. ASSUME NEW k \in JobIds, Ignore(w, k)
      PROVE  OrderInv'
  BY <1>2, <1>4 DEF Ignore
<1>5. Rest(w) => \A v \in Workers : worker'[v].phase \in {"refreshed", "advancing"} => worker'[v] = worker[v]
  BY <1>1 DEF Rest
<1>6. CASE AdvancePublish(w) \/ WorkerDies(w)
  BY <1>2, <1>5, <1>6 DEF AdvancePublish, WorkerDies
<1>7. CASE AdvancePublishFails(w)
  <2>1. PICK k : k = worker[w].next
    OBVIOUS
  <2>2. PICK n : n = jobs[k].batch
    OBVIOUS
  <2>3. /\ k \in Created /\ n \in Opened /\ batches[n].status # "pending"
        /\ jobs' \in {jobs, Refused(k)} /\ Rest(w) /\ UNCHANGED client
    BY <1>7, <2>1, <2>2 DEF AdvancePublishFails, TypeInv, HandsHoldJobs, JobsAreBatched, OrderInv,
                            ReleasedOpens, OpensNext
  <2>4. \A b \in Opened : batches[b].status = "pending"
                      => \A j \in JobsOf(b) : jobs'[j].status \in {"pending", jobs[j].status, "cancelled"}
    <3>1. \A j \in JobIds : j # k => jobs'[j] = jobs[j]
      BY <1>1, <2>3 DEF Refused
    <3>2. \A b \in Opened : batches[b].status = "pending" => k \notin JobsOf(b)
      BY <2>2, <2>3 DEF JobsOf
    <3>3. QED
      BY <1>1, <3>1, <3>2 DEF JobsOf
  <2>5. CASE UNCHANGED batches
    BY <1>2, <1>5, <2>3, <2>4, <2>5
  <2>6. CASE ~UNCHANGED batches
    <3> DEFINE seen == [j \in JobIds |-> jobs'[j].status]
    <3>1. batches' = [batches EXCEPT ![n] = Refreshed(n, seen)]
      BY <1>7, <2>1, <2>2, <2>6 DEF AdvancePublishFails
    <3> HIDE DEF seen
    <3>2. /\ Refreshed(n, seen).request = batches[n].request
          /\ Refreshed(n, seen).number = batches[n].number
          /\ Refreshed(n, seen).status \in DoneStatuses \cup {"running", batches[n].status}
      BY <1>1, <2>3, RefreshedSettles
    <3>3. /\ batches'[n].request = batches[n].request /\ batches'[n].number = batches[n].number
          /\ batches'[n].status \notin {"none", "pending"}
          /\ \A b \in BatchIds : b # n => batches'[b] = batches[b]
      BY <1>1, <2>3, <3>1, <3>2 DEF DoneStatuses, Opened
    <3>4. Opened' = Opened
      BY <1>1, <2>3, <3>3 DEF Opened
    <3>5. /\ \A b \in Opened : /\ batches'[b].number = batches[b].number
                               /\ batches'[b].request = batches[b].request
                               /\ batches'[b].status = "pending" => batches[b].status = "pending"
          /\ \A b \in Opened : batches[b].status = "pending" => batches'[b].status = "pending"
      BY <1>1, <2>3, <3>3
    <3>6. QED
      BY <1>5, <2>3, <2>4, <3>4, <3>5, QuietOrder
  <2>7. QED
    BY <2>5, <2>6
<1>8. CASE Refresh(w)
  <2>1. PICK j : j = worker[w].job
    OBVIOUS
  <2>2. PICK b : b = jobs[j].batch
    OBVIOUS
  <2> DEFINE seen(outcome) == [k \in JobIds |-> IF k = j THEN outcome ELSE jobs[k].status]
  <2>3. PICK outcome \in {"completed", "failed"} :
            worker' = [worker EXCEPT ![w] =
                   [IdleWorker EXCEPT !.phase = "refreshed", !.job = j, !.outcome = outcome,
                      !.loaded = batches[b], !.fresh = Refreshed(b, seen(outcome))]]
    BY <1>8, <2>1, <2>2 DEF Refresh
  <2>4. /\ UNCHANGED <<jobs, batches, client>> /\ j \in Created /\ jobs[j].status = "running"
    BY <1>8, <2>1 DEF Refresh, TypeInv, HandsHoldJobs, Busy, ActiveInv, TasksRun
  <2>5. b \in Opened /\ batches[b].status # "pending"
    BY <2>2, <2>4, ActiveIsReleased
  <2>6. /\ worker'[w].phase = "refreshed" /\ worker'[w].loaded = batches[b]
        /\ worker'[w].fresh = Refreshed(b, seen(outcome))
        /\ \A v \in Workers : v # w => worker'[v] = worker[v]
    BY <1>1, <2>3 DEF IdleWorker
  <2> DEFINE all == seen(outcome)
  <2> HIDE DEF seen
  <2>7. /\ Refreshed(b, all).request = batches[b].request
        /\ Refreshed(b, all).number = batches[b].number
        /\ Refreshed(b, all).status \in DoneStatuses \cup {"running", batches[b].status}
    <3> HIDE DEF all
    <3>1. QED
      BY <1>1, <2>5, RefreshedSettles
  <2>8. KeepsRow(w)'
    BY <2>5, <2>6, <2>7 DEF KeepsRow, DoneStatuses
  <2>9. Opened' = Opened
    BY <2>4 DEF Opened
  <2>10. /\ \A v \in Workers : worker'[v].phase = "refreshed" => worker'[v] = worker[v] \/ KeepsRow(v)'
         /\ \A v \in Workers : worker'[v].phase = "advancing" => worker'[v] = worker[v]
    BY <2>6, <2>8
  <2>11. QED
    BY <2>4, <2>9, <2>10, QuietOrder
<1>9. QED
  BY <1>3, <1>4, <1>6, <1>7, <1>8 DEF TakeAny

\* The batch that a task releases is the next one, as its own is settled.
LEMMA NextBatchFollows ==
    ASSUME OneUser, TypeInv, ActiveInv, CountInv, AttemptsGoOn, OrderInv, Single,
           NEW w \in Workers, EndTask(w), Releases(w),
           NEW n \in Opened, batches[n].status = "pending", IsNextBatch(BatchOf(w), n),
           NEW e \in Opened, e < n
    PROVE  Emptied(e)'
<1>1. PICK i : i = worker[w].job
  OBVIOUS
<1>2. PICK b : b = BatchOf(w)
  OBVIOUS
<1>3. /\ b \in Opened /\ i \in JobsOf(b) /\ jobs[i].status = "running"
      /\ worker[w].phase = "refreshed" /\ worker[w].outcome \in {"completed", "failed"}
      /\ \A j \in JobsOf(b) : jobs'[j].status = After(w, j)
  BY <1>1, <1>2, EndTaskWrites DEF TypeInv, TypeOK
<1>4. Opened \subseteq Nat \ {0} /\ 1 \in Opened
  BY <1>3, DispatcherAssumption DEF TypeInv, NumberedInOrder, Opened, BatchIds
<1>5. \A o \in Opened : batches[o].number = o
  BY <1>4 DEF Single, OrderInv, Numbered
<1>6. batches[b].status # "pending"
  BY <1>2, <1>3, ActiveIsReleased DEF BatchOf, JobsOf
<1>7. /\ b < n
      /\ \A o \in Opened : batches[o].status = "pending" /\ b < o => n <= o
  BY <1>2, <1>3, <1>5 DEF IsNextBatch, Opened
<1>8. CASE e < b
  BY <1>3, <1>6, <1>8, EmptiedStays DEF OrderInv, LaterBatchWaits
<1>9. CASE e = b
  <2>1. \A k \in JobsOf(b) : k # i => Terminal(k)
    BY <1>1, <1>2, <1>3 DEF Releases, CountInv, RefreshCounts
  <2>2. \A k \in JobsOf(b) : jobs'[k].status \in TerminalStatuses
    BY <1>1, <1>3, <2>1 DEF After, Terminal, TerminalStatuses
  <2>3. JobsOf(b)' = JobsOf(b)
    BY <1>3 DEF AttemptsGoOn
  <2>4. QED
    BY <1>9, <2>2, <2>3 DEF Emptied, Terminal
<1>10. CASE b < e
  <2>1. batches[e].status # "pending"
    BY <1>4, <1>7, <1>10
  <2>2. Emptied(b)
    BY <1>3, <1>10, <2>1 DEF OrderInv, LaterBatchWaits
  <2>3. QED
    BY <1>3, <2>2 DEF Emptied, Terminal, TerminalStatuses
<1>11. QED
  BY <1>3, <1>4, <1>8, <1>9, <1>10

\* The end of a batch opens the next one.
LEMMA EndTaskKeepsOrder ==
    ASSUME OneUser, TypeInv, TypeInv', ActiveInv, CountInv, AttemptsGoOn, OrderInv,
           NEW w \in Workers, EndTask(w)
    PROVE  OrderInv'
<1>1. PICK i : i = worker[w].job
  OBVIOUS
<1>2. PICK b : b = BatchOf(w)
  OBVIOUS
<1>3. PICK l : l = worker[w].loaded
  OBVIOUS
<1>4. PICK f : f = worker[w].fresh
  OBVIOUS
<1>5. /\ worker[w].phase = "refreshed" /\ b \in Opened /\ i \in JobsOf(b)
      /\ jobs[i].status = "running"
      /\ \A v \in Workers : worker'[v].phase # "refreshed"
      /\ batches'[b] = Written(b, l, f)
      /\ \A o \in BatchIds : o # b =>
                 \/ batches'[o] = batches[o]
                 \/ /\ batches[o].status = "pending"
                    /\ IsNextBatch(BatchOf(w), o) /\ Releases(w)
                    /\ batches'[o] = [batches[o] EXCEPT !.status = "running"]
  BY <1>1, <1>2, <1>3, <1>4, EndTaskWrites
<1>6. /\ jobs \in [JobIds -> JobRecords] /\ batches \in [BatchIds -> BatchRecords]
      /\ worker \in [Workers -> WorkerRecords] /\ Created \subseteq JobIds /\ Opened \subseteq BatchIds
      /\ l \in BatchRecords /\ IdleWorker.phase = "idle"
  BY <1>3, IdleTypes DEF TypeInv, TypeOK, WorkerRecords, Created, Opened
<1>7. batches[b].status # "pending"
  BY <1>2, <1>5, ActiveIsReleased DEF JobsOf
<1>8. f.status # "pending" /\ f.number = l.number /\ f.request = l.request
  BY <1>3, <1>4, <1>5 DEF OrderInv, RefreshKeeps, KeepsRow
<1>9. /\ batches'[b].number = batches[b].number /\ batches'[b].request = batches[b].request
      /\ batches'[b].status # "pending"
  <2>1. Written(b, l, f).status = IF f.status = l.status THEN batches[b].status ELSE f.status
    BY <1>6, WrittenColumns
  <2>2. Written(b, l, f).number = IF f.number = l.number THEN batches[b].number ELSE f.number
    BY <1>6, WrittenColumns
  <2>3. Written(b, l, f).request = IF f.request = l.request THEN batches[b].request ELSE f.request
    BY <1>6, WrittenColumns
  <2>4. QED
    BY <1>5, <1>7, <1>8, <2>1, <2>2, <2>3
<1>10. \A o \in BatchIds : o # b => /\ batches'[o].number = batches[o].number
                                    /\ batches'[o].request = batches[o].request
                                    /\ batches'[o].status = "pending" => batches[o].status = "pending"
                                    /\ batches'[o].status = "none" <=> batches[o].status = "none"
  <2> SUFFICES ASSUME NEW o \in BatchIds, o # b
               PROVE  /\ batches'[o].number = batches[o].number
                      /\ batches'[o].request = batches[o].request
                      /\ batches'[o].status = "pending" => batches[o].status = "pending"
                      /\ batches'[o].status = "none" <=> batches[o].status = "none"
    OBVIOUS
  <2>1. batches[o] \in BatchRecords
    BY <1>6
  <2>2. CASE batches'[o] = batches[o]
    BY <2>2
  <2>3. CASE batches[o].status = "pending" /\ batches'[o] = [batches[o] EXCEPT !.status = "running"]
    BY <2>1, <2>3 DEF BatchRecords
  <2>4. QED
    BY <1>5, <2>2, <2>3
<1>11. Opened' = Opened
  <2>1. Opened' \subseteq Opened
    BY <1>5, <1>6, <1>10 DEF Opened
  <2>2. QED
    BY <2>1 DEF AttemptsGoOn
<1>12. \A o \in Opened : Single /\ batches[o].status = "pending" /\ batches'[o].status # "pending"
                         => \A e \in Opened : e < o => Emptied(e)'
  <2> SUFFICES ASSUME NEW o \in Opened, Single, batches[o].status = "pending", batches'[o].status # "pending",
                      NEW e \in Opened, e < o
               PROVE  Emptied(e)'
    OBVIOUS
  <2>1. o # b
    BY <1>7
  <2>2. IsNextBatch(BatchOf(w), o) /\ Releases(w)
    BY <1>5, <1>6, <2>1
  <2>3. QED
    BY <2>2, NextBatchFollows
<1>13. \A j \in JobIds : j # i =>
                 \/ jobs'[j] = jobs[j]
                 \/ batches'[jobs[j].batch].status = "running"
  BY <1>1, EndTaskEndsOne
<1>14. \A o \in Opened : batches'[o].status = "pending" => \A j \in JobsOf(o) : jobs'[j] = jobs[j]
  BY <1>5, <1>6, <1>9, <1>13 DEF JobsOf
<1>15. UNCHANGED client
  BY DEF EndTask, Commit, CommitAndAdvance
<1>16. \A v \in Workers : worker'[v].phase = "advancing" => worker'[v] = worker[v] \/ OpensNext(v)'
  <2>1. CASE Rest(w)
    BY <1>6, <2>1 DEF Rest
  <2>2. ASSUME NEW n \in BatchIds, NEW k \in PendingOf(n), batches[n].status = "pending",
               batches' = [EndedBatches(w) EXCEPT ![n].status = "running"],
               worker' = [worker EXCEPT ![w].phase = "advancing", ![w].next = k]
        PROVE  \A v \in Workers : worker'[v].phase = "advancing" => worker'[v] = worker[v] \/ OpensNext(v)'
    <3>1. \A v \in Workers : v # w => worker'[v] = worker[v]
      BY <1>6, <2>2
    <3>2. worker'[w].next = k
      BY <1>6, <2>2 DEF WorkerRecords
    <3>3. k \in Created /\ jobs[k].batch = n
      BY DEF PendingOf, JobsOf
    <3>4. jobs'[k].batch = n
      BY <3>3 DEF AttemptsGoOn
    <3>5. n # b
      BY <1>7, <2>2
    <3>6. batches'[n].status # "pending"
      BY <1>2, <1>5, <1>6, <2>2, <3>3, <3>5, EndedTypes DEF BatchRecords
    <3>7. QED
      BY <3>1, <3>2, <3>4, <3>6 DEF OpensNext
  <2>3. QED
    BY <2>1, <2>2 DEF EndTask, Commit, CommitAndAdvance, IsNextBatch
<1>17. QED
  BY <1>5, <1>6, <1>9, <1>10, <1>11, <1>12, <1>14, <1>15, <1>16, QuietOrder

\* Every step keeps the batches in order.
LEMMA OrderStep ==
    ASSUME OneUser, TypeInv, ActiveInv, CountInv, OrderInv, [Next]_vars
    PROVE  OrderInv'
<1>1. TypeInv'
  BY TypeStep
<1>2. CASE UNCHANGED vars
  <2>1. UNCHANGED <<jobs, batches, client, worker>>
    BY <1>2 DEF vars
  <2>2. AttemptsGoOn
    BY <2>1, StatusesGoOn DEF TypeInv, TypeOK
  <2>3. Opened' = Opened
    BY <2>1 DEF Opened
  <2>4. QED
    BY <1>1, <2>1, <2>2, <2>3, QuietOrder
<1>3. ASSUME NEW c \in Clients,
             \/ ProcessSelected(c) \/ Dispatch(c) \/ ClientDies(c) \/ Reap(c)
             \/ \E j \in JobIds : Cancel(c, j)
             \/ \E b \in BatchIds : Reconcile(c, b)
      PROVE  OrderInv'
  <2>1. ~Reap(c) /\ \A b \in BatchIds : ~Reconcile(c, b)
    BY DEF OneUser, Reap, RecoverStale, FailStale, Reconcile, MayRun
  <2>2. AttemptsGoOn
    BY <1>3, <2>1, UserGoesOn
  <2>3. QED
    BY <1>1, <1>3, <2>1, <2>2, RequestKeepsOrder, UserKeepsOrder
<1>4. ASSUME NEW w \in Workers,
             \/ TakeAny(w) \/ Refresh(w) \/ EndTask(w)
             \/ AdvancePublish(w) \/ AdvancePublishFails(w) \/ WorkerDies(w)
      PROVE  OrderInv'
  <2>1. AttemptsGoOn
    BY <1>4, TasksGoOn
  <2>2. QED
    BY <1>1, <1>4, <2>1, TasksKeepOrder, EndTaskKeepsOrder
<1>5. QED
  BY <1>2, <1>3, <1>4, NothingComesBack DEF Next

\* While a batch of the channel's only request has pending attempts, no attempt of a
\* later batch has left the backlog.
THEOREM BatchesStayInOrder ==
    ASSUME OneUser
    PROVE  Spec => []BatchesInOrder
<1> DEFINE Inv == TypeInv /\ ActiveInv /\ CountInv /\ OrderInv
<1>1. Init => Inv
  BY InitTypes, InitActive, InitCounts, InitOrder
<1>2. Inv /\ [Next]_vars => Inv'
  BY TypeStep, ActiveStep, CountStep, OrderStep
<1>3. Inv => BatchesInOrder
  <2> SUFFICES ASSUME Inv, NEW e \in Opened, NEW b \in Opened,
                      \A o \in Opened : batches[o].request = batches[b].request,
                      batches[e].number < batches[b].number, PendingOf(e) # {}
               PROVE  \A j \in JobsOf(b) : jobs[j].status \in {"pending", "cancelled"}
    BY DEF BatchesInOrder
  <2>1. Single
    BY DEF Single
  <2>2. Opened \subseteq Nat /\ 1 \in Opened
    BY DispatcherAssumption DEF TypeInv, NumberedInOrder, Opened, BatchIds
  <2>3. batches[e].number = e /\ batches[b].number = b
    BY <2>1, <2>2 DEF OrderInv, Numbered, Single
  <2>4. ~Emptied(e)
    BY DEF Emptied, PendingOf, Terminal, TerminalStatuses
  <2>5. batches[b].status = "pending"
    BY <2>1, <2>3, <2>4 DEF OrderInv, LaterBatchWaits
  <2>6. QED
    BY <2>5 DEF OrderInv, PendingBatchWaits
<1>4. QED
  BY <1>1, <1>2, <1>3, PTL DEF Spec
=============================================================================
