----------------------- MODULE PipelineAttempts_proofs -----------------------
(***************************************************************************)
(* Proofs about PipelineAttempts, for any number of clients, workers,      *)
(* lanes and attempts and for every setting, with timely or overdue work   *)
(* and with or without redelivered messages:                               *)
(*                                                                         *)
(*   TypeCorrect       the variables keep their types, and a client that   *)
(*                     has an attempt in hand has a row of the video;      *)
(*   ActiveIsUnique    at most one attempt of the video is active;         *)
(*   TurnsAreTaken     attempts own the video in turn (AttemptMutex).      *)
(***************************************************************************)
EXTENDS PipelineAttempts, TLAPS

-----------------------------------------------------------------------------
(***************************************************************************)
(* The operators the actions are built from return values of their types.  *)
(***************************************************************************)
\* set_pipeline_job_state returns a row.
LEMMA SetJobStateType ==
    ASSUME NEW row \in JobRecords, NEW status \in ActiveStatuses \cup TerminalStatuses,
           NEW stage \in JobStages
    PROVE  /\ SetJobState(row, status, stage) \in JobRecords
           /\ SetJobState(row, status, stage).status = status
<1>1. ResolvedStage(row.stage, status, stage) \in JobStages
  BY DEF ResolvedStage, JobRecords, JobStages, TerminalOnlyStages, Stages
<1>2. QED
  BY <1>1 DEF SetJobState, JobRecords

\* What a process remembers of a row is a snapshot.
LEMMA SnapshotType ==
    ASSUME NEW row \in JobRecords
    PROVE  Snapshot(row) \in Snapshots
BY DEF Snapshot, Snapshots, JobRecords

\* The planned resume point is a stage of the pipeline.
LEMMA ResumePointType ==
    ASSUME NEW art, NEW status
    PROVE  ResumePoint(art, status) \in Stages
BY DEF ResumePoint, SelectResumeStage, Stages

\* The messages a task publishes for the next stage of its chain are messages.
LEMMA NextMessagesType ==
    ASSUME NEW m \in Messages
    PROVE  NextMessages(m) \subseteq Messages
<1>1. NextStages(m.stage) \subseteq Stages
  BY DEF NextStages, Stages
<1>2. ASSUME NEW s \in Stages
      PROVE  [m EXCEPT !.stage = s, !.tries = 0] \in Messages
  <2>1. [m EXCEPT !.stage = s] \in Messages
    BY DEF Messages
  <2>2. \A n \in Messages : [n EXCEPT !.tries = 0] \in Messages
    BY DEF Messages
  <2>3. QED
    BY <2>1, <2>2
<1>3. QED
  BY <1>1, <1>2 DEF NextMessages

\* The next attempt number is a number.
LEMMA NextNumberType ==
    ASSUME TypeOK
    PROVE  NextNumber \subseteq Nat
BY DEF NextNumber, TypeOK, JobRecords, Rows

\* record_pipeline_failure returns a row, and it has failed.
LEMMA RecordFailureType ==
    ASSUME TypeOK, NEW j \in JobIds, NEW seen, NEW stage \in JobStages,
           NEW kind \in {"transient", "other", "stale"}
    PROVE  /\ RecordFailure(j, seen, stage, kind) \in JobRecords
           /\ RecordFailure(j, seen, stage, kind).status = "failed"
<1>1. jobs[j] \in JobRecords
  BY DEF TypeOK
<1>2. <<stage, kind>> \in Signatures
  BY DEF Signatures
<1>3. QED
  BY <1>1, <1>2 DEF RecordFailure, JobRecords, TerminalStatuses

\* The initial records are of their types.
LEMMA IdleTypes ==
    /\ NoJob \in JobRecords
    /\ IdleClient \in ClientRecords
    /\ IdleWorker \in WorkerRecords
<1>1. NoJob \in JobRecords
  BY ConstantsAssumption DEF NoJob, JobRecords, JobStages, Signatures
<1>2. NoSnapshot \in Snapshots
  BY <1>1, SnapshotType DEF NoSnapshot
<1>3. IdleClient \in ClientRecords
  BY <1>2 DEF IdleClient, ClientRecords, Stages
<1>4. NoTask \in Messages
  BY ConstantsAssumption DEF NoTask, Messages, JobIds, Stages
<1>5. IdleWorker \in WorkerRecords
  BY <1>2, <1>4 DEF IdleWorker, WorkerRecords, VideoStatuses
<1>6. QED
  BY <1>1, <1>3, <1>5

-----------------------------------------------------------------------------
(***************************************************************************)
(* Type correctness.  A client's attempt is 0 until it has one in hand, so *)
(* that the messages it publishes are typed only by virtue of              *)
(* ClientsHoldJobs: the two are inductive together.                        *)
(***************************************************************************)
TypeInv == TypeOK /\ ClientsHoldJobs

\* What the steps below have in common: a client may return to rest, or take on
\* any well-typed record that has a row in hand where it must.
LEMMA ClientMoves ==
    ASSUME TypeInv, NEW c \in Clients, NEW r \in ClientRecords,
           r.phase \in {"publishing", "cancelling", "scanned"} => r.job \in JobIds,
           client' = [client EXCEPT ![c] = r]
    PROVE  client' \in [Clients -> ClientRecords] /\ ClientsHoldJobs'
BY DEF TypeInv, TypeOK, ClientsHoldJobs

\* A client that finishes has no attempt in hand.
LEMMA ClientRests ==
    ASSUME TypeInv, NEW c \in Clients, Finish(c)
    PROVE  client' \in [Clients -> ClientRecords] /\ ClientsHoldJobs'
<1>1. IdleClient.phase = "idle"
  BY DEF IdleClient
<1>2. QED
  BY <1>1, IdleTypes, ClientMoves DEF Finish

\* An allocation gives the client a number and a stage to start from.
LEMMA AllocateType ==
    ASSUME TypeInv, NEW c \in Clients, NEW role \in RoleNames, NEW start \in Stages,
           NEW hides \in BOOLEAN, NEW locks \in BOOLEAN, NEW override,
           Allocate(c, role, start, hides, locks, override)
    PROVE  TypeInv'
<1>1. PICK number \in NextNumber : client' = [client EXCEPT ![c] =
              [IdleClient EXCEPT !.phase = "allocated", !.role = role, !.number = number,
                                 !.start = start, !.hides = hides, !.locks = locks]]
  BY DEF Allocate
<1> DEFINE r == [IdleClient EXCEPT !.phase = "allocated", !.role = role, !.number = number,
                                 !.start = start, !.hides = hides, !.locks = locks]
<1>2. number \in Nat
  BY NextNumberType DEF TypeInv
<1>3. r \in ClientRecords /\ r.phase = "allocated"
  BY <1>2, IdleTypes DEF ClientRecords
<1>4. client' \in [Clients -> ClientRecords] /\ ClientsHoldJobs'
  <2> HIDE DEF r
  <2>1. QED
    BY <1>1, <1>3, ClientMoves DEF r
<1>5. QED
  BY <1>4 DEF Allocate, TypeInv, TypeOK

\* Requests and scripts that begin their work keep the types.
LEMMA ClientBeginsType ==
    ASSUME TypeInv, NEW c \in Clients, ClientBegins(c)
    PROVE  TypeInv'
<1>1. CASE Submit(c)
  <2>1. (video.status = "failed") \in BOOLEAN /\ "submit" \in RoleNames /\ "download" \in Stages
    BY DEF RoleNames, Stages
  <2>2. Allocate(c, "submit", "download", video.status = "failed", TRUE, FALSE)
    BY <1>1 DEF Submit
  <2>3. QED
    BY <2>1, <2>2, AllocateType
<1>2. CASE SubmitFindsActive(c)
  BY <1>2 DEF SubmitFindsActive, TypeInv, TypeOK, ClientsHoldJobs, VideoRecords, VideoStatuses
<1>3. CASE ProcessChannelVideo(c)
  BY <1>3, AllocateType DEF ProcessChannelVideo, Stages, RoleNames
<1>4. CASE \E j \in JobIds : RetryJob(c, j)
  <2>1. PICK j \in JobIds, role \in {"retry", "override"} :
              Allocate(c, role, ResumePoint(video, "pending"), TRUE,
                       video.status # "pending", role = "override")
    BY <1>4 DEF RetryJob
  <2>2. role \in RoleNames
    BY DEF RoleNames
  <2>3. QED
    BY <2>1, <2>2, AllocateType, ResumePointType
<1>5. CASE \E j \in JobIds : AutoRetry(c, j)
  BY <1>5, AllocateType, ResumePointType DEF AutoRetry, RoleNames
<1>6. CASE \E j \in JobIds : CancelRequest(c, j)
  <2>1. PICK j \in JobIds : CancelRequest(c, j)
    BY <1>6
  <2> DEFINE r == [IdleClient EXCEPT !.phase = "cancelling", !.role = "cancel", !.job = j]
  <2>2. r \in ClientRecords /\ r.job = j
    BY IdleTypes DEF ClientRecords, RoleNames
  <2>3. client' = [client EXCEPT ![c] = r]
    BY <2>1 DEF CancelRequest
  <2> HIDE DEF r
  <2>4. QED
    BY <2>1, <2>2, <2>3, ClientMoves DEF CancelRequest, TypeInv, TypeOK
<1>7. CASE \E j \in JobIds : Promote(c, j)
  <2>1. PICK j \in JobIds : Promote(c, j)
    BY <1>7
  <2> DEFINE r == [IdleClient EXCEPT !.phase = "publishing", !.role = "promote", !.job = j]
  <2>2. r \in ClientRecords /\ r.job = j
    BY IdleTypes DEF ClientRecords, RoleNames
  <2>3. client' = [client EXCEPT ![c] = r]
    BY <2>1 DEF Promote
  <2> HIDE DEF r
  <2>4. SetJobState(jobs[j], "queued", "queued") \in JobRecords
    BY SetJobStateType DEF TypeInv, TypeOK, ActiveStatuses, JobStages
  <2>5. jobs' \in [JobIds -> JobRecords]
    BY <2>1, <2>4 DEF Promote, TypeInv, TypeOK
  <2>6. QED
    BY <2>1, <2>2, <2>3, <2>5, ClientMoves DEF Promote, TypeInv, TypeOK
<1>8. CASE \E j \in JobIds : ReapScan(c, j)
  <2>1. PICK j \in JobIds : ReapScan(c, j)
    BY <1>8
  <2> DEFINE r == [IdleClient EXCEPT !.phase = "scanned", !.role = "reaper",
                                     !.job = j, !.seen = Snapshot(jobs[j])]
  <2>2. Snapshot(jobs[j]) \in Snapshots
    BY SnapshotType DEF TypeInv, TypeOK
  <2>3. r \in ClientRecords /\ r.job = j
    BY <2>2, IdleTypes DEF ClientRecords, RoleNames
  <2>4. client' = [client EXCEPT ![c] = r]
    BY <2>1 DEF ReapScan
  <2> HIDE DEF r
  <2>5. QED
    BY <2>1, <2>3, <2>4, ClientMoves DEF ReapScan, TypeInv, TypeOK
<1>9. CASE \E j \in JobIds : ReapHidden(c, j)
  <2>1. [NoJob EXCEPT !.status = "deleted"] \in JobRecords
    BY IdleTypes DEF JobRecords
  <2>2. QED
    BY <1>9, <2>1 DEF ReapHidden, TypeInv, TypeOK, ClientsHoldJobs
<1>10. CASE ReconcileVideo(c)
  BY <1>10 DEF ReconcileVideo, TypeInv, TypeOK, ClientsHoldJobs, VideoRecords, VideoStatuses
<1>11. CASE CompressStale(c)
  BY <1>11 DEF CompressStale, TypeInv, TypeOK, ClientsHoldJobs, VideoRecords
<1>12. QED
  BY <1>1, <1>2, <1>3, <1>4, <1>5, <1>6, <1>7, <1>8, <1>9, <1>10, <1>11 DEF ClientBegins

\* Requests and scripts that go on with their work keep the types.
LEMMA ClientProceedsType ==
    ASSUME TypeInv, NEW c \in Clients, ClientProceeds(c)
    PROVE  TypeInv'
<1> USE DEF TypeInv
<1>1. CASE \E j \in JobIds : Create(c, j)
  <2>1. PICK new \in JobIds : Create(c, new)
    BY <1>1
  <2>2. client[c] \in ClientRecords
    BY DEF TypeOK
  <2>3. [NoJob EXCEPT !.status = StatusCreated(client[c].role), !.number = client[c].number,
                      !.batched = InBatch(client[c].role)]
           \in JobRecords
    <3>1. InBatch(client[c].role) \in BOOLEAN
      BY DEF InBatch
    <3>2. QED
      BY <2>2, <3>1, IdleTypes DEF ClientRecords, JobRecords, StatusCreated, ActiveStatuses
  <2>4. \A j \in JobIds : [jobs[j] EXCEPT !.hiddenBy = new] \in JobRecords
    BY DEF TypeOK, JobRecords
  <2>5. jobs' \in [JobIds -> JobRecords]
    BY <2>1, <2>3, <2>4 DEF Create, TypeOK
  <2>6. video' \in VideoRecords
    BY <2>1 DEF Create, TypeOK, VideoRecords, VideoStatuses, StatusOnCreate
  <2>7. client' \in [Clients -> ClientRecords] /\ ClientsHoldJobs'
    <3>1. CASE client[c].role = "channel"
      BY <2>1, <3>1, ClientRests DEF Create
    <3>2. CASE client[c].role # "channel"
      <4> DEFINE r == [IdleClient EXCEPT !.phase = "publishing", !.role = client[c].role,
                                         !.job = new, !.start = client[c].start]
      <4>1. r \in ClientRecords /\ r.job = new
        BY <2>2, IdleTypes DEF ClientRecords
      <4>2. client' = [client EXCEPT ![c] = r]
        BY <2>1, <3>2 DEF Create
      <4> HIDE DEF r
      <4>3. QED
        BY <4>1, <4>2, ClientMoves
    <3>3. QED
      BY <3>1, <3>2
  <2>8. QED
    BY <2>1, <2>5, <2>6, <2>7 DEF Create, TypeOK
<1>2. CASE CreateConflicts(c)
  <2>1. video' \in VideoRecords
    BY <1>2 DEF CreateConflicts, TypeOK, VideoRecords, VideoStatuses, StatusOnCreate
  <2>2. QED
    BY <1>2, <2>1, ClientRests DEF CreateConflicts, TypeOK
<1>3. CASE Publish(c)
  <2>1. client[c].job \in JobIds /\ client[c] \in ClientRecords
    BY <1>3 DEF Publish, TypeOK, ClientsHoldJobs
  <2>2. [job |-> client[c].job, stage |-> client[c].start, tries |-> 0,
         chain |-> jobs[client[c].job].handoffs] \in Messages
    BY <2>1 DEF TypeOK, ClientRecords, JobRecords, Messages
  <2>3. QED
    BY <1>3, <2>2, ClientRests DEF Publish, TypeOK
<1>4. CASE PublishFails(c)
  <2> DEFINE j      == client[c].job
             failed == SetJobState(jobs[j], "failed", "queued")
  <2>1. j \in JobIds /\ jobs[j] \in JobRecords
    BY <1>4 DEF PublishFails, TypeOK, ClientsHoldJobs
  <2>2. failed \in JobRecords
    BY <2>1, SetJobStateType DEF TerminalStatuses, JobStages
  <2>3. [failed EXCEPT !.stage = jobs[j].stage] \in JobRecords
    BY <2>1, <2>2 DEF JobRecords
  <2>4. jobs' \in [JobIds -> JobRecords]
    BY <1>4, <2>1, <2>2, <2>3 DEF PublishFails, TypeOK
  <2>5. QED
    BY <1>4, <2>4, ClientRests DEF PublishFails, TypeOK
<1>5. CASE Cancel(c)
  <2>1. client[c].job \in JobIds
    BY <1>5 DEF Cancel, ClientsHoldJobs
  <2>2. SetJobState(jobs[client[c].job], "cancelled", "cancelled") \in JobRecords
    BY <2>1, SetJobStateType DEF TypeOK, TerminalStatuses, TerminalOnlyStages, JobStages
  <2>3. video' \in VideoRecords
    BY <1>5 DEF Cancel, TypeOK, VideoRecords, VideoStatuses
  <2>4. QED
    BY <1>5, <2>2, <2>3, ClientRests DEF Cancel, TypeOK
<1>6. CASE RecoverHandoff(c)
  <2> DEFINE j     == client[c].job
             start == ResumePoint(video, video.status)
             r     == [IdleClient EXCEPT !.phase = "publishing", !.role = "reaper",
                                         !.job = j, !.start = start]
  <2>1. j \in JobIds /\ client[c].seen \in Snapshots /\ client[c].seen.handoffs < HandoffLimit
    BY <1>6 DEF RecoverHandoff, HandoffRecoverable, TypeOK, ClientsHoldJobs, ClientRecords
  <2>2. Requeued(j, client[c].seen) \in JobRecords
    <3> DEFINE seen     == client[c].seen
               handoffs == seen.handoffs + 1
               status   == IF seen.status = "queued" THEN jobs[j].status ELSE "queued"
               stage    == IF seen.stage = "queued" THEN jobs[j].stage ELSE "queued"
               row      == [jobs[j] EXCEPT !.status = status, !.stage = stage]
    <3>1. handoffs \in 0..HandoffLimit
      BY <2>1, ConstantsAssumption DEF Snapshots
    <3>2. jobs[j] \in JobRecords
      BY <2>1 DEF TypeOK
    <3>3. row \in JobRecords
      BY <3>2 DEF JobRecords, ActiveStatuses, JobStages
    <3>4. Requeued(j, seen) = [row EXCEPT !.handoffs = handoffs]
      BY DEF Requeued
    <3> HIDE DEF handoffs, row
    <3>5. QED
      BY <3>1, <3>3, <3>4 DEF JobRecords
  <2>3. jobs' \in [JobIds -> JobRecords]
    BY <1>6, <2>2 DEF RecoverHandoff, TypeOK
  <2>4. video' \in VideoRecords
    BY <1>6 DEF RecoverHandoff, TypeOK, VideoRecords, VideoStatuses
  <2>5. r \in ClientRecords /\ r.job = j
    BY <2>1, IdleTypes, ResumePointType DEF ClientRecords, RoleNames
  <2>6. client' = [client EXCEPT ![c] = r]
    BY <1>6 DEF RecoverHandoff
  <2>7. client' \in [Clients -> ClientRecords] /\ ClientsHoldJobs'
    <3> HIDE DEF r
    <3>1. QED
      BY <2>1, <2>5, <2>6, ClientMoves
  <2>8. QED
    BY <1>6, <2>3, <2>4, <2>7 DEF RecoverHandoff, TypeOK
<1>7. CASE RecoveryConflicts(c)
  BY <1>7, ClientRests DEF RecoveryConflicts, TypeOK
<1>8. CASE FailStale(c)
  <2> DEFINE me == client[c]
  <2>1. me.job \in JobIds /\ me.seen \in Snapshots /\ me.seen.stage \in JobStages
    BY <1>8 DEF FailStale, TypeOK, ClientsHoldJobs, ClientRecords, Snapshots
  <2>2. RecordFailure(me.job, me.seen, me.seen.stage, "stale") \in JobRecords
    BY <2>1, RecordFailureType
  <2>3. video' \in VideoRecords
    BY <1>8 DEF FailStale, TypeOK, VideoRecords, VideoStatuses
  <2>4. QED
    BY <1>8, <2>2, <2>3, ClientRests DEF FailStale, TypeOK
<1>9. QED
  BY <1>1, <1>2, <1>3, <1>4, <1>5, <1>6, <1>7, <1>8 DEF ClientProceeds

\* A worker comes to rest, or takes on a well-typed record.
LEMMA WorkerMoves ==
    ASSUME TypeOK, NEW w \in Workers, NEW r \in WorkerRecords,
           worker' = [worker EXCEPT ![w] = r]
    PROVE  worker' \in [Workers -> WorkerRecords]
BY DEF TypeOK

\* A worker that is done waits for its next message.
LEMMA WorkerRests ==
    ASSUME TypeOK, NEW w \in Workers, Rest(w)
    PROVE  worker' \in [Workers -> WorkerRecords]
BY IdleTypes, WorkerMoves DEF Rest

\* A worker that is about to publish has messages of the right type in hand.
LEMMA WorkerHandsOver ==
    ASSUME TypeOK, NEW w \in Workers, NEW messages \in SUBSET Messages, HandOver(w, messages)
    PROVE  worker' \in [Workers -> WorkerRecords]
<1> DEFINE r == [IdleWorker EXCEPT !.phase = "handing", !.task = Task(w), !.next = messages]
<1>1. r \in WorkerRecords
  BY IdleTypes DEF WorkerRecords, TypeOK, Task
<1>2. worker' = [worker EXCEPT ![w] = r]
  BY DEF HandOver
<1> HIDE DEF r
<1>3. QED
  BY <1>1, <1>2, WorkerMoves

\* The rows that a task writes are rows.
LEMMA TaskRows ==
    ASSUME TypeOK, NEW w \in Workers
    PROVE  /\ Task(w) \in Messages /\ Task(w).job \in JobIds /\ Task(w).stage \in Stages
           /\ Started(w) \in JobRecords
           /\ Running(w) \in JobRecords
           /\ Done(w) \in JobRecords
<1>1. Task(w) \in Messages /\ Task(w).job \in JobIds /\ Task(w).stage \in Stages
  BY DEF TypeOK, WorkerRecords, Messages, Task
<1>2. jobs[Task(w).job] \in JobRecords /\ Task(w).stage \in JobStages
  BY <1>1 DEF TypeOK, JobStages
<1>3. Started(w) \in JobRecords
  BY <1>2 DEF Started, JobRecords, ActiveStatuses
<1>4. Running(w) \in JobRecords
  BY <1>2, SetJobStateType DEF Running, ActiveStatuses
<1>5. Done(w) \in JobRecords
  BY <1>2, <1>4, SetJobStateType DEF Done, TerminalStatuses, JobStages, TerminalOnlyStages
<1>6. QED
  BY <1>1, <1>3, <1>4, <1>5

\* Workers that take a message keep the types.
LEMMA WorkerTakesType ==
    ASSUME TypeInv, NEW w \in Workers, WorkerTakes(w)
    PROVE  TypeInv'
<1>1. PICK m \in queue : SkipStage(w, m) \/ IgnoreTask(w, m) \/ PassGate(w, m)
  BY DEF WorkerTakes
<1>2. m \in Messages /\ jobs[m.job] \in JobRecords
  BY DEF TypeInv, TypeOK, Messages
<1>3. CASE SkipStage(w, m)
  <2> DEFINE r == [IdleWorker EXCEPT !.phase = "handing", !.task = m, !.next = NextMessages(m)]
  <2>1. NextMessages(m) \subseteq Messages
    BY <1>2, NextMessagesType
  <2>2. r \in WorkerRecords
    BY <1>2, <2>1, IdleTypes DEF WorkerRecords
  <2>3. worker' = [worker EXCEPT ![w] = r]
    BY <1>3 DEF SkipStage
  <2> HIDE DEF r
  <2>4. QED
    BY <1>3, <2>2, <2>3, WorkerMoves DEF SkipStage, TypeInv, TypeOK, ClientsHoldJobs
<1>4. CASE IgnoreTask(w, m)
  BY <1>4 DEF IgnoreTask, TypeInv, TypeOK, ClientsHoldJobs
<1>5. CASE PassGate(w, m)
  <2> DEFINE r == [IdleWorker EXCEPT !.phase = "gated", !.task = m,
                                     !.seen = Snapshot(jobs[m.job]), !.shown = video.status]
  <2>1. Snapshot(jobs[m.job]) \in Snapshots /\ video.status \in VideoStatuses
    BY <1>2, SnapshotType DEF TypeInv, TypeOK, VideoRecords
  <2>2. r \in WorkerRecords
    BY <1>2, <2>1, IdleTypes DEF WorkerRecords
  <2>3. worker' = [worker EXCEPT ![w] = r]
    BY <1>5 DEF PassGate
  <2> HIDE DEF r
  <2>4. QED
    BY <1>5, <2>2, <2>3, WorkerMoves DEF PassGate, TypeInv, TypeOK, ClientsHoldJobs
<1>6. QED
  BY <1>1, <1>3, <1>4, <1>5

\* Workers that go on with a task keep the types.
LEMMA WorkerProceedsType ==
    ASSUME TypeInv, NEW w \in Workers, WorkerProceeds(w)
    PROVE  TypeInv'
<1> USE DEF TypeInv
<1>1. Task(w) \in Messages /\ Task(w).job \in JobIds /\ Task(w).stage \in Stages
  BY TaskRows
<1>2. ASSUME NEW row \in JobRecords, WriteJob(w, row)
      PROVE  jobs' \in [JobIds -> JobRecords]
  BY <1>1, <1>2 DEF WriteJob, TypeOK
<1>3. CASE Start(w)
  <2> DEFINE r == [IdleWorker EXCEPT !.phase = "working", !.task = worker[w].task,
                                     !.old = ChunksReplaced(worker[w].task.stage)]
  <2>1. jobs' \in [JobIds -> JobRecords]
    BY <1>2, <1>3, TaskRows DEF Start
  <2>2. StartStatus(worker[w].task.stage, worker[w].shown) \in VideoStatuses
    BY DEF StartStatus, TypeOK, WorkerRecords, VideoStatuses
  <2>3. video' \in VideoRecords
    BY <1>3, <2>2 DEF Start, TypeOK, VideoRecords
  <2>4. r \in WorkerRecords
    BY IdleTypes DEF WorkerRecords, ChunksReplaced, TypeOK, VideoRecords
  <2>5. worker' = [worker EXCEPT ![w] = r]
    BY <1>3 DEF Start
  <2> HIDE DEF r
  <2>6. QED
    BY <1>3, <2>1, <2>3, <2>4, <2>5, WorkerMoves DEF Start, TypeOK, ClientsHoldJobs
<1>4. CASE StartConflicts(w)
  BY <1>4, WorkerRests DEF StartConflicts, Drop, TypeOK, ClientsHoldJobs
<1>5. CASE Report(w)
  BY <1>2, <1>5, TaskRows DEF Report, TypeOK, ClientsHoldJobs
<1>6. CASE Succeed(w)
  <2>1. video \in VideoRecords /\ worker[w].old \subseteq Workers
    BY DEF TypeOK, WorkerRecords
  <2>2. Product(w) \in VideoRecords
    BY <2>1 DEF Product, VideoRecords, VideoStatuses
  <2>3. jobs' \in [JobIds -> JobRecords]
    BY <1>2, <1>6, TaskRows DEF Succeed
  <2>4. worker' \in [Workers -> WorkerRecords]
    BY <1>1, <1>6, NextMessagesType, WorkerHandsOver DEF Succeed
  <2>5. QED
    BY <1>6, <2>2, <2>3, <2>4 DEF Succeed, TypeOK, ClientsHoldJobs
<1>7. CASE RetryTask(w)
  <2>1. video' \in VideoRecords
    BY <1>7 DEF RetryTask, WithoutOld, TypeOK, VideoRecords, VideoStatuses
  <2>2. jobs' \in [JobIds -> JobRecords]
    BY <1>2, <1>7, TaskRows DEF RetryTask
  <2>3. Task(w).tries + 1 \in 0..2
    <3>1. RetryLimit(Task(w).stage) \in 0..2
      BY DEF RetryLimit
    <3>2. Task(w).tries \in 0..2
      BY <1>1 DEF Messages
    <3>3. Task(w).tries < RetryLimit(Task(w).stage)
      BY <1>7 DEF RetryTask, Retries
    <3>4. QED
      BY <3>1, <3>2, <3>3
  <2>4. Again(Task(w)) \in Messages
    <3> DEFINE tries == Task(w).tries + 1
    <3>1. Again(Task(w)) = [Task(w) EXCEPT !.tries = tries]
      BY DEF Again
    <3> HIDE DEF tries
    <3>2. QED
      BY <1>1, <2>3, <3>1 DEF Messages, tries
  <2>5. worker' \in [Workers -> WorkerRecords]
    BY <1>7, <2>4, WorkerHandsOver DEF RetryTask
  <2>6. QED
    BY <1>7, <2>1, <2>2, <2>5 DEF RetryTask, TypeOK, ClientsHoldJobs
<1>8. CASE FailTask(w)
  <2>1. PICK kind \in FailureKinds : jobs' = [jobs EXCEPT ![Task(w).job] =
              RecordFailure(Task(w).job, jobs[Task(w).job], Task(w).stage, kind)]
    BY <1>8 DEF FailTask
  <2>2. kind \in {"transient", "other", "stale"} /\ Task(w).stage \in JobStages
    BY <1>1, ConstantsAssumption DEF JobStages
  <2>3. RecordFailure(Task(w).job, jobs[Task(w).job], Task(w).stage, kind) \in JobRecords
    BY <1>1, <2>2, RecordFailureType
  <2>4. video' \in VideoRecords
    <3>1. PICK transcript \in {video.transcript, "partial"} :
             video' = [WithoutOld(w) EXCEPT !.status = "failed", !.transcript = transcript]
      BY <1>8 DEF FailTask, Remains
    <3>2. WithoutOld(w) \in VideoRecords /\ transcript \in {"none", "partial", "raw", "clean"}
      BY DEF WithoutOld, TypeOK, VideoRecords
    <3>3. QED
      BY <3>1, <3>2 DEF VideoRecords, VideoStatuses
  <2>5. QED
    BY <1>8, <2>1, <2>3, <2>4, WorkerRests DEF FailTask, Drop, TypeOK, ClientsHoldJobs
<1>9. CASE Abort(w)
  BY <1>9, WorkerRests DEF Abort, Drop, TypeOK, ClientsHoldJobs
<1>10. CASE Hand(w)
  BY <1>10, WorkerRests DEF Hand, TypeOK, WorkerRecords, ClientsHoldJobs
<1>11. CASE Reopen(w)
  <2>1. video' \in VideoRecords
    BY <1>11 DEF Reopen, TypeOK, VideoRecords, VideoStatuses
  <2>2. jobs' \in [JobIds -> JobRecords]
    BY <1>2, <1>11, TaskRows DEF Reopen
  <2>3. Task(w).tries + 1 \in 0..2
    BY <1>1, <1>11 DEF Messages, Reopen, RetryLimit
  <2>4. Again(Task(w)) \in Messages
    <3> DEFINE tries == Task(w).tries + 1
    <3>1. Again(Task(w)) = [Task(w) EXCEPT !.tries = tries]
      BY DEF Again
    <3> HIDE DEF tries
    <3>2. QED
      BY <1>1, <2>3, <3>1 DEF Messages, tries
  <2>5. worker' \in [Workers -> WorkerRecords]
    BY <1>11, <2>4, WorkerHandsOver DEF Reopen
  <2>6. QED
    BY <1>11, <2>1, <2>2, <2>5 DEF Reopen, TypeOK, ClientsHoldJobs
<1>12. CASE FailReleased(w)
  <2>1. PICK kind \in FailureKinds : jobs' = [jobs EXCEPT ![Task(w).job] =
              RecordFailure(Task(w).job, jobs[Task(w).job], "embed", kind)]
    BY <1>12 DEF FailReleased
  <2>2. kind \in {"transient", "other", "stale"} /\ "embed" \in JobStages
    BY ConstantsAssumption DEF JobStages, Stages
  <2>3. RecordFailure(Task(w).job, jobs[Task(w).job], "embed", kind) \in JobRecords
    BY <1>1, <2>2, RecordFailureType
  <2>4. video' \in VideoRecords
    BY <1>12 DEF FailReleased, TypeOK, VideoRecords, VideoStatuses
  <2>5. QED
    BY <1>12, <2>1, <2>3, <2>4, WorkerRests DEF FailReleased, Drop, TypeOK, ClientsHoldJobs
<1>13. QED
  BY <1>3, <1>4, <1>5, <1>6, <1>7, <1>8, <1>9, <1>10, <1>11, <1>12 DEF WorkerProceeds

\* Types, and the rows behind the attempts in hand, are kept by every step.
LEMMA TypeStep == TypeInv /\ [Next]_vars => TypeInv'
<1> SUFFICES ASSUME TypeInv, [Next]_vars
             PROVE  TypeInv'
  OBVIOUS
<1>1. CASE UNCHANGED vars
  BY <1>1 DEF vars, TypeInv, TypeOK, ClientsHoldJobs
<1>2. ASSUME NEW c \in Clients, ClientBegins(c) \/ ClientProceeds(c) \/ ClientDies(c)
      PROVE  TypeInv'
  <2>1. CASE ClientDies(c)
    BY <2>1, ClientRests DEF ClientDies, TypeInv, TypeOK
  <2>2. QED
    BY <1>2, <2>1, ClientBeginsType, ClientProceedsType
<1>3. ASSUME NEW w \in Workers,
             WorkerTakes(w) \/ WorkerProceeds(w) \/ WorkerDies(w) \/ DiesUnacknowledged(w)
      PROVE  TypeInv'
  <2>1. CASE WorkerDies(w)
    BY <2>1, WorkerRests DEF WorkerDies, TypeInv, TypeOK, ClientsHoldJobs
  <2>2. CASE DiesUnacknowledged(w)
    BY <2>2, WorkerRests DEF DiesUnacknowledged, TypeInv, TypeOK, WorkerRecords, ClientsHoldJobs
  <2>3. QED
    BY <1>3, <2>1, <2>2, WorkerTakesType, WorkerProceedsType
<1>4. QED
  BY <1>1, <1>2, <1>3 DEF Next

\* The variables keep their types, whatever the requests, scripts and workers do,
\* and a client that has an attempt in hand has a row of the video in hand.
THEOREM TypeCorrect == Spec => [](TypeOK /\ ClientsHoldJobs)
<1>1. Init => TypeInv
  BY IdleTypes DEF Init, TypeInv, TypeOK, ClientsHoldJobs, IdleClient, VideoRecords, VideoStatuses
<1>2. QED
  BY <1>1, TypeStep, PTL DEF Spec, TypeInv

-----------------------------------------------------------------------------
(***************************************************************************)
(* Attempts take turns.  Every write of a job row either leaves the row    *)
(* inactive or passes the unique index: so from one moment to the next the *)
(* set of active attempts stays, is emptied, or gains its only member.     *)
(* Allocation's own check of the active attempts plays no part in this: it *)
(* is made in an earlier transaction than the INSERT.                      *)
(***************************************************************************)
TakesTurn == OneActiveAttempt' /\ [Mutex!Next]_Active

\* Nothing changes hands in a step that leaves the rows alone.
LEMMA NoTurn ==
    ASSUME OneActiveAttempt, UNCHANGED jobs
    PROVE  TakesTurn
BY DEF TakesTurn, OneActiveAttempt, Active

\* At most one row changes in what matters, and not against the index.
LEMMA OneRowChanges ==
    ASSUME OneActiveAttempt, NEW j \in JobIds,
           \A k \in JobIds \ {j} :
              jobs'[k].status \in ActiveStatuses <=> jobs[k].status \in ActiveStatuses,
           IndexAllows(j, jobs'[j].status)
    PROVE  TakesTurn
<1>1. CASE jobs'[j].status \in ActiveStatuses
  <2>1. Active \subseteq {j}
    BY <1>1 DEF IndexAllows
  <2>2. Active' = {j}
    BY <1>1, <2>1 DEF Active
  <2>3. CASE Active = {}
    <3>1. Mutex!Acquire(j)
      BY <2>2, <2>3 DEF Mutex!Acquire
    <3>2. QED
      BY <2>2, <3>1 DEF TakesTurn, OneActiveAttempt, Mutex!Next
  <2>4. CASE Active = {j}
    BY <2>2, <2>4 DEF TakesTurn, OneActiveAttempt
  <2>5. QED
    BY <2>1, <2>3, <2>4
<1>2. CASE jobs'[j].status \notin ActiveStatuses
  <2>1. Active' = Active \ {j}
    BY <1>2 DEF Active
  <2>2. CASE j \in Active
    <3>1. Active' = {} /\ Active # {}
      BY <2>1, <2>2 DEF OneActiveAttempt
    <3>2. Mutex!Release
      BY <3>1 DEF Mutex!Release
    <3>3. QED
      BY <3>1, <3>2 DEF TakesTurn, OneActiveAttempt, Mutex!Next
  <2>3. CASE j \notin Active
    BY <2>1, <2>3 DEF TakesTurn, OneActiveAttempt
  <2>4. QED
    BY <2>2, <2>3
<1>3. QED
  BY <1>1, <1>2

\* A row written as the unique index allows takes no turn from another attempt.
LEMMA RowIsWritten ==
    ASSUME TypeOK, OneActiveAttempt, NEW j \in JobIds, NEW row,
           jobs' = [jobs EXCEPT ![j] = row], IndexAllows(j, row.status)
    PROVE  TakesTurn
<1>1. jobs'[j] = row /\ \A k \in JobIds \ {j} : jobs'[k] = jobs[k]
  BY DEF TypeOK
<1>2. QED
  BY <1>1, OneRowChanges

\* A row that is settled, deleted or absent is no concern of the index.
LEMMA RowIsSettled ==
    ASSUME TypeOK, OneActiveAttempt, NEW j \in JobIds, NEW row,
           jobs' = [jobs EXCEPT ![j] = row],
           row.status \in TerminalStatuses \cup {"deleted"}
    PROVE  TakesTurn
<1>1. row.status \notin ActiveStatuses
  BY DEF TerminalStatuses, ActiveStatuses
<1>2. QED
  BY <1>1, RowIsWritten DEF IndexAllows

\* No step of a client takes the video from an active attempt.
LEMMA ClientTakesTurn ==
    ASSUME TypeInv, OneActiveAttempt, NEW c \in Clients,
           ClientBegins(c) \/ ClientProceeds(c) \/ ClientDies(c)
    PROVE  TakesTurn
<1> USE DEF TypeInv
<1>1. CASE \E j \in JobIds : Promote(c, j)
  <2>1. PICK j \in JobIds : Promote(c, j)
    BY <1>1
  <2>2. SetJobState(jobs[j], "queued", "queued").status = "queued"
    BY SetJobStateType DEF TypeOK, ActiveStatuses, JobStages
  <2>3. Active \subseteq {j}
    BY <2>1 DEF Promote, OneActiveAttempt, Active, ActiveStatuses
  <2>4. QED
    BY <2>1, <2>2, <2>3, RowIsWritten DEF Promote, IndexAllows
<1>2. CASE \E j \in JobIds : ReapHidden(c, j)
  <2>1. [NoJob EXCEPT !.status = "deleted"].status = "deleted"
    BY DEF NoJob
  <2>2. QED
    BY <1>2, <2>1, RowIsSettled DEF ReapHidden
<1>3. CASE \E j \in JobIds : Create(c, j)
  <2>1. PICK new \in JobIds : Create(c, new)
    BY <1>3
  <2>2. jobs'[new].status = StatusCreated(client[c].role)
    BY <2>1 DEF Create, NoJob
  <2>3. \A k \in JobIds \ {new} : jobs'[k].status = jobs[k].status
    BY <2>1 DEF Create, TypeOK, JobRecords
  <2>4. QED
    BY <2>1, <2>2, <2>3, OneRowChanges DEF Create
<1>4. CASE PublishFails(c)
  <2> DEFINE j      == client[c].job
             failed == SetJobState(jobs[j], "failed", "queued")
             row    == IF client[c].role \in {"submit", "retry", "override"}
                       THEN [failed EXCEPT !.stage = jobs[j].stage] ELSE failed
  <2>1. j \in JobIds
    BY <1>4 DEF PublishFails, ClientsHoldJobs
  <2>2. failed \in JobRecords /\ failed.status = "failed"
    BY <2>1, SetJobStateType DEF TypeOK, TerminalStatuses, JobStages
  <2>3. row.status = "failed"
    BY <2>2 DEF JobRecords
  <2>4. jobs' = [jobs EXCEPT ![j] = row]
    BY <1>4 DEF PublishFails
  <2> HIDE DEF row
  <2>5. QED
    BY <2>1, <2>3, <2>4, RowIsSettled DEF TerminalStatuses
<1>5. CASE Cancel(c)
  <2>1. client[c].job \in JobIds
    BY <1>5 DEF Cancel, ClientsHoldJobs
  <2>2. SetJobState(jobs[client[c].job], "cancelled", "cancelled").status = "cancelled"
    BY <2>1, SetJobStateType DEF TypeOK, TerminalStatuses, TerminalOnlyStages, JobStages
  <2>3. QED
    BY <1>5, <2>1, <2>2, RowIsSettled DEF Cancel, TerminalStatuses
<1>6. CASE RecoverHandoff(c)
  <2>1. client[c].job \in JobIds
    BY <1>6 DEF RecoverHandoff, ClientsHoldJobs
  <2>2. QED
    BY <1>6, <2>1, RowIsWritten DEF RecoverHandoff
<1>7. CASE FailStale(c)
  <2> DEFINE me == client[c]
  <2>1. me.job \in JobIds /\ me.seen.stage \in JobStages
    BY <1>7 DEF FailStale, TypeOK, ClientsHoldJobs, ClientRecords, Snapshots
  <2>2. RecordFailure(me.job, me.seen, me.seen.stage, "stale").status = "failed"
    BY <2>1, RecordFailureType
  <2>3. QED
    BY <1>7, <2>1, <2>2, RowIsSettled DEF FailStale, TerminalStatuses
<1>8. CASE UNCHANGED jobs
  BY <1>8, NoTurn
<1>9. QED
  BY <1>1, <1>2, <1>3, <1>4, <1>5, <1>6, <1>7, <1>8
  DEF ClientBegins, ClientProceeds, ClientDies, Submit, SubmitFindsActive, ProcessChannelVideo,
      RetryJob, AutoRetry, Allocate, CancelRequest, ReapScan, ReconcileVideo, CompressStale,
      CreateConflicts, Publish, RecoveryConflicts

\* Nor does a step of a worker: the unique index refuses the row that would.
LEMMA WorkerTakesTurn ==
    ASSUME TypeInv, OneActiveAttempt, NEW w \in Workers,
           WorkerTakes(w) \/ WorkerProceeds(w) \/ WorkerDies(w) \/ DiesUnacknowledged(w)
    PROVE  TakesTurn
<1> USE DEF TypeInv
<1>1. Task(w).job \in JobIds /\ Task(w).stage \in JobStages
  BY TaskRows DEF JobStages
<1>2. ASSUME NEW row, WriteJob(w, row)
      PROVE  TakesTurn
  BY <1>1, <1>2, RowIsWritten DEF WriteJob
<1>3. CASE FailTask(w)
  <2>1. PICK kind \in FailureKinds : jobs' = [jobs EXCEPT ![Task(w).job] =
              RecordFailure(Task(w).job, jobs[Task(w).job], Task(w).stage, kind)]
    BY <1>3 DEF FailTask
  <2>2. kind \in {"transient", "other", "stale"}
    BY ConstantsAssumption
  <2>3. RecordFailure(Task(w).job, jobs[Task(w).job], Task(w).stage, kind).status = "failed"
    BY <1>1, <2>2, RecordFailureType
  <2>4. QED
    BY <1>1, <2>1, <2>3, RowIsSettled DEF TerminalStatuses
<1>4. CASE FailReleased(w)
  <2>1. PICK kind \in FailureKinds : jobs' = [jobs EXCEPT ![Task(w).job] =
              RecordFailure(Task(w).job, jobs[Task(w).job], "embed", kind)]
    BY <1>4 DEF FailReleased
  <2>2. kind \in {"transient", "other", "stale"} /\ "embed" \in JobStages
    BY ConstantsAssumption DEF JobStages, Stages
  <2>3. RecordFailure(Task(w).job, jobs[Task(w).job], "embed", kind).status = "failed"
    BY <1>1, <2>2, RecordFailureType
  <2>4. QED
    BY <1>1, <2>1, <2>3, RowIsSettled DEF TerminalStatuses
<1>5. CASE UNCHANGED jobs
  BY <1>5, NoTurn
<1>6. QED
  BY <1>2, <1>3, <1>4, <1>5
  DEF WorkerTakes, WorkerProceeds, WorkerDies, DiesUnacknowledged, SkipStage, IgnoreTask, PassGate,
      Start, StartConflicts, Report, Succeed, RetryTask, Abort, Reopen, Hand

\* No step takes a turn from another attempt.
LEMMA TurnStep == TypeInv /\ OneActiveAttempt /\ [Next]_vars => TakesTurn
<1> SUFFICES ASSUME TypeInv, OneActiveAttempt, [Next]_vars
             PROVE  TakesTurn
  OBVIOUS
<1>1. CASE UNCHANGED vars
  BY <1>1, NoTurn DEF vars
<1>2. CASE Next
  BY <1>2, ClientTakesTurn, WorkerTakesTurn DEF Next
<1>3. QED
  BY <1>1, <1>2

\* There is no attempt at the start.
LEMMA InitiallyNoneActive == Init => Active = {} /\ OneActiveAttempt
BY DEF Init, Active, ActiveStatuses, OneActiveAttempt, NoJob

\* At most one attempt of a video is active, whatever the requests, scripts and
\* workers that create, resurrect and requeue attempts do between their commits.
THEOREM ActiveIsUnique == Spec => []OneActiveAttempt
<1>1. TypeInv /\ OneActiveAttempt /\ [Next]_vars => OneActiveAttempt'
  BY TurnStep DEF TakesTurn
<1>2. QED
  BY <1>1, InitiallyNoneActive, TypeCorrect, PTL DEF Spec, TypeInv

\* PipelineAttempts implements AttemptMutex: attempts own the video one at a time,
\* and none takes it over from another before the other has settled.
THEOREM TurnsAreTaken == Spec => AttemptsTakeTurns
<1>1. Init => Mutex!Init
  BY InitiallyNoneActive DEF Mutex!Init
<1>2. TypeInv /\ OneActiveAttempt /\ [Next]_vars => [Mutex!Next]_Active
  BY TurnStep DEF TakesTurn
<1>3. QED
  BY <1>1, <1>2, TypeCorrect, ActiveIsUnique, PTL DEF Spec, TypeInv, AttemptsTakeTurns, Mutex!Spec
=============================================================================
