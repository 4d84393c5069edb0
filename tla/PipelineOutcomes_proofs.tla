----------------------- MODULE PipelineOutcomes_proofs -----------------------
(***************************************************************************)
(* Proofs about PipelineAttempts, of what attempts leave behind:           *)
(*                                                                         *)
(*   CompletedIsComplete   a completed video or attempt has all products,  *)
(*                         for any clients and workers, overdue work and   *)
(*                         redelivered messages;                           *)
(*   NumbersGrow           attempt numbers grow, if requests come one at a *)
(*                         time (OneClient).                               *)
(*                                                                         *)
(* The invariant of the first, ProductsInv, says of everything that asks   *)
(* for an embedding (a message, a task, a planned resume point) that there *)
(* are a summary and a transcript by then; IsWhole, that a transcript is   *)
(* cut short only where segments are refused.  The second is built on      *)
(* RowsInv, which needs no assumption: whatever a process or a message has *)
(* in hand is a row that is not deleted, and rows are inserted in order.   *)
(***************************************************************************)
EXTENDS PipelineAttempts_proofs, FiniteSetTheorems

-----------------------------------------------------------------------------
(***************************************************************************)
(* What is made stays made, and an attempt completes only with all of it.  *)
(***************************************************************************)
HasProducts == video.summary /\ video.transcript # "none"

\* An embedding is asked for only once there is a summary and a transcript ...
MessageDue(m) == m.stage = "embed" => HasProducts

QueueDue == \A m \in queue : MessageDue(m)

\* ... by a worker that hands it over, or has it, or is about to make the summary
\* (and no other task than an embedding deletes chunks) ...
WorkerDue(w) ==
    Busy(w) => /\ MessageDue(Task(w))
               /\ \A m \in worker[w].next : MessageDue(m)
               /\ worker[w].phase # "handing" /\ Task(w).stage = "summarize"
                  => video.transcript # "none"
               /\ Task(w).stage # "embed" => worker[w].old = {}

\* ... and by a client that has planned to resume there.
ClientDue(c) ==
    client[c].phase \in {"allocated", "publishing"} /\ client[c].start = "embed" => HasProducts

ChunksTell == video.chunks # {} => HasProducts

\* CompletedHasProducts, of any transcript.
CompletedIsMade ==
    /\ video.status = "completed" => video.chunks # {}
    /\ \/ video.status = "completed"
       \/ \E j \in JobIds : jobs[j].status = "completed"
       => HasProducts

\* A transcript is cut short only where the segments of a transcription are refused.
IsWhole == video.transcript = "partial" => SegmentErrors

ProductsInv ==
    /\ CompletedIsMade
    /\ ChunksTell
    /\ QueueDue
    /\ \A w \in Workers : WorkerDue(w)
    /\ \A c \in Clients : ClientDue(c)

\* What a step may not take away.
StaysMade ==
    /\ video.summary => video'.summary
    /\ video.transcript # "none" => video'.transcript # "none"

\* Nothing is completed in a step, and a video that stays completed keeps its chunks.
CompletesNothing ==
    /\ \A j \in JobIds : jobs'[j].status = "completed" => jobs[j].status = "completed"
    /\ video'.chunks \subseteq video.chunks
    /\ video'.status = "completed" => video.status = "completed" /\ video'.chunks = video.chunks

\* A row that is written is not completed by that, unless it says so.
LEMMA RowCompletes ==
    ASSUME TypeOK, NEW j \in JobIds, NEW row, jobs' = [jobs EXCEPT ![j] = row],
           row.status = "completed" => jobs[j].status = "completed"
    PROVE  \A k \in JobIds : jobs'[k].status = "completed" => jobs[k].status = "completed"
BY DEF TypeOK

\* The statuses that the steps of a task write.
LEMMA TaskStatuses ==
    ASSUME TypeOK, NEW w \in Workers
    PROVE  /\ Started(w).status \in {"running", jobs[Task(w).job].status}
           /\ Running(w).status = "running"
           /\ Task(w).stage # "embed" => Done(w).status = "running"
           /\ Task(w).stage = "embed" => Done(w).status = "completed"
<1>1. /\ Task(w).job \in JobIds /\ Task(w).stage \in Stages
      /\ jobs[Task(w).job] \in JobRecords
  BY TaskRows DEF TypeOK
<1>2. Running(w).status = "running"
  BY <1>1, SetJobStateType DEF Running, ActiveStatuses, JobStages
<1>3. Started(w).status \in {"running", jobs[Task(w).job].status}
  BY <1>1 DEF Started, JobRecords
<1>4. Task(w).stage = "embed" => Done(w).status = "completed"
  BY <1>1, SetJobStateType DEF Done, TerminalStatuses, JobStages, TerminalOnlyStages
<1>5. QED
  BY <1>2, <1>3, <1>4 DEF Done

\* What a client's step makes of the video.
LEMMA ClientKeepsMade ==
    ASSUME TypeInv, NEW c \in Clients, ClientBegins(c) \/ ClientProceeds(c) \/ ClientDies(c)
    PROVE  /\ video'.summary = video.summary /\ video'.transcript = video.transcript
           /\ video'.chunks = video.chunks
           /\ video'.status = "completed" => video.status = "completed"
<1> USE DEF TypeInv, TypeOK, VideoRecords
<1>1. CASE ClientBegins(c)
  BY <1>1 DEF ClientBegins, Submit, SubmitFindsActive, ProcessChannelVideo, RetryJob, AutoRetry,
     CancelRequest, Promote, ReapScan, ReapHidden, ReconcileVideo, CompressStale, Allocate
<1>2. CASE \E j \in JobIds : Create(c, j)
  BY <1>2 DEF Create, StatusOnCreate
<1>3. CASE CreateConflicts(c)
  BY <1>3 DEF CreateConflicts, StatusOnCreate
<1>4. CASE Publish(c) \/ PublishFails(c) \/ Cancel(c) \/ ClientDies(c)
  BY <1>4 DEF Publish, PublishFails, Cancel, ClientDies
<1>5. CASE RecoverHandoff(c) \/ RecoveryConflicts(c) \/ FailStale(c)
  BY <1>5 DEF RecoverHandoff, RecoveryConflicts, FailStale
<1>6. QED
  BY <1>1, <1>2, <1>3, <1>4, <1>5 DEF ClientProceeds

\* A client completes no attempt.
LEMMA ClientCompletesNothing ==
    ASSUME TypeInv, NEW c \in Clients, ClientBegins(c) \/ ClientProceeds(c) \/ ClientDies(c)
    PROVE  \A j \in JobIds : jobs'[j].status = "completed" => jobs[j].status = "completed"
<1>0. TypeOK /\ ClientsHoldJobs /\ jobs \in [JobIds -> JobRecords]
  BY DEF TypeInv, TypeOK
<1>1. CASE \E j \in JobIds : Promote(c, j)
  <2>1. PICK j \in JobIds : Promote(c, j)
    BY <1>1
  <2>2. SetJobState(jobs[j], "queued", "queued").status = "queued"
    BY <1>0, SetJobStateType DEF ActiveStatuses, JobStages
  <2>3. QED
    BY <1>0, <2>1, <2>2, RowCompletes DEF Promote
<1>2. CASE \E j \in JobIds : ReapHidden(c, j)
  <2>1. [NoJob EXCEPT !.status = "deleted"].status = "deleted"
    BY DEF NoJob
  <2>2. QED
    BY <1>0, <1>2, <2>1, RowCompletes DEF ReapHidden
<1>3. CASE \E j \in JobIds : Create(c, j)
  <2>1. PICK new \in JobIds : Create(c, new)
    BY <1>3
  <2>2. jobs'[new].status = StatusCreated(client[c].role)
    BY <2>1 DEF Create, NoJob
  <2>3. \A k \in JobIds \ {new} : jobs'[k].status = jobs[k].status
    BY <1>0, <2>1 DEF Create, JobRecords
  <2>4. QED
    BY <2>2, <2>3 DEF StatusCreated
<1>4. CASE PublishFails(c)
  <2> DEFINE j      == client[c].job
             failed == SetJobState(jobs[j], "failed", "queued")
             row    == IF client[c].role \in {"submit", "retry", "override"}
                       THEN [failed EXCEPT !.stage = jobs[j].stage] ELSE failed
  <2>1. j \in JobIds
    BY <1>0, <1>4 DEF PublishFails, ClientsHoldJobs
  <2>2. failed \in JobRecords /\ failed.status = "failed"
    BY <1>0, <2>1, SetJobStateType DEF TerminalStatuses, JobStages
  <2>3. row.status = "failed"
    BY <2>2 DEF JobRecords
  <2>4. jobs' = [jobs EXCEPT ![j] = row]
    BY <1>4 DEF PublishFails
  <2> HIDE DEF row
  <2>5. QED
    BY <1>0, <2>1, <2>3, <2>4, RowCompletes
<1>5. CASE Cancel(c)
  <2>1. client[c].job \in JobIds
    BY <1>0, <1>5 DEF Cancel, ClientsHoldJobs
  <2>2. SetJobState(jobs[client[c].job], "cancelled", "cancelled").status = "cancelled"
    BY <1>0, <2>1, SetJobStateType DEF TerminalStatuses, TerminalOnlyStages, JobStages
  <2>3. QED
    BY <1>0, <1>5, <2>1, <2>2, RowCompletes DEF Cancel
<1>6. CASE RecoverHandoff(c)
  <2>1. client[c].job \in JobIds
    BY <1>0, <1>6 DEF RecoverHandoff, ClientsHoldJobs
  <2>2. Requeued(client[c].job, client[c].seen).status \in {"queued", jobs[client[c].job].status}
    BY <1>0, <2>1 DEF Requeued, JobRecords
  <2>3. QED
    BY <1>0, <1>6, <2>1, <2>2, RowCompletes DEF RecoverHandoff
<1>7. CASE FailStale(c)
  <2> DEFINE me == client[c]
  <2>1. me.job \in JobIds /\ me.seen.stage \in JobStages
    BY <1>7 DEF FailStale, TypeInv, TypeOK, ClientsHoldJobs, ClientRecords, Snapshots
  <2>2. RecordFailure(me.job, me.seen, me.seen.stage, "stale").status = "failed"
    BY <1>0, <2>1, RecordFailureType
  <2>3. QED
    BY <1>0, <1>7, <2>1, <2>2, RowCompletes DEF FailStale
<1>8. CASE UNCHANGED jobs
  BY <1>8
<1>9. QED
  BY <1>1, <1>2, <1>3, <1>4, <1>5, <1>6, <1>7, <1>8
  DEF ClientBegins, ClientProceeds, ClientDies, Submit, SubmitFindsActive, ProcessChannelVideo,
      RetryJob, AutoRetry, Allocate, CancelRequest, ReapScan, ReconcileVideo, CompressStale,
      CreateConflicts, Publish, RecoveryConflicts

\* A resume point after the summary is planned only when there is one.
LEMMA ResumeIsDue ==
    ASSUME ChunksTell, NEW status, ResumePoint(video, status) = "embed"
    PROVE  HasProducts
BY DEF ResumePoint, SelectResumeStage, ChunksTell, HasProducts

\* What nothing touches stays due.
LEMMA OthersStayDue ==
    ASSUME ProductsInv, StaysMade
    PROVE  /\ \A m : MessageDue(m) => MessageDue(m)'
           /\ \A c \in Clients : client'[c] = client[c] => ClientDue(c)'
           /\ \A w \in Workers : worker'[w] = worker[w] => WorkerDue(w)'
           /\ queue' \subseteq queue => QueueDue'
<1>1. HasProducts => HasProducts'
  BY DEF StaysMade, HasProducts
<1>2. \A m : MessageDue(m) => MessageDue(m)'
  BY <1>1 DEF MessageDue
<1>3. \A c \in Clients : client'[c] = client[c] => ClientDue(c)'
  BY <1>1 DEF ProductsInv, ClientDue
<1>4. ASSUME NEW w \in Workers, worker'[w] = worker[w]
      PROVE  WorkerDue(w)'
  BY <1>2, <1>4 DEF ProductsInv, WorkerDue, Busy, Task, StaysMade
<1>5. queue' \subseteq queue => QueueDue'
  BY <1>2 DEF ProductsInv, QueueDue
<1>6. QED
  BY <1>2, <1>3, <1>4, <1>5

\* A client that plans to start at the embedding does so when that is due.
LEMMA ClientMovesDue ==
    ASSUME TypeInv, ProductsInv, StaysMade, NEW c \in Clients, NEW r \in ClientRecords,
           client' = [client EXCEPT ![c] = r],
           r.phase \in {"allocated", "publishing"} /\ r.start = "embed" => HasProducts
    PROVE  \A d \in Clients : ClientDue(d)'
<1>1. client'[c] = r /\ \A d \in Clients : d # c => client'[d] = client[d]
  BY DEF TypeInv, TypeOK
<1>2. HasProducts => HasProducts'
  BY DEF StaysMade, HasProducts
<1>3. ClientDue(c)'
  BY <1>1, <1>2 DEF ClientDue
<1>4. QED
  BY <1>1, <1>3, OthersStayDue

\* A client that has finished plans nothing.
LEMMA ClientRestsDue ==
    ASSUME TypeInv, ProductsInv, StaysMade, NEW c \in Clients, Finish(c)
    PROVE  \A d \in Clients : ClientDue(d)'
<1>1. IdleClient.phase = "idle"
  BY DEF IdleClient
<1>2. QED
  BY <1>1, IdleTypes, ClientMovesDue DEF Finish

\* An allocation keeps the planned resume point due.
LEMMA AllocateDue ==
    ASSUME TypeInv, ProductsInv, StaysMade, NEW c \in Clients, NEW role \in RoleNames,
           NEW start \in Stages, NEW hides \in BOOLEAN, NEW locks \in BOOLEAN, NEW override,
           Allocate(c, role, start, hides, locks, override),
           start = "embed" => HasProducts
    PROVE  \A d \in Clients : ClientDue(d)'
<1>1. PICK number \in NextNumber : client' = [client EXCEPT ![c] =
              [IdleClient EXCEPT !.phase = "allocated", !.role = role, !.number = number,
                                 !.start = start, !.hides = hides, !.locks = locks]]
  BY DEF Allocate
<1> DEFINE r == [IdleClient EXCEPT !.phase = "allocated", !.role = role, !.number = number,
                                 !.start = start, !.hides = hides, !.locks = locks]
<1>2. number \in Nat
  BY NextNumberType DEF TypeInv
<1>3. r \in ClientRecords /\ r.start = start
  BY <1>2, IdleTypes DEF ClientRecords
<1> HIDE DEF r
<1>4. QED
  BY <1>1, <1>3, ClientMovesDue DEF r

\* A client plans, or goes on with what it has planned.
LEMMA ClientStaysDue ==
    ASSUME TypeInv, ProductsInv, StaysMade, NEW c \in Clients,
           ClientBegins(c) \/ ClientProceeds(c) \/ ClientDies(c)
    PROVE  \A d \in Clients : ClientDue(d)'
<1>0. ChunksTell /\ \A status : ResumePoint(video, status) = "embed" => HasProducts
  BY ResumeIsDue DEF ProductsInv
<1>1. CASE Submit(c)
  <2>1. (video.status = "failed") \in BOOLEAN /\ "submit" \in RoleNames /\ "download" \in Stages
    BY DEF RoleNames, Stages
  <2>2. Allocate(c, "submit", "download", video.status = "failed", TRUE, FALSE)
    BY <1>1 DEF Submit
  <2>3. QED
    BY <2>1, <2>2, AllocateDue
<1>2. CASE ProcessChannelVideo(c)
  BY <1>2, AllocateDue DEF ProcessChannelVideo, Stages, RoleNames
<1>3. CASE \E j \in JobIds : RetryJob(c, j)
  <2>1. PICK role \in {"retry", "override"} :
              Allocate(c, role, ResumePoint(video, "pending"), TRUE,
                       video.status # "pending", role = "override")
    BY <1>3 DEF RetryJob
  <2>2. role \in RoleNames
    BY DEF RoleNames
  <2>3. QED
    BY <1>0, <2>1, <2>2, AllocateDue, ResumePointType
<1>4. CASE \E j \in JobIds : AutoRetry(c, j)
  BY <1>0, <1>4, AllocateDue, ResumePointType DEF AutoRetry, RoleNames
<1>5. CASE \E j \in JobIds : CancelRequest(c, j)
  <2>1. PICK j \in JobIds : CancelRequest(c, j)
    BY <1>5
  <2> DEFINE r == [IdleClient EXCEPT !.phase = "cancelling", !.role = "cancel", !.job = j]
  <2>2. r \in ClientRecords /\ r.phase = "cancelling"
    BY IdleTypes DEF ClientRecords, RoleNames
  <2>3. client' = [client EXCEPT ![c] = r]
    BY <2>1 DEF CancelRequest
  <2> HIDE DEF r
  <2>4. QED
    BY <2>2, <2>3, ClientMovesDue
<1>6. CASE \E j \in JobIds : Promote(c, j)
  <2>1. PICK j \in JobIds : Promote(c, j)
    BY <1>6
  <2> DEFINE r == [IdleClient EXCEPT !.phase = "publishing", !.role = "promote", !.job = j]
  <2>2. r \in ClientRecords /\ r.start = "download"
    BY IdleTypes DEF ClientRecords, RoleNames, IdleClient
  <2>3. client' = [client EXCEPT ![c] = r]
    BY <2>1 DEF Promote
  <2> HIDE DEF r
  <2>4. QED
    BY <2>2, <2>3, ClientMovesDue
<1>7. CASE \E j \in JobIds : ReapScan(c, j)
  <2>1. PICK j \in JobIds : ReapScan(c, j)
    BY <1>7
  <2> DEFINE r == [IdleClient EXCEPT !.phase = "scanned", !.role = "reaper",
                                     !.job = j, !.seen = Snapshot(jobs[j])]
  <2>2. Snapshot(jobs[j]) \in Snapshots
    BY SnapshotType DEF TypeInv, TypeOK
  <2>3. r \in ClientRecords /\ r.phase = "scanned"
    BY <2>2, IdleTypes DEF ClientRecords, RoleNames
  <2>4. client' = [client EXCEPT ![c] = r]
    BY <2>1 DEF ReapScan
  <2> HIDE DEF r
  <2>5. QED
    BY <2>3, <2>4, ClientMovesDue
<1>8. CASE \E j \in JobIds : Create(c, j)
  <2>1. PICK new \in JobIds : Create(c, new)
    BY <1>8
  <2>2. CASE client[c].role = "channel"
    BY <2>1, <2>2, ClientRestsDue DEF Create
  <2>3. CASE client[c].role # "channel"
    <3> DEFINE r == [IdleClient EXCEPT !.phase = "publishing", !.role = client[c].role,
                                         !.job = new, !.start = client[c].start]
    <3>1. client[c] \in ClientRecords /\ client[c].phase = "allocated"
      BY <2>1 DEF TypeInv, TypeOK, Create
    <3>2. r \in ClientRecords /\ r.start = client[c].start
      BY <3>1, IdleTypes DEF ClientRecords
    <3>3. client' = [client EXCEPT ![c] = r]
      BY <2>1, <2>3 DEF Create
    <3>4. client[c].start = "embed" => HasProducts
      BY <3>1 DEF ProductsInv, ClientDue
    <3> HIDE DEF r
    <3>5. QED
      BY <3>2, <3>3, <3>4, ClientMovesDue
  <2>4. QED
    BY <2>2, <2>3
<1>9. CASE RecoverHandoff(c)
  <2> DEFINE start == ResumePoint(video, video.status)
             r     == [IdleClient EXCEPT !.phase = "publishing", !.role = "reaper",
                                         !.job = client[c].job, !.start = start]
  <2>1. r \in ClientRecords /\ r.start = start
    BY <1>9, IdleTypes, ResumePointType
    DEF ClientRecords, RoleNames, RecoverHandoff, TypeInv, TypeOK, ClientsHoldJobs
  <2>2. client' = [client EXCEPT ![c] = r]
    BY <1>9 DEF RecoverHandoff
  <2>3. start = "embed" => HasProducts
    BY <1>0
  <2> HIDE DEF r, start
  <2>4. QED
    BY <2>1, <2>2, <2>3, ClientMovesDue
<1>10. CASE Finish(c)
  BY <1>10, ClientRestsDue
<1>11. CASE UNCHANGED client
  BY <1>11, OthersStayDue
<1>12. QED
  BY <1>1, <1>2, <1>3, <1>4, <1>5, <1>6, <1>7, <1>8, <1>9, <1>10, <1>11
  DEF ClientBegins, ClientProceeds, ClientDies, SubmitFindsActive, ReapHidden, ReconcileVideo,
      CompressStale, CreateConflicts, Publish, PublishFails, Cancel, RecoveryConflicts, FailStale

\* What a client publishes is due.
LEMMA ClientQueueStaysDue ==
    ASSUME TypeInv, ProductsInv, StaysMade, NEW c \in Clients,
           ClientBegins(c) \/ ClientProceeds(c) \/ ClientDies(c)
    PROVE  QueueDue'
<1>1. CASE Publish(c)
  <2> DEFINE m == [job |-> client[c].job, stage |-> client[c].start, tries |-> 0,
                   chain |-> jobs[client[c].job].handoffs]
  <2>1. queue' = queue \cup {m} /\ client[c].phase = "publishing"
    BY <1>1 DEF Publish
  <2>2. m.stage = client[c].start
    OBVIOUS
  <2>3. MessageDue(m)
    BY <2>1, <2>2 DEF MessageDue, ProductsInv, ClientDue
  <2> HIDE DEF m
  <2>4. QED
    BY <2>1, <2>3, OthersStayDue DEF QueueDue, ProductsInv
<1>2. CASE UNCHANGED queue
  BY <1>2, OthersStayDue
<1>3. QED
  BY <1>1, <1>2
  DEF ClientBegins, ClientProceeds, ClientDies, Submit, SubmitFindsActive, ProcessChannelVideo,
      RetryJob, AutoRetry, Allocate, CancelRequest, Promote, ReapScan, ReapHidden, ReconcileVideo,
      CompressStale, Create, CreateConflicts, PublishFails, Cancel, RecoverHandoff,
      RecoveryConflicts, FailStale

\* No step of a client breaks the invariant.
LEMMA ClientKeepsProducts ==
    ASSUME TypeInv, ProductsInv, NEW c \in Clients,
           ClientBegins(c) \/ ClientProceeds(c) \/ ClientDies(c)
    PROVE  ProductsInv'
<1>1. /\ video'.summary = video.summary /\ video'.transcript = video.transcript
      /\ video'.chunks = video.chunks
      /\ video'.status = "completed" => video.status = "completed"
  BY ClientKeepsMade
<1>2. StaysMade
  BY <1>1 DEF StaysMade
<1>3. CompletedIsMade' /\ ChunksTell'
  BY <1>1, ClientCompletesNothing DEF ProductsInv, CompletedIsMade, ChunksTell, HasProducts
<1>4. UNCHANGED worker
  BY DEF ClientBegins, ClientProceeds, ClientDies, Submit, SubmitFindsActive, ProcessChannelVideo,
      RetryJob, AutoRetry, Allocate, CancelRequest, Promote, ReapScan, ReapHidden, ReconcileVideo,
      CompressStale, Create, CreateConflicts, Publish, PublishFails, Cancel, RecoverHandoff,
      RecoveryConflicts, FailStale
<1>5. QED
  BY <1>2, <1>3, <1>4, ClientStaysDue, ClientQueueStaysDue, OthersStayDue DEF ProductsInv

\* A task that takes a step with due messages in hand leaves everyone's due.
LEMMA WorkerMovesDue ==
    ASSUME TypeInv, ProductsInv, StaysMade, NEW w \in Workers, NEW r \in WorkerRecords,
           worker' = [worker EXCEPT ![w] = r],
           r.phase # "idle" =>
              /\ MessageDue(r.task)'
              /\ \A m \in r.next : MessageDue(m)'
              /\ r.phase # "handing" /\ r.task.stage = "summarize" => video'.transcript # "none"
              /\ r.task.stage # "embed" => r.old = {}
    PROVE  \A v \in Workers : WorkerDue(v)'
<1>1. worker'[w] = r /\ \A v \in Workers : v # w => worker'[v] = worker[v]
  BY DEF TypeInv, TypeOK
<1>2. WorkerDue(w)'
  BY <1>1 DEF WorkerDue, Busy, Task
<1>3. QED
  BY <1>1, <1>2, OthersStayDue

\* A worker that rests asks for nothing.
LEMMA WorkerRestsDue ==
    ASSUME TypeInv, ProductsInv, StaysMade, NEW w \in Workers, Rest(w)
    PROVE  \A v \in Workers : WorkerDue(v)'
<1>1. IdleWorker.phase = "idle"
  BY DEF IdleWorker
<1>2. QED
  BY <1>1, IdleTypes, WorkerMovesDue DEF Rest

\* A task that hands over messages that are due.
LEMMA HandOverDue ==
    ASSUME TypeInv, ProductsInv, StaysMade, NEW w \in Workers, NEW messages \in SUBSET Messages,
           HandOver(w, messages), MessageDue(Task(w)), \A m \in messages : MessageDue(m)'
    PROVE  \A v \in Workers : WorkerDue(v)'
<1> DEFINE r == [IdleWorker EXCEPT !.phase = "handing", !.task = Task(w), !.next = messages]
<1>1. Task(w) \in Messages
  BY TaskRows DEF TypeInv
<1>2. /\ r \in WorkerRecords /\ r.phase = "handing" /\ r.task = Task(w) /\ r.next = messages
      /\ r.old = {}
  BY <1>1, IdleTypes DEF WorkerRecords, IdleWorker
<1>3. worker' = [worker EXCEPT ![w] = r]
  BY DEF HandOver
<1> HIDE DEF r
<1>4. QED
  BY <1>2, <1>3, WorkerMovesDue, OthersStayDue

\* Only the stage before asks for an embedding.
LEMMA NextIsEmbed ==
    ASSUME NEW m \in Messages, m.stage # "summarize"
    PROVE  \A n \in NextMessages(m) : n.stage # "embed"
<1>1. "embed" \notin NextStages(m.stage) /\ NextStages(m.stage) \subseteq Stages
  BY DEF NextStages, Stages
<1>2. ASSUME NEW s \in Stages
      PROVE  [m EXCEPT !.stage = s, !.tries = 0].stage = s
  BY DEF Messages
<1>3. QED
  BY <1>1, <1>2 DEF NextMessages

\* A task that is taken is due, as its message was.
LEMMA TakesKeepProducts ==
    ASSUME TypeInv, ProductsInv, NEW w \in Workers, WorkerTakes(w)
    PROVE  ProductsInv'
<1>1. PICK m \in queue : SkipStage(w, m) \/ IgnoreTask(w, m) \/ PassGate(w, m)
  BY DEF WorkerTakes
<1>2. m \in Messages /\ jobs[m.job] \in JobRecords /\ MessageDue(m)
  BY DEF TypeInv, TypeOK, Messages, ProductsInv, QueueDue
<1>3. UNCHANGED <<jobs, video, client>> /\ queue' \subseteq queue
  BY <1>1 DEF SkipStage, IgnoreTask, PassGate
<1>4. StaysMade
  BY <1>3 DEF StaysMade
<1>5. CompletedIsMade' /\ ChunksTell' /\ QueueDue' /\ \A c \in Clients : ClientDue(c)'
  BY <1>3, <1>4, OthersStayDue DEF ProductsInv, CompletedIsMade, ChunksTell, HasProducts
<1>6. \A v \in Workers : WorkerDue(v)'
  <2>1. CASE SkipStage(w, m)
    <3> DEFINE r == [IdleWorker EXCEPT !.phase = "handing", !.task = m, !.next = NextMessages(m)]
    <3>1. NextMessages(m) \subseteq Messages
      BY <1>2, NextMessagesType
    <3>2. /\ r \in WorkerRecords /\ r.phase = "handing" /\ r.task = m
          /\ r.next = NextMessages(m) /\ r.old = {}
      BY <1>2, <3>1, IdleTypes DEF WorkerRecords, IdleWorker
    <3>3. m.stage = "cleanup"
      BY <2>1 DEF SkipStage, SkippedStages
    <3>4. \A n \in NextMessages(m) : n.stage # "embed"
      BY <1>2, <3>3, NextIsEmbed
    <3>5. worker' = [worker EXCEPT ![w] = r]
      BY <2>1 DEF SkipStage
    <3> HIDE DEF r
    <3>6. QED
      BY <1>4, <3>2, <3>3, <3>4, <3>5, WorkerMovesDue DEF MessageDue
  <2>2. CASE IgnoreTask(w, m)
    BY <1>4, <2>2, OthersStayDue DEF IgnoreTask
  <2>3. CASE PassGate(w, m)
    <3> DEFINE r == [IdleWorker EXCEPT !.phase = "gated", !.task = m,
                                       !.seen = Snapshot(jobs[m.job]), !.shown = video.status]
    <3>1. Snapshot(jobs[m.job]) \in Snapshots /\ video.status \in VideoStatuses
      BY <1>2, SnapshotType DEF TypeInv, TypeOK, VideoRecords
    <3>2. r \in WorkerRecords /\ r.task = m /\ r.next = {} /\ r.old = {}
      BY <1>2, <3>1, IdleTypes DEF WorkerRecords, IdleWorker
    <3>3. m.stage = "summarize" => video'.transcript # "none"
      BY <1>3, <2>3 DEF PassGate, GateAdmits
    <3>4. worker' = [worker EXCEPT ![w] = r]
      BY <2>3 DEF PassGate
    <3>5. MessageDue(m)'
      BY <1>2, <1>4, OthersStayDue
    <3> HIDE DEF r
    <3>6. QED
      BY <1>4, <3>2, <3>3, <3>4, <3>5, WorkerMovesDue
  <2>4. QED
    BY <1>1, <2>1, <2>2, <2>3
<1>7. QED
  BY <1>5, <1>6 DEF ProductsInv

\* The end of a task adds to what there is; only an embedding completes anything.
LEMMA SucceedKeepsProducts ==
    ASSUME TypeInv, ProductsInv, NEW w \in Workers, Succeed(w)
    PROVE  ProductsInv'
<1>0. /\ Task(w) \in Messages /\ Task(w).job \in JobIds /\ Task(w).stage \in Stages
      /\ NextMessages(Task(w)) \subseteq Messages
      /\ video \in VideoRecords /\ worker[w] \in WorkerRecords
      /\ jobs \in [JobIds -> JobRecords] /\ TypeOK /\ WorkerDue(w) /\ Busy(w)
  BY TaskRows, NextMessagesType DEF TypeInv, TypeOK, ProductsInv, Succeed, Busy
<1>1. /\ worker[w].phase = "working" /\ video' = Product(w) /\ UNCHANGED <<queue, client>>
      /\ jobs' = [jobs EXCEPT ![Task(w).job] = Done(w)]
      /\ HandOver(w, NextMessages(Task(w)))
  BY DEF Succeed, WriteJob
<1>2. StaysMade
  BY <1>0, <1>1 DEF Product, VideoRecords, StaysMade
<1>3. CompletedIsMade' /\ ChunksTell'
  <2>1. CASE Task(w).stage = "embed"
    <3>1. HasProducts
      BY <1>0, <2>1 DEF WorkerDue, MessageDue
    <3>2. video'.summary = video.summary /\ video'.transcript = video.transcript
      BY <1>0, <1>1, <2>1 DEF Product, VideoRecords
    <3>3. w \in video'.chunks
      BY <1>0, <1>1, <2>1 DEF Product, VideoRecords
    <3>4. QED
      BY <3>1, <3>2, <3>3 DEF CompletedIsMade, ChunksTell, HasProducts
  <2>2. CASE Task(w).stage # "embed"
    <3>1. video'.chunks = video.chunks /\ (video'.status = "completed" => video.status = "completed")
      BY <1>0, <1>1, <2>2 DEF Product, VideoRecords
    <3>2. \A j \in JobIds : jobs'[j].status = "completed" => jobs[j].status = "completed"
      <4>1. Done(w).status = "running"
        BY <1>0, <2>2, TaskStatuses
      <4>2. QED
        BY <1>0, <1>1, <4>1, RowCompletes
    <3>3. QED
      BY <1>2, <3>1, <3>2 DEF ProductsInv, CompletedIsMade, ChunksTell, HasProducts, StaysMade
  <2>3. QED
    BY <2>1, <2>2
<1>4. \A m \in NextMessages(Task(w)) : MessageDue(m)'
  <2>1. CASE Task(w).stage = "summarize"
    <3>1. video.transcript # "none"
      BY <1>0, <1>1, <2>1 DEF WorkerDue
    <3>2. HasProducts'
      BY <1>0, <1>1, <2>1, <3>1 DEF Product, VideoRecords, HasProducts
    <3>3. QED
      BY <3>2 DEF MessageDue
  <2>2. CASE Task(w).stage # "summarize"
    BY <1>0, <2>2, NextIsEmbed DEF MessageDue
  <2>3. QED
    BY <2>1, <2>2
<1>5. MessageDue(Task(w))
  BY <1>0 DEF WorkerDue
<1>6. \A v \in Workers : WorkerDue(v)'
  BY <1>0, <1>1, <1>2, <1>4, <1>5, HandOverDue
<1>7. QED
  BY <1>1, <1>2, <1>3, <1>6, OthersStayDue DEF ProductsInv

\* A task that starts, reports, fails or is asked to run again completes nothing.
LEMMA TaskCompletesNothing ==
    ASSUME TypeInv, ProductsInv, NEW w \in Workers,
           \/ Start(w) \/ StartConflicts(w) \/ Report(w) \/ RetryTask(w) \/ FailTask(w)
           \/ Abort(w) \/ Reopen(w) \/ FailReleased(w) \/ Hand(w) \/ WorkerDies(w)
           \/ DiesUnacknowledged(w)
    PROVE  StaysMade /\ CompletesNothing
<1>0. /\ TypeOK /\ Task(w).job \in JobIds /\ Task(w).stage \in JobStages
      /\ video \in VideoRecords /\ worker[w] \in WorkerRecords
      /\ jobs[Task(w).job] \in JobRecords
  BY TaskRows DEF TypeInv, TypeOK, JobStages
<1>1. CASE Start(w)
  <2>1. /\ video'.chunks = video.chunks /\ video'.summary = video.summary
        /\ video'.transcript = video.transcript
        /\ video'.status = "completed" => video.status = "completed"
    BY <1>0, <1>1 DEF Start, StartStatus, VideoRecords
  <2>2. QED
    BY <1>0, <1>1, <2>1, TaskStatuses, RowCompletes
    DEF Start, WriteJob, StaysMade, CompletesNothing
<1>2. CASE Report(w)
  BY <1>0, <1>2, TaskStatuses, RowCompletes DEF Report, WriteJob, StaysMade, CompletesNothing
<1>3. CASE RetryTask(w)
  <2>1. /\ video'.chunks \subseteq video.chunks /\ video'.summary = video.summary
        /\ video'.transcript = video.transcript
    BY <1>0, <1>3 DEF RetryTask, WithoutOld, VideoRecords
  <2>2. video'.status = "completed" => video.status = "completed" /\ video'.chunks = video.chunks
    BY <1>0, <1>3 DEF RetryTask, WithoutOld, VideoRecords, ProductsInv, WorkerDue, Busy
  <2>3. QED
    BY <1>0, <1>3, <2>1, <2>2, TaskStatuses, RowCompletes
    DEF RetryTask, WriteJob, StaysMade, CompletesNothing
<1>4. CASE FailTask(w)
  <2>1. PICK kind \in FailureKinds : jobs' = [jobs EXCEPT ![Task(w).job] =
              RecordFailure(Task(w).job, jobs[Task(w).job], Task(w).stage, kind)]
    BY <1>4 DEF FailTask
  <2>2. kind \in {"transient", "other", "stale"}
    BY ConstantsAssumption
  <2>3. RecordFailure(Task(w).job, jobs[Task(w).job], Task(w).stage, kind).status = "failed"
    BY <1>0, <2>2, RecordFailureType
  <2>4. PICK transcript \in {video.transcript, "partial"} :
           video' = [WithoutOld(w) EXCEPT !.status = "failed", !.transcript = transcript]
    BY <1>4 DEF FailTask, Remains
  <2>5. /\ video'.chunks \subseteq video.chunks /\ video'.summary = video.summary
        /\ video'.transcript = transcript /\ video'.status = "failed"
    BY <1>0, <2>4 DEF WithoutOld, VideoRecords
  <2>6. QED
    BY <1>0, <2>1, <2>3, <2>5, RowCompletes DEF StaysMade, CompletesNothing
<1>5. CASE Reopen(w)
  <2>1. /\ video'.chunks = video.chunks /\ video'.summary = video.summary
        /\ video'.transcript = video.transcript /\ video'.status = "summarized"
    BY <1>0, <1>5 DEF Reopen, VideoRecords
  <2>2. QED
    BY <1>0, <1>5, <2>1, TaskStatuses, RowCompletes
    DEF Reopen, WriteJob, StaysMade, CompletesNothing
<1>6. CASE FailReleased(w)
  <2>1. PICK kind \in FailureKinds : jobs' = [jobs EXCEPT ![Task(w).job] =
              RecordFailure(Task(w).job, jobs[Task(w).job], "embed", kind)]
    BY <1>6 DEF FailReleased
  <2>2. kind \in {"transient", "other", "stale"} /\ "embed" \in JobStages
    BY ConstantsAssumption DEF JobStages, Stages
  <2>3. RecordFailure(Task(w).job, jobs[Task(w).job], "embed", kind).status = "failed"
    BY <1>0, <2>2, RecordFailureType
  <2>4. /\ video'.chunks = video.chunks /\ video'.summary = video.summary
        /\ video'.transcript = video.transcript /\ video'.status = "failed"
    BY <1>0, <1>6 DEF FailReleased, VideoRecords
  <2>5. QED
    BY <1>0, <2>1, <2>3, <2>4, RowCompletes DEF StaysMade, CompletesNothing
<1>7. CASE UNCHANGED <<jobs, video>>
  BY <1>7 DEF StaysMade, CompletesNothing
<1>8. QED
  BY <1>1, <1>2, <1>3, <1>4, <1>5, <1>6, <1>7
  DEF StartConflicts, Abort, Hand, WorkerDies, DiesUnacknowledged

\* The other steps of a task.
LEMMA TasksKeepProducts ==
    ASSUME TypeInv, ProductsInv, NEW w \in Workers,
           \/ Start(w) \/ StartConflicts(w) \/ Report(w) \/ RetryTask(w) \/ FailTask(w)
           \/ Abort(w) \/ Reopen(w) \/ FailReleased(w) \/ Hand(w) \/ WorkerDies(w)
           \/ DiesUnacknowledged(w)
    PROVE  ProductsInv'
<1>0. /\ TypeOK /\ Task(w) \in Messages /\ Task(w).stage \in Stages
      /\ worker[w] \in WorkerRecords
      /\ StaysMade /\ CompletesNothing /\ WorkerDue(w) /\ UNCHANGED client
  BY TaskRows, TaskCompletesNothing
  DEF TypeInv, TypeOK, ProductsInv, Start, StartConflicts, Report, RetryTask, FailTask, Abort,
      Reopen, FailReleased, Hand, WorkerDies, DiesUnacknowledged
<1>1. CompletedIsMade' /\ ChunksTell'
  BY <1>0 DEF StaysMade, CompletesNothing, ProductsInv, CompletedIsMade, ChunksTell, HasProducts
<1>2. QueueDue'
  <2>1. CASE queue' \subseteq queue \cup worker[w].next /\ Busy(w)
    BY <1>0, <2>1, OthersStayDue DEF WorkerDue, QueueDue, ProductsInv
  <2>2. CASE queue' \subseteq queue
    BY <1>0, <2>2, OthersStayDue
  <2>3. QED
    BY <2>1, <2>2
    DEF Start, StartConflicts, Report, RetryTask, FailTask, Abort, Reopen, FailReleased, Hand,
        WorkerDies, DiesUnacknowledged, Drop, Busy
<1>3. \A v \in Workers : WorkerDue(v)'
  <2>1. CASE Start(w)
    <3> DEFINE r == [IdleWorker EXCEPT !.phase = "working", !.task = worker[w].task,
                                       !.old = ChunksReplaced(worker[w].task.stage)]
    <3>0. PICK m \in Messages : m = Task(w)
      BY <1>0
    <3>1. ChunksReplaced(m.stage) \subseteq Workers
      BY DEF ChunksReplaced, TypeInv, TypeOK, VideoRecords
    <3>2. /\ r \in WorkerRecords /\ r.phase = "working" /\ r.task = m /\ r.next = {}
          /\ r.old = ChunksReplaced(m.stage)
      BY <3>0, <3>1, IdleTypes DEF WorkerRecords, IdleWorker, Task
    <3>3. worker' = [worker EXCEPT ![w] = r] /\ worker[w].phase = "gated"
      BY <2>1 DEF Start
    <3>4. MessageDue(m) /\ (m.stage = "summarize" => video'.transcript # "none")
      BY <1>0, <3>0, <3>3 DEF WorkerDue, Busy, StaysMade
    <3>5. m.stage # "embed" => r.old = {}
      BY <3>2 DEF ChunksReplaced
    <3> HIDE DEF r
    <3>6. MessageDue(m)'
      BY <1>0, <3>4, OthersStayDue
    <3>7. QED
      BY <1>0, <3>2, <3>3, <3>4, <3>5, <3>6, WorkerMovesDue
  <2>2. CASE RetryTask(w) \/ Reopen(w)
    <3>1. Again(Task(w)) \in Messages /\ Again(Task(w)).stage = Task(w).stage
      <4>1. Task(w).tries + 1 \in 0..2
        <5>1. RetryLimit(Task(w).stage) \in 0..2
          BY DEF RetryLimit
        <5>2. Task(w).tries \in 0..2 /\ Task(w).tries < RetryLimit(Task(w).stage)
          BY <1>0, <2>2 DEF Messages, RetryTask, Retries, Reopen, ReleaseMayFail, Releasing
        <5>3. QED
          BY <5>1, <5>2
      <4> DEFINE tries == Task(w).tries + 1
      <4>2. Again(Task(w)) = [Task(w) EXCEPT !.tries = tries]
        BY DEF Again
      <4> HIDE DEF tries
      <4>3. QED
        BY <1>0, <4>1, <4>2 DEF Messages, tries
    <3>2. MessageDue(Task(w)) /\ Busy(w)
      BY <1>0, <2>2 DEF WorkerDue, Busy, RetryTask, Reopen, ReleaseMayFail, Releasing
    <3>3. MessageDue(Again(Task(w)))
      BY <3>1, <3>2 DEF MessageDue
    <3>4. \A m \in {Again(Task(w))} : MessageDue(m)'
      BY <1>0, <3>3, OthersStayDue
    <3>5. QED
      BY <1>0, <2>2, <3>1, <3>2, <3>4, HandOverDue DEF RetryTask, Reopen
  <2>3. CASE Rest(w)
    BY <1>0, <2>3, WorkerRestsDue
  <2>4. CASE UNCHANGED worker
    BY <1>0, <2>4, OthersStayDue
  <2>5. QED
    BY <2>1, <2>2, <2>3, <2>4
    DEF StartConflicts, Report, FailTask, Abort, FailReleased, Hand, WorkerDies,
        DiesUnacknowledged, Drop
<1>4. \A c \in Clients : ClientDue(c)'
  BY <1>0, OthersStayDue
<1>5. QED
  BY <1>1, <1>2, <1>3, <1>4 DEF ProductsInv

\* The invariant of the products is inductive.
LEMMA ProductsStep == TypeInv /\ ProductsInv /\ [Next]_vars => ProductsInv'
<1> SUFFICES ASSUME TypeInv, ProductsInv, [Next]_vars PROVE ProductsInv'
  OBVIOUS
<1>1. CASE UNCHANGED vars
  <2>1. UNCHANGED <<jobs, video, queue, worker, client>> /\ StaysMade
    BY <1>1 DEF vars, StaysMade
  <2>2. QED
    BY <2>1, OthersStayDue DEF ProductsInv, CompletedIsMade, ChunksTell, HasProducts
<1>2. ASSUME NEW w \in Workers,
             WorkerTakes(w) \/ WorkerProceeds(w) \/ WorkerDies(w) \/ DiesUnacknowledged(w)
      PROVE  ProductsInv'
  BY <1>2, TakesKeepProducts, SucceedKeepsProducts, TasksKeepProducts DEF WorkerProceeds
<1>3. QED
  BY <1>1, <1>2, ClientKeepsProducts DEF Next

\* No step leaves a transcript cut short that was not, unless segments are refused.
LEMMA WholeStep == TypeInv /\ IsWhole /\ [Next]_vars => IsWhole'
<1> SUFFICES ASSUME TypeInv, IsWhole, [Next]_vars PROVE IsWhole'
  OBVIOUS
<1>1. CASE UNCHANGED vars
  BY <1>1 DEF vars, IsWhole
<1>2. ASSUME NEW c \in Clients, ClientBegins(c) \/ ClientProceeds(c) \/ ClientDies(c)
      PROVE  IsWhole'
  BY <1>2, ClientKeepsMade DEF IsWhole
<1>3. ASSUME NEW w \in Workers,
             WorkerTakes(w) \/ WorkerProceeds(w) \/ WorkerDies(w) \/ DiesUnacknowledged(w)
      PROVE  IsWhole'
  <2>1. video \in VideoRecords
    BY DEF TypeInv, TypeOK
  <2>2. CASE FailTask(w)
    <3>1. PICK transcript \in Remains(Task(w).stage) :
             video' = [WithoutOld(w) EXCEPT !.status = "failed", !.transcript = transcript]
      BY <2>2 DEF FailTask
    <3>2. video'.transcript = transcript
      BY <2>1, <3>1 DEF WithoutOld, VideoRecords
    <3>3. QED
      BY <3>2 DEF Remains, IsWhole
  <2>3. CASE Succeed(w)
    BY <2>1, <2>3 DEF Succeed, Product, VideoRecords, IsWhole
  <2>4. CASE Start(w) \/ RetryTask(w) \/ Reopen(w) \/ FailReleased(w)
    BY <2>1, <2>4 DEF Start, RetryTask, WithoutOld, Reopen, FailReleased, VideoRecords, IsWhole
  <2>5. CASE UNCHANGED video
    BY <2>5 DEF IsWhole
  <2>6. QED
    BY <1>3, <2>2, <2>3, <2>4, <2>5
    DEF WorkerTakes, WorkerProceeds, WorkerDies, DiesUnacknowledged, SkipStage, IgnoreTask,
        PassGate, StartConflicts, Report, Abort, Hand
<1>4. QED
  BY <1>1, <1>2, <1>3 DEF Next

\* A completed video, or one with a completed attempt, has everything that the stages
\* make, for any clients and workers, overdue work and redelivered messages: no resume
\* point, skipped stage or retry leads past a stage that was still to be done, and the
\* transcript is one that was not cut short unless segments may be refused.
THEOREM CompletedIsComplete == Spec => []CompletedHasProducts
<1>1. Init => ProductsInv /\ IsWhole
  BY DEF Init, ProductsInv, CompletedIsMade, ChunksTell, QueueDue, WorkerDue, ClientDue, NoJob,
         IdleWorker, IdleClient, Busy, IsWhole
<1>2. TypeInv /\ ProductsInv /\ IsWhole => CompletedHasProducts
  <2>1. ASSUME TypeInv, IsWhole, HasProducts
        PROVE  video.summary /\ Transcribed
    BY <2>1 DEF TypeInv, TypeOK, VideoRecords, IsWhole, HasProducts, Transcribed
  <2>2. QED
    BY <2>1 DEF ProductsInv, CompletedIsMade, CompletedHasProducts
<1>3. QED
  BY <1>1, <1>2, ProductsStep, WholeStep, TypeCorrect, PTL DEF Spec, TypeInv

-----------------------------------------------------------------------------
(***************************************************************************)
(* What anyone has in hand is a row, so that no step revives a deleted one *)
(* or writes one that was never inserted; rows are inserted in order.      *)
(***************************************************************************)
ClientHasRow(c) ==
    client[c].phase \in {"publishing", "cancelling", "scanned"} => client[c].job \in Rows

WorkerHasRow(w) ==
    Busy(w) => Task(w).job \in Rows /\ \A m \in worker[w].next : m.job = Task(w).job

RowsInHand ==
    /\ \A m \in queue : m.job \in Rows
    /\ \A w \in Workers : WorkerHasRow(w)
    /\ \A c \in Clients : ClientHasRow(c)

InsertedInOrder ==
    \A j, k \in JobIds : jobs[j].status = "none" /\ j <= k => jobs[k].status = "none"

RowsInv == RowsInHand /\ InsertedInOrder

\* A step that inserts and deletes nothing and keeps every attempt's number.
RowsKept ==
    /\ Rows' = Rows
    /\ \A j \in Rows : jobs'[j].number = jobs[j].number
    /\ \A j \in JobIds : jobs'[j].status = "none" <=> jobs[j].status = "none"

\* A step that writes no row keeps the rows ...
LEMMA NoRowWritten ==
    ASSUME UNCHANGED jobs
    PROVE  RowsKept
BY DEF RowsKept, Rows

\* ... and so does one that writes a row which stays one, with its number.
LEMMA RowRewritten ==
    ASSUME TypeOK, NEW j \in Rows, NEW row, jobs' = [jobs EXCEPT ![j] = row],
           row.status \in ActiveStatuses \cup TerminalStatuses, row.number = jobs[j].number
    PROVE  RowsKept
<1>1. j \in JobIds /\ jobs'[j] = row /\ \A k \in JobIds : k # j => jobs'[k] = jobs[k]
  BY DEF TypeOK, Rows
<1>2. row.status \notin {"none", "deleted"} /\ jobs[j].status \notin {"none", "deleted"}
  BY DEF ActiveStatuses, TerminalStatuses, Rows
<1>3. QED
  BY <1>1, <1>2 DEF RowsKept, Rows

\* A transition of the lifecycle leaves the other columns alone ...
LEMMA SetJobStateKeeps ==
    ASSUME NEW row \in JobRecords, NEW status, NEW stage
    PROVE  /\ SetJobState(row, status, stage).status = status
           /\ SetJobState(row, status, stage).number = row.number
           /\ SetJobState(row, status, stage).recovery = row.recovery
           /\ SetJobState(row, status, stage).hiddenBy = row.hiddenBy
           /\ SetJobState(row, status, stage).stage = ResolvedStage(row.stage, status, stage)
BY DEF SetJobState, JobRecords

\* ... and what a task, a failure or a recovery writes keeps the number.
LEMMA WritesKeepNumbers ==
    ASSUME TypeOK
    PROVE  /\ \A w \in Workers :
                 /\ Started(w).status \in ActiveStatuses \cup TerminalStatuses
                    \/ Started(w).status = jobs[Task(w).job].status
                 /\ Running(w).status \in ActiveStatuses
                 /\ Done(w).status \in ActiveStatuses \cup TerminalStatuses
                 /\ Started(w).number = jobs[Task(w).job].number
                 /\ Running(w).number = jobs[Task(w).job].number
                 /\ Done(w).number = jobs[Task(w).job].number
           /\ \A j \in JobIds : \A seen, stage, kind :
                 /\ RecordFailure(j, seen, stage, kind).status = "failed"
                 /\ RecordFailure(j, seen, stage, kind).number = jobs[j].number
           /\ \A j \in JobIds : \A seen :
                 /\ Requeued(j, seen).status \in {"queued", jobs[j].status}
                 /\ Requeued(j, seen).number = jobs[j].number
<1>1. ASSUME NEW w \in Workers
      PROVE  /\ Started(w).status \in ActiveStatuses \cup TerminalStatuses
                \/ Started(w).status = jobs[Task(w).job].status
             /\ Running(w).status \in ActiveStatuses
             /\ Done(w).status \in ActiveStatuses \cup TerminalStatuses
             /\ Started(w).number = jobs[Task(w).job].number
             /\ Running(w).number = jobs[Task(w).job].number
             /\ Done(w).number = jobs[Task(w).job].number
  <2>1. jobs[Task(w).job] \in JobRecords
    BY TaskRows DEF TypeOK
  <2>2. Running(w).status \in ActiveStatuses /\ Running(w).number = jobs[Task(w).job].number
    BY <2>1, SetJobStateKeeps DEF Running, ActiveStatuses
  <2>3. /\ Done(w).status \in ActiveStatuses \cup TerminalStatuses
        /\ Done(w).number = jobs[Task(w).job].number
    BY <2>1, <2>2, SetJobStateKeeps DEF Done, TerminalStatuses
  <2>4. /\ Started(w).status \in ActiveStatuses \cup TerminalStatuses
           \/ Started(w).status = jobs[Task(w).job].status
        /\ Started(w).number = jobs[Task(w).job].number
    BY <2>1 DEF Started, JobRecords, ActiveStatuses
  <2>5. QED
    BY <2>2, <2>3, <2>4
<1>2. ASSUME NEW j \in JobIds, NEW seen, NEW stage, NEW kind
      PROVE  /\ RecordFailure(j, seen, stage, kind).status = "failed"
             /\ RecordFailure(j, seen, stage, kind).number = jobs[j].number
  BY DEF TypeOK, RecordFailure, JobRecords
<1>3. ASSUME NEW j \in JobIds, NEW seen
      PROVE  /\ Requeued(j, seen).status \in {"queued", jobs[j].status}
             /\ Requeued(j, seen).number = jobs[j].number
  BY DEF TypeOK, Requeued, JobRecords
<1>4. QED
  BY <1>1, <1>2, <1>3

\* No step of a worker inserts or deletes a row.
LEMMA WorkersKeepRows ==
    ASSUME TypeInv, RowsInHand, NEW w \in Workers,
           WorkerTakes(w) \/ WorkerProceeds(w) \/ WorkerDies(w) \/ DiesUnacknowledged(w)
    PROVE  RowsKept
<1>0. TypeOK /\ Rows \subseteq JobIds
  BY DEF TypeInv, Rows
<1>1. ASSUME NEW row, Busy(w), jobs' = [jobs EXCEPT ![Task(w).job] = row],
             \/ row.status \in ActiveStatuses \cup TerminalStatuses
             \/ row.status = jobs[Task(w).job].status,
             row.number = jobs[Task(w).job].number
      PROVE  RowsKept
  <2>1. Task(w).job \in Rows
    BY <1>1 DEF RowsInHand, WorkerHasRow
  <2>2. jobs[Task(w).job].status \in ActiveStatuses \cup TerminalStatuses
    BY <1>0, <2>1 DEF Rows, TypeOK, JobRecords
  <2>3. QED
    BY <1>0, <1>1, <2>1, <2>2, RowRewritten
<1>2. CASE Start(w)
  BY <1>0, <1>1, <1>2, WritesKeepNumbers DEF Start, WriteJob, Busy
<1>3. CASE Report(w) \/ RetryTask(w) \/ Reopen(w)
  BY <1>0, <1>1, <1>3, WritesKeepNumbers
  DEF Report, RetryTask, Reopen, ReleaseMayFail, Releasing, WriteJob, Busy
<1>4. CASE Succeed(w)
  BY <1>0, <1>1, <1>4, WritesKeepNumbers DEF Succeed, WriteJob, Busy
<1>5. CASE FailTask(w)
  <2>1. PICK kind \in FailureKinds : jobs' = [jobs EXCEPT ![Task(w).job] =
              RecordFailure(Task(w).job, jobs[Task(w).job], Task(w).stage, kind)]
    BY <1>5 DEF FailTask
  <2>2. Task(w).job \in JobIds /\ Busy(w) /\ "failed" \in TerminalStatuses
    BY <1>0, <1>5, TaskRows DEF FailTask, Busy, TerminalStatuses
  <2>3. PICK row : row = RecordFailure(Task(w).job, jobs[Task(w).job], Task(w).stage, kind)
    OBVIOUS
  <2>4. row.status = "failed" /\ row.number = jobs[Task(w).job].number
    BY <1>0, <2>2, <2>3, WritesKeepNumbers
  <2>5. QED
    BY <1>1, <2>1, <2>2, <2>3, <2>4
<1>6. CASE FailReleased(w)
  <2>1. PICK kind \in FailureKinds : jobs' = [jobs EXCEPT ![Task(w).job] =
              RecordFailure(Task(w).job, jobs[Task(w).job], "embed", kind)]
    BY <1>6 DEF FailReleased
  <2>2. Task(w).job \in JobIds /\ Busy(w) /\ "failed" \in TerminalStatuses
    BY <1>0, <1>6, TaskRows DEF FailReleased, ReleaseMayFail, Releasing, Busy, TerminalStatuses
  <2>3. PICK row : row = RecordFailure(Task(w).job, jobs[Task(w).job], "embed", kind)
    OBVIOUS
  <2>4. row.status = "failed" /\ row.number = jobs[Task(w).job].number
    BY <1>0, <2>2, <2>3, WritesKeepNumbers
  <2>5. QED
    BY <1>1, <2>1, <2>2, <2>3, <2>4
<1>7. CASE UNCHANGED jobs
  BY <1>7, NoRowWritten
<1>8. QED
  BY <1>2, <1>3, <1>4, <1>5, <1>6, <1>7
  DEF WorkerTakes, WorkerProceeds, WorkerDies, DiesUnacknowledged, SkipStage, IgnoreTask, PassGate,
      StartConflicts, Abort, Hand

\* Of a client's steps, only the creation of an attempt and the reaping of a hidden
\* failure do.
LEMMA ClientsKeepRows ==
    ASSUME TypeInv, RowsInHand, NEW c \in Clients,
           ClientBegins(c) \/ ClientProceeds(c) \/ ClientDies(c),
           \A j \in JobIds : ~Create(c, j) /\ ~ReapHidden(c, j)
    PROVE  RowsKept
<1>0. TypeOK /\ Rows \subseteq JobIds /\ ClientHasRow(c) /\ jobs \in [JobIds -> JobRecords]
  BY DEF TypeInv, TypeOK, Rows, RowsInHand
<1>1. CASE \E j \in JobIds : Promote(c, j)
  <2>1. PICK j \in JobIds : Promote(c, j)
    BY <1>1
  <2>2. j \in Rows
    BY <2>1 DEF Promote, Rows
  <2>3. PICK row : row = SetJobState(jobs[j], "queued", "queued")
    OBVIOUS
  <2>4. row.status = "queued" /\ row.number = jobs[j].number
    BY <1>0, <2>3, SetJobStateKeeps
  <2>5. jobs' = [jobs EXCEPT ![j] = row]
    BY <2>1, <2>3 DEF Promote
  <2>6. QED
    BY <1>0, <2>2, <2>4, <2>5, RowRewritten DEF ActiveStatuses
<1>2. CASE PublishFails(c)
  <2> DEFINE j      == client[c].job
             failed == SetJobState(jobs[j], "failed", "queued")
             row    == IF client[c].role \in {"submit", "retry", "override"}
                       THEN [failed EXCEPT !.stage = jobs[j].stage] ELSE failed
  <2>1. j \in Rows
    BY <1>0, <1>2 DEF PublishFails, ClientHasRow
  <2>2. failed \in JobRecords /\ failed.status = "failed" /\ failed.number = jobs[j].number
    <3>1. jobs[j] \in JobRecords
      BY <1>0, <2>1
    <3>2. "failed" \in ActiveStatuses \cup TerminalStatuses /\ "queued" \in JobStages
      BY DEF TerminalStatuses, JobStages
    <3>3. failed \in JobRecords
      BY <3>1, <3>2, SetJobStateType
    <3>4. QED
      BY <3>1, <3>3, SetJobStateKeeps
  <2>3. row.status = "failed" /\ row.number = jobs[j].number
    BY <2>2 DEF JobRecords
  <2>4. jobs' = [jobs EXCEPT ![j] = row]
    BY <1>2 DEF PublishFails
  <2> HIDE DEF row
  <2>5. QED
    BY <1>0, <2>1, <2>3, <2>4, RowRewritten DEF TerminalStatuses
<1>3. CASE Cancel(c)
  <2>1. client[c].job \in Rows
    BY <1>0, <1>3 DEF Cancel, ClientHasRow
  <2>2. PICK row : row = SetJobState(jobs[client[c].job], "cancelled", "cancelled")
    OBVIOUS
  <2>3. row.status = "cancelled" /\ row.number = jobs[client[c].job].number
    BY <1>0, <2>1, <2>2, SetJobStateKeeps
  <2>4. jobs' = [jobs EXCEPT ![client[c].job] = row]
    BY <1>3, <2>2 DEF Cancel
  <2>5. QED
    BY <1>0, <2>1, <2>3, <2>4, RowRewritten DEF TerminalStatuses
<1>4. CASE RecoverHandoff(c)
  <2>1. client[c].job \in Rows
    BY <1>0, <1>4 DEF RecoverHandoff, ClientHasRow
  <2>2. jobs[client[c].job].status \in ActiveStatuses \cup TerminalStatuses
    BY <1>0, <2>1 DEF Rows, JobRecords
  <2>3. Requeued(client[c].job, client[c].seen).status \in ActiveStatuses \cup TerminalStatuses
    BY <1>0, <2>1, <2>2, WritesKeepNumbers DEF ActiveStatuses
  <2>4. QED
    BY <1>0, <1>4, <2>1, <2>3, WritesKeepNumbers, RowRewritten DEF RecoverHandoff
<1>5. CASE FailStale(c)
  <2>1. client[c].job \in Rows /\ "failed" \in TerminalStatuses
    BY <1>0, <1>5 DEF FailStale, ClientHasRow, TerminalStatuses
  <2>2. PICK row : row = RecordFailure(client[c].job, client[c].seen, client[c].seen.stage, "stale")
    OBVIOUS
  <2>3. row.status = "failed" /\ row.number = jobs[client[c].job].number
    BY <1>0, <2>1, <2>2, WritesKeepNumbers
  <2>4. jobs' = [jobs EXCEPT ![client[c].job] = row]
    BY <1>5, <2>2 DEF FailStale
  <2>5. QED
    BY <1>0, <2>1, <2>3, <2>4, RowRewritten
<1>6. CASE UNCHANGED jobs
  BY <1>6, NoRowWritten
<1>7. QED
  BY <1>1, <1>2, <1>3, <1>4, <1>5, <1>6
  DEF ClientBegins, ClientProceeds, ClientDies, Submit, SubmitFindsActive, ProcessChannelVideo,
      RetryJob, AutoRetry, Allocate, CancelRequest, ReapScan, ReconcileVideo, CompressStale,
      CreateConflicts, Publish, RecoveryConflicts

\* A creation inserts one row after all the others, with the number that was allocated.
LEMMA CreateInserts ==
    ASSUME TypeInv, NEW c \in Clients, NEW new \in JobIds, Create(c, new)
    PROVE  /\ Rows' = Rows \cup {new} /\ new \notin Rows
           /\ jobs'[new].number = client[c].number
           /\ \A j \in Rows : jobs'[j].number = jobs[j].number
           /\ \A j \in JobIds : jobs'[j].status = "none" <=> jobs[j].status = "none" /\ j # new
           /\ \A j \in JobIds : j < new => jobs[j].status # "none"
           /\ jobs[new].status = "none"
<1>1. jobs \in [JobIds -> JobRecords] /\ Rows \subseteq JobIds
  BY DEF TypeInv, TypeOK, Rows
<1>2. /\ jobs[new].status = "none" /\ \A j \in JobIds : j < new => jobs[j].status # "none"
      /\ jobs'[new].number = client[c].number
      /\ jobs'[new].status = StatusCreated(client[c].role)
  BY DEF Create, IsNextId, NoJob
<1>3. \A j \in JobIds : j # new =>
         jobs'[j].status = jobs[j].status /\ jobs'[j].number = jobs[j].number
  BY <1>1 DEF Create, JobRecords
<1>4. StatusCreated(client[c].role) \notin {"none", "deleted"}
  BY DEF StatusCreated
<1>5. Rows' = Rows \cup {new} /\ new \notin Rows
  BY <1>1, <1>2, <1>3, <1>4 DEF Rows
<1>6. QED
  BY <1>1, <1>2, <1>3, <1>4, <1>5

\* Whoever has inserted an attempt publishes it or is done.
LEMMA CreatorMovesOn ==
    ASSUME TypeInv, NEW c \in Clients, NEW new \in JobIds, Create(c, new)
    PROVE  /\ client[c].phase = "allocated"
           /\ \/ client'[c].phase = "idle"
              \/ client'[c].phase = "publishing" /\ client'[c].job = new
<1>1. client \in [Clients -> ClientRecords] /\ client[c].phase = "allocated"
  BY DEF TypeInv, TypeOK, Create
<1>2. CASE client[c].role = "channel"
  <2>1. client' = [client EXCEPT ![c] = IdleClient]
    BY <1>2 DEF Create, Finish
  <2>2. QED
    BY <1>1, <2>1 DEF IdleClient
<1>3. CASE client[c].role # "channel"
  <2>1. client' = [client EXCEPT ![c] =
                [IdleClient EXCEPT !.phase = "publishing", !.role = client[c].role,
                                   !.job = new, !.start = client[c].start]]
    BY <1>3 DEF Create
  <2>2. QED
    BY <1>1, <2>1 DEF IdleClient
<1>4. QED
  BY <1>1, <1>2, <1>3

\* What is in hand stays a row as long as no row goes.
LEMMA HandsStay ==
    ASSUME RowsInHand, Rows \subseteq Rows'
    PROVE  /\ \A m \in queue : m.job \in Rows'
           /\ \A w \in Workers : worker'[w] = worker[w] => WorkerHasRow(w)'
           /\ \A c \in Clients : client'[c] = client[c] => ClientHasRow(c)'
BY DEF RowsInHand, WorkerHasRow, ClientHasRow, Busy, Task

\* A client that takes up a row has a row in hand.
LEMMA ClientTakesRow ==
    ASSUME RowsInHand, Rows \subseteq Rows', NEW c \in Clients,
           \A d \in Clients : d # c => client'[d] = client[d],
           client'[c].phase \in {"publishing", "cancelling", "scanned"} => client'[c].job \in Rows'
    PROVE  \A d \in Clients : ClientHasRow(d)'
BY HandsStay DEF ClientHasRow

\* A client's step is its own ...
LEMMA OthersRest ==
    ASSUME TypeInv, NEW c \in Clients, ClientBegins(c) \/ ClientProceeds(c) \/ ClientDies(c)
    PROVE  \A d \in Clients : d # c => client'[d] = client[d]
<1>1. client \in [Clients -> ClientRecords]
  BY DEF TypeInv, TypeOK
<1>2. CASE ClientBegins(c)
  BY <1>1, <1>2 DEF ClientBegins, Submit, SubmitFindsActive, ProcessChannelVideo, RetryJob,
      AutoRetry, Allocate, CancelRequest, Promote, ReapScan, ReapHidden, ReconcileVideo,
      CompressStale
<1>3. CASE ClientProceeds(c) \/ ClientDies(c)
  BY <1>1, <1>3 DEF ClientProceeds, ClientDies, Create, CreateConflicts, Publish, PublishFails,
      Cancel, RecoverHandoff, RecoveryConflicts, FailStale, Finish
<1>4. QED
  BY <1>2, <1>3

\* ... and so is a worker's.
LEMMA OthersWork ==
    ASSUME TypeInv, NEW w \in Workers,
           WorkerTakes(w) \/ WorkerProceeds(w) \/ WorkerDies(w) \/ DiesUnacknowledged(w)
    PROVE  \A v \in Workers : v # w => worker'[v] = worker[v]
<1>1. worker \in [Workers -> WorkerRecords]
  BY DEF TypeInv, TypeOK
<1>2. CASE WorkerTakes(w) \/ WorkerDies(w) \/ DiesUnacknowledged(w)
  BY <1>1, <1>2 DEF WorkerTakes, WorkerDies, DiesUnacknowledged, SkipStage, IgnoreTask, PassGate,
      Rest
<1>3. CASE Start(w) \/ Succeed(w) \/ RetryTask(w) \/ Reopen(w)
  BY <1>1, <1>3 DEF Start, Succeed, RetryTask, Reopen, HandOver
<1>4. CASE StartConflicts(w) \/ Report(w) \/ FailTask(w) \/ Abort(w) \/ FailReleased(w) \/ Hand(w)
  BY <1>1, <1>4 DEF StartConflicts, Report, FailTask, Abort, FailReleased, Hand, Drop, Rest
<1>5. QED
  BY <1>2, <1>3, <1>4 DEF WorkerProceeds

\* Clients take up rows only.
LEMMA ClientsHoldRows ==
    ASSUME TypeInv, RowsInHand, Rows \subseteq Rows', NEW c \in Clients,
           ClientBegins(c) \/ ClientProceeds(c) \/ ClientDies(c),
           \A j \in JobIds : Create(c, j) => j \in Rows'
    PROVE  \A d \in Clients : ClientHasRow(d)'
<1>0. /\ IdleClient.phase = "idle" /\ ClientHasRow(c) /\ client \in [Clients -> ClientRecords]
      /\ \A d \in Clients : d # c => client'[d] = client[d]
  BY OthersRest DEF IdleClient, RowsInHand, TypeInv, TypeOK
<1>1. CASE \E role, start, hides, locks, override :
              Allocate(c, role, start, hides, locks, override)
  <2>1. PICK role, start, hides, locks, override :
              Allocate(c, role, start, hides, locks, override)
    BY <1>1
  <2>2. PICK number \in NextNumber : client' = [client EXCEPT ![c] =
              [IdleClient EXCEPT !.phase = "allocated", !.role = role, !.number = number,
                                 !.start = start, !.hides = hides, !.locks = locks]]
    BY <2>1 DEF Allocate
  <2> DEFINE r == [IdleClient EXCEPT !.phase = "allocated", !.role = role, !.number = number,
                                 !.start = start, !.hides = hides, !.locks = locks]
  <2>3. r.phase = "allocated"
    BY DEF IdleClient
  <2> HIDE DEF r
  <2>4. client'[c] = r
    BY <1>0, <2>2 DEF r
  <2>5. QED
    BY <1>0, <2>3, <2>4, ClientTakesRow
<1>2. CASE \E j \in JobIds : CancelRequest(c, j) \/ Promote(c, j) \/ ReapScan(c, j)
  <2>1. PICK j \in JobIds : CancelRequest(c, j) \/ Promote(c, j) \/ ReapScan(c, j)
    BY <1>2
  <2>2. j \in Rows
    BY <2>1 DEF CancelRequest, Promote, ReapScan, Stale, Active, ActiveStatuses, Rows
  <2>3. client'[c].job = j
    BY <1>0, <2>1 DEF CancelRequest, Promote, ReapScan, IdleClient
  <2>4. QED
    BY <1>0, <2>2, <2>3, ClientTakesRow
<1>3. CASE \E j \in JobIds : Create(c, j)
  <2>1. PICK new \in JobIds : Create(c, new)
    BY <1>3
  <2>2. client'[c].phase = "idle" \/ client'[c].job = new
    BY <2>1, CreatorMovesOn
  <2>3. QED
    BY <1>0, <2>1, <2>2, ClientTakesRow
<1>4. CASE RecoverHandoff(c)
  <2>1. client[c].job \in Rows
    BY <1>0, <1>4 DEF RecoverHandoff, ClientHasRow
  <2>2. client'[c].job = client[c].job
    BY <1>0, <1>4 DEF RecoverHandoff, IdleClient
  <2>3. QED
    BY <1>0, <2>1, <2>2, ClientTakesRow
<1>5. CASE Finish(c)
  <2>1. client'[c] = IdleClient
    BY <1>0, <1>5 DEF Finish
  <2>2. QED
    BY <1>0, <2>1, ClientTakesRow
<1>6. CASE UNCHANGED client
  BY <1>6, HandsStay
<1>7. QED
  BY <1>1, <1>2, <1>3, <1>4, <1>5, <1>6
  DEF ClientBegins, ClientProceeds, ClientDies, Submit, SubmitFindsActive, ProcessChannelVideo,
      RetryJob, AutoRetry, ReapHidden, ReconcileVideo, CompressStale, CreateConflicts, Publish,
      PublishFails, Cancel, RecoveryConflicts, FailStale

\* What clients publish is for a row.
LEMMA ClientsQueueRows ==
    ASSUME TypeInv, RowsInHand, Rows \subseteq Rows', NEW c \in Clients,
           ClientBegins(c) \/ ClientProceeds(c) \/ ClientDies(c)
    PROVE  \A m \in queue' : m.job \in Rows'
<1>1. CASE Publish(c)
  BY <1>1 DEF Publish, RowsInHand, ClientHasRow
<1>2. CASE UNCHANGED queue
  BY <1>2, HandsStay
<1>3. QED
  BY <1>1, <1>2
  DEF ClientBegins, ClientProceeds, ClientDies, Submit, SubmitFindsActive, ProcessChannelVideo,
      RetryJob, AutoRetry, Allocate, CancelRequest, Promote, ReapScan, ReapHidden, ReconcileVideo,
      CompressStale, Create, CreateConflicts, PublishFails, Cancel, RecoverHandoff,
      RecoveryConflicts, FailStale

\* A row is reaped only when nobody has it in hand.
LEMMA ReapKeepsHands ==
    ASSUME TypeInv, RowsInv, NEW c \in Clients, NEW j \in JobIds, ReapHidden(c, j)
    PROVE  /\ RowsInv' /\ Rows' = Rows \ {j}
           /\ \A k \in Rows' : jobs'[k].number = jobs[k].number
           /\ UNCHANGED <<queue, worker, client>>
<1>1. /\ jobs'[j].status = "deleted" /\ jobs[j].status = "failed"
      /\ \A k \in JobIds \ {j} : jobs'[k] = jobs[k]
      /\ UNCHANGED <<queue, worker, client>> /\ Rows \subseteq JobIds
  BY DEF ReapHidden, TypeInv, TypeOK, NoJob, Rows
<1>2. Rows' = Rows \ {j} /\ \A k \in Rows' : jobs'[k].number = jobs[k].number
  BY <1>1 DEF Rows
<1>3. InsertedInOrder'
  BY <1>1 DEF RowsInv, InsertedInOrder
<1>4. /\ \A m \in queue : m.job # j
      /\ \A w \in Workers : Busy(w) => Task(w).job # j
      /\ \A d \in Clients : client[d].job # j
  BY DEF ReapHidden, Untouched, Lost
<1>5. RowsInHand'
  BY <1>1, <1>2, <1>4 DEF RowsInv, RowsInHand, WorkerHasRow, ClientHasRow, Busy, Task
<1>6. QED
  BY <1>1, <1>2, <1>3, <1>5 DEF RowsInv

\* No step of a client takes away a row that somebody has in hand.
LEMMA ClientsKeepRowsInv ==
    ASSUME TypeInv, RowsInv, NEW c \in Clients,
           ClientBegins(c) \/ ClientProceeds(c) \/ ClientDies(c)
    PROVE  RowsInv'
<1>1. UNCHANGED worker
  BY DEF ClientBegins, ClientProceeds, ClientDies, Submit, SubmitFindsActive, ProcessChannelVideo,
      RetryJob, AutoRetry, Allocate, CancelRequest, Promote, ReapScan, ReapHidden, ReconcileVideo,
      CompressStale, Create, CreateConflicts, Publish, PublishFails, Cancel, RecoverHandoff,
      RecoveryConflicts, FailStale
<1>2. CASE \E j \in JobIds : ReapHidden(c, j)
  BY <1>2, ReapKeepsHands
<1>3. CASE \E j \in JobIds : Create(c, j)
  <2>1. PICK new \in JobIds : Create(c, new)
    BY <1>3
  <2>2. /\ Rows' = Rows \cup {new}
        /\ \A j \in JobIds : jobs'[j].status = "none" <=> jobs[j].status = "none" /\ j # new
        /\ \A j \in JobIds : j < new => jobs[j].status # "none"
        /\ jobs[new].status = "none"
    BY <2>1, CreateInserts
  <2>3. InsertedInOrder'
    BY <2>2 DEF RowsInv, InsertedInOrder, JobIds
  <2>4. UNCHANGED queue
    BY <2>1 DEF Create
  <2>5. /\ \A d \in Clients : d # c => client'[d] = client[d]
        /\ client'[c].phase = "idle" \/ client'[c].job = new
    BY <2>1, CreatorMovesOn, OthersRest
  <2>6. QED
    BY <1>1, <2>2, <2>3, <2>4, <2>5, HandsStay, ClientTakesRow DEF RowsInv, RowsInHand
<1>4. CASE \A j \in JobIds : ~Create(c, j) /\ ~ReapHidden(c, j)
  <2>1. RowsKept
    BY <1>4, ClientsKeepRows DEF RowsInv
  <2>2. InsertedInOrder'
    BY <2>1 DEF RowsKept, RowsInv, InsertedInOrder
  <2>3. Rows \subseteq Rows'
    BY <2>1 DEF RowsKept
  <2>4. QED
    BY <1>1, <1>4, <2>2, <2>3, HandsStay, ClientsHoldRows, ClientsQueueRows DEF RowsInv, RowsInHand
<1>5. QED
  BY <1>2, <1>3, <1>4

\* The next messages of a chain are for the same attempt.
LEMMA NextMessagesJob ==
    ASSUME NEW m \in Messages
    PROVE  \A n \in NextMessages(m) : n.job = m.job
BY DEF NextMessages, Messages

\* Workers take up messages for rows, and hand over messages for the row they had.
LEMMA WorkersKeepRowsInv ==
    ASSUME TypeInv, RowsInv, NEW w \in Workers,
           WorkerTakes(w) \/ WorkerProceeds(w) \/ WorkerDies(w) \/ DiesUnacknowledged(w)
    PROVE  RowsInv'
<1>1. RowsKept /\ TypeOK /\ worker \in [Workers -> WorkerRecords] /\ Task(w) \in Messages
  BY WorkersKeepRows, TaskRows DEF RowsInv, TypeInv, TypeOK
<1>2. Rows' = Rows /\ InsertedInOrder'
  BY <1>1 DEF RowsKept, RowsInv, InsertedInOrder
<1>3. /\ \A m \in queue : m.job \in Rows'
      /\ \A v \in Workers : worker'[v] = worker[v] => WorkerHasRow(v)'
      /\ \A c \in Clients : client'[c] = client[c] => ClientHasRow(c)'
      /\ WorkerHasRow(w)
  BY <1>2, HandsStay DEF RowsInv, RowsInHand
<1>4. /\ UNCHANGED client
      /\ \A v \in Workers : v # w => worker'[v] = worker[v]
  BY OthersWork DEF WorkerTakes, WorkerProceeds, WorkerDies, DiesUnacknowledged, SkipStage,
      IgnoreTask, PassGate, Start, StartConflicts, Report, Succeed, RetryTask, FailTask, Abort,
      Reopen, FailReleased, Hand
<1>5. queue' \subseteq queue \/ (Busy(w) /\ queue' \subseteq queue \cup worker[w].next)
  BY DEF WorkerTakes, WorkerProceeds, WorkerDies, DiesUnacknowledged, SkipStage, IgnoreTask,
      PassGate, Start, StartConflicts, Report, Succeed, RetryTask, FailTask, Abort,
      Reopen, FailReleased, ReleaseMayFail, Releasing, Hand, Drop, Busy
<1>6. \A m \in queue' : m.job \in Rows'
  BY <1>2, <1>3, <1>5 DEF WorkerHasRow
<1>7. WorkerHasRow(w)'
  <2>1. ASSUME NEW r, worker' = [worker EXCEPT ![w] = r],
               r.phase # "idle" => r.task.job \in Rows /\ \A m \in r.next : m.job = r.task.job
        PROVE  WorkerHasRow(w)'
    <3>1. worker'[w] = r
      BY <1>1, <2>1
    <3>2. QED
      BY <1>2, <2>1, <3>1 DEF WorkerHasRow, Busy, Task
  <2>2. CASE WorkerTakes(w)
    <3>1. PICK m \in queue : SkipStage(w, m) \/ IgnoreTask(w, m) \/ PassGate(w, m)
      BY <2>2 DEF WorkerTakes
    <3>2. m \in Messages /\ m.job \in Rows /\ \A n \in NextMessages(m) : n.job = m.job
      BY <1>1, NextMessagesJob DEF TypeOK, RowsInv, RowsInHand
    <3>3. CASE SkipStage(w, m)
      <4> DEFINE r == [IdleWorker EXCEPT !.phase = "handing", !.task = m,
                                         !.next = NextMessages(m)]
      <4>1. r.task = m /\ r.next = NextMessages(m) /\ worker' = [worker EXCEPT ![w] = r]
        BY <3>3 DEF SkipStage, IdleWorker
      <4> HIDE DEF r
      <4>2. QED
        BY <2>1, <3>2, <4>1
    <3>4. CASE IgnoreTask(w, m)
      BY <1>3, <3>4 DEF IgnoreTask
    <3>5. CASE PassGate(w, m)
      <4> DEFINE r == [IdleWorker EXCEPT !.phase = "gated", !.task = m,
                                     !.seen = Snapshot(jobs[m.job]), !.shown = video.status]
      <4>1. r.task = m /\ r.next = {} /\ worker' = [worker EXCEPT ![w] = r]
        BY <3>5 DEF PassGate, IdleWorker
      <4> HIDE DEF r
      <4>2. QED
        BY <2>1, <3>2, <4>1
    <3>6. QED
      BY <3>1, <3>3, <3>4, <3>5
  <2>3. CASE Start(w)
    <3> DEFINE r == [IdleWorker EXCEPT !.phase = "working", !.task = worker[w].task,
                                       !.old = ChunksReplaced(worker[w].task.stage)]
    <3>1. r.task = Task(w) /\ r.next = {} /\ worker' = [worker EXCEPT ![w] = r]
      BY <2>3 DEF Start, IdleWorker, Task
    <3>2. Task(w).job \in Rows
      BY <1>3, <2>3 DEF Start, WorkerHasRow, Busy
    <3> HIDE DEF r
    <3>3. QED
      BY <2>1, <3>1, <3>2
  <2>4. ASSUME NEW messages, HandOver(w, messages), \A n \in messages : n.job = Task(w).job,
               Busy(w)
        PROVE  WorkerHasRow(w)'
    <3> DEFINE r == [IdleWorker EXCEPT !.phase = "handing", !.task = Task(w), !.next = messages]
    <3>1. r.task = Task(w) /\ r.next = messages /\ worker' = [worker EXCEPT ![w] = r]
      BY <2>4 DEF HandOver, IdleWorker
    <3>2. Task(w).job \in Rows
      BY <1>3, <2>4 DEF WorkerHasRow
    <3> HIDE DEF r
    <3>3. QED
      BY <2>1, <2>4, <3>1, <3>2
  <2>5. CASE Succeed(w)
    BY <1>1, <2>4, <2>5, NextMessagesJob DEF Succeed, Busy
  <2>6. CASE RetryTask(w) \/ Reopen(w)
    <3>1. Again(Task(w)).job = Task(w).job
      BY <1>1 DEF Again, Messages
    <3>2. QED
      BY <2>4, <2>6, <3>1 DEF RetryTask, Reopen, ReleaseMayFail, Releasing, Busy
  <2>7. CASE Rest(w)
    <3>1. IdleWorker.phase = "idle"
      BY DEF IdleWorker
    <3>2. QED
      BY <2>1, <2>7, <3>1 DEF Rest
  <2>8. CASE UNCHANGED worker
    BY <1>3, <2>8
  <2>9. QED
    BY <2>2, <2>3, <2>5, <2>6, <2>7, <2>8
    DEF WorkerProceeds, WorkerDies, DiesUnacknowledged, StartConflicts, Report, FailTask, Abort,
        FailReleased, Hand, Drop
<1>8. QED
  BY <1>2, <1>3, <1>4, <1>6, <1>7 DEF RowsInv, RowsInHand

\* The invariant of the rows is inductive.
LEMMA RowsStep == TypeInv /\ RowsInv /\ [Next]_vars => RowsInv'
<1> SUFFICES ASSUME TypeInv, RowsInv, [Next]_vars PROVE RowsInv'
  OBVIOUS
<1>1. CASE UNCHANGED vars
  BY <1>1 DEF vars, RowsInv, RowsInHand, InsertedInOrder, WorkerHasRow, ClientHasRow, Rows, Busy, Task
<1>2. QED
  BY <1>1, ClientsKeepRowsInv, WorkersKeepRowsInv DEF Next

-----------------------------------------------------------------------------
(***************************************************************************)
(* Attempt numbers, with one request at a time.  (Two requests that have   *)
(* both allocated before either inserts are given the same number, and the *)
(* index only makes the second wait until the first attempt is settled.)   *)
(***************************************************************************)
OneClient == \A c, d \in Clients : c = d

\* The number that was allocated is still larger than those of all attempts.
NumberIsAhead ==
    \A c \in Clients : client[c].phase = "allocated" =>
        \A k \in Rows : jobs[k].number < client[c].number

NumbersInv == NumbersIncrease /\ NumberIsAhead

\* Numbers that stay, of rows that were there, still grow.
LEMMA NumbersStay ==
    ASSUME NumbersIncrease, Rows' \subseteq Rows,
           \A j \in Rows' : jobs'[j].number = jobs[j].number
    PROVE  NumbersIncrease'
BY DEF NumbersIncrease

\* A client comes to be allocated only by an allocation.
LEMMA AllocatedEarlier ==
    ASSUME TypeInv, NEW c \in Clients,
           ClientBegins(c) \/ ClientProceeds(c) \/ ClientDies(c),
           \A role, start, hides, locks, override :
              ~Allocate(c, role, start, hides, locks, override)
    PROVE  client'[c].phase = "allocated" => client'[c] = client[c]
<1>0. client \in [Clients -> ClientRecords] /\ IdleClient.phase = "idle"
  BY DEF TypeInv, TypeOK, IdleClient
<1>1. CASE ClientBegins(c)
  BY <1>0, <1>1 DEF ClientBegins, Submit, SubmitFindsActive, ProcessChannelVideo, RetryJob,
      AutoRetry, CancelRequest, Promote, ReapScan, ReapHidden, ReconcileVideo, CompressStale,
      IdleClient
<1>2. CASE ClientProceeds(c) \/ ClientDies(c)
  BY <1>0, <1>2 DEF ClientProceeds, ClientDies, Create, CreateConflicts, Publish, PublishFails,
      Cancel, RecoverHandoff, RecoveryConflicts, FailStale, Finish, IdleClient
<1>3. QED
  BY <1>1, <1>2

\* An allocated number is larger than that of the latest attempt, and so than all.
LEMMA AllocatedIsAhead ==
    ASSUME TypeInv, NEW c \in Clients, NEW role, NEW start, NEW hides, NEW locks, NEW override,
           Allocate(c, role, start, hides, locks, override)
    PROVE  \A k \in Rows : jobs[k].number < client'[c].number
<1>1. PICK number \in NextNumber : client' = [client EXCEPT ![c] =
              [IdleClient EXCEPT !.phase = "allocated", !.role = role, !.number = number,
                                 !.start = start, !.hides = hides, !.locks = locks]]
  BY DEF Allocate
<1>2. client'[c].number = number
  BY <1>1 DEF TypeInv, TypeOK, IdleClient
<1>3. \A k \in Rows : jobs[k].number \in Nat
  BY DEF TypeInv, TypeOK, Rows, JobRecords
<1>4. ASSUME NEW k \in Rows
      PROVE  jobs[k].number < number
  <2>1. PICK l \in Rows : IsLatest(l) /\ number = 1 + jobs[l].number
    BY <1>1, <1>4 DEF NextNumber
  <2>2. jobs[k].number <= jobs[l].number
    BY <1>3, <2>1 DEF IsLatest
  <2>3. QED
    BY <1>3, <2>1, <2>2
<1>5. QED
  BY <1>2, <1>4

\* With one client, what it has been allocated is still ahead when it inserts.
LEMMA NumbersStep == OneClient /\ TypeInv /\ RowsInv /\ NumbersInv /\ [Next]_vars => NumbersInv'
<1> SUFFICES ASSUME OneClient, TypeInv, RowsInv, NumbersInv, [Next]_vars PROVE NumbersInv'
  OBVIOUS
<1>1. CASE UNCHANGED vars
  BY <1>1 DEF vars, NumbersInv, NumbersIncrease, NumberIsAhead, Rows
<1>2. ASSUME NEW w \in Workers,
             WorkerTakes(w) \/ WorkerProceeds(w) \/ WorkerDies(w) \/ DiesUnacknowledged(w)
      PROVE  NumbersInv'
  <2>1. RowsKept
    BY <1>2, WorkersKeepRows DEF RowsInv
  <2>2. UNCHANGED client
    BY <1>2 DEF WorkerTakes, WorkerProceeds, WorkerDies, DiesUnacknowledged, SkipStage,
        IgnoreTask, PassGate, Start, StartConflicts, Report, Succeed, RetryTask, FailTask, Abort,
        Reopen, FailReleased, Hand
  <2>3. QED
    BY <2>1, <2>2, NumbersStay DEF RowsKept, NumbersInv, NumberIsAhead
<1>3. ASSUME NEW c \in Clients, ClientBegins(c) \/ ClientProceeds(c) \/ ClientDies(c)
      PROVE  NumbersInv'
  <2>0. \A d \in Clients : d = c
    BY DEF OneClient
  <2>1. CASE \E j \in JobIds : Create(c, j)
    <3>1. PICK new \in JobIds : Create(c, new)
      BY <2>1
    <3>2. /\ Rows' = Rows \cup {new} /\ new \notin Rows
          /\ jobs'[new].number = client[c].number
          /\ \A j \in Rows : jobs'[j].number = jobs[j].number
          /\ \A j \in JobIds : j < new => jobs[j].status # "none"
          /\ jobs[new].status = "none"
      BY <3>1, CreateInserts
    <3>3. client[c].phase = "allocated" /\ client'[c].phase # "allocated"
      BY <3>1, CreatorMovesOn
    <3>4. \A k \in Rows : jobs[k].number < client[c].number /\ k < new
      <4>1. \A k \in Rows : jobs[k].number < client[c].number
        BY <3>3 DEF NumbersInv, NumberIsAhead
      <4>2. \A k \in Rows : k \in JobIds /\ jobs[k].status # "none"
        BY DEF Rows
      <4>3. \A k \in JobIds : new <= k => jobs[k].status = "none"
        BY <3>2 DEF RowsInv, InsertedInOrder
      <4>4. QED
        BY <4>1, <4>2, <4>3 DEF JobIds
    <3>5. NumbersIncrease'
      <4> SUFFICES ASSUME NEW j \in Rows', NEW k \in Rows', j < k
                   PROVE  jobs'[j].number < jobs'[k].number
        BY DEF NumbersIncrease
      <4>1. j \in JobIds /\ k \in JobIds
        BY DEF Rows
      <4>2. CASE k = new
        BY <3>2, <3>4, <4>1, <4>2 DEF JobIds
      <4>3. CASE k # new
        <5>1. k \in Rows /\ k < new
          BY <3>2, <3>4, <4>3
        <5>2. j \in Rows
          BY <3>2, <4>1, <5>1 DEF JobIds
        <5>3. QED
          BY <3>2, <5>1, <5>2 DEF NumbersInv, NumbersIncrease
      <4>4. QED
        BY <4>2, <4>3
    <3>6. QED
      BY <2>0, <3>3, <3>5 DEF NumbersInv, NumberIsAhead
  <2>2. CASE \E j \in JobIds : ReapHidden(c, j)
    <3>1. PICK j \in JobIds : ReapHidden(c, j)
      BY <2>2
    <3>2. /\ Rows' = Rows \ {j} /\ \A k \in Rows' : jobs'[k].number = jobs[k].number
          /\ UNCHANGED client
      BY <3>1, ReapKeepsHands
    <3>3. QED
      BY <3>2, NumbersStay DEF NumbersInv, NumberIsAhead
  <2>3. CASE \A j \in JobIds : ~Create(c, j) /\ ~ReapHidden(c, j)
    <3>1. RowsKept
      BY <1>3, <2>3, ClientsKeepRows DEF RowsInv
    <3>2. NumbersIncrease'
      BY <3>1, NumbersStay DEF RowsKept, NumbersInv
    <3>3. client'[c].phase = "allocated" => \A k \in Rows : jobs[k].number < client'[c].number
      <4>1. CASE \E role, start, hides, locks, override :
                    Allocate(c, role, start, hides, locks, override)
        BY <4>1, AllocatedIsAhead
      <4>2. CASE \A role, start, hides, locks, override :
                    ~Allocate(c, role, start, hides, locks, override)
        BY <1>3, <4>2, AllocatedEarlier DEF NumbersInv, NumberIsAhead
      <4>3. QED
        BY <4>1, <4>2
    <3>4. QED
      BY <2>0, <3>1, <3>2, <3>3 DEF RowsKept, NumbersInv, NumberIsAhead
  <2>4. QED
    BY <2>1, <2>2, <2>3
<1>4. QED
  BY <1>1, <1>2, <1>3 DEF Next

\* Attempt numbers grow with every attempt, also past deleted rows, if requests come
\* one at a time: for any workers, overdue work and redelivered messages.
THEOREM NumbersGrow ==
    ASSUME OneClient
    PROVE  Spec => []NumbersIncrease
<1> DEFINE Inv == TypeInv /\ RowsInv /\ NumbersInv
<1>1. Init => Inv
  <2>1. Init => TypeInv
    BY IdleTypes DEF Init, TypeInv, TypeOK, ClientsHoldJobs, IdleClient, VideoRecords, VideoStatuses
  <2>2. Init => RowsInv /\ NumbersInv
    BY DEF Init, RowsInv, RowsInHand, InsertedInOrder, ClientHasRow, WorkerHasRow, Busy, NoJob,
           IdleClient, IdleWorker, NumbersInv, NumbersIncrease, NumberIsAhead, Rows
  <2>3. QED
    BY <2>1, <2>2
<1>2. Inv /\ [Next]_vars => Inv'
  BY TypeStep, RowsStep, NumbersStep
<1>3. Inv => NumbersIncrease
  BY DEF NumbersInv
<1> HIDE DEF Inv
<1>4. QED
  BY <1>1, <1>2, <1>3, PTL DEF Spec

-----------------------------------------------------------------------------
(***************************************************************************)
(* Proofs about PipelineAttempts under TimelyWork: work ends within the    *)
(* timeouts of the reaper, nobody cancels, one client runs the scheduled   *)
(* scripts, and a message is delivered again only where its lane has one   *)
(* process.  Beside them any number of requests, housekeeping, workers     *)
(* that die, refused messages and recoveries.                              *)
(*                                                                         *)
(*   OutcomesAreFinal    a settled attempt keeps its outcome, but for one  *)
(*                       whose task fails as it releases the next;         *)
(*   ReviewIsNotMissed   repeated download failures call for a person;     *)
(*   FailedIsIdle        a failed video has no active attempt, if task ids *)
(*                       are stored;                                       *)
(*   ChunksAreOneRuns    embedding runs do not leave chunks side by side.  *)
(*                                                                         *)
(* The properties speak of rows, and no induction on rows alone proves     *)
(* them: what keeps a settled row settled is that nobody who could still   *)
(* write it has it in hand.  HandsInv says who has what: an attempt has    *)
(* one message or one task (OneMessage, TasksQueued, TasksApart), a task   *)
(* that is past the gate has the active attempt (TasksAreActive), what is  *)
(* about to be published or was found stale is nobody else's, and still as *)
(* it was read (PublishedWaits, ScannedIsLost), and attempts that wait for *)
(* the dispatcher are nobody's at all (BacklogWaits).                      *)
(***************************************************************************)
\* Work that ends within the timeouts of the reaper, nobody who cancels, one client at
\* most that runs the reaper or the dispatcher, and no message that two processes have.
TimelyWork ==
    /\ ~SlowWork
    /\ \A c \in Clients : "cancel" \notin Roles[c]
    /\ \A c, d \in Clients : c # d =>
          Roles[c] \cap {"reaper", "promote"} = {} \/ Roles[d] \cap {"reaper", "promote"} = {}
    /\ Redelivery => \A v, w \in Workers : v = w

\* The attempt has a message or a task.
InHand(j) ==
    \/ \E m \in queue : m.job = j
    \/ \E w \in Workers : Busy(w) /\ Task(w).job = j

Published(j) == \E c \in Clients : client[c].phase = "publishing" /\ client[c].job = j

\* Messages are delivered once, so that a message and a task belong together.
OneMessage == ~Redelivery => \A m, n \in queue : m.job = n.job => m = n

TasksQueued == ~Redelivery => \A w \in Workers : Busy(w) => Task(w) \in queue

NextIsOne == \A w \in Workers : Busy(w) => \A m, n \in worker[w].next : m = n

TasksApart ==
    \A v, w \in Workers : v # w /\ Busy(v) /\ Busy(w) => Task(v).job # Task(w).job

TasksAreActive ==
    \A w \in Workers : worker[w].phase \in {"gated", "working"} => Task(w).job \in Active

\* What is about to be published has no message yet, and nobody else publishes it.
PublishedWaits(c) ==
    client[c].phase = "publishing" =>
        /\ jobs[client[c].job].status = "queued"
        /\ jobs[client[c].job].stage = "queued"
        /\ ~InHand(client[c].job)
        /\ \A d \in Clients : d # c /\ client[d].phase = "publishing" => client[d].job # client[c].job

\* What the reaper has found is lost and still as it found it.
ScannedIsLost(c) ==
    client[c].phase = "scanned" =>
        /\ client[c].job \in Active
        /\ ~InHand(client[c].job) /\ ~Published(client[c].job)
        /\ client[c].seen = Snapshot(jobs[client[c].job])
        /\ "reaper" \in Roles[c]

NoneCancels == \A c \in Clients : client[c].phase # "cancelling"

BacklogWaits ==
    \A j \in JobIds : jobs[j].status \in {"none", "pending"} => ~InHand(j) /\ ~Published(j)

HandsInv ==
    /\ OneMessage /\ TasksQueued /\ NextIsOne /\ TasksApart /\ TasksAreActive
    /\ \A c \in Clients : PublishedWaits(c)
    /\ \A c \in Clients : ScannedIsLost(c)
    /\ NoneCancels
    /\ BacklogWaits

Inv == TypeInv /\ RowsInv /\ OneActiveAttempt /\ HandsInv

-----------------------------------------------------------------------------
(***************************************************************************)
(* Steps of workers.                                                       *)
(***************************************************************************)
\* What no worker has in hand, no worker's step concerns.
LEMMA AsideOfWorkers ==
    ASSUME HandsInv, UNCHANGED client, \A j : InHand(j)' => InHand(j),
           \A j \in JobIds : \/ jobs'[j] = jobs[j]
                             \/ InHand(j) /\ jobs'[j].status \notin {"none", "pending"}
    PROVE  /\ \A c \in Clients : client[c].job \in JobIds => PublishedWaits(c)'
           /\ \A c \in Clients : client[c].job \in JobIds => ScannedIsLost(c)'
           /\ NoneCancels' /\ BacklogWaits'
<1>1. \A j : Published(j)' <=> Published(j)
  BY DEF Published
<1>2. NoneCancels' /\ BacklogWaits'
  BY <1>1 DEF HandsInv, NoneCancels, BacklogWaits
<1>3. ASSUME NEW c \in Clients, client[c].job \in JobIds
      PROVE  PublishedWaits(c)'
  BY <1>3 DEF HandsInv, PublishedWaits
<1>4. ASSUME NEW c \in Clients, client[c].job \in JobIds
      PROVE  ScannedIsLost(c)'
  BY <1>1, <1>4 DEF HandsInv, ScannedIsLost, Active, Snapshot
<1>5. QED
  BY <1>2, <1>3, <1>4

\* A worker that takes up the message it has been delivered is alone with it.
LEMMA TakesApart ==
    ASSUME TimelyWork, HandsInv, NEW w \in Workers, NEW m, Delivered(w, m)
    PROVE  \A v \in Workers : v # w /\ Busy(v) => Task(v).job # m.job
<1> SUFFICES ASSUME NEW v \in Workers, v # w, Busy(v), Task(v).job = m.job PROVE FALSE
  OBVIOUS
<1>1. CASE Redelivery
  BY <1>1 DEF TimelyWork
<1>2. CASE ~Redelivery
  <2>1. Task(v) \in queue /\ m \in queue /\ Task(v) # m
    BY <1>2 DEF Delivered, HandsInv, TasksQueued
  <2>2. QED
    BY <1>2, <2>1 DEF HandsInv, OneMessage
<1>3. QED
  BY <1>1, <1>2

\* Whatever a worker's step makes of the workers, these keep apart if the step's own does.
LEMMA WorkersStayApart ==
    ASSUME HandsInv, NEW w \in Workers,
           \A v \in Workers : v # w => worker'[v] = worker[v],
           Busy(w)' => \A v \in Workers : v # w /\ Busy(v) => Task(v).job # Task(w).job',
           Busy(w)' => \A m, n \in worker'[w].next : m = n,
           worker'[w].phase \in {"gated", "working"} => Task(w).job' \in Active',
           \A v \in Workers : v # w /\ worker[v].phase \in {"gated", "working"}
                              => Task(v).job \in Active'
    PROVE  TasksApart' /\ NextIsOne' /\ TasksAreActive'
<1>1. TasksApart'
  BY DEF HandsInv, TasksApart, Busy, Task
<1>2. NextIsOne'
  BY DEF HandsInv, NextIsOne, Busy
<1>3. TasksAreActive'
  BY DEF HandsInv, TasksAreActive, Task
<1>4. QED
  BY <1>1, <1>2, <1>3

\* Taking a message.
LEMMA TakesKeepHands ==
    ASSUME TimelyWork, Inv, NEW w \in Workers, WorkerTakes(w)
    PROVE  HandsInv'
<1>1. PICK m \in queue : SkipStage(w, m) \/ IgnoreTask(w, m) \/ PassGate(w, m)
  BY DEF WorkerTakes
<1>2. /\ Delivered(w, m) /\ UNCHANGED <<jobs, video, client>> /\ queue' \subseteq queue
      /\ ~Busy(w) /\ HandsInv /\ TypeInv /\ m \in Messages
      /\ worker \in [Workers -> WorkerRecords]
      /\ \A c \in Clients : client[c].phase \in {"publishing", "scanned"} => client[c].job \in JobIds
  BY <1>1 DEF SkipStage, IgnoreTask, PassGate, Delivered, Inv, TypeInv, TypeOK, ClientsHoldJobs
<1>3. \A v \in Workers : v # w => worker'[v] = worker[v]
  BY <1>2, OthersWork
<1>4. \A v \in Workers : v # w /\ Busy(v) => Task(v).job # m.job
  BY <1>2, TakesApart
<1>5. /\ worker'[w] = worker[w] \/ Task(w)' = m
      /\ \A n, k \in worker'[w].next : n = k \/ worker'[w] = worker[w]
      /\ worker'[w].phase \in {"gated", "working"} => Active = {m.job} /\ Task(w)' = m
  <2>1. CASE SkipStage(w, m)
    <3>1. \A n, k \in NextMessages(m) : n = k
      BY DEF NextMessages, NextStages
    <3>2. worker'[w] = [IdleWorker EXCEPT !.phase = "handing", !.task = m, !.next = NextMessages(m)]
      BY <1>2, <2>1 DEF SkipStage
    <3>3. worker'[w].phase = "handing" /\ Task(w)' = m /\ worker'[w].next = NextMessages(m)
      BY <3>2 DEF IdleWorker, Task
    <3>4. QED
      BY <3>1, <3>3
  <2>2. CASE IgnoreTask(w, m)
    BY <1>2, <2>2 DEF IgnoreTask, Busy
  <2>3. CASE PassGate(w, m)
    <3>1. worker'[w] = [IdleWorker EXCEPT !.phase = "gated", !.task = m,
                                     !.seen = Snapshot(jobs[m.job]), !.shown = video.status]
      BY <1>2, <2>3 DEF PassGate
    <3>2. worker'[w].phase = "gated" /\ Task(w)' = m /\ worker'[w].next = {}
      BY <3>1 DEF IdleWorker, Task
    <3>3. QED
      BY <2>3, <3>2 DEF PassGate, GateAdmits
  <2>4. QED
    BY <1>1, <2>1, <2>2, <2>3
<1>6. Active' = Active /\ \A v \in Workers : worker[v].phase \in {"gated", "working"} => Task(v).job \in Active
  BY <1>2 DEF Active, HandsInv, TasksAreActive
<1>7. TasksApart' /\ NextIsOne' /\ TasksAreActive'
  <2>1. Busy(w)' => Task(w)' = m /\ \A n, k \in worker'[w].next : n = k
    BY <1>2, <1>5 DEF Busy
  <2>2. QED
    BY <1>2, <1>3, <1>4, <1>5, <1>6, <2>1, WorkersStayApart
<1>8. OneMessage'
  BY <1>2 DEF HandsInv, OneMessage
<1>9. TasksQueued'
  <2> SUFFICES ASSUME ~Redelivery, NEW v \in Workers, Busy(v)' PROVE Task(v)' \in queue'
    BY DEF TasksQueued
  <2>1. CASE IgnoreTask(w, m)
    <3>1. worker' = worker /\ queue' = queue \ {m}
      BY <2>1 DEF IgnoreTask
    <3>2. Busy(v) /\ Task(v)' = Task(v) /\ Task(v) # m
      BY <1>2, <3>1 DEF Busy, Task, Delivered
    <3>3. QED
      BY <1>2, <3>1, <3>2 DEF HandsInv, TasksQueued
  <2>2. CASE SkipStage(w, m) \/ PassGate(w, m)
    <3>1. queue' = queue
      BY <2>2 DEF SkipStage, PassGate
    <3>2. CASE v = w
      BY <1>2, <1>5, <3>1, <3>2 DEF Busy
    <3>3. CASE v # w
      BY <1>2, <1>3, <3>1, <3>3 DEF HandsInv, TasksQueued, Busy, Task
    <3>4. QED
      BY <3>2, <3>3
  <2>3. QED
    BY <1>1, <2>1, <2>2
<1>10. \A j : InHand(j)' => InHand(j)
  <2> SUFFICES ASSUME NEW j, InHand(j)' PROVE InHand(j)
    OBVIOUS
  <2>1. CASE \E n \in queue' : n.job = j
    BY <1>2, <2>1 DEF InHand
  <2>2. CASE \E v \in Workers : Busy(v)' /\ Task(v)'.job = j
    <3>1. PICK v \in Workers : Busy(v)' /\ Task(v)'.job = j
      BY <2>2
    <3>2. CASE v = w
      BY <1>2, <1>5, <3>1, <3>2 DEF InHand, Busy
    <3>3. CASE v # w
      BY <1>3, <3>1, <3>3 DEF InHand, Busy, Task
    <3>4. QED
      BY <3>2, <3>3
  <2>3. QED
    BY <2>1, <2>2 DEF InHand
<1>11. \A c \in Clients : PublishedWaits(c)' /\ ScannedIsLost(c)'
  BY <1>2, <1>10, AsideOfWorkers DEF PublishedWaits, ScannedIsLost
<1>12. NoneCancels' /\ BacklogWaits'
  BY <1>2, <1>10, AsideOfWorkers
<1>13. QED
  BY <1>7, <1>8, <1>9, <1>11, <1>12 DEF HandsInv

\* A task that works on its attempt has it alone, and it is the active one.
LEMMA WorkIsAlone ==
    ASSUME Inv, NEW w \in Workers, worker[w].phase \in {"gated", "working"}
    PROVE  /\ Active = {Task(w).job} /\ Task(w).job \in JobIds /\ InHand(Task(w).job)
           /\ jobs[Task(w).job].status \in {"queued", "running"}
           /\ \A v \in Workers : v # w => worker[v].phase \notin {"gated", "working"}
<1>1. Task(w).job \in Active /\ Active \subseteq JobIds /\ Busy(w)
  BY DEF Inv, HandsInv, TasksAreActive, Active, Busy
<1>2. Active = {Task(w).job}
  BY <1>1 DEF Inv, OneActiveAttempt
<1>3. ASSUME NEW v \in Workers, v # w, worker[v].phase \in {"gated", "working"}
      PROVE  FALSE
  <2>1. Task(v).job \in Active /\ Busy(v)
    BY <1>3 DEF Inv, HandsInv, TasksAreActive, Busy
  <2>2. Task(v).job # Task(w).job
    BY <1>1, <1>3, <2>1 DEF Inv, HandsInv, TasksApart
  <2>3. QED
    BY <1>2, <2>1, <2>2
<1>4. InHand(Task(w).job)
  BY <1>1 DEF InHand
<1>5. jobs[Task(w).job].status \in {"queued", "running"}
  BY <1>1, <1>4 DEF Inv, HandsInv, BacklogWaits, Active, ActiveStatuses
<1>6. QED
  BY <1>1, <1>2, <1>3, <1>4, <1>5

\* What a task's step makes of the rows: at most its own attempt's, which is active.
LEMMA TaskWritesOwn ==
    ASSUME Inv, NEW w \in Workers,
           WorkerProceeds(w) \/ WorkerDies(w) \/ DiesUnacknowledged(w)
    PROVE  /\ \A j \in JobIds : jobs'[j] = jobs[j] \/ j = Task(w).job
           /\ \/ UNCHANGED jobs
              \/ /\ worker[w].phase \in {"gated", "working"} \/ ReleaseMayFail(w)
                 /\ jobs'[Task(w).job].status \in {"queued", "running", "completed", "failed"}
           /\ worker'[w].phase = "working" => jobs'[Task(w).job].status \in {"queued", "running"}
<1>1. /\ jobs \in [JobIds -> JobRecords] /\ TypeOK /\ worker \in [Workers -> WorkerRecords]
      /\ Task(w).job \in JobIds /\ IdleWorker.phase = "idle"
  BY TaskRows DEF Inv, TypeInv, TypeOK, IdleWorker
<1>2. CASE Start(w)
  <2>1. jobs' = [jobs EXCEPT ![Task(w).job] = Started(w)] /\ worker[w].phase = "gated"
    BY <1>2 DEF Start, WriteJob
  <2>2. Started(w).status \in {"queued", "running"}
    BY <1>1, <2>1, TaskStatuses, WorkIsAlone
  <2>3. QED
    BY <1>1, <2>1, <2>2
<1>3. CASE Report(w)
  <2>1. jobs' = [jobs EXCEPT ![Task(w).job] = Running(w)] /\ worker[w].phase = "working"
    BY <1>3 DEF Report, WriteJob
  <2>2. QED
    BY <1>1, <2>1, TaskStatuses
<1>4. ASSUME NEW messages, HandOver(w, messages)
      PROVE  worker'[w].phase = "handing"
  BY <1>1, <1>4 DEF HandOver, IdleWorker
<1>5. CASE RetryTask(w)
  <2>1. jobs' = [jobs EXCEPT ![Task(w).job] = Running(w)] /\ worker[w].phase = "working"
    BY <1>5 DEF RetryTask, WriteJob
  <2>2. worker'[w].phase = "handing"
    BY <1>4, <1>5 DEF RetryTask
  <2>3. QED
    BY <1>1, <2>1, <2>2, TaskStatuses
<1>6. CASE Succeed(w)
  <2>1. jobs' = [jobs EXCEPT ![Task(w).job] = Done(w)] /\ worker[w].phase = "working"
    BY <1>6 DEF Succeed, WriteJob
  <2>2. worker'[w].phase = "handing"
    BY <1>4, <1>6 DEF Succeed
  <2>3. QED
    BY <1>1, <2>1, <2>2, TaskStatuses
<1>7. Rest(w) => worker'[w].phase = "idle"
  BY <1>1 DEF Rest
<1>8. CASE FailTask(w)
  <2>1. PICK kind \in FailureKinds : jobs' = [jobs EXCEPT ![Task(w).job] =
              RecordFailure(Task(w).job, jobs[Task(w).job], Task(w).stage, kind)]
    BY <1>8 DEF FailTask
  <2>2. jobs'[Task(w).job].status = "failed"
    BY <1>1, <2>1, WritesKeepNumbers
  <2>3. worker[w].phase = "working" /\ worker'[w].phase = "idle"
    BY <1>7, <1>8 DEF FailTask, Drop
  <2>4. QED
    BY <1>1, <2>1, <2>2, <2>3
<1>9. CASE Reopen(w)
  <2>1. jobs' = [jobs EXCEPT ![Task(w).job] = Running(w)] /\ ReleaseMayFail(w)
    BY <1>9 DEF Reopen, WriteJob
  <2>2. worker'[w].phase = "handing"
    BY <1>4, <1>9 DEF Reopen
  <2>3. QED
    BY <1>1, <2>1, <2>2, TaskStatuses
<1>10. CASE FailReleased(w)
  <2>1. PICK kind \in FailureKinds : jobs' = [jobs EXCEPT ![Task(w).job] =
              RecordFailure(Task(w).job, jobs[Task(w).job], "embed", kind)]
    BY <1>10 DEF FailReleased
  <2>2. jobs'[Task(w).job].status = "failed"
    BY <1>1, <2>1, WritesKeepNumbers
  <2>3. ReleaseMayFail(w) /\ worker'[w].phase = "idle"
    BY <1>7, <1>10 DEF FailReleased, Drop
  <2>4. QED
    BY <1>1, <2>1, <2>2, <2>3
<1>11. CASE StartConflicts(w) \/ Abort(w) \/ Hand(w) \/ WorkerDies(w) \/ DiesUnacknowledged(w)
  BY <1>7, <1>11 DEF StartConflicts, Abort, Hand, WorkerDies, DiesUnacknowledged, Drop
<1>12. QED
  BY <1>2, <1>3, <1>5, <1>6, <1>8, <1>9, <1>10, <1>11 DEF WorkerProceeds

\* What becomes of the task and of the messages.
LEMMA TaskGoesOn ==
    ASSUME Inv, NEW w \in Workers,
           WorkerProceeds(w) \/ WorkerDies(w) \/ DiesUnacknowledged(w)
    PROVE  /\ UNCHANGED client /\ Busy(w)
           /\ \A v \in Workers : v # w => worker'[v] = worker[v]
           /\ Busy(w)' => Task(w)' = Task(w) /\ queue' = queue
           /\ worker'[w].phase # "gated"
           /\ Busy(w)' => \A m, n \in worker'[w].next : m = n
           /\ \/ queue' \subseteq queue /\ queue \ {Task(w)} \subseteq queue'
              \/ /\ worker[w].phase = "handing"
                 /\ queue' = (queue \ {Task(w)}) \cup worker[w].next
              \/ Redelivery /\ queue' = queue \cup worker[w].next
<1>1. /\ worker \in [Workers -> WorkerRecords] /\ TypeInv /\ IdleWorker.phase = "idle"
      /\ \A m, n \in NextMessages(Task(w)) : m = n
  BY DEF Inv, TypeInv, TypeOK, IdleWorker, NextMessages, NextStages
<1>2. UNCHANGED client /\ Busy(w)
  BY DEF WorkerProceeds, WorkerDies, DiesUnacknowledged, Start, StartConflicts, Report, Succeed,
         RetryTask, FailTask, Abort, Reopen, FailReleased, ReleaseMayFail, Releasing, Hand, Busy
<1>3. \A v \in Workers : v # w => worker'[v] = worker[v]
  BY <1>1, OthersWork
<1>4. Rest(w) => ~Busy(w)' /\ worker'[w].phase = "idle"
  BY <1>1 DEF Rest, Busy
<1>5. ASSUME NEW messages, HandOver(w, messages)
      PROVE  worker'[w].phase = "handing" /\ Task(w)' = Task(w) /\ worker'[w].next = messages
  <2>1. worker'[w] = [IdleWorker EXCEPT !.phase = "handing", !.task = Task(w), !.next = messages]
    BY <1>1, <1>5 DEF HandOver
  <2>2. QED
    BY <2>1 DEF IdleWorker, Task
<1>6. CASE Start(w)
  <2>1. worker'[w] = [IdleWorker EXCEPT !.phase = "working", !.task = worker[w].task,
                                       !.old = ChunksReplaced(worker[w].task.stage)]
    BY <1>1, <1>6 DEF Start
  <2>2. worker'[w].phase = "working" /\ Task(w)' = Task(w) /\ worker'[w].next = {}
    BY <2>1 DEF IdleWorker, Task
  <2>3. QED
    BY <1>2, <1>3, <1>6, <2>2 DEF Start
<1>7. CASE Report(w)
  BY <1>2, <1>3, <1>7 DEF Report, Task, Inv, HandsInv, NextIsOne, Busy
<1>8. CASE Succeed(w)
  BY <1>1, <1>2, <1>3, <1>5, <1>8 DEF Succeed
<1>9. CASE RetryTask(w) \/ Reopen(w)
  BY <1>2, <1>3, <1>5, <1>9 DEF RetryTask, Reopen
<1>10. CASE StartConflicts(w) \/ FailTask(w) \/ Abort(w) \/ FailReleased(w) \/ WorkerDies(w)
  BY <1>2, <1>3, <1>4, <1>10 DEF StartConflicts, FailTask, Abort, FailReleased, WorkerDies, Drop
<1>11. CASE Hand(w) \/ DiesUnacknowledged(w)
  BY <1>2, <1>3, <1>4, <1>11 DEF Hand, DiesUnacknowledged
<1>12. QED
  BY <1>6, <1>7, <1>8, <1>9, <1>10, <1>11 DEF WorkerProceeds

\* Going on with a task, to its end or to a death.
LEMMA TasksKeepHands ==
    ASSUME Inv, NEW w \in Workers,
           WorkerProceeds(w) \/ WorkerDies(w) \/ DiesUnacknowledged(w)
    PROVE  HandsInv'
<1>1. /\ UNCHANGED client /\ Busy(w)
      /\ \A v \in Workers : v # w => worker'[v] = worker[v]
      /\ Busy(w)' => Task(w)' = Task(w) /\ queue' = queue
      /\ worker'[w].phase # "gated"
      /\ Busy(w)' => \A m, n \in worker'[w].next : m = n
  BY TaskGoesOn
<1>2. \/ queue' \subseteq queue /\ queue \ {Task(w)} \subseteq queue'
      \/ /\ worker[w].phase = "handing"
         /\ queue' = (queue \ {Task(w)}) \cup worker[w].next
      \/ Redelivery /\ queue' = queue \cup worker[w].next
  BY TaskGoesOn
<1>3. /\ \A j \in JobIds : jobs'[j] = jobs[j] \/ j = Task(w).job
      /\ \/ UNCHANGED jobs
         \/ jobs'[Task(w).job].status \in {"queued", "running", "completed", "failed"}
      /\ worker'[w].phase = "working" => jobs'[Task(w).job].status \in {"queued", "running"}
  BY TaskWritesOwn
<1>4. /\ HandsInv /\ Task(w).job \in JobIds
      /\ \A n \in worker[w].next : n.job = Task(w).job
      /\ \A m, n \in worker[w].next : m = n
      /\ \A v \in Workers : v # w /\ Busy(v) => Task(v).job # Task(w).job
  BY <1>1, TaskRows DEF Inv, TypeInv, RowsInv, RowsInHand, WorkerHasRow, HandsInv, NextIsOne, TasksApart
<1>5. TasksApart' /\ NextIsOne' /\ TasksAreActive'
  <2>1. Busy(w)' => \A v \in Workers : v # w /\ Busy(v) => Task(v).job # Task(w).job'
    BY <1>1, <1>4
  <2>2. worker'[w].phase \in {"gated", "working"} => Task(w).job' \in Active'
    BY <1>1, <1>3, <1>4 DEF Active, ActiveStatuses, Busy
  <2>3. ASSUME NEW v \in Workers, v # w, worker[v].phase \in {"gated", "working"}
        PROVE  Task(v).job \in Active'
    <3>1. Task(v).job \in Active /\ Busy(v)
      BY <2>3 DEF Inv, HandsInv, TasksAreActive, Busy
    <3>2. Task(v).job # Task(w).job /\ Task(v).job \in JobIds
      BY <1>4, <2>3, <3>1 DEF Active
    <3>3. QED
      BY <1>3, <3>1, <3>2 DEF Active
  <2>4. QED
    BY <1>1, <1>4, <2>1, <2>2, <2>3, WorkersStayApart
<1>6. OneMessage'
  <2> SUFFICES ASSUME ~Redelivery, NEW m \in queue', NEW n \in queue', m.job = n.job PROVE m = n
    BY DEF OneMessage
  <2>1. Task(w) \in queue /\ \A k \in queue : k.job = Task(w).job => k = Task(w)
    BY <1>1, <1>4 DEF HandsInv, TasksQueued, OneMessage
  <2>2. m \in queue /\ n \in queue => m = n
    BY <1>4 DEF HandsInv, OneMessage
  <2>3. QED
    BY <1>2, <1>4, <2>1, <2>2
<1>7. TasksQueued'
  <2> SUFFICES ASSUME ~Redelivery, NEW v \in Workers, Busy(v)' PROVE Task(v)' \in queue'
    BY DEF TasksQueued
  <2>1. CASE v = w
    BY <1>1, <1>4, <2>1 DEF HandsInv, TasksQueued
  <2>2. CASE v # w
    <3>1. Busy(v) /\ Task(v)' = Task(v)
      BY <1>1, <2>2 DEF Busy, Task
    <3>2. Task(v) \in queue /\ Task(v).job # Task(w).job
      BY <1>4, <2>2, <3>1 DEF HandsInv, TasksQueued
    <3>3. QED
      BY <1>2, <3>1, <3>2
  <2>3. QED
    BY <2>1, <2>2
<1>8. \A j : InHand(j)' => InHand(j)
  <2> SUFFICES ASSUME NEW j, InHand(j)' PROVE InHand(j)
    OBVIOUS
  <2>1. CASE \E n \in queue' : n.job = j
    <3>1. PICK n \in queue' : n.job = j
      BY <2>1
    <3>2. n \in queue \/ n \in worker[w].next
      BY <1>2
    <3>3. QED
      BY <1>1, <1>4, <3>1, <3>2 DEF InHand
  <2>2. CASE \E v \in Workers : Busy(v)' /\ Task(v)'.job = j
    <3>1. PICK v \in Workers : Busy(v)' /\ Task(v)'.job = j
      BY <2>2
    <3>2. Busy(v) /\ Task(v).job = j
      BY <1>1, <3>1 DEF Busy, Task
    <3>3. QED
      BY <3>2 DEF InHand
  <2>3. QED
    BY <2>1, <2>2 DEF InHand
<1>9. \A j \in JobIds : \/ jobs'[j] = jobs[j]
                        \/ InHand(j) /\ jobs'[j].status \notin {"none", "pending"}
  BY <1>1, <1>3 DEF InHand
<1>10. \A c \in Clients : client[c].phase \in {"publishing", "scanned"} => client[c].job \in JobIds
  BY DEF Inv, TypeInv, ClientsHoldJobs
<1>11. \A c \in Clients : PublishedWaits(c)' /\ ScannedIsLost(c)'
  BY <1>1, <1>4, <1>8, <1>9, <1>10, AsideOfWorkers DEF PublishedWaits, ScannedIsLost
<1>12. NoneCancels' /\ BacklogWaits'
  BY <1>1, <1>4, <1>8, <1>9, AsideOfWorkers
<1>13. QED
  BY <1>5, <1>6, <1>7, <1>11, <1>12 DEF HandsInv

-----------------------------------------------------------------------------
(***************************************************************************)
(* Steps of clients.                                                       *)
(***************************************************************************)
\* No message or task has attempt j, nor does another client than c work on it.
Untaken(c, j) ==
    /\ ~InHand(j)
    /\ \A d \in Clients \ {c} : client[d].phase \in {"publishing", "scanned"} => client[d].job # j

\* A client that publishes nothing, and writes only rows that nobody else has, keeps the
\* messages and everyone's tasks and plans as they should be, if its own plan is sound.
LEMMA ClientKeepsHands ==
    ASSUME Inv, NEW c \in Clients, UNCHANGED <<queue, worker>>,
           \A d \in Clients : d # c => client'[d] = client[d],
           \A j \in JobIds : Untaken(c, j) \/ Snapshot(jobs'[j]) = Snapshot(jobs[j]),
           client'[c].phase # "cancelling",
           PublishedWaits(c)', ScannedIsLost(c)',
           client'[c].phase = "publishing" =>
              \A d \in Clients : d # c /\ client[d].phase = "scanned" => client[d].job # client'[c].job
    PROVE  HandsInv'
<1>1. /\ HandsInv /\ \A j : InHand(j)' <=> InHand(j)
      /\ \A d \in Clients : client[d].phase \in {"publishing", "scanned"} => client[d].job \in JobIds
  BY DEF Inv, InHand, Busy, Task, TypeInv, ClientsHoldJobs
<1>2. \A j \in JobIds : \/ Untaken(c, j)
                        \/ jobs'[j].status = jobs[j].status /\ jobs'[j].stage = jobs[j].stage
  BY DEF Snapshot
<1>3. OneMessage' /\ TasksQueued' /\ NextIsOne' /\ TasksApart'
  BY <1>1 DEF HandsInv, OneMessage, TasksQueued, NextIsOne, TasksApart, Busy, Task
<1>4. TasksAreActive'
  <2> SUFFICES ASSUME NEW w \in Workers, worker[w].phase \in {"gated", "working"}
               PROVE  Task(w).job \in Active'
    BY DEF TasksAreActive, Task
  <2>1. Task(w).job \in Active /\ InHand(Task(w).job)
    BY <1>1 DEF HandsInv, TasksAreActive, InHand, Busy
  <2>2. QED
    BY <1>2, <2>1 DEF Active, Untaken
<1>5. ASSUME NEW d \in Clients
      PROVE  PublishedWaits(d)'
  <2>1. CASE d = c
    BY <2>1
  <2>2. CASE d # c
    <3> SUFFICES ASSUME client[d].phase = "publishing"
                 PROVE  /\ jobs'[client[d].job].status = "queued"
                        /\ jobs'[client[d].job].stage = "queued"
                        /\ ~InHand(client[d].job)'
                        /\ \A e \in Clients : e # d /\ client'[e].phase = "publishing"
                                              => client'[e].job # client[d].job
      BY <2>2 DEF PublishedWaits
    <3>1. client[d].job \in JobIds /\ PublishedWaits(d)
      BY <1>1 DEF HandsInv
    <3>2. ~Untaken(c, client[d].job)
      BY <2>2 DEF Untaken
    <3>3. ASSUME NEW e \in Clients, e # d, client'[e].phase = "publishing"
          PROVE  client'[e].job # client[d].job
      <4>1. CASE e = c
        BY <2>2, <3>3, <4>1 DEF PublishedWaits
      <4>2. CASE e # c
        BY <3>1, <3>3, <4>2 DEF PublishedWaits
      <4>3. QED
        BY <4>1, <4>2
    <3>4. QED
      BY <1>1, <1>2, <2>2, <3>1, <3>2, <3>3 DEF PublishedWaits
  <2>3. QED
    BY <2>1, <2>2
<1>6. ASSUME NEW d \in Clients
      PROVE  ScannedIsLost(d)'
  <2>1. CASE d = c
    BY <2>1
  <2>2. CASE d # c
    <3> SUFFICES ASSUME client[d].phase = "scanned"
                 PROVE  /\ client[d].job \in Active'
                        /\ ~InHand(client[d].job)' /\ ~Published(client[d].job)'
                        /\ client[d].seen = Snapshot(jobs'[client[d].job])
                        /\ "reaper" \in Roles[d]
      BY <2>2 DEF ScannedIsLost
    <3>1. client[d].job \in JobIds /\ ScannedIsLost(d)
      BY <1>1 DEF HandsInv
    <3>2. Snapshot(jobs'[client[d].job]) = Snapshot(jobs[client[d].job])
      BY <2>2, <3>1 DEF Untaken
    <3>3. client[d].job \in Active'
      BY <3>1, <3>2 DEF ScannedIsLost, Active, Snapshot
    <3>4. ~Published(client[d].job)'
      BY <2>2, <3>1 DEF ScannedIsLost, Published
    <3>5. QED
      BY <1>1, <2>2, <3>1, <3>2, <3>3, <3>4 DEF ScannedIsLost
  <2>3. QED
    BY <2>1, <2>2
<1>7. NoneCancels'
  BY <1>1 DEF HandsInv, NoneCancels
<1>8. BacklogWaits'
  <2> SUFFICES ASSUME NEW j \in JobIds, jobs'[j].status \in {"none", "pending"}
               PROVE  ~InHand(j)' /\ ~Published(j)'
    BY DEF BacklogWaits
  <2>1. CASE Untaken(c, j)
    BY <1>1, <2>1 DEF Untaken, Published, PublishedWaits
  <2>2. CASE jobs'[j].status = jobs[j].status
    <3>1. ~InHand(j) /\ ~Published(j)
      BY <1>1, <2>2 DEF HandsInv, BacklogWaits
    <3>2. QED
      BY <1>1, <3>1 DEF Published, PublishedWaits
  <2>3. QED
    BY <1>2, <2>1, <2>2
<1>9. QED
  BY <1>3, <1>4, <1>5, <1>6, <1>7, <1>8 DEF HandsInv

\* A client that leaves the rows alone and has nothing to publish or to reap.
LEMMA QuietKeepsHands ==
    ASSUME Inv, NEW c \in Clients, UNCHANGED <<jobs, queue, worker>>,
           \A d \in Clients : d # c => client'[d] = client[d],
           client'[c].phase \notin {"publishing", "scanned", "cancelling"}
    PROVE  HandsInv'
<1>1. PublishedWaits(c)' /\ ScannedIsLost(c)'
  BY DEF PublishedWaits, ScannedIsLost
<1>2. QED
  BY <1>1, ClientKeepsHands

\* A request that allocates or only looks at the video.
LEMMA QuietBeginnings ==
    ASSUME Inv, NEW c \in Clients,
           \/ Submit(c) \/ SubmitFindsActive(c) \/ ProcessChannelVideo(c)
           \/ \E j \in JobIds : RetryJob(c, j) \/ AutoRetry(c, j)
           \/ ReconcileVideo(c) \/ CompressStale(c)
    PROVE  HandsInv'
<1>1. TypeInv /\ client \in [Clients -> ClientRecords] /\ IdleClient.phase = "idle"
  BY DEF Inv, TypeInv, TypeOK, IdleClient
<1>2. \A d \in Clients : d # c => client'[d] = client[d]
  BY <1>1, OthersRest DEF ClientBegins
<1>3. ASSUME NEW role, NEW start, NEW hides, NEW locks, NEW override,
             Allocate(c, role, start, hides, locks, override)
      PROVE  HandsInv'
  <2>1. PICK number \in NextNumber : client' = [client EXCEPT ![c] =
              [IdleClient EXCEPT !.phase = "allocated", !.role = role, !.number = number,
                                 !.start = start, !.hides = hides, !.locks = locks]]
    BY <1>3 DEF Allocate
  <2>2. client'[c].phase = "allocated" /\ UNCHANGED <<jobs, queue, worker>>
    BY <1>1, <1>3, <2>1 DEF Allocate, IdleClient
  <2>3. QED
    BY <1>2, <2>2, QuietKeepsHands
<1>4. CASE \/ Submit(c) \/ ProcessChannelVideo(c)
           \/ \E j \in JobIds : RetryJob(c, j) \/ AutoRetry(c, j)
  BY <1>3, <1>4 DEF Submit, ProcessChannelVideo, RetryJob, AutoRetry
<1>5. CASE SubmitFindsActive(c) \/ ReconcileVideo(c) \/ CompressStale(c)
  <2>1. client'[c].phase = "idle" /\ UNCHANGED <<jobs, queue, worker>>
    BY <1>1, <1>5 DEF SubmitFindsActive, ReconcileVideo, CompressStale, MayRun, Idle
  <2>2. QED
    BY <1>2, <2>1, QuietKeepsHands
<1>6. QED
  BY <1>4, <1>5

\* The dispatcher promotes an attempt that has waited in the backlog.
LEMMA PromoteKeepsHands ==
    ASSUME TimelyWork, Inv, NEW c \in Clients, NEW j \in JobIds, Promote(c, j)
    PROVE  HandsInv'
<1>1. /\ TypeInv /\ client \in [Clients -> ClientRecords] /\ jobs \in [JobIds -> JobRecords]
      /\ HandsInv /\ "promote" \in Roles[c] /\ jobs[j].status = "pending"
  BY DEF Inv, TypeInv, TypeOK, Promote, MayRun
<1>2. /\ UNCHANGED <<queue, worker>> /\ \A d \in Clients : d # c => client'[d] = client[d]
      /\ jobs' = [jobs EXCEPT ![j] = SetJobState(jobs[j], "queued", "queued")]
  BY <1>1, OthersRest DEF Promote, ClientBegins
<1>3. client'[c].phase = "publishing" /\ client'[c].job = j
  <2>1. client'[c] = [IdleClient EXCEPT !.phase = "publishing", !.role = "promote", !.job = j]
    BY <1>1 DEF Promote
  <2>2. QED
    BY <2>1 DEF IdleClient
<1>4. jobs'[j].status = "queued" /\ jobs'[j].stage = "queued"
  <2>1. jobs'[j] = SetJobState(jobs[j], "queued", "queued")
    BY <1>1, <1>2
  <2>2. QED
    BY <1>1, <2>1, SetJobStateKeeps DEF ResolvedStage
<1>5. ~InHand(j) /\ ~Published(j)
  BY <1>1 DEF HandsInv, BacklogWaits
<1>6. \A d \in Clients : d # c => client[d].phase # "scanned"
  BY <1>1 DEF TimelyWork, HandsInv, ScannedIsLost
<1>7. Untaken(c, j)
  BY <1>5, <1>6 DEF Untaken, Published
<1>8. PublishedWaits(c)' /\ ScannedIsLost(c)'
  <2>1. ~InHand(j)' /\ \A d \in Clients : d # c /\ client'[d].phase = "publishing" => client'[d].job # j
    BY <1>2, <1>5 DEF InHand, Busy, Task, Published
  <2>2. QED
    BY <1>3, <1>4, <2>1 DEF PublishedWaits, ScannedIsLost
<1>9. \A k \in JobIds : Untaken(c, k) \/ Snapshot(jobs'[k]) = Snapshot(jobs[k])
  BY <1>1, <1>2, <1>7
<1>10. QED
  BY <1>2, <1>3, <1>6, <1>8, <1>9, ClientKeepsHands

\* The reaper finds an attempt that is lost, since work is timely.
LEMMA ReapScanKeepsHands ==
    ASSUME TimelyWork, Inv, NEW c \in Clients, NEW j \in JobIds, ReapScan(c, j)
    PROVE  HandsInv'
<1>1. /\ TypeInv /\ client \in [Clients -> ClientRecords] /\ HandsInv
      /\ "reaper" \in Roles[c] /\ j \in Active /\ Lost(j) /\ client[c].phase = "idle"
  BY DEF Inv, TypeInv, TypeOK, ReapScan, MayRun, Idle, IdleClient, Stale, TimelyWork
<1>2. /\ UNCHANGED <<jobs, queue, worker>> /\ \A d \in Clients : d # c => client'[d] = client[d]
  BY <1>1, OthersRest DEF ReapScan, ClientBegins
<1>3. client'[c].phase = "scanned" /\ client'[c].job = j /\ client'[c].seen = Snapshot(jobs[j])
  <2>1. client'[c] = [IdleClient EXCEPT !.phase = "scanned", !.role = "reaper", !.job = j,
                                       !.seen = Snapshot(jobs[j])]
    BY <1>1 DEF ReapScan
  <2>2. QED
    BY <2>1 DEF IdleClient
<1>4. ~InHand(j) /\ ~Published(j)
  BY <1>1 DEF Lost, InHand, Published
<1>5. ~InHand(j)' /\ ~Published(j)' /\ (j \in Active)'
  BY <1>1, <1>2, <1>3, <1>4 DEF InHand, Busy, Task, Published, Active
<1>6. PublishedWaits(c)' /\ ScannedIsLost(c)'
  BY <1>1, <1>2, <1>3, <1>5 DEF PublishedWaits, ScannedIsLost
<1>7. QED
  BY <1>2, <1>3, <1>6, ClientKeepsHands

\* A hidden failure is reaped when nobody has it.
LEMMA ReapKeepsWork ==
    ASSUME Inv, NEW c \in Clients, NEW j \in JobIds, ReapHidden(c, j)
    PROVE  HandsInv'
<1>1. /\ TypeInv /\ jobs \in [JobIds -> JobRecords] /\ client[c].phase = "idle"
      /\ UNCHANGED <<queue, worker, client>>
  BY DEF Inv, TypeInv, TypeOK, ReapHidden, MayRun, Idle, IdleClient
<1>2. Untaken(c, j)
  BY DEF ReapHidden, Untouched, Lost, Untaken, InHand
<1>3. \A k \in JobIds : Untaken(c, k) \/ Snapshot(jobs'[k]) = Snapshot(jobs[k])
  BY <1>1, <1>2 DEF ReapHidden
<1>4. PublishedWaits(c)' /\ ScannedIsLost(c)'
  BY <1>1 DEF PublishedWaits, ScannedIsLost
<1>5. QED
  BY <1>1, <1>3, <1>4, ClientKeepsHands

\* What clients begin.
LEMMA BeginningsKeepHands ==
    ASSUME TimelyWork, Inv, NEW c \in Clients, ClientBegins(c)
    PROVE  HandsInv'
<1>1. \A j \in JobIds : ~CancelRequest(c, j)
  BY DEF TimelyWork, CancelRequest, MayRun
<1>2. QED
  BY <1>1, QuietBeginnings, PromoteKeepsHands, ReapScanKeepsHands, ReapKeepsWork DEF ClientBegins

\* A new attempt is nobody's yet, but for the client that publishes it.
LEMMA CreateKeepsHands ==
    ASSUME Inv, NEW c \in Clients, NEW new \in JobIds, Create(c, new)
    PROVE  HandsInv'
<1>1. /\ TypeInv /\ client \in [Clients -> ClientRecords] /\ jobs \in [JobIds -> JobRecords]
      /\ HandsInv /\ jobs[new].status = "none" /\ new \notin Active
  BY DEF Inv, TypeInv, TypeOK, Create, IsNextId, Active, ActiveStatuses
<1>2. /\ UNCHANGED <<queue, worker>> /\ \A d \in Clients : d # c => client'[d] = client[d]
  BY <1>1, OthersRest DEF Create, ClientProceeds
<1>3. ~InHand(new) /\ ~Published(new)
  BY <1>1 DEF HandsInv, BacklogWaits
<1>4. Untaken(c, new)
  BY <1>1, <1>3 DEF Untaken, Published, HandsInv, ScannedIsLost
<1>5. \A j \in JobIds : Untaken(c, j) \/ Snapshot(jobs'[j]) = Snapshot(jobs[j])
  <2> SUFFICES ASSUME NEW j \in JobIds, j # new PROVE Snapshot(jobs'[j]) = Snapshot(jobs[j])
    BY <1>4
  <2>1. jobs'[j] = jobs[j] \/ jobs'[j] = [jobs[j] EXCEPT !.hiddenBy = new]
    BY DEF Create
  <2>2. jobs[j] \in JobRecords
    BY <1>1
  <2>3. QED
    BY <2>1, <2>2 DEF Snapshot, JobRecords
<1>6. \/ client'[c].phase = "idle"
      \/ client'[c].phase = "publishing" /\ client'[c].job = new /\ client[c].role # "channel"
  <2>1. CASE client[c].role = "channel"
    BY <1>1, <2>1 DEF Create, Finish, IdleClient
  <2>2. CASE client[c].role # "channel"
    <3>1. client'[c] = [IdleClient EXCEPT !.phase = "publishing", !.role = client[c].role,
                                         !.job = new, !.start = client[c].start]
      BY <1>1, <2>2 DEF Create
    <3>2. QED
      BY <2>2, <3>1 DEF IdleClient
  <2>3. QED
    BY <2>1, <2>2
<1>7. jobs'[new].status = StatusCreated(client[c].role) /\ jobs'[new].stage = "queued"
  <2>1. jobs'[new] = [NoJob EXCEPT !.status = StatusCreated(client[c].role),
                                   !.number = client[c].number,
                                   !.batched = InBatch(client[c].role)]
    BY DEF Create
  <2>2. QED
    BY <2>1 DEF NoJob
<1>8. PublishedWaits(c)' /\ ScannedIsLost(c)'
  <2>1. ~InHand(new)' /\ \A d \in Clients : d # c /\ client'[d].phase = "publishing" => client'[d].job # new
    BY <1>2, <1>3 DEF InHand, Busy, Task, Published
  <2>2. client'[c].phase = "publishing" => jobs'[new].status = "queued"
    BY <1>6, <1>7 DEF StatusCreated
  <2>3. QED
    BY <1>6, <1>7, <2>1, <2>2 DEF PublishedWaits, ScannedIsLost
<1>9. client'[c].phase = "publishing" =>
          \A d \in Clients : d # c /\ client[d].phase = "scanned" => client[d].job # client'[c].job
  BY <1>4, <1>6 DEF Untaken
<1>10. client'[c].phase # "cancelling"
  BY <1>6
<1>11. QED
  BY <1>2, <1>5, <1>8, <1>9, <1>10, ClientKeepsHands

\* A published message finds its attempt in nobody's hands.
LEMMA PublishKeepsHands ==
    ASSUME Inv, NEW c \in Clients, Publish(c)
    PROVE  HandsInv'
<1> DEFINE j == client[c].job
           m == [job |-> j, stage |-> client[c].start, tries |-> 0, chain |-> jobs[j].handoffs]
<1>1. /\ TypeInv /\ client \in [Clients -> ClientRecords] /\ HandsInv /\ j \in JobIds
      /\ client[c].phase = "publishing" /\ PublishedWaits(c)
      /\ queue' = queue \cup {m} /\ m.job = j /\ UNCHANGED <<jobs, worker>>
      /\ \A d \in Clients : client[d].phase \in {"publishing", "scanned"} => client[d].job \in JobIds
  BY DEF Inv, TypeInv, TypeOK, Publish, HandsInv, ClientsHoldJobs
<1>2. PICK p : p = j
  OBVIOUS
<1>3. /\ ~InHand(p) /\ jobs[p].status = "queued" /\ m.job = p
      /\ \A d \in Clients : d # c /\ client[d].phase = "publishing" => client[d].job # p
  BY <1>1, <1>2 DEF PublishedWaits
<1>4. client'[c].phase = "idle" /\ \A d \in Clients : d # c => client'[d] = client[d]
  BY <1>1 DEF Publish, Finish, IdleClient
<1> HIDE DEF m
<1>5. \A k : InHand(k)' => InHand(k) \/ k = p
  BY <1>1, <1>3 DEF InHand, Busy, Task
<1>6. OneMessage'
  BY <1>1, <1>3 DEF HandsInv, OneMessage, InHand
<1>7. TasksQueued' /\ NextIsOne' /\ TasksApart' /\ TasksAreActive'
  BY <1>1 DEF HandsInv, TasksQueued, NextIsOne, TasksApart, TasksAreActive, Busy, Task, Active
<1>8. \A k : Published(k)' => Published(k)
  BY <1>4 DEF Published
<1>9. ASSUME NEW d \in Clients
      PROVE  PublishedWaits(d)'
  <2>1. CASE d = c
    BY <1>4, <2>1 DEF PublishedWaits
  <2>2. CASE d # c
    <3>1. PublishedWaits(d)
      BY <1>1 DEF HandsInv
    <3>2. client[d].phase = "publishing" => ~InHand(client[d].job)'
      <4>1. PICK q : q = client[d].job
        OBVIOUS
      <4>2. QED
        BY <1>3, <1>4, <1>5, <2>2, <3>1, <4>1 DEF PublishedWaits
    <3>3. QED
      BY <1>1, <1>4, <2>2, <3>1, <3>2 DEF PublishedWaits
  <2>3. QED
    BY <2>1, <2>2
<1>10. ASSUME NEW d \in Clients
       PROVE  ScannedIsLost(d)'
  <2>1. CASE d = c
    BY <1>4, <2>1 DEF ScannedIsLost
  <2>2. CASE d # c
    <3> SUFFICES ASSUME client[d].phase = "scanned"
                 PROVE  ScannedIsLost(d)'
      BY <1>4, <2>2 DEF ScannedIsLost
    <3>1. ScannedIsLost(d)
      BY <1>1 DEF HandsInv
    <3>2. PICK q : q = client[d].job
      OBVIOUS
    <3>3. /\ q \in Active /\ ~InHand(q) /\ ~Published(q) /\ client[d].seen = Snapshot(jobs[q])
          /\ "reaper" \in Roles[d]
      BY <3>1, <3>2 DEF ScannedIsLost
    <3>4. q # p
      BY <1>1, <1>2, <3>3 DEF Published
    <3>5. ~InHand(q)' /\ ~Published(q)' /\ (q \in Active)'
      BY <1>1, <1>5, <1>8, <3>3, <3>4 DEF Active
    <3>6. QED
      BY <1>1, <1>4, <2>2, <3>2, <3>3, <3>5 DEF ScannedIsLost
  <2>3. QED
    BY <2>1, <2>2
<1>11. NoneCancels'
  BY <1>1, <1>4 DEF HandsInv, NoneCancels
<1>12. BacklogWaits'
  BY <1>1, <1>3, <1>5, <1>8 DEF HandsInv, BacklogWaits
<1>13. QED
  BY <1>6, <1>7, <1>9, <1>10, <1>11, <1>12 DEF HandsInv

\* An attempt that could not be published is failed by the client that alone has it.
LEMMA PublishFailsKeepsHands ==
    ASSUME Inv, NEW c \in Clients, PublishFails(c)
    PROVE  HandsInv'
<1>1. /\ TypeInv /\ client \in [Clients -> ClientRecords] /\ HandsInv /\ client[c].job \in JobIds
      /\ client[c].phase = "publishing" /\ PublishedWaits(c) /\ jobs \in [JobIds -> JobRecords]
      /\ UNCHANGED <<queue, worker>>
  BY DEF Inv, TypeInv, TypeOK, PublishFails, HandsInv, ClientsHoldJobs
<1>2. client'[c].phase = "idle" /\ \A d \in Clients : d # c => client'[d] = client[d]
  BY <1>1 DEF PublishFails, Finish, IdleClient
<1>3. Untaken(c, client[c].job)
  <2>1. \A d \in Clients : client[d].phase = "scanned" => client[d].job # client[c].job
    BY <1>1 DEF HandsInv, ScannedIsLost, Published
  <2>2. QED
    BY <1>1, <2>1 DEF Untaken, PublishedWaits
<1>4. \A k \in JobIds : k # client[c].job => jobs'[k] = jobs[k]
  BY <1>1 DEF PublishFails
<1>5. PublishedWaits(c)' /\ ScannedIsLost(c)'
  BY <1>2 DEF PublishedWaits, ScannedIsLost
<1>6. QED
  BY <1>1, <1>2, <1>3, <1>4, <1>5, ClientKeepsHands

\* What the reaper has found is still untaken when it acts on it.
LEMMA ScannedIsUntaken ==
    ASSUME TimelyWork, Inv, NEW c \in Clients, client[c].phase = "scanned"
    PROVE  /\ Untaken(c, client[c].job) /\ client[c].job \in Active
           /\ client[c].seen = Snapshot(jobs[client[c].job])
           /\ \A d \in Clients : d # c => client[d].phase # "scanned"
<1>1. /\ ScannedIsLost(c) /\ \A d \in Clients : ScannedIsLost(d)
  BY DEF Inv, HandsInv
<1>2. \A d \in Clients : d # c => client[d].phase # "scanned"
  BY <1>1 DEF TimelyWork, ScannedIsLost
<1>3. QED
  BY <1>1, <1>2 DEF ScannedIsLost, Untaken, Published

\* A lost attempt goes back into the queue and will be published by the reaper alone.
LEMMA RecoveryKeepsHands ==
    ASSUME TimelyWork, Inv, NEW c \in Clients, RecoverHandoff(c)
    PROVE  HandsInv'
<1>1. PICK p : p = client[c].job
  OBVIOUS
<1>2. /\ TypeInv /\ client \in [Clients -> ClientRecords] /\ p \in JobIds
      /\ jobs \in [JobIds -> JobRecords] /\ UNCHANGED <<queue, worker>>
      /\ client[c].phase = "scanned"
      /\ jobs' = [jobs EXCEPT ![p] = Requeued(p, client[c].seen)]
  BY <1>1 DEF Inv, TypeInv, TypeOK, RecoverHandoff, ClientsHoldJobs
<1>3. /\ Untaken(c, p) /\ p \in Active /\ client[c].seen = Snapshot(jobs[p])
      /\ \A d \in Clients : d # c => client[d].phase # "scanned"
  BY <1>1, <1>2, ScannedIsUntaken
<1>4. client'[c].phase = "publishing" /\ client'[c].job = p
  <2>1. PICK start : client'[c] = [IdleClient EXCEPT !.phase = "publishing", !.role = "reaper",
                                                     !.job = client[c].job, !.start = start]
    BY <1>2 DEF RecoverHandoff
  <2>2. QED
    BY <1>1, <2>1 DEF IdleClient
<1>5. \A d \in Clients : d # c => client'[d] = client[d]
  BY <1>2, OthersRest DEF ClientProceeds
<1>6. jobs'[p].status = "queued" /\ jobs'[p].stage = "queued"
  <2>1. jobs'[p] = Requeued(p, Snapshot(jobs[p])) /\ jobs[p] \in JobRecords
    BY <1>2, <1>3
  <2>2. QED
    BY <2>1 DEF Requeued, Snapshot, JobRecords
<1>7. \A k \in JobIds : k # p => jobs'[k] = jobs[k]
  BY <1>2
<1>8. ~InHand(p)' /\ \A d \in Clients : d # c /\ client'[d].phase = "publishing" => client'[d].job # p
  BY <1>2, <1>3, <1>5 DEF Untaken, InHand, Busy, Task
<1>9. PublishedWaits(c)' /\ ScannedIsLost(c)'
  BY <1>4, <1>6, <1>8 DEF PublishedWaits, ScannedIsLost
<1>10. QED
  BY <1>2, <1>3, <1>4, <1>5, <1>7, <1>9, ClientKeepsHands

\* A lost attempt is failed.
LEMMA FailStaleKeepsHands ==
    ASSUME TimelyWork, Inv, NEW c \in Clients, FailStale(c)
    PROVE  HandsInv'
<1>1. /\ TypeInv /\ client \in [Clients -> ClientRecords] /\ client[c].job \in JobIds
      /\ jobs \in [JobIds -> JobRecords] /\ UNCHANGED <<queue, worker>>
      /\ client[c].phase = "scanned"
  BY DEF Inv, TypeInv, TypeOK, FailStale, ClientsHoldJobs
<1>2. client'[c].phase = "idle" /\ \A d \in Clients : d # c => client'[d] = client[d]
  BY <1>1 DEF FailStale, Finish, IdleClient
<1>3. Untaken(c, client[c].job)
  BY <1>1, ScannedIsUntaken
<1>4. \A k \in JobIds : k # client[c].job => jobs'[k] = jobs[k]
  BY <1>1 DEF FailStale
<1>5. PublishedWaits(c)' /\ ScannedIsLost(c)'
  BY <1>2 DEF PublishedWaits, ScannedIsLost
<1>6. QED
  BY <1>1, <1>2, <1>3, <1>4, <1>5, ClientKeepsHands

\* All steps of clients.
LEMMA ClientsKeepHands ==
    ASSUME TimelyWork, Inv, NEW c \in Clients,
           ClientBegins(c) \/ ClientProceeds(c) \/ ClientDies(c)
    PROVE  HandsInv'
<1>1. CASE CreateConflicts(c) \/ RecoveryConflicts(c) \/ ClientDies(c)
  <2>1. /\ client \in [Clients -> ClientRecords] /\ Finish(c) /\ UNCHANGED <<jobs, queue, worker>>
    BY <1>1 DEF Inv, TypeInv, TypeOK, CreateConflicts, RecoveryConflicts, ClientDies
  <2>2. client'[c].phase = "idle" /\ \A d \in Clients : d # c => client'[d] = client[d]
    BY <2>1 DEF Finish, IdleClient
  <2>3. QED
    BY <2>1, <2>2, QuietKeepsHands
<1>2. ~Cancel(c)
  BY DEF Inv, HandsInv, NoneCancels, Cancel
<1>3. QED
  BY <1>1, <1>2, BeginningsKeepHands, CreateKeepsHands, PublishKeepsHands, PublishFailsKeepsHands,
     RecoveryKeepsHands, FailStaleKeepsHands
  DEF ClientProceeds

\* The invariant is inductive: types, rows, uniqueness and hands together.
LEMMA HandsStep == TimelyWork /\ Inv /\ [Next]_vars => Inv'
<1> SUFFICES ASSUME TimelyWork, Inv, [Next]_vars PROVE Inv'
  OBVIOUS
<1>1. TypeInv' /\ RowsInv'
  BY TypeStep, RowsStep DEF Inv
<1>2. OneActiveAttempt'
  BY TurnStep DEF Inv, TakesTurn
<1>3. CASE UNCHANGED vars
  <2>1. UNCHANGED <<jobs, queue, worker, client>>
    BY <1>3 DEF vars
  <2>2. HandsInv
    BY DEF Inv
  <2>3. \A j : InHand(j)' <=> InHand(j)
    BY <2>1 DEF InHand, Busy, Task
  <2>4. \A j : Published(j)' <=> Published(j)
    BY <2>1 DEF Published
  <2>5. OneMessage' /\ TasksQueued' /\ NextIsOne' /\ TasksApart' /\ TasksAreActive'
    BY <2>1, <2>2 DEF HandsInv, OneMessage, TasksQueued, NextIsOne, TasksApart, TasksAreActive, Busy, Task, Active
  <2>6. (\A c \in Clients : PublishedWaits(c))'
    BY <2>1, <2>2, <2>3 DEF HandsInv, PublishedWaits
  <2>7. (\A c \in Clients : ScannedIsLost(c))'
    BY <2>1, <2>2, <2>3, <2>4 DEF HandsInv, ScannedIsLost, Active, Snapshot
  <2>8. NoneCancels' /\ BacklogWaits'
    BY <2>1, <2>2, <2>3, <2>4 DEF HandsInv, NoneCancels, BacklogWaits
  <2>9. HandsInv'
    BY <2>5, <2>6, <2>7, <2>8 DEF HandsInv
  <2>10. QED
    BY <1>1, <1>2, <2>9 DEF Inv
<1>4. ASSUME Next
      PROVE  HandsInv'
  BY <1>4, ClientsKeepHands, TakesKeepHands, TasksKeepHands DEF Next
<1>5. QED
  BY <1>1, <1>2, <1>3, <1>4 DEF Inv

\* It holds initially.
LEMMA InitiallyTidy == Init => Inv
<1> SUFFICES ASSUME Init PROVE Inv
  OBVIOUS
<1>1. TypeInv
  BY IdleTypes DEF Init, TypeInv, TypeOK, ClientsHoldJobs, IdleClient, VideoRecords, VideoStatuses
<1>2. RowsInv
  BY DEF Init, RowsInv, RowsInHand, InsertedInOrder, ClientHasRow, WorkerHasRow, Busy, NoJob,
         IdleClient, IdleWorker
<1>3. HandsInv
  BY DEF Init, HandsInv, OneMessage, TasksQueued, NextIsOne, TasksApart, TasksAreActive,
         PublishedWaits, ScannedIsLost, NoneCancels, BacklogWaits, InHand, Published, Busy,
         IdleClient, IdleWorker
<1>4. QED
  BY <1>1, <1>2, <1>3, InitiallyNoneActive DEF Inv

-----------------------------------------------------------------------------
(***************************************************************************)
(* What a step makes of the rows.                                          *)
(***************************************************************************)
FailedDownloads == {j \in JobIds : jobs[j].status = "failed" /\ jobs[j].stage = "download"}

\* The row stays as it is in what matters, or is worked on, or is deleted.
RowGoesOn(j) ==
    \/ /\ jobs'[j].status = jobs[j].status
       /\ jobs'[j].stage = jobs[j].stage
       /\ jobs'[j].recovery = jobs[j].recovery
    \/ (j \in Active \/ jobs[j].status = "none") /\ jobs'[j].status # "failed"
    \/ jobs[j].status = "failed" /\ jobs'[j].status = "deleted"

\* The row alone is failed, and sent to a person if it is one failed download too many.
RowFails(j) ==
    /\ j \in Active /\ jobs'[j].status = "failed"
    /\ jobs'[j].stage = "download" /\ jobs'[j].recovery # "manual_review"
       => 1 + Cardinality(FailedDownloads) < ReviewAfter
    /\ \A k \in JobIds \ {j} : jobs'[k] = jobs[k]

RowsGoOn == (\A j \in JobIds : RowGoesOn(j)) \/ (\E j \in JobIds : RowFails(j))

\* A failure that is recorded for an active attempt counts the other failed downloads.
LEMMA FailureIsCounted ==
    ASSUME TypeOK, NEW j \in Active, NEW seen, NEW stage, NEW kind,
           seen.stage = jobs[j].stage,
           jobs' = [jobs EXCEPT ![j] = RecordFailure(j, seen, stage, kind)]
    PROVE  RowFails(j)
<1>1. jobs \in [JobIds -> JobRecords] /\ j \in JobIds /\ j \notin FailedDownloads
  BY DEF TypeOK, Active, ActiveStatuses, FailedDownloads
<1>2. jobs'[j] = RecordFailure(j, seen, stage, kind) /\ \A k \in JobIds \ {j} : jobs'[k] = jobs[k]
  BY <1>1
<1>3. /\ jobs'[j].status = "failed" /\ jobs'[j].stage = stage
      /\ jobs'[j].recovery # "manual_review" => ~(FailureCount(j, stage, <<stage, kind>>) >= ReviewAfter)
  BY <1>1, <1>2 DEF RecordFailure, JobRecords
<1>4. ASSUME stage = "download", jobs'[j].recovery # "manual_review"
      PROVE  1 + Cardinality(FailedDownloads) < ReviewAfter
  <2>1. {k \in JobIds \ {j} : /\ jobs[k].status = "failed"
                              /\ IF stage = "download" THEN jobs[k].stage = "download"
                                 ELSE jobs[k].signature = <<stage, kind>>} = FailedDownloads
    BY <1>1, <1>4 DEF FailedDownloads
  <2>2. FailureCount(j, stage, <<stage, kind>>) = 1 + Cardinality(FailedDownloads)
    BY <2>1 DEF FailureCount
  <2>3. Cardinality(FailedDownloads) \in Nat
    <3>1. IsFiniteSet(JobIds) /\ FailedDownloads \subseteq JobIds
      BY FS_Interval, ConstantsAssumption DEF JobIds, FailedDownloads
    <3>2. QED
      BY <3>1, FS_Subset, FS_CardinalityType
  <2>4. QED
    BY <1>3, <1>4, <2>2, <2>3, ConstantsAssumption
<1>5. QED
  BY <1>2, <1>3, <1>4 DEF RowFails

\* What a client makes of the rows.
LEMMA ClientRowsGoOn ==
    ASSUME TimelyWork, Inv, NEW c \in Clients,
           ClientBegins(c) \/ ClientProceeds(c) \/ ClientDies(c)
    PROVE  RowsGoOn
<1>1. /\ TypeOK /\ jobs \in [JobIds -> JobRecords] /\ HandsInv
      /\ \A d \in Clients : client[d].phase \in {"publishing", "scanned"} => client[d].job \in JobIds
  BY DEF Inv, TypeInv, TypeOK, ClientsHoldJobs
<1>2. ASSUME UNCHANGED jobs
      PROVE  RowsGoOn
  BY <1>2 DEF RowsGoOn, RowGoesOn
<1>3. ASSUME NEW j \in JobIds, NEW row, jobs' = [jobs EXCEPT ![j] = row],
             \/ jobs[j].status \in ActiveStatuses /\ row.status # "failed"
             \/ jobs[j].status = "failed" /\ row.status = "deleted"
      PROVE  RowsGoOn
  BY <1>1, <1>3 DEF RowsGoOn, RowGoesOn, Active
<1>4. ASSUME NEW j \in JobIds, Promote(c, j)
      PROVE  RowsGoOn
  <2>1. jobs' = [jobs EXCEPT ![j] = SetJobState(jobs[j], "queued", "queued")]
    BY <1>4 DEF Promote
  <2>2. SetJobState(jobs[j], "queued", "queued").status = "queued"
    BY <1>1, SetJobStateKeeps
  <2>3. QED
    BY <1>3, <1>4, <2>1, <2>2 DEF Promote, ActiveStatuses
<1>5. ASSUME NEW j \in JobIds, ReapHidden(c, j)
      PROVE  RowsGoOn
  <2>1. jobs' = [jobs EXCEPT ![j] = [NoJob EXCEPT !.status = "deleted"]] /\ jobs[j].status = "failed"
    BY <1>5 DEF ReapHidden
  <2>2. [NoJob EXCEPT !.status = "deleted"].status = "deleted"
    BY DEF NoJob
  <2>3. QED
    BY <1>3, <2>1, <2>2
<1>6. ASSUME NEW new \in JobIds, Create(c, new)
      PROVE  RowsGoOn
  <2>1. jobs[new].status = "none"
    BY <1>6 DEF Create, IsNextId
  <2>2. jobs'[new] = [NoJob EXCEPT !.status = StatusCreated(client[c].role),
                                   !.number = client[c].number,
                                   !.batched = InBatch(client[c].role)]
    BY <1>6 DEF Create
  <2>3. jobs'[new].status # "failed"
    BY <2>2 DEF StatusCreated, NoJob
  <2>4. ASSUME NEW j \in JobIds, j # new
        PROVE  RowGoesOn(j)
    <3>1. jobs'[j] = jobs[j] \/ jobs'[j] = [jobs[j] EXCEPT !.hiddenBy = new]
      BY <1>6, <2>4 DEF Create
    <3>2. jobs[j] \in JobRecords
      BY <1>1
    <3>3. QED
      BY <3>1, <3>2 DEF RowGoesOn, JobRecords
  <2>5. QED
    BY <2>1, <2>3, <2>4 DEF RowsGoOn, RowGoesOn
<1>7. ASSUME PublishFails(c)
      PROVE  RowsGoOn
  <2> DEFINE p == client[c].job
             failed == SetJobState(jobs[p], "failed", "queued")
  <2>1. /\ p \in JobIds /\ jobs[p].status = "queued" /\ jobs[p].stage = "queued"
        /\ \/ jobs' = [jobs EXCEPT ![p] = [failed EXCEPT !.stage = jobs[p].stage]]
           \/ jobs' = [jobs EXCEPT ![p] = failed]
    BY <1>1, <1>7 DEF PublishFails, HandsInv, PublishedWaits
  <2>2. failed \in JobRecords /\ failed.status = "failed" /\ failed.stage = "queued"
    <3>1. jobs[p] \in JobRecords /\ "failed" \in TerminalStatuses /\ "queued" \in JobStages
      BY <1>1, <2>1 DEF TerminalStatuses, JobStages
    <3>2. failed \in JobRecords /\ failed.status = "failed"
      BY <3>1, SetJobStateType
    <3>3. failed.stage = ResolvedStage(jobs[p].stage, "failed", "queued")
      BY <3>1, SetJobStateKeeps
    <3>4. QED
      BY <3>2, <3>3 DEF ResolvedStage
  <2>3. jobs'[p].status = "failed" /\ jobs'[p].stage = "queued" /\ \A k \in JobIds \ {p} : jobs'[k] = jobs[k]
    <3> HIDE DEF failed
    <3>1. [failed EXCEPT !.stage = jobs[p].stage].status = "failed"
      BY <2>1, <2>2 DEF JobRecords
    <3>2. [failed EXCEPT !.stage = jobs[p].stage].stage = "queued"
      BY <2>1, <2>2 DEF JobRecords
    <3>3. QED
      BY <1>1, <2>1, <2>2, <3>1, <3>2
  <2>4. RowFails(p)
    BY <2>1, <2>3 DEF RowFails, Active, ActiveStatuses
  <2>5. QED
    BY <2>1, <2>4 DEF RowsGoOn
<1>8. ASSUME RecoverHandoff(c)
      PROVE  RowsGoOn
  <2>1. /\ client[c].phase = "scanned" /\ client[c].job \in Active /\ client[c].job \in JobIds
        /\ client[c].seen = Snapshot(jobs[client[c].job])
        /\ jobs' = [jobs EXCEPT ![client[c].job] = Requeued(client[c].job, client[c].seen)]
    BY <1>1, <1>8, ScannedIsUntaken DEF RecoverHandoff
  <2>2. Requeued(client[c].job, client[c].seen).status # "failed"
    BY <1>1, <2>1, WritesKeepNumbers DEF Active, ActiveStatuses
  <2>3. QED
    BY <1>3, <2>1, <2>2 DEF Active
<1>9. ASSUME FailStale(c)
      PROVE  RowsGoOn
  <2>1. /\ client[c].phase = "scanned" /\ client[c].job \in Active /\ client[c].job \in JobIds
        /\ client[c].seen = Snapshot(jobs[client[c].job])
        /\ jobs' = [jobs EXCEPT ![client[c].job] =
                        RecordFailure(client[c].job, client[c].seen, client[c].seen.stage, "stale")]
    BY <1>1, <1>9, ScannedIsUntaken DEF FailStale
  <2>2. client[c].seen.stage = jobs[client[c].job].stage
    BY <2>1 DEF Snapshot
  <2>3. QED
    BY <1>1, <2>1, <2>2, FailureIsCounted DEF RowsGoOn
<1>10. \A j \in JobIds : ~CancelRequest(c, j)
  BY DEF TimelyWork, CancelRequest, MayRun
<1>11. ~Cancel(c)
  BY <1>1 DEF HandsInv, NoneCancels, Cancel
<1>12. CASE \/ Submit(c) \/ SubmitFindsActive(c) \/ ProcessChannelVideo(c)
            \/ \E j \in JobIds : RetryJob(c, j) \/ AutoRetry(c, j) \/ ReapScan(c, j)
            \/ ReconcileVideo(c) \/ CompressStale(c)
            \/ CreateConflicts(c) \/ Publish(c) \/ RecoveryConflicts(c) \/ ClientDies(c)
  <2>1. UNCHANGED jobs
    BY <1>12 DEF Submit, SubmitFindsActive, ProcessChannelVideo, RetryJob, AutoRetry, Allocate, ReapScan,
        ReconcileVideo, CompressStale, CreateConflicts, Publish, RecoveryConflicts, ClientDies
  <2>2. QED
    BY <1>2, <2>1
<1>13. QED
  BY <1>4, <1>5, <1>6, <1>7, <1>8, <1>9, <1>10, <1>11, <1>12 DEF ClientBegins, ClientProceeds

\* The settled row of a task that releases the next attempt is written once more.
RowReopens(w) ==
    /\ ReleaseMayFail(w)
    /\ jobs'[Task(w).job].status = "failed" => jobs'[Task(w).job].stage = "embed"
    /\ \A k \in JobIds \ {Task(w).job} : jobs'[k] = jobs[k]

\* What a worker makes of the rows.
LEMMA WorkerRowsGoOn ==
    ASSUME Inv, NEW w \in Workers,
           WorkerTakes(w) \/ WorkerProceeds(w) \/ WorkerDies(w) \/ DiesUnacknowledged(w)
    PROVE  RowsGoOn \/ RowReopens(w)
<1>1. TypeOK /\ jobs \in [JobIds -> JobRecords]
  BY DEF Inv, TypeInv, TypeOK
<1>2. CASE FailTask(w)
  <2>1. worker[w].phase = "working" /\ Task(w).job \in Active /\ Task(w).job \in JobIds
    BY <1>2, WorkIsAlone DEF FailTask
  <2>2. PICK kind \in FailureKinds : jobs' = [jobs EXCEPT ![Task(w).job] =
              RecordFailure(Task(w).job, jobs[Task(w).job], Task(w).stage, kind)]
    BY <1>2 DEF FailTask
  <2>3. QED
    BY <1>1, <2>1, <2>2, FailureIsCounted DEF RowsGoOn
<1>3. CASE WorkerTakes(w)
  <2>1. UNCHANGED jobs
    BY <1>3 DEF WorkerTakes, SkipStage, IgnoreTask, PassGate
  <2>2. QED
    BY <2>1 DEF RowsGoOn, RowGoesOn
<1>4. CASE Reopen(w)
  <2>1. jobs' = [jobs EXCEPT ![Task(w).job] = Running(w)] /\ ReleaseMayFail(w)
    BY <1>4 DEF Reopen, WriteJob
  <2>2. Task(w).job \in JobIds /\ Running(w).status = "running"
    BY <1>1, TaskRows, TaskStatuses
  <2>3. QED
    BY <1>1, <2>1, <2>2 DEF RowReopens
<1>5. CASE FailReleased(w)
  <2>1. PICK kind \in FailureKinds : jobs' = [jobs EXCEPT ![Task(w).job] =
              RecordFailure(Task(w).job, jobs[Task(w).job], "embed", kind)]
    BY <1>5 DEF FailReleased
  <2>2. ReleaseMayFail(w) /\ Task(w).job \in JobIds
    BY <1>1, <1>5, TaskRows DEF FailReleased
  <2>3. RecordFailure(Task(w).job, jobs[Task(w).job], "embed", kind).stage = "embed"
    BY <1>1, <2>2 DEF RecordFailure, JobRecords
  <2>4. QED
    BY <1>1, <2>1, <2>2, <2>3 DEF RowReopens
<1>6. CASE /\ WorkerProceeds(w) \/ WorkerDies(w) \/ DiesUnacknowledged(w)
           /\ ~FailTask(w) /\ ~Reopen(w) /\ ~FailReleased(w)
  <2>1. \A j \in JobIds : jobs'[j] = jobs[j] \/ j = Task(w).job
    BY <1>6, TaskWritesOwn
  <2>2. worker[w].phase \in {"gated", "working"} => Task(w).job \in Active
    BY WorkIsAlone
  <2>3. \/ UNCHANGED jobs
        \/ /\ worker[w].phase \in {"gated", "working"}
           /\ \E row : row.status # "failed" /\ jobs' = [jobs EXCEPT ![Task(w).job] = row]
    <3>1. worker[w].phase \in {"gated", "working"} =>
             /\ Started(w).status # "failed" /\ Running(w).status # "failed" /\ Done(w).status # "failed"
      BY <1>1, WorkIsAlone, TaskStatuses, TaskRows DEF Stages
    <3>2. CASE Start(w) \/ Report(w) \/ Succeed(w) \/ RetryTask(w)
      BY <3>1, <3>2 DEF Start, Report, Succeed, RetryTask, WriteJob
    <3>3. CASE StartConflicts(w) \/ Abort(w) \/ Hand(w) \/ WorkerDies(w) \/ DiesUnacknowledged(w)
      BY <3>3 DEF StartConflicts, Abort, Hand, WorkerDies, DiesUnacknowledged
    <3>4. QED
      BY <1>6, <3>2, <3>3 DEF WorkerProceeds
  <2>4. CASE UNCHANGED jobs
    BY <2>4 DEF RowsGoOn, RowGoesOn
  <2>5. CASE worker[w].phase \in {"gated", "working"} /\ jobs' # jobs
    <3>1. Task(w).job \in Active /\ jobs'[Task(w).job].status # "failed"
      BY <1>1, <2>2, <2>3, <2>5 DEF Active
    <3>2. \A j \in JobIds : RowGoesOn(j)
      BY <2>1, <3>1 DEF RowGoesOn
    <3>3. QED
      BY <3>2 DEF RowsGoOn
  <2>6. QED
    BY <2>3, <2>4, <2>5
<1>7. QED
  BY <1>2, <1>3, <1>4, <1>5, <1>6

\* What any step makes of the rows.
LEMMA StepRowsGoOn ==
    TimelyWork /\ Inv /\ [Next]_vars => RowsGoOn \/ \E w \in Workers : RowReopens(w)
<1> SUFFICES ASSUME TimelyWork, Inv, [Next]_vars
             PROVE  RowsGoOn \/ \E w \in Workers : RowReopens(w)
  OBVIOUS
<1>1. CASE UNCHANGED vars
  BY <1>1 DEF vars, RowsGoOn, RowGoesOn
<1>2. CASE Next
  BY <1>2, ClientRowsGoOn, WorkerRowsGoOn DEF Next
<1>3. QED
  BY <1>1, <1>2

\* A task that releases the next attempt of its batch has completed its own.
ReleasedIsDone(w) ==
    worker[w].phase = "handing" /\ Task(w).stage = "embed" /\ worker[w].next = {}
    => jobs[Task(w).job].status = "completed"

ReleaseInv == \A w \in Workers : ReleasedIsDone(w)

\* Nobody else writes the row of that task.
LEMMA OthersStayReleased ==
    ASSUME Inv, NEW v \in Workers, ReleasedIsDone(v), worker'[v] = worker[v],
           Busy(v) => jobs'[Task(v).job] = jobs[Task(v).job]
    PROVE  ReleasedIsDone(v)'
BY DEF ReleasedIsDone, Task, Busy

\* A task that hands over has completed its attempt or has a message to publish.
LEMMA WorkersRelease ==
    ASSUME Inv, NEW w \in Workers, ReleasedIsDone(w),
           WorkerTakes(w) \/ WorkerProceeds(w) \/ WorkerDies(w) \/ DiesUnacknowledged(w)
    PROVE  ReleasedIsDone(w)'
<1>1. /\ worker \in [Workers -> WorkerRecords] /\ jobs \in [JobIds -> JobRecords] /\ TypeOK
      /\ IdleWorker.phase = "idle" /\ Task(w).job \in JobIds /\ Task(w).stage \in Stages
  BY TaskRows DEF Inv, TypeInv, TypeOK, IdleWorker
<1>2. ASSUME NEW r, worker' = [worker EXCEPT ![w] = r], r.phase # "handing" \/ r.next # {}
      PROVE  ReleasedIsDone(w)'
  BY <1>1, <1>2 DEF ReleasedIsDone
<1>3. ASSUME NEW messages, HandOver(w, messages)
      PROVE  worker'[w].task = Task(w) /\ worker'[w].next = messages
  <2>1. worker'[w] = [IdleWorker EXCEPT !.phase = "handing", !.task = Task(w), !.next = messages]
    BY <1>1, <1>3 DEF HandOver
  <2>2. QED
    BY <2>1 DEF IdleWorker
<1>4. CASE WorkerTakes(w)
  <2>1. PICK m \in queue : SkipStage(w, m) \/ IgnoreTask(w, m) \/ PassGate(w, m)
    BY <1>4 DEF WorkerTakes
  <2>2. CASE SkipStage(w, m)
    <3>1. worker'[w].task = m /\ m.stage = "cleanup"
      BY <1>1, <2>2 DEF SkipStage, SkippedStages, IdleWorker
    <3>2. QED
      BY <3>1 DEF ReleasedIsDone, Task
  <2>3. CASE IgnoreTask(w, m)
    BY <2>3 DEF IgnoreTask, ReleasedIsDone, Task
  <2>4. CASE PassGate(w, m)
    <3>1. worker'[w].phase = "gated"
      BY <1>1, <2>4 DEF PassGate, IdleWorker
    <3>2. QED
      BY <3>1 DEF ReleasedIsDone
  <2>5. QED
    BY <2>1, <2>2, <2>3, <2>4
<1>5. CASE Start(w)
  <2>1. worker'[w].phase = "working"
    BY <1>1, <1>5 DEF Start, IdleWorker
  <2>2. QED
    BY <2>1 DEF ReleasedIsDone
<1>6. CASE Report(w)
  BY <1>6 DEF Report, ReleasedIsDone
<1>7. CASE Succeed(w)
  <2>1. Task(w)' = Task(w) /\ jobs' = [jobs EXCEPT ![Task(w).job] = Done(w)]
    BY <1>3, <1>7 DEF Succeed, WriteJob, Task
  <2>2. worker'[w].next = NextMessages(Task(w))
    BY <1>3, <1>7 DEF Succeed
  <2>3. CASE Task(w).stage = "embed"
    <3>1. Done(w).status = "completed"
      BY <1>1, <2>3, TaskStatuses
    <3>2. QED
      BY <1>1, <2>1, <3>1 DEF ReleasedIsDone
  <2>4. CASE Task(w).stage # "embed"
    BY <2>1, <2>4 DEF ReleasedIsDone
  <2>5. QED
    BY <2>3, <2>4
<1>8. CASE RetryTask(w) \/ Reopen(w)
  <2>1. worker'[w].next = {Again(Task(w))}
    BY <1>3, <1>8 DEF RetryTask, Reopen
  <2>2. QED
    BY <2>1 DEF ReleasedIsDone
<1>9. CASE Rest(w)
  BY <1>1, <1>2, <1>9 DEF Rest
<1>10. QED
  BY <1>4, <1>5, <1>6, <1>7, <1>8, <1>9
  DEF WorkerProceeds, WorkerDies, DiesUnacknowledged, StartConflicts, FailTask, Abort, FailReleased,
      Hand, Drop

\* The invariant of the releases is inductive.
LEMMA ReleaseStep == TimelyWork /\ Inv /\ ReleaseInv /\ [Next]_vars => ReleaseInv'
<1> SUFFICES ASSUME TimelyWork, Inv, ReleaseInv, [Next]_vars, NEW v \in Workers
             PROVE  ReleasedIsDone(v)'
  BY DEF ReleaseInv
<1>1. ReleasedIsDone(v) /\ Task(v).job \in JobIds
  BY TaskRows DEF ReleaseInv, Inv, TypeInv
<1>2. CASE UNCHANGED vars
  BY <1>1, <1>2 DEF vars, ReleasedIsDone, Task
<1>3. ASSUME NEW c \in Clients, ClientBegins(c) \/ ClientProceeds(c) \/ ClientDies(c)
      PROVE  ReleasedIsDone(v)'
  <2>1. RowsGoOn
    BY <1>3, ClientRowsGoOn
  <2>2. UNCHANGED worker
    BY <1>3 DEF ClientBegins, ClientProceeds, ClientDies, Submit, SubmitFindsActive,
       ProcessChannelVideo, RetryJob, AutoRetry, CancelRequest, Promote, ReapScan, ReapHidden,
       ReconcileVideo, CompressStale, Allocate, Create, CreateConflicts, Publish, PublishFails,
       Cancel, RecoverHandoff, RecoveryConflicts, FailStale
  <2>3. jobs[Task(v).job].status = "completed" => jobs'[Task(v).job].status = "completed"
    BY <1>1, <2>1 DEF RowsGoOn, RowGoesOn, RowFails, Active, ActiveStatuses
  <2>4. QED
    BY <1>1, <2>2, <2>3 DEF ReleasedIsDone, Task
<1>4. ASSUME NEW w \in Workers,
             WorkerTakes(w) \/ WorkerProceeds(w) \/ WorkerDies(w) \/ DiesUnacknowledged(w)
      PROVE  ReleasedIsDone(v)'
  <2>1. CASE v = w
    BY <1>1, <1>4, <2>1, WorkersRelease
  <2>2. CASE v # w
    <3>1. worker'[v] = worker[v]
      BY <1>4, <2>2, OthersWork DEF Inv
    <3>2. ASSUME Busy(v)
          PROVE  jobs'[Task(v).job] = jobs[Task(v).job]
      <4>1. CASE WorkerTakes(w)
        BY <4>1 DEF WorkerTakes, SkipStage, IgnoreTask, PassGate
      <4>2. CASE WorkerProceeds(w) \/ WorkerDies(w) \/ DiesUnacknowledged(w)
        <5>1. Busy(w) /\ \A j \in JobIds : jobs'[j] = jobs[j] \/ j = Task(w).job
          BY <4>2, TaskGoesOn, TaskWritesOwn
        <5>2. Task(v).job # Task(w).job
          BY <2>2, <3>2, <5>1 DEF Inv, HandsInv, TasksApart
        <5>3. QED
          BY <1>1, <5>1, <5>2
      <4>3. QED
        BY <1>4, <4>1, <4>2
    <3>3. QED
      BY <1>1, <3>1, <3>2, OthersStayReleased
  <2>3. QED
    BY <2>1, <2>2
<1>5. QED
  BY <1>2, <1>3, <1>4 DEF Next

\* A settled attempt keeps its outcome until it is deleted: no retry, recovery, late
\* publication or worker that goes on brings it back.  The one exception is that of the
\* property: the task that completed it releases the next attempt of its batch, and the
\* commit of a task id is refused.
THEOREM OutcomesAreFinal ==
    ASSUME TimelyWork
    PROVE  Spec => SettledIsFinal
<1> DEFINE Final ==
      \A j \in JobIds : jobs[j].status \in TerminalStatuses =>
          \/ jobs'[j].status \in {jobs[j].status, "deleted"}
          \/ /\ jobs[j].status = "completed"
             /\ \E w \in Workers : ReleaseMayFail(w) /\ Task(w).job = j
<1>1. ASSUME RowsGoOn
      PROVE  Final
  BY <1>1 DEF RowsGoOn, RowGoesOn, RowFails, Active, ActiveStatuses, TerminalStatuses
<1>2. ASSUME Inv, ReleaseInv, NEW w \in Workers, RowReopens(w)
      PROVE  Final
  <2>1. jobs[Task(w).job].status = "completed" /\ ReleaseMayFail(w)
    BY <1>2 DEF ReleaseInv, ReleasedIsDone, RowReopens, ReleaseMayFail, Releasing
  <2>2. \A j \in JobIds \ {Task(w).job} : jobs'[j] = jobs[j]
    BY <1>2 DEF RowReopens
  <2>3. QED
    BY <2>1, <2>2
<1>3. Inv /\ ReleaseInv /\ [Next]_vars => [Final]_vars
  BY <1>1, <1>2, StepRowsGoOn
<1>4. Inv /\ ReleaseInv /\ [Next]_vars => Inv' /\ ReleaseInv'
  BY HandsStep, ReleaseStep
<1>5. Init => ReleaseInv
  BY DEF Init, ReleaseInv, ReleasedIsDone, IdleWorker
<1>6. QED
  BY <1>3, <1>4, <1>5, InitiallyTidy, PTL DEF Spec, SettledIsFinal

-----------------------------------------------------------------------------
(***************************************************************************)
(* Failed downloads without a review stay below the number that calls for  *)
(* one, so that no deletion of others can leave only such.                 *)
(***************************************************************************)
Unreviewed == {j \in FailedDownloads : jobs[j].recovery # "manual_review"}

UnreviewedAreFew == Cardinality(Unreviewed) < ReviewAfter

\* The failures that are counted are finitely many.
LEMMA DownloadsAreFinite ==
    /\ IsFiniteSet(FailedDownloads) /\ IsFiniteSet(Unreviewed)
    /\ Cardinality(FailedDownloads) \in Nat /\ Cardinality(Unreviewed) \in Nat
<1>1. IsFiniteSet(JobIds) /\ FailedDownloads \subseteq JobIds /\ Unreviewed \subseteq JobIds
  BY FS_Interval, ConstantsAssumption DEF JobIds, FailedDownloads, Unreviewed
<1>2. QED
  BY <1>1, FS_Subset, FS_CardinalityType

\* A failure that is not sent to a person is one of fewer than call for it.
LEMMA ReviewStep == TimelyWork /\ Inv /\ UnreviewedAreFew /\ [Next]_vars => UnreviewedAreFew'
<1> SUFFICES ASSUME TimelyWork, Inv, UnreviewedAreFew, [Next]_vars PROVE UnreviewedAreFew'
  OBVIOUS
<1>1. PICK next : next = Unreviewed'
  OBVIOUS
<1>2. /\ IsFiniteSet(Unreviewed) /\ Cardinality(Unreviewed) \in Nat
      /\ IsFiniteSet(FailedDownloads) /\ Cardinality(FailedDownloads) \in Nat
  BY DownloadsAreFinite
<1>3. CASE \A j \in JobIds : RowGoesOn(j)
  <2>1. next \subseteq Unreviewed
    BY <1>1, <1>3 DEF Unreviewed, FailedDownloads, RowGoesOn
  <2>2. Cardinality(next) <= Cardinality(Unreviewed) /\ Cardinality(next) \in Nat
    BY <1>2, <2>1, FS_Subset, FS_CardinalityType
  <2>3. QED
    BY <1>1, <1>2, <2>2, ConstantsAssumption DEF UnreviewedAreFew
<1>4. ASSUME NEW j \in JobIds, RowFails(j)
      PROVE  UnreviewedAreFew'
  <2>1. \A k \in JobIds \ {j} : jobs'[k] = jobs[k]
    BY <1>4 DEF RowFails
  <2>2. CASE j \in next
    <3>1. 1 + Cardinality(FailedDownloads) < ReviewAfter
      BY <1>1, <1>4, <2>2 DEF RowFails, Unreviewed, FailedDownloads
    <3>2. next \subseteq FailedDownloads \cup {j}
      BY <1>1, <2>1 DEF Unreviewed, FailedDownloads
    <3>3. /\ IsFiniteSet(FailedDownloads \cup {j})
          /\ Cardinality(FailedDownloads \cup {j}) <= 1 + Cardinality(FailedDownloads)
          /\ Cardinality(FailedDownloads \cup {j}) \in Nat
      BY <1>2, FS_AddElement, FS_CardinalityType
    <3>4. Cardinality(next) <= Cardinality(FailedDownloads \cup {j}) /\ Cardinality(next) \in Nat
      BY <3>2, <3>3, FS_Subset, FS_CardinalityType
    <3>5. QED
      BY <1>1, <1>2, <3>1, <3>3, <3>4, ConstantsAssumption DEF UnreviewedAreFew
  <2>3. CASE j \notin next
    <3>1. next \subseteq Unreviewed
      BY <1>1, <2>1, <2>3 DEF Unreviewed, FailedDownloads
    <3>2. Cardinality(next) <= Cardinality(Unreviewed) /\ Cardinality(next) \in Nat
      BY <1>2, <3>1, FS_Subset, FS_CardinalityType
    <3>3. QED
      BY <1>1, <1>2, <3>2, ConstantsAssumption DEF UnreviewedAreFew
  <2>4. QED
    BY <2>2, <2>3
<1>5. ASSUME NEW w \in Workers, RowReopens(w)
      PROVE  UnreviewedAreFew'
  <2>1. next \subseteq Unreviewed
    BY <1>1, <1>5 DEF Unreviewed, FailedDownloads, RowReopens
  <2>2. Cardinality(next) <= Cardinality(Unreviewed) /\ Cardinality(next) \in Nat
    BY <1>2, <2>1, FS_Subset, FS_CardinalityType
  <2>3. QED
    BY <1>1, <1>2, <2>2, ConstantsAssumption DEF UnreviewedAreFew
<1>6. QED
  BY <1>3, <1>4, <1>5, StepRowsGoOn DEF RowsGoOn

\* When as many download failures are on record as call for a person, one of them does
\* call for a person: record_pipeline_failure counts hidden failures too, and no
\* deletion of failures hides the episode.
THEOREM ReviewIsNotMissed ==
    ASSUME TimelyWork
    PROVE  Spec => []ReviewIsReached
<1>1. Init => UnreviewedAreFew
  <2> SUFFICES ASSUME Init PROVE UnreviewedAreFew
    OBVIOUS
  <2>1. Unreviewed = {}
    BY DEF Init, Unreviewed, FailedDownloads, NoJob
  <2>2. QED
    BY <2>1, FS_EmptySet, ConstantsAssumption DEF UnreviewedAreFew
<1>2. Inv /\ UnreviewedAreFew /\ [Next]_vars => Inv' /\ UnreviewedAreFew'
  BY HandsStep, ReviewStep
<1>3. UnreviewedAreFew => ReviewIsReached
  <2> SUFFICES ASSUME UnreviewedAreFew, Cardinality(FailedDownloads) >= ReviewAfter
               PROVE  \E j \in FailedDownloads : jobs[j].recovery = "manual_review"
    BY DEF ReviewIsReached, FailedDownloads
  <2>1. Unreviewed # FailedDownloads
    BY DownloadsAreFinite, ConstantsAssumption DEF UnreviewedAreFew
  <2>2. QED
    BY <2>1 DEF Unreviewed
<1>4. QED
  BY <1>1, <1>2, <1>3, InitiallyTidy, PTL DEF Spec

-----------------------------------------------------------------------------
(***************************************************************************)
(* A video that is shown as failed has no active attempt.                  *)
(***************************************************************************)
\* A client that marks the video as failed has settled its attempt, or found none.
LEMMA ClientsFailIdle ==
    ASSUME TimelyWork, Inv, FailedMeansIdle, NEW c \in Clients,
           ClientBegins(c) \/ ClientProceeds(c) \/ ClientDies(c)
    PROVE  FailedMeansIdle'
<1>1. /\ TypeOK /\ jobs \in [JobIds -> JobRecords] /\ video \in VideoRecords /\ HandsInv
      /\ \A d \in Clients : client[d].phase \in {"publishing", "scanned"} => client[d].job \in JobIds
  BY DEF Inv, TypeInv, TypeOK, ClientsHoldJobs
<1>2. ASSUME Active' \subseteq Active, video'.status = "failed" => video.status = "failed" \/ Active = {}
      PROVE  FailedMeansIdle'
  BY <1>2 DEF FailedMeansIdle
<1>3. ASSUME UNCHANGED jobs
      PROVE  Active' = Active
  BY <1>3 DEF Active
<1>4. CASE \/ Submit(c) \/ ProcessChannelVideo(c)
           \/ \E j \in JobIds : RetryJob(c, j) \/ AutoRetry(c, j) \/ ReapScan(c, j)
           \/ Publish(c) \/ RecoveryConflicts(c) \/ ClientDies(c)
  <2>1. UNCHANGED <<jobs, video>>
    BY <1>4 DEF Submit, ProcessChannelVideo, RetryJob, AutoRetry, Allocate, ReapScan, Publish,
        RecoveryConflicts, ClientDies
  <2>2. QED
    BY <1>2, <1>3, <2>1
<1>5. CASE SubmitFindsActive(c) \/ ReconcileVideo(c) \/ CompressStale(c) \/ CreateConflicts(c)
  <2>1. UNCHANGED jobs
    BY <1>5 DEF SubmitFindsActive, ReconcileVideo, CompressStale, CreateConflicts
  <2>2. StatusOnCreate(client[c].role) # "failed"
    BY DEF StatusOnCreate
  <2>3. video'.status = "failed" => video.status = "failed" \/ Active = {}
    <3>1. CASE SubmitFindsActive(c) \/ ReconcileVideo(c) \/ CompressStale(c)
      BY <1>1, <3>1 DEF SubmitFindsActive, ReconcileVideo, CompressStale, VideoRecords
    <3>2. CASE CreateConflicts(c)
      <4>1. video' = video \/ video' = [video EXCEPT !.status = StatusOnCreate(client[c].role)]
        BY <3>2 DEF CreateConflicts
      <4>2. QED
        BY <1>1, <2>2, <4>1 DEF VideoRecords
    <3>3. QED
      BY <1>5, <3>1, <3>2
  <2>4. QED
    BY <1>2, <1>3, <2>1, <2>3
<1>6. ASSUME NEW new \in JobIds, Create(c, new)
      PROVE  FailedMeansIdle'
  <2>1. video' = [video EXCEPT !.status = StatusOnCreate(client[c].role)]
    BY <1>6 DEF Create
  <2>2. video'.status # "failed"
    BY <1>1, <2>1 DEF StatusOnCreate, VideoRecords
  <2>3. QED
    BY <2>2 DEF FailedMeansIdle
<1>7. ASSUME NEW j \in JobIds, Promote(c, j) \/ ReapHidden(c, j)
      PROVE  FailedMeansIdle'
  <2>1. \E row : /\ jobs' = [jobs EXCEPT ![j] = row]
                 /\ j \in Active \/ row.status = "deleted"
    <3>1. CASE Promote(c, j)
      BY <3>1 DEF Promote, Active, ActiveStatuses
    <3>2. CASE ReapHidden(c, j)
      <4>1. [NoJob EXCEPT !.status = "deleted"].status = "deleted"
        BY DEF NoJob
      <4>2. QED
        BY <3>2, <4>1 DEF ReapHidden
    <3>3. QED
      BY <1>7, <3>1, <3>2
  <2>2. Active' \subseteq Active
    BY <1>1, <2>1 DEF Active, ActiveStatuses
  <2>3. UNCHANGED video
    BY <1>7 DEF Promote, ReapHidden
  <2>4. QED
    BY <1>2, <2>2, <2>3
<1>8. ASSUME PublishFails(c)
      PROVE  FailedMeansIdle'
  <2>1. client[c].job \in Active
    BY <1>1, <1>8 DEF PublishFails, HandsInv, PublishedWaits, Active, ActiveStatuses
  <2>2. Active' \subseteq Active /\ UNCHANGED video
    BY <1>1, <1>8, <2>1 DEF PublishFails, Active
  <2>3. QED
    BY <1>2, <2>2
<1>9. ASSUME RecoverHandoff(c)
      PROVE  FailedMeansIdle'
  <2>1. video' = [video EXCEPT !.status = "pending"]
    BY <1>9 DEF RecoverHandoff
  <2>2. QED
    BY <1>1, <2>1 DEF FailedMeansIdle, VideoRecords
<1>10. ASSUME FailStale(c)
       PROVE  FailedMeansIdle'
  <2>1. client[c].phase = "scanned" /\ client[c].job \in Active /\ client[c].job \in JobIds
    BY <1>1, <1>10, ScannedIsUntaken DEF FailStale
  <2>2. \A k \in JobIds \ {client[c].job} : jobs'[k] = jobs[k]
    BY <1>1, <1>10, <2>1 DEF FailStale
  <2>3. jobs'[client[c].job].status = "failed"
    <3>1. jobs'[client[c].job] = RecordFailure(client[c].job, client[c].seen, client[c].seen.stage, "stale")
      BY <1>1, <1>10, <2>1 DEF FailStale
    <3>2. QED
      BY <1>1, <2>1, <3>1, WritesKeepNumbers
  <2>4. Active = {client[c].job}
    BY <2>1 DEF Inv, OneActiveAttempt
  <2>5. Active' = {}
    BY <2>2, <2>3, <2>4 DEF Active, ActiveStatuses
  <2>6. QED
    BY <2>5 DEF FailedMeansIdle
<1>11. (\A j \in JobIds : ~CancelRequest(c, j)) /\ ~Cancel(c)
  BY <1>1 DEF TimelyWork, CancelRequest, MayRun, HandsInv, NoneCancels, Cancel
<1>12. QED
  BY <1>4, <1>5, <1>6, <1>7, <1>8, <1>9, <1>10, <1>11 DEF ClientBegins, ClientProceeds

\* A task that marks it as failed had the active attempt.
LEMMA WorkersFailIdle ==
    ASSUME Inv, ~TaskIdErrors, FailedMeansIdle, NEW w \in Workers,
           WorkerTakes(w) \/ WorkerProceeds(w) \/ WorkerDies(w) \/ DiesUnacknowledged(w)
    PROVE  FailedMeansIdle'
<1>1. /\ TypeOK /\ jobs \in [JobIds -> JobRecords] /\ video \in VideoRecords
      /\ Task(w).stage \in Stages
  BY TaskRows DEF Inv, TypeInv, TypeOK
<1>2. CASE \/ WorkerTakes(w) \/ StartConflicts(w) \/ Report(w) \/ Abort(w) \/ Hand(w)
           \/ WorkerDies(w) \/ DiesUnacknowledged(w)
  <2>1. UNCHANGED video
    BY <1>2 DEF WorkerTakes, SkipStage, IgnoreTask, PassGate, StartConflicts, Report, Abort, Hand,
        WorkerDies, DiesUnacknowledged
  <2>2. UNCHANGED jobs \/ Report(w)
    BY <1>2 DEF WorkerTakes, SkipStage, IgnoreTask, PassGate, StartConflicts, Abort, Hand,
        WorkerDies, DiesUnacknowledged
  <2>3. Report(w) => video.status # "failed"
    BY WorkIsAlone DEF Report, FailedMeansIdle
  <2>4. QED
    BY <2>1, <2>2, <2>3 DEF FailedMeansIdle, Active
<1>3. CASE Start(w) \/ Succeed(w) \/ RetryTask(w)
  <2>1. video.status # "failed"
    BY <1>3, WorkIsAlone DEF Start, Succeed, RetryTask, FailedMeansIdle
  <2>2. video'.status # "failed"
    <3>1. CASE Start(w)
      <4>1. PICK status : /\ video' = [video EXCEPT !.status = status]
                          /\ \/ status = video.status
                             \/ \E shown : StartStatus(Task(w).stage, shown) # shown
                                          /\ status = StartStatus(Task(w).stage, shown)
        BY <3>1 DEF Start, Task
      <4>2. \A shown : StartStatus(Task(w).stage, shown) \in {shown, "downloading", "transcribing", "summarizing"}
        BY DEF StartStatus
      <4>3. status # "failed"
        BY <2>1, <4>1, <4>2
      <4>4. QED
        BY <1>1, <4>1, <4>3 DEF VideoRecords
    <3>2. CASE Succeed(w)
      BY <1>1, <2>1, <3>2 DEF Succeed, Product, VideoRecords
    <3>3. CASE RetryTask(w)
      BY <1>1, <2>1, <3>3 DEF RetryTask, WithoutOld, VideoRecords
    <3>4. QED
      BY <1>3, <3>1, <3>2, <3>3
  <2>3. QED
    BY <2>2 DEF FailedMeansIdle
<1>4. CASE FailTask(w)
  <2>1. worker[w].phase = "working" /\ Active = {Task(w).job} /\ Task(w).job \in JobIds
    BY <1>4, WorkIsAlone DEF FailTask
  <2>2. PICK kind \in FailureKinds : jobs' = [jobs EXCEPT ![Task(w).job] =
              RecordFailure(Task(w).job, jobs[Task(w).job], Task(w).stage, kind)]
    BY <1>4 DEF FailTask
  <2>3. jobs'[Task(w).job].status = "failed"
    BY <1>1, <2>1, <2>2, WritesKeepNumbers
  <2>4. Active' = {}
    BY <1>1, <2>1, <2>2, <2>3 DEF Active, ActiveStatuses
  <2>5. QED
    BY <2>4 DEF FailedMeansIdle
<1>5. ~Reopen(w) /\ ~FailReleased(w)
  BY DEF Reopen, FailReleased, ReleaseMayFail
<1>6. QED
  BY <1>2, <1>3, <1>4, <1>5 DEF WorkerProceeds

\* A video that is shown as failed, and so may be submitted again, has no attempt that is
\* still being worked on, as long as the ids of published tasks are stored.
THEOREM FailedIsIdle ==
    ASSUME TimelyWork, ~TaskIdErrors
    PROVE  Spec => []FailedMeansIdle
<1>1. Init => FailedMeansIdle
  BY InitiallyNoneActive DEF FailedMeansIdle
<1>2. Inv /\ FailedMeansIdle /\ [Next]_vars => FailedMeansIdle'
  <2> SUFFICES ASSUME Inv, FailedMeansIdle, [Next]_vars PROVE FailedMeansIdle'
    OBVIOUS
  <2>1. CASE UNCHANGED vars
    BY <2>1 DEF vars, FailedMeansIdle, Active
  <2>2. CASE Next
    BY <2>2, ClientsFailIdle, WorkersFailIdle DEF Next
  <2>3. QED
    BY <2>1, <2>2
<1>3. Inv /\ [Next]_vars => Inv'
  BY HandsStep
<1>4. QED
  BY <1>1, <1>2, <1>3, InitiallyTidy, PTL DEF Spec

-----------------------------------------------------------------------------
(***************************************************************************)
(* Embedding runs: the one that is working replaces the chunks there are.  *)
(***************************************************************************)
OneRunsChunks == \A a, b \in video.chunks : a = b

ReplacesAll(w) ==
    worker[w].phase = "working" /\ Task(w).stage = "embed" => video.chunks \subseteq worker[w].old

ChunksInv == OneRunsChunks /\ \A w \in Workers : ReplacesAll(w)

\* A step that adds no chunks, and starts no embedding run that overlooks some.
LEMMA ChunksOnlyGo ==
    ASSUME Inv, ChunksInv, NEW w \in Workers, \A v \in Workers : v # w => worker'[v] = worker[v],
           video'.chunks \subseteq video.chunks, ReplacesAll(w)'
    PROVE  ChunksInv'
<1>1. ASSUME NEW v \in Workers
      PROVE  ReplacesAll(v)'
  BY DEF ChunksInv, ReplacesAll, Task
<1>2. QED
  BY <1>1 DEF ChunksInv, OneRunsChunks

\* A task deletes the chunks it found when it started; nobody else has added any since.
LEMMA WorkersKeepChunks ==
    ASSUME Inv, ChunksInv, NEW w \in Workers,
           WorkerTakes(w) \/ WorkerProceeds(w) \/ WorkerDies(w) \/ DiesUnacknowledged(w)
    PROVE  ChunksInv'
<1>1. /\ TypeInv /\ video \in VideoRecords /\ worker \in [Workers -> WorkerRecords]
      /\ Task(w).stage \in Stages
      /\ \A v \in Workers : v # w => worker'[v] = worker[v]
  BY OthersWork, TaskRows DEF Inv, TypeInv, TypeOK
<1>2. ASSUME worker'[w].phase # "working", video'.chunks \subseteq video.chunks
      PROVE  ChunksInv'
  BY <1>1, <1>2, ChunksOnlyGo DEF ReplacesAll
<1>3. ASSUME NEW messages, HandOver(w, messages)
      PROVE  worker'[w].phase # "working"
  <2>1. worker'[w] = [IdleWorker EXCEPT !.phase = "handing", !.task = Task(w), !.next = messages]
    BY <1>1, <1>3 DEF HandOver
  <2>2. QED
    BY <2>1 DEF IdleWorker
<1>4. Rest(w) => worker'[w].phase # "working"
  BY <1>1 DEF Rest, IdleWorker
<1>5. WithoutOld(w).chunks \subseteq video.chunks
  BY <1>1 DEF WithoutOld, VideoRecords
<1>6. CASE WorkerTakes(w)
  <2>1. PICK m \in queue : SkipStage(w, m) \/ IgnoreTask(w, m) \/ PassGate(w, m)
    BY <1>6 DEF WorkerTakes
  <2>2. worker'[w].phase # "working"
    <3>1. CASE SkipStage(w, m)
      <4>1. worker'[w] = [IdleWorker EXCEPT !.phase = "handing", !.task = m, !.next = NextMessages(m)]
        BY <1>1, <3>1 DEF SkipStage
      <4>2. QED
        BY <4>1 DEF IdleWorker
    <3>2. CASE IgnoreTask(w, m)
      BY <3>2 DEF IgnoreTask, Delivered, Busy
    <3>3. CASE PassGate(w, m)
      <4>1. worker'[w] = [IdleWorker EXCEPT !.phase = "gated", !.task = m,
                                     !.seen = Snapshot(jobs[m.job]), !.shown = video.status]
        BY <1>1, <3>3 DEF PassGate
      <4>2. QED
        BY <4>1 DEF IdleWorker
    <3>4. QED
      BY <2>1, <3>1, <3>2, <3>3
  <2>3. UNCHANGED video
    BY <2>1 DEF SkipStage, IgnoreTask, PassGate
  <2>4. QED
    BY <1>2, <2>2, <2>3
<1>7. CASE Start(w)
  <2>1. \E status : video' = [video EXCEPT !.status = status]
    BY <1>7 DEF Start
  <2>2. video'.chunks = video.chunks
    BY <1>1, <2>1 DEF VideoRecords
  <2>3. worker'[w] = [IdleWorker EXCEPT !.phase = "working", !.task = worker[w].task,
                                       !.old = ChunksReplaced(worker[w].task.stage)]
    BY <1>1, <1>7 DEF Start
  <2>4. Task(w)' = Task(w) /\ worker'[w].old = ChunksReplaced(Task(w).stage)
    BY <2>3 DEF IdleWorker, Task
  <2>5. ReplacesAll(w)'
    BY <2>2, <2>4 DEF ReplacesAll, ChunksReplaced
  <2>6. QED
    BY <1>1, <2>2, <2>5, ChunksOnlyGo
<1>8. CASE Report(w)
  <2>1. UNCHANGED <<video, worker>>
    BY <1>8 DEF Report
  <2>2. QED
    BY <2>1 DEF ChunksInv, OneRunsChunks, ReplacesAll, Task
<1>9. CASE Succeed(w)
  <2>1. worker'[w].phase # "working" /\ video' = Product(w) /\ worker[w].phase = "working"
    BY <1>3, <1>9 DEF Succeed
  <2>2. CASE Task(w).stage = "embed"
    <3>1. video'.chunks = (video.chunks \ worker[w].old) \cup {w}
      BY <1>1, <2>1, <2>2 DEF Product, VideoRecords
    <3>2. video.chunks \subseteq worker[w].old
      BY <2>1, <2>2 DEF ChunksInv, ReplacesAll
    <3>3. ASSUME NEW v \in Workers
          PROVE  worker'[v].phase # "working"
      BY <1>1, <2>1, WorkIsAlone
    <3>4. QED
      BY <3>1, <3>2, <3>3 DEF ChunksInv, OneRunsChunks, ReplacesAll
  <2>3. CASE Task(w).stage # "embed"
    <3>1. Product(w).chunks = video.chunks
      BY <1>1, <2>3 DEF Product, VideoRecords, Stages
    <3>2. QED
      BY <1>2, <2>1, <3>1
  <2>4. QED
    BY <2>2, <2>3
<1>10. CASE RetryTask(w) \/ Reopen(w)
  <2>1. worker'[w].phase # "working"
    BY <1>3, <1>10 DEF RetryTask, Reopen
  <2>2. \E status : \/ video' = [WithoutOld(w) EXCEPT !.status = status]
                   \/ video' = [video EXCEPT !.status = status]
    BY <1>10 DEF RetryTask, Reopen
  <2>3. video'.chunks \subseteq video.chunks
    BY <1>1, <2>2 DEF WithoutOld, VideoRecords
  <2>4. QED
    BY <1>2, <2>1, <2>3
<1>11. CASE FailTask(w) \/ FailReleased(w)
  <2>1. worker'[w].phase # "working"
    BY <1>4, <1>11 DEF FailTask, FailReleased, Drop
  <2>2. \E transcript :
           \/ video' = [WithoutOld(w) EXCEPT !.status = "failed", !.transcript = transcript]
           \/ video' = [video EXCEPT !.status = "failed"]
    BY <1>11 DEF FailTask, FailReleased
  <2>3. video'.chunks \subseteq video.chunks
    BY <1>1, <2>2 DEF WithoutOld, VideoRecords
  <2>4. QED
    BY <1>2, <2>1, <2>3
<1>12. CASE StartConflicts(w) \/ Abort(w) \/ Hand(w) \/ WorkerDies(w) \/ DiesUnacknowledged(w)
  <2>1. worker'[w].phase # "working" /\ UNCHANGED video
    BY <1>4, <1>12 DEF StartConflicts, Abort, Hand, WorkerDies, DiesUnacknowledged, Drop
  <2>2. QED
    BY <1>2, <2>1
<1>13. QED
  BY <1>6, <1>7, <1>8, <1>9, <1>10, <1>11, <1>12 DEF WorkerProceeds

\* The invariant of the chunks is inductive.
LEMMA ChunksStep == Inv /\ ChunksInv /\ [Next]_vars => ChunksInv'
<1> SUFFICES ASSUME Inv, ChunksInv, [Next]_vars PROVE ChunksInv'
  OBVIOUS
<1>1. ASSUME NEW c \in Clients, ClientBegins(c) \/ ClientProceeds(c) \/ ClientDies(c)
      PROVE  ChunksInv'
  <2>1. video'.chunks = video.chunks
    BY <1>1, ClientKeepsMade DEF Inv
  <2>2. UNCHANGED worker
    BY <1>1 DEF ClientBegins, ClientProceeds, ClientDies, Submit, SubmitFindsActive, ProcessChannelVideo,
      RetryJob, AutoRetry, Allocate, CancelRequest, Promote, ReapScan, ReapHidden, ReconcileVideo,
      CompressStale, Create, CreateConflicts, Publish, PublishFails, Cancel, RecoverHandoff,
      RecoveryConflicts, FailStale
  <2>3. QED
    BY <2>1, <2>2 DEF ChunksInv, OneRunsChunks, ReplacesAll, Task
<1>2. CASE UNCHANGED vars
  BY <1>2 DEF vars, ChunksInv, OneRunsChunks, ReplacesAll, Task
<1>3. QED
  BY <1>1, <1>2, WorkersKeepChunks DEF Next

\* No two embedding runs leave their chunks side by side: each deletes what it found and
\* no other run commits between its DELETE and its INSERT.
THEOREM ChunksAreOneRuns ==
    ASSUME TimelyWork
    PROVE  Spec => []NoDuplicateChunks
<1>1. Init => ChunksInv
  BY DEF Init, ChunksInv, OneRunsChunks, ReplacesAll, IdleWorker
<1>2. Inv /\ ChunksInv /\ [Next]_vars => Inv' /\ ChunksInv'
  BY HandsStep, ChunksStep
<1>3. ChunksInv => NoDuplicateChunks
  <2> SUFFICES ASSUME ChunksInv PROVE Cardinality(video.chunks) <= 1
    BY DEF NoDuplicateChunks
  <2>1. CASE video.chunks = {}
    BY <2>1, FS_EmptySet
  <2>2. ASSUME NEW w \in video.chunks
        PROVE  Cardinality(video.chunks) <= 1
    <3>1. video.chunks = {w}
      BY <2>2 DEF ChunksInv, OneRunsChunks
    <3>2. Cardinality({w}) = 1
      BY FS_Singleton
    <3>3. QED
      BY <3>1, <3>2
  <2>3. QED
    BY <2>1, <2>2
<1>4. QED
  BY <1>1, <1>2, <1>3, InitiallyTidy, PTL DEF Spec
=============================================================================
