-------------------------- MODULE PipelineAttempts --------------------------
(***************************************************************************)
(* The attempts (pipeline jobs) of one video, as the processes that share  *)
(* its rows see them: web requests and cron scripts that create, cancel,   *)
(* publish and reap attempts, the broker that holds task messages, and the *)
(* Celery workers that execute stages.                                     *)
(*                                                                         *)
(* A step is one database transaction, one message published or one        *)
(* message acknowledged: whatever the code reads before a commit and uses  *)
(* after it is carried in the record of the process, and every process may *)
(* die between two of its steps.  PostgreSQL runs at READ COMMITTED and    *)
(* the ORM writes only the columns a transaction changed.                  *)
(*                                                                         *)
(* A definition whose comment begins with "Mutant" is a plausible mistake  *)
(* in the definition after it.  Nothing refers to it: the configurations'  *)
(* properties are shown to have force by finding it out.                   *)
(***************************************************************************)
EXTENDS PipelineState, FiniteSets

CONSTANTS
    MaxJobs,        \* bound: rows ever inserted for the video
    Clients,        \* web requests and cron scripts
    Roles,          \* the entry points each client runs
    Workers,        \* Celery worker processes (pool=solo: one task at a time)
    Lanes,          \* the queues each worker consumes
    ReviewAfter,    \* settings.pipeline_manual_review_after_failures
    HandoffLimit,   \* settings.pipeline_stale_handoff_recovery_limit
    FailureKinds,   \* the errors that happen: "transient" ones of a provider, others
    SlowWork,       \* may work outlast the stale-job timeouts?
    Redelivery,     \* may a message be delivered again while its task runs, or
                    \* after it published its successor?
    SegmentErrors,  \* may the segments of a transcription be refused?
    TaskIdErrors    \* may the commit of a published task's id be refused?

RoleNames == {"submit", "retry", "override", "cancel", "channel", "promote",
              "auto", "reaper", "janitor"}

ASSUME ConstantsAssumption ==
    /\ MaxJobs \in Nat \ {0}
    /\ Roles \in [Clients -> SUBSET RoleNames]
    /\ Lanes \in [Workers -> SUBSET Queues]
    /\ ReviewAfter \in Nat \ {0}
    /\ HandoffLimit \in Nat
    /\ FailureKinds \subseteq {"transient", "other"}
    /\ SlowWork \in BOOLEAN
    /\ Redelivery \in BOOLEAN
    /\ SegmentErrors \in BOOLEAN
    /\ TaskIdErrors \in BOOLEAN

JobIds == 1..MaxJobs

Signatures == {<<>>} \cup (JobStages \X {"transient", "other", "stale"})

JobRecords ==
    [status     : ActiveStatuses \cup TerminalStatuses \cup {"none", "deleted"},
     stage      : JobStages,
     number     : Nat,                \* attempt_number
     hiddenBy   : JobIds \cup {0},    \* superseded_by_job_id of a hidden job
     recovery   : {"none", "stale_reaped", "manual_review"},
     signature  : Signatures,
     handoffs   : 0..HandoffLimit,    \* stale_handoff_recovery_count
     batched    : BOOLEAN]            \* batch_id is set (recorded if it can matter)

NoJob == [status |-> "none", stage |-> "queued", number |-> 0, hiddenBy |-> 0,
          recovery |-> "none", signature |-> <<>>, handoffs |-> 0, batched |-> FALSE]

\* What a process remembers of a job's row, of the fields it writes back later.
Snapshots == [status   : ActiveStatuses \cup TerminalStatuses \cup {"none", "deleted"},
              stage    : JobStages,
              handoffs : 0..HandoffLimit]

Snapshot(row) == [status |-> row.status, stage |-> row.stage, handoffs |-> row.handoffs]

NoSnapshot == Snapshot(NoJob)

\* The video row with the artifacts stored for it.  The chunks are the embedding
\* runs whose rows are in embedding_chunks, each named by its worker.
VideoRecords ==
    [status     : VideoStatuses,
     audio      : BOOLEAN,
     transcript : {"none", "partial", "raw", "clean"},
     summary    : BOOLEAN,
     chunks     : SUBSET Workers]

\* A task message; chain tells apart the chains published for the same job.
Messages == [job : JobIds, stage : Stages, tries : 0..2, chain : 0..HandoffLimit]

\* The records of clients and workers; the idle ones below say what they carry.
ClientRecords ==
    [phase  : {"idle", "allocated", "publishing", "cancelling", "scanned"},
     role   : RoleNames \cup {"none"},
     job    : JobIds \cup {0},
     seen   : Snapshots,
     number : Nat,
     start  : Stages,
     hides  : BOOLEAN,
     locks  : BOOLEAN]

WorkerRecords ==
    [phase : {"idle", "gated", "working", "handing"},
     task  : Messages,
     seen  : Snapshots,
     shown : VideoStatuses,
     old   : SUBSET Workers,
     next  : SUBSET Messages]

\* What a client carries from one transaction to the next: the attempt it works
\* on and the row as it read it, the attempt number it was given, where the chain
\* starts, whether it hides failed attempts and whether it has the video locked.
IdleClient == [phase |-> "idle", role |-> "none", job |-> 0, seen |-> NoSnapshot,
               number |-> 0, start |-> "download", hides |-> FALSE, locks |-> FALSE]

\* What a worker carries: its message, the rows as the stage gate read them, the
\* chunks its embedding run deletes and the messages it publishes at the end.
NoTask == [job |-> 1, stage |-> "download", tries |-> 0, chain |-> 0]

IdleWorker == [phase |-> "idle", task |-> NoTask, seen |-> NoSnapshot,
               shown |-> "discovered", old |-> {}, next |-> {}]

VARIABLES
    jobs,     \* the rows of table jobs, by order of insertion
    video,    \* the row of table videos and the artifacts
    queue,    \* messages in the broker that no worker has acknowledged
    worker,   \* what each worker is doing
    client    \* what each web request or script is doing

vars == <<jobs, video, queue, worker, client>>

-----------------------------------------------------------------------------
Rows   == {j \in JobIds : jobs[j].status \notin {"none", "deleted"}}
Active == {j \in JobIds : jobs[j].status \in ActiveStatuses}

\* Mutant: an index that leaves out the jobs that wait for the dispatcher.
IndexWithoutPending(j, status) == status \in {"queued", "running"} => Active \subseteq {j}

\* Mutant: an index on queued jobs.
IndexOnQueued(j, status) == status = "queued" => Active \subseteq {j}

\* uq_jobs_pipeline_one_active_attempt: no other row of the video is active.
IndexAllows(j, status) == status \in ActiveStatuses => Active \subseteq {j}

\* get_latest_pipeline_attempt: by attempt_number, then by creation.
IsLatest(j) ==
    /\ j \in Rows
    /\ \A k \in Rows : \/ jobs[k].number < jobs[j].number
                       \/ jobs[k].number = jobs[j].number /\ k <= j

\* Mutant: attempts counted instead of numbered.
NumberByCount == {1 + Cardinality(Rows)}

\* _attempt_number_after the latest attempt: the one number the next attempt gets.
NextNumber == IF Rows = {} THEN {1} ELSE {1 + jobs[l].number : l \in {k \in Rows : IsLatest(k)}}

\* The row the next INSERT creates.
IsNextId(j) ==
    /\ jobs[j].status = "none"
    /\ \A k \in JobIds : k < j => jobs[k].status # "none"

\* A request that changed videos.status keeps the row locked until it ends, so
\* a transaction that changes it too has to wait.
VideoUnlocked(by) == \A c \in Clients \ by : ~client[c].locks
CanSetVideo(by, status) == video.status # status => VideoUnlocked(by)

Idle(c) == client[c] = IdleClient
MayRun(c, role) == role \in Roles[c] /\ Idle(c)
Finish(c) == client' = [client EXCEPT ![c] = IdleClient]

Busy(w) == worker[w].phase # "idle"
Rest(w) == worker' = [worker EXCEPT ![w] = IdleWorker]
Task(w) == worker[w].task

-----------------------------------------------------------------------------
(***************************************************************************)
(* Allocation and creation of attempts (pipeline_attempts).                *)
(***************************************************************************)
\* allocate_pipeline_attempt finds no active attempt and no manual-review
\* block: client c goes on with attempt number latest + 1.
Allocate(c, role, start, hides, locks, override) ==
    /\ Active = {}
    /\ \A l \in Rows : IsLatest(l) /\ ~override => jobs[l].recovery # "manual_review"
    /\ \E number \in NextNumber :
          client' = [client EXCEPT ![c] =
              [IdleClient EXCEPT !.phase = "allocated", !.role = role, !.number = number,
                                 !.start = start, !.hides = hides, !.locks = locks]]
    /\ UNCHANGED <<jobs, video, queue, worker>>

\* POST /api/videos for a video that failed, or has no attempt yet.
Submit(c) ==
    /\ MayRun(c, "submit")
    /\ video.status = "failed" \/ Rows = {}
    /\ VideoUnlocked({})
    /\ Allocate(c, "submit", "download", video.status = "failed", TRUE, FALSE)

\* ... and for a failed video whose attempt is active after all: the request
\* returns that attempt and commits the status it has already reset.
SubmitFindsActive(c) ==
    /\ MayRun(c, "submit")
    /\ video.status = "failed" /\ Active # {}
    /\ VideoUnlocked({})
    /\ video' = [video EXCEPT !.status = "pending"]
    /\ UNCHANGED <<jobs, queue, worker, client>>

\* POST /api/jobs/{j}/retry.  The status is reset before the resume point is
\* planned, and the reset is flushed before the allocation reads the jobs.
RetryJob(c, j) ==
    \E role \in {"retry", "override"} :
        /\ MayRun(c, role)
        /\ jobs[j].status = "failed"
        /\ role = "override" \/ jobs[j].recovery # "manual_review"
        /\ CanSetVideo({}, "pending")
        /\ Allocate(c, role, ResumePoint(video, "pending"), TRUE,
                    video.status # "pending", role = "override")

\* POST /api/channels/{id}/process, for one selected video.
ProcessChannelVideo(c) ==
    /\ MayRun(c, "channel")
    /\ Allocate(c, "channel", "download", TRUE, FALSE, FALSE)

\* retry_transient_failures, for one candidate.
AutoRetry(c, j) ==
    /\ MayRun(c, "auto")
    /\ jobs[j].status = "failed"
    /\ jobs[j].hiddenBy = 0
    /\ jobs[j].signature \in {"cleanup", "summarize"} \X {"transient"}
    /\ IsLatest(j)
    /\ Allocate(c, "auto", ResumePoint(video, video.status), TRUE, FALSE, FALSE)

\* The lifecycle status an attempt is created with.
StatusCreated(role) == IF role = "channel" THEN "pending" ELSE "queued"

\* The attempts of a channel request are those of its batches.
InBatch(role) == TaskIdErrors /\ role = "channel"

\* Mutant: the status of the video is kept.
StatusKeptOnCreate(role) ==
    IF video.status # "discovered" THEN video.status ELSE "pending"

\* The status the video has when the transaction that creates an attempt ends.
StatusOnCreate(role) ==
    IF role = "channel" /\ video.status \notin {"discovered", "failed"}
    THEN video.status ELSE "pending"

\* The savepoint's INSERT succeeds: the attempt is created, the failed attempts
\* it replaces are hidden, and the transaction commits.
Create(c, new) ==
    LET me == client[c] IN
    /\ me.phase = "allocated"
    /\ IndexAllows(new, StatusCreated(me.role))
    /\ IsNextId(new)
    /\ CanSetVideo({c}, StatusOnCreate(me.role))
    /\ jobs' = [j \in JobIds |->
          IF j = new
          THEN [NoJob EXCEPT !.status = StatusCreated(me.role),
                             !.number = me.number,
                             !.batched = InBatch(me.role)]
          ELSE IF me.hides /\ jobs[j].status = "failed" /\ jobs[j].hiddenBy = 0
          THEN [jobs[j] EXCEPT !.hiddenBy = new]
          ELSE jobs[j]]
    /\ video' = [video EXCEPT !.status = StatusOnCreate(me.role)]
    /\ IF me.role = "channel"
       THEN Finish(c)
       ELSE client' = [client EXCEPT ![c] =
                [IdleClient EXCEPT !.phase = "publishing", !.role = me.role,
                                   !.job = new, !.start = me.start]]
    /\ UNCHANGED <<queue, worker>>

\* The INSERT violates the unique index: the request returns the attempt that
\* won.  A retry rolls back; a submission and a channel request commit the
\* status they had set; the sweep's session is committed or closed later.
CreateConflicts(c) ==
    LET me == client[c] IN
    /\ me.phase = "allocated"
    /\ ~IndexAllows(0, StatusCreated(me.role))    \* 0: a row that is not there yet
    /\ CanSetVideo({c}, StatusOnCreate(me.role))
    /\ \E committed \in BOOLEAN :
          /\ me.role \in {"retry", "override"} => ~committed
          /\ me.role \in {"submit", "channel"} => committed
          /\ video' = IF committed THEN [video EXCEPT !.status = StatusOnCreate(me.role)]
                      ELSE video
    /\ Finish(c)
    /\ UNCHANGED <<jobs, queue, worker>>

-----------------------------------------------------------------------------
(***************************************************************************)
(* The commit-then-publish boundary (pipeline_enqueue), cancellation and   *)
(* the promotion of a pending channel attempt.                             *)
(***************************************************************************)
Publish(c) ==
    LET me == client[c] IN
    /\ me.phase = "publishing"
    /\ queue' = queue \cup {[job |-> me.job, stage |-> me.start, tries |-> 0,
                             chain |-> jobs[me.job].handoffs]}
    /\ Finish(c)
    /\ UNCHANGED <<jobs, video, worker>>

\* The broker refuses the message: the attempt is failed in a second commit.  An
\* async session still holds the row as it wrote it, at stage "queued", and so
\* writes the status alone.
PublishFails(c) ==
    LET me == client[c]
        failed == SetJobState(jobs[me.job], "failed", "queued") IN
    /\ me.phase = "publishing"
    /\ jobs' = [jobs EXCEPT ![me.job] =
          IF me.role \in {"submit", "retry", "override"}
          THEN [failed EXCEPT !.stage = jobs[me.job].stage] ELSE failed]
    /\ Finish(c)
    /\ UNCHANGED <<video, queue, worker>>

\* A request or a script dies; an open transaction is rolled back.
ClientDies(c) ==
    /\ ~Idle(c)
    /\ Finish(c)
    /\ UNCHANGED <<jobs, video, queue, worker>>

\* POST /api/jobs/{j}/cancel reads the job ...
CancelRequest(c, j) ==
    /\ MayRun(c, "cancel")
    /\ jobs[j].status \in {"pending", "queued"}
    /\ client' = [client EXCEPT ![c] =
          [IdleClient EXCEPT !.phase = "cancelling", !.role = "cancel", !.job = j]]
    /\ UNCHANGED <<jobs, video, queue, worker>>

\* ... and writes the cancellation over whatever the row holds by then.
Cancel(c) ==
    LET j == client[c].job IN
    /\ client[c].phase = "cancelling"
    /\ CanSetVideo({c}, "pending")
    /\ jobs' = [jobs EXCEPT ![j] = SetJobState(jobs[j], "cancelled", "cancelled")]
    /\ video' = [video EXCEPT !.status = "pending"]
    /\ Finish(c)
    /\ UNCHANGED <<queue, worker>>

\* _queue_channel_job: the dispatcher commits the queued state and publishes.
Promote(c, j) ==
    /\ MayRun(c, "promote")
    /\ jobs[j].status = "pending"
    /\ jobs' = [jobs EXCEPT ![j] = SetJobState(jobs[j], "queued", "queued")]
    /\ client' = [client EXCEPT ![c] =
          [IdleClient EXCEPT !.phase = "publishing", !.role = "promote", !.job = j]]
    /\ UNCHANGED <<video, queue, worker>>

-----------------------------------------------------------------------------
(***************************************************************************)
(* Failure bookkeeping (pipeline_recovery) and the stale-job reaper.       *)
(***************************************************************************)
\* Mutant: failures that were superseded are not counted.
FailureCountVisible(j, stage, signature) ==
    1 + Cardinality({k \in JobIds \ {j} :
            /\ jobs[k].status = "failed" /\ jobs[k].hiddenBy = 0
            /\ IF stage = "download" THEN jobs[k].stage = "download"
               ELSE jobs[k].signature = signature})

\* The failures of the video this one is counted with, itself included: those of
\* the download stage, or those with the same signature.
FailureCount(j, stage, signature) ==
    1 + Cardinality({k \in JobIds \ {j} :
            /\ jobs[k].status = "failed"
            /\ IF stage = "download" THEN jobs[k].stage = "download"
               ELSE jobs[k].signature = signature})

\* record_pipeline_failure, for an attempt whose row was read as seen.
RecordFailure(j, seen, stage, kind) ==
    [jobs[j] EXCEPT !.status    = "failed",
                    !.stage     = IF seen.stage = stage THEN @ ELSE stage,
                    !.signature = <<stage, kind>>,
                    !.recovery  = IF FailureCount(j, stage, <<stage, kind>>) >= ReviewAfter
                                  THEN "manual_review"
                                  ELSE IF kind = "stale" THEN "stale_reaped" ELSE "none"]

\* Nothing that exists will ever advance attempt j.
Lost(j) ==
    /\ \A m \in queue : m.job # j
    /\ \A w \in Workers : Busy(w) => Task(w).job # j
    /\ \A c \in Clients : client[c].phase = "publishing" => client[c].job # j

\* is_pipeline_job_stale: j is past the timeout of its stage.
Stale(j) == j \in Active /\ (SlowWork \/ Lost(j))

\* reap_stale_jobs finds j.
ReapScan(c, j) ==
    /\ MayRun(c, "reaper")
    /\ Stale(j)
    /\ client' = [client EXCEPT ![c] =
          [IdleClient EXCEPT !.phase = "scanned", !.role = "reaper", !.job = j, !.seen = Snapshot(jobs[j])]]
    /\ UNCHANGED <<jobs, video, queue, worker>>

\* Mutant: no limit on the recoveries of one attempt.
HandoffAlwaysRecoverable(seen, start) ==
    \/ StageIndex(start) > StageIndex(seen.stage)
    \/ seen.stage = "embed" /\ start = "embed" /\ video.chunks # {}

\* plan_stale_handoff_recovery: the artifacts are ahead of the recorded stage.
HandoffRecoverable(seen, start) ==
    /\ seen.handoffs < HandoffLimit
    /\ \/ StageIndex(start) > StageIndex(seen.stage)
       \/ seen.stage = "embed" /\ start = "embed" /\ video.chunks # {}

\* The scan's copy of the row as recover_stale_handoff writes it back.
Requeued(j, seen) ==
    [jobs[j] EXCEPT !.status   = IF seen.status = "queued" THEN @ ELSE "queued",
                    !.stage    = IF seen.stage = "queued" THEN @ ELSE "queued",
                    !.handoffs = seen.handoffs + 1]

\* The stale attempt is put back in the queue at the resume point, once.
RecoverHandoff(c) ==
    LET me    == client[c]
        start == ResumePoint(video, video.status) IN
    /\ me.phase = "scanned"
    /\ HandoffRecoverable(me.seen, start)
    /\ IndexAllows(me.job, Requeued(me.job, me.seen).status)
    /\ CanSetVideo({}, "pending")
    /\ jobs' = [jobs EXCEPT ![me.job] = Requeued(me.job, me.seen)]
    /\ video' = [video EXCEPT !.status = "pending"]
    /\ client' = [client EXCEPT ![c] =
          [IdleClient EXCEPT !.phase = "publishing", !.role = "reaper",
                             !.job = me.job, !.start = start]]
    /\ UNCHANGED <<queue, worker>>

\* The unique index rejects that update and the script ends with the error.
RecoveryConflicts(c) ==
    LET me == client[c] IN
    /\ me.phase = "scanned"
    /\ HandoffRecoverable(me.seen, ResumePoint(video, video.status))
    /\ ~IndexAllows(me.job, Requeued(me.job, me.seen).status)
    /\ Finish(c)
    /\ UNCHANGED <<jobs, video, queue, worker>>

\* The stale attempt is failed, whatever became of it since the scan.
FailStale(c) ==
    LET me == client[c] IN
    /\ me.phase = "scanned"
    /\ ~HandoffRecoverable(me.seen, ResumePoint(video, video.status))
    /\ CanSetVideo({}, "failed")
    /\ jobs' = [jobs EXCEPT ![me.job] = RecordFailure(me.job, me.seen, me.seen.stage, "stale")]
    /\ video' = [video EXCEPT !.status = "failed"]
    /\ Finish(c)
    /\ UNCHANGED <<queue, worker>>

-----------------------------------------------------------------------------
(***************************************************************************)
(* Housekeeping.  The jobs of a janitor run only on rows that nothing has  *)
(* touched for a long time (4 hours, 14 and 30 days).                      *)
(***************************************************************************)
Untouched(j) ==
    /\ Lost(j)
    /\ \A c \in Clients : client[c].job # j

\* reap_hidden_superseded_failed_jobs deletes a hidden failure.
ReapHidden(c, j) ==
    /\ MayRun(c, "janitor")
    /\ jobs[j].status = "failed" /\ jobs[j].hiddenBy # 0
    /\ Untouched(j)
    /\ jobs' = [jobs EXCEPT ![j] = [NoJob EXCEPT !.status = "deleted"]]
    /\ UNCHANGED <<video, queue, worker, client>>

\* reconcile_video_status: a video that stopped half-way is marked failed.
ReconcileVideo(c) ==
    /\ MayRun(c, "janitor")
    /\ video.status \in {"downloaded", "transcribed", "cleaned", "summarized"}
    /\ Active = {}
    /\ SlowWork \/ \A j \in JobIds : Untouched(j)
    /\ CanSetVideo({}, "failed")
    /\ video' = [video EXCEPT !.status = "failed"]
    /\ UNCHANGED <<jobs, queue, worker, client>>

\* compress_stale_videos: the audio file goes, its path stays in the row.
CompressStale(c) ==
    /\ MayRun(c, "janitor")
    /\ video.status = "completed" /\ video.audio
    /\ \A j \in JobIds : Untouched(j)
    /\ video' = [video EXCEPT !.audio = FALSE]
    /\ UNCHANGED <<jobs, queue, worker, client>>

-----------------------------------------------------------------------------
(***************************************************************************)
(* Workers: delivery, the stage gate, the stages, and the hand-over to the *)
(* next stage of the chain.  Messages are acknowledged late: a message     *)
(* stays in the queue until its task has ended, however it ends.           *)
(***************************************************************************)
\* The broker hands m to an idle worker of its lane; to a second one as well when
\* the visibility timeout passes while the first still has it.
Delivered(w, m) ==
    /\ ~Busy(w)
    /\ m \in queue
    /\ QueueOf(m.stage) \in Lanes[w]
    /\ Redelivery \/ \A v \in Workers : Busy(v) => Task(v) # m

\* Mutant: a gate that asks neither whether the attempt is active nor how far it is.
GateAdmitsSettled(m) ==
    /\ Active \subseteq {m.job}
    /\ jobs[m.job].hiddenBy = 0
    /\ m.stage \in {"transcribe", "diarize"} => video.audio
    /\ m.stage \in {"diarize", "cleanup", "summarize", "embed"} => video.transcript # "none"

\* get_pipeline_job_context, with what each stage requires of it.
GateAdmits(m) ==
    /\ Active = {m.job}
    /\ jobs[m.job].hiddenBy = 0
    /\ jobs[m.job].stage \in AllowedStageOwnership(m.stage)
    /\ m.stage \in {"transcribe", "diarize"} => video.audio
    /\ m.stage \in {"diarize", "cleanup", "summarize", "embed"} => video.transcript # "none"

NextMessages(m) == {[m EXCEPT !.stage = s, !.tries = 0] : s \in NextStages(m.stage)}

\* A task whose feature is off returns at once: no gate, no write.
SkipStage(w, m) ==
    /\ Delivered(w, m)
    /\ m.stage \in SkippedStages
    /\ worker' = [worker EXCEPT ![w] =
          [IdleWorker EXCEPT !.phase = "handing", !.task = m, !.next = NextMessages(m)]]
    /\ UNCHANGED <<jobs, video, queue, client>>

\* The gate raises Ignore: the message is acknowledged and the chain ends.
IgnoreTask(w, m) ==
    /\ Delivered(w, m)
    /\ m.stage \notin SkippedStages /\ ~GateAdmits(m)
    /\ queue' = queue \ {m}
    /\ UNCHANGED <<jobs, video, worker, client>>

\* The gate lets the task through; the rows it read are what it writes back.
PassGate(w, m) ==
    /\ Delivered(w, m)
    /\ m.stage \notin SkippedStages /\ GateAdmits(m)
    /\ worker' = [worker EXCEPT ![w] =
          [IdleWorker EXCEPT !.phase = "gated", !.task = m,
                             !.seen = Snapshot(jobs[m.job]), !.shown = video.status]]
    /\ UNCHANGED <<jobs, video, queue, client>>

\* The task ends with an error that it does not handle.
Drop(w) ==
    /\ queue' = queue \ {Task(w)}
    /\ Rest(w)

\* A write of the job that would make it active beside another one is refused.
WriteJob(w, row) ==
    /\ IndexAllows(Task(w).job, row.status)
    /\ jobs' = [jobs EXCEPT ![Task(w).job] = row]

Running(w) == SetJobState(jobs[Task(w).job], "running", Task(w).stage)

\* The first commit of a task.  It writes "running" and the stage only where the
\* gate read something else.
Started(w) ==
    LET seen == worker[w].seen IN
    [jobs[Task(w).job] EXCEPT
        !.status = IF seen.status = "running" THEN @ ELSE "running",
        !.stage  = IF seen.stage = Task(w).stage THEN @ ELSE Task(w).stage]

\* Mutant: an embedding run that adds to the chunks there are.
ChunksKept(stage) == {}

\* The chunks that the DELETE of an embedding run finds.
ChunksReplaced(stage) == IF stage = "embed" THEN video.chunks ELSE {}

StartStatus(stage, shown) ==
    CASE stage = "download"   -> "downloading"
      [] stage = "transcribe" -> "transcribing"
      [] stage = "summarize"  -> "summarizing"
      [] OTHER                -> shown

Start(w) ==
    LET me     == worker[w]
        wanted == StartStatus(me.task.stage, me.shown)
        status == IF wanted = me.shown THEN video.status ELSE wanted IN
    /\ me.phase = "gated"
    /\ CanSetVideo({}, status)
    /\ WriteJob(w, Started(w))
    /\ video' = [video EXCEPT !.status = status]
    /\ worker' = [worker EXCEPT ![w] =
          [IdleWorker EXCEPT !.phase = "working", !.task = me.task,
                             !.old = ChunksReplaced(me.task.stage)]]
    /\ UNCHANGED <<queue, client>>

StartConflicts(w) ==
    /\ worker[w].phase = "gated"
    /\ ~IndexAllows(Task(w).job, Started(w).status)
    /\ Drop(w)
    /\ UNCHANGED <<jobs, video, client>>

\* The commit in the middle of diarization and of a regenerated summary.
Report(w) ==
    /\ worker[w].phase = "working"
    /\ Task(w).stage \in {"diarize", "summarize"}
    /\ WriteJob(w, Running(w))
    /\ UNCHANGED <<video, queue, worker, client>>

\* What the last commit of a task makes of the video.
Product(w) ==
    CASE Task(w).stage = "download"   ->
            [video EXCEPT !.audio = TRUE, !.status = "downloaded"]
      [] Task(w).stage = "transcribe" ->
            [video EXCEPT !.transcript = "raw", !.status = "transcribed"]
      [] Task(w).stage = "cleanup"    ->
            [video EXCEPT !.transcript = IF @ = "raw" THEN "clean" ELSE @, !.status = "cleaned"]
      [] Task(w).stage = "summarize"  ->
            [video EXCEPT !.summary = TRUE, !.status = "summarized"]
      [] Task(w).stage = "embed"      ->
            [video EXCEPT !.chunks = (@ \ worker[w].old) \cup {w}, !.status = "completed"]
      [] OTHER -> video

Done(w) == IF Task(w).stage = "embed"
           THEN SetJobState(jobs[Task(w).job], "completed", "completed")
           ELSE Running(w)

HandOver(w, messages) ==
    worker' = [worker EXCEPT ![w] =
        [IdleWorker EXCEPT !.phase = "handing", !.task = Task(w), !.next = messages]]

Succeed(w) ==
    /\ worker[w].phase = "working"
    /\ CanSetVideo({}, Product(w).status)
    /\ WriteJob(w, Done(w))
    /\ video' = Product(w)
    /\ HandOver(w, NextMessages(Task(w)))
    /\ UNCHANGED <<queue, client>>

\* The database refuses the commit, or the connection is gone: the session of the
\* task is unusable and its error handler fails too.
Abort(w) ==
    /\ worker[w].phase = "working"
    /\ Drop(w)
    /\ UNCHANGED <<jobs, video, client>>

\* The errors after which a task asks to be run again.
Retries(m, kind) ==
    /\ m.tries < RetryLimit(m.stage)
    /\ m.stage # "embed" => kind = "transient"
    /\ m.stage = "download" => FailureCount(m.job, "download", <<>>) + m.tries < ReviewAfter

\* The DELETE of the chunks is part of the transaction that an embedding task
\* commits, also when it failed.
WithoutOld(w) == [video EXCEPT !.chunks = @ \ worker[w].old]

\* Mutant: a message that does not count its retries.
AgainUncounted(m) == m

Again(m) == [m EXCEPT !.tries = @ + 1]

RetryTask(w) ==
    LET status == IF Task(w).stage = "embed" THEN "summarized" ELSE video.status IN
    /\ worker[w].phase = "working"
    /\ \E kind \in FailureKinds : Retries(Task(w), kind)
    /\ CanSetVideo({}, status)
    /\ WriteJob(w, Running(w))
    /\ video' = [WithoutOld(w) EXCEPT !.status = status]
    /\ HandOver(w, {Again(Task(w))})
    /\ UNCHANGED <<queue, client>>

\* What the failure of a stage leaves of the transcript: a transcription that fails
\* on its segments has flushed its text already, and the handler commits it.
Remains(stage) ==
    {video.transcript} \cup
    {t \in {"partial"} : SegmentErrors /\ stage = "transcribe"}

FailTask(w) ==
    LET m == Task(w) IN
    /\ worker[w].phase = "working"
    /\ CanSetVideo({}, "failed")
    /\ \E kind \in FailureKinds :
          /\ ~Retries(m, kind)
          /\ jobs' = [jobs EXCEPT ![m.job] = RecordFailure(m.job, @, m.stage, kind)]
    /\ \E transcript \in Remains(m.stage) :
          video' = [WithoutOld(w) EXCEPT !.status = "failed", !.transcript = transcript]
    /\ Drop(w)
    /\ UNCHANGED client

\* An embedding task that has committed its success goes on to release the next
\* attempt of its batch, inside the same handler of errors.
Releasing(w) ==
    /\ worker[w].phase = "handing" /\ Task(w).stage = "embed" /\ worker[w].next = {}
    /\ jobs[Task(w).job].batched

ReleaseMayFail(w) == TaskIdErrors /\ Releasing(w)

\* The commit of that attempt's task id is refused: the handler takes this for an
\* error of the embedding, and the settled attempt runs again ...  (If another
\* attempt is active by now, the handler fails too, and the task ends as in Hand.)
Reopen(w) ==
    /\ ReleaseMayFail(w)
    /\ Task(w).tries < RetryLimit("embed")
    /\ CanSetVideo({}, "summarized")
    /\ WriteJob(w, Running(w))
    /\ video' = [video EXCEPT !.status = "summarized"]
    /\ HandOver(w, {Again(Task(w))})
    /\ UNCHANGED <<queue, client>>

\* ... or, when it has no retry left, is recorded as failed.
FailReleased(w) ==
    /\ ReleaseMayFail(w)
    /\ Task(w).tries >= RetryLimit("embed")
    /\ CanSetVideo({}, "failed")
    /\ \E kind \in FailureKinds :
          jobs' = [jobs EXCEPT ![Task(w).job] = RecordFailure(Task(w).job, @, "embed", kind)]
    /\ video' = [video EXCEPT !.status = "failed"]
    /\ Drop(w)
    /\ UNCHANGED client

\* The next messages are published, then the task's own is acknowledged.
Hand(w) ==
    /\ worker[w].phase = "handing"
    /\ queue' = (queue \ {Task(w)}) \cup worker[w].next
    /\ Rest(w)
    /\ UNCHANGED <<jobs, video, client>>

\* The process dies; its message will be delivered again ...
WorkerDies(w) ==
    /\ Busy(w)
    /\ Rest(w)
    /\ UNCHANGED <<jobs, video, queue, client>>

\* ... also when it had published the next messages and not acknowledged its own.
DiesUnacknowledged(w) ==
    /\ Redelivery
    /\ worker[w].phase = "handing"
    /\ queue' = queue \cup worker[w].next
    /\ Rest(w)
    /\ UNCHANGED <<jobs, video, client>>

-----------------------------------------------------------------------------
Init ==
    /\ jobs = [j \in JobIds |-> NoJob]
    /\ video = [status |-> "discovered", audio |-> FALSE, transcript |-> "none",
                summary |-> FALSE, chunks |-> {}]
    /\ queue = {}
    /\ worker = [w \in Workers |-> IdleWorker]
    /\ client = [c \in Clients |-> IdleClient]

ClientProceeds(c) ==
    \/ \E j \in JobIds : Create(c, j)
    \/ CreateConflicts(c)
    \/ Publish(c) \/ PublishFails(c)
    \/ Cancel(c)
    \/ RecoverHandoff(c) \/ RecoveryConflicts(c) \/ FailStale(c)

ClientBegins(c) ==
    \/ Submit(c) \/ SubmitFindsActive(c)
    \/ ProcessChannelVideo(c)
    \/ \E j \in JobIds : RetryJob(c, j) \/ AutoRetry(c, j) \/ CancelRequest(c, j)
                         \/ Promote(c, j) \/ ReapScan(c, j) \/ ReapHidden(c, j)
    \/ ReconcileVideo(c) \/ CompressStale(c)

WorkerTakes(w) ==
    \E m \in queue : SkipStage(w, m) \/ IgnoreTask(w, m) \/ PassGate(w, m)

WorkerProceeds(w) ==
    \/ Start(w) \/ StartConflicts(w)
    \/ Report(w) \/ Succeed(w) \/ RetryTask(w) \/ FailTask(w) \/ Abort(w)
    \/ Reopen(w) \/ FailReleased(w)
    \/ Hand(w)

Next ==
    \/ \E c \in Clients : ClientBegins(c) \/ ClientProceeds(c) \/ ClientDies(c)
    \/ \E w \in Workers : WorkerTakes(w) \/ WorkerProceeds(w) \/ WorkerDies(w)
                           \/ DiesUnacknowledged(w)

Spec == Init /\ [][Next]_vars

\* Assumed of the deployment: a request or a script that began its work goes on
\* with it, the reaper runs on its schedule and is not killed in every run of it.
ReaperRuns ==
    \A c \in Clients : /\ WF_vars(ClientProceeds(c))
                       /\ SF_vars(\E j \in JobIds : ReapScan(c, j))
                       /\ SF_vars(RecoverHandoff(c) \/ FailStale(c))

\* Every lane is served: a worker that may take a message takes one in the end, and
\* is not killed in every task before the task ends.
WorkersRun ==
    \A w \in Workers : /\ SF_vars(WorkerTakes(w))
                       /\ SF_vars(Start(w) \/ StartConflicts(w))
                       /\ SF_vars(Succeed(w) \/ RetryTask(w) \/ FailTask(w) \/ Abort(w))
                       /\ SF_vars(Hand(w))

FairSpec == Spec /\ ReaperRuns /\ WorkersRun

-----------------------------------------------------------------------------
TypeOK ==
    /\ jobs \in [JobIds -> JobRecords]
    /\ video \in VideoRecords
    /\ queue \subseteq Messages
    /\ worker \in [Workers -> WorkerRecords]
    /\ client \in [Clients -> ClientRecords]

\* A client that has an attempt in hand has a row of the video in hand.
ClientsHoldJobs ==
    \A c \in Clients : client[c].phase \in {"publishing", "cancelling", "scanned"} =>
        client[c].job \in JobIds

\* At most one attempt of a video is active, whatever the requests, scripts and
\* workers that create, resurrect and requeue attempts do between their commits.
OneActiveAttempt == \A j, k \in Active : j = k

\* Attempts take turns: each step of the system is a step of AttemptMutex.
Mutex == INSTANCE AttemptMutex WITH Attempts <- JobIds, owner <- Active

AttemptsTakeTurns == Mutex!Spec

\* A settled attempt keeps its outcome until it is deleted, with one exception: the
\* completed attempt of a batch, while the task that completed it releases the next
\* attempt of the batch and the commit of a task id may be refused (TaskIdErrors).
\* That puts it back to work, or among the failed.
SettledIsFinal ==
    [][\A j \in JobIds : jobs[j].status \in TerminalStatuses =>
          \/ jobs'[j].status \in {jobs[j].status, "deleted"}
          \/ /\ jobs[j].status = "completed"
             /\ \E w \in Workers : ReleaseMayFail(w) /\ Task(w).job = j]_vars

\* The transcript of all that was said; or, where the segments of a transcription
\* may be refused, what a resume point takes for it (see NoTruncatedTranscript).
Transcribed == video.transcript \in {"raw", "clean"} \cup {t \in {"partial"} : SegmentErrors}

\* A completed video, or one with a completed attempt, has everything that the
\* stages make: no resume point skipped a stage that was still to be done, with one
\* exception.  A transcription whose segments were refused leaves its text behind,
\* and the next attempt goes on from that (SegmentErrors).
CompletedHasProducts ==
    /\ video.status = "completed" => video.chunks # {}
    /\ \/ video.status = "completed"
       \/ \E j \in JobIds : jobs[j].status = "completed"
       => video.summary /\ Transcribed

\* Attempt numbers grow with every attempt, also past deleted rows.
NumbersIncrease == \A j, k \in Rows : j < k => jobs[j].number < jobs[k].number

\* When as many download failures are on record as call for a person, one of them
\* does call for a person: hiding or deleting failures does not hide the episode.
ReviewIsReached ==
    LET failed == {j \in JobIds : jobs[j].status = "failed" /\ jobs[j].stage = "download"}
    IN  Cardinality(failed) >= ReviewAfter =>
            \E j \in failed : jobs[j].recovery = "manual_review"

\* A video that is shown as failed, and so may be submitted again, has no attempt
\* that is still being worked on.  (Of timely work, and of task ids that are stored:
\* FailReleased is the failure of a video whose attempt had settled before.)
FailedMeansIdle == video.status = "failed" => Active = {}

\* No two embedding runs leave their chunks side by side.
NoDuplicateChunks == Cardinality(video.chunks) <= 1

\* Every active attempt is settled in the end, by its worker or by the reaper.
AttemptsSettle == (Active # {}) ~> (Active = {})
=============================================================================
