------------------------- MODULE ChannelDispatcher -------------------------
(***************************************************************************)
(* The backlog of one channel: requests that create pending attempts in    *)
(* batches, the dispatcher that releases them into the worker queue, and   *)
(* the tasks that refresh a batch when an attempt ends and release the     *)
(* first attempt of the next batch.                                        *)
(*                                                                         *)
(* The dispatcher reads with one query after another and writes what it    *)
(* decided on, so each query is a step of its own; a task is abstracted to *)
(* its start, the refresh it computes, its commit and its publication.     *)
(* Cancellation and the stale-job reaper, whose own races PipelineAttempts *)
(* has, are one step each.                                                 *)
(***************************************************************************)
EXTENDS Integers, FiniteSets

CONSTANTS
    MaxJobs,       \* bound: attempts ever created
    BatchSize,     \* BATCH_SIZE of routers/channels.py
    ActiveLimit,   \* CHANNEL_ACTIVE_LIMIT
    Clients,       \* web requests, operators and cron scripts
    Roles,         \* what each client does
    Workers,       \* task executions at a time
    TaskIdErrors   \* may the commit fail that records the id of a published task?

RoleNames == {"process", "cancel", "reaper", "operator"}

ASSUME DispatcherAssumption ==
    /\ MaxJobs \in Nat \ {0}
    /\ BatchSize \in Nat \ {0}
    /\ ActiveLimit \in Nat \ {0}
    /\ Roles \in [Clients -> SUBSET RoleNames]
    /\ TaskIdErrors \in BOOLEAN

JobIds   == 1..MaxJobs
BatchIds == 1..MaxJobs

DoneStatuses     == {"completed", "completed_with_errors", "failed"}
TerminalStatuses == {"completed", "failed", "cancelled"}

JobRecords ==
    [status    : {"none", "pending", "queued", "running"} \cup TerminalStatuses,
     batch     : BatchIds \cup {0},
     cause     : {"none", "task", "enqueue", "stale"},    \* what error_message blames
     recovered : BOOLEAN]                                 \* stale_handoff_recovery_count

BatchRecords ==
    [status    : {"none", "pending", "running"} \cup DoneStatuses,
     request   : BatchIds \cup {0},    \* created_at: the first batch of its request
     number    : 0..MaxJobs,
     completed : 0..MaxJobs,
     failed    : 0..MaxJobs]

NoJob   == [status |-> "none", batch |-> 0, cause |-> "none", recovered |-> FALSE]
NoBatch == [status |-> "none", request |-> 0, number |-> 0, completed |-> 0, failed |-> 0]

\* What a client carries between its queries: the attempt it picked and whether it
\* saw the batch pending.
IdleClient == [phase |-> "idle", role |-> "process", job |-> 1, opens |-> FALSE]

\* What a worker carries: its attempt, how it ended, the batch as it was loaded and
\* as the refresh left it, and the attempt of the next batch it has to publish.
IdleWorker == [phase |-> "idle", job |-> 1, outcome |-> "completed",
               loaded |-> NoBatch, fresh |-> NoBatch, next |-> 1]

VARIABLES
    jobs,       \* attempts, by creation
    batches,    \* batches, by creation
    queue,      \* attempts whose task message waits or is executed
    client,
    worker

vars == <<jobs, batches, queue, client, worker>>

-----------------------------------------------------------------------------
Created     == {j \in JobIds : jobs[j].status # "none"}
Opened      == {b \in BatchIds : batches[b].status # "none"}
JobsOf(b)   == {j \in Created : jobs[j].batch = b}
PendingOf(b) == {j \in JobsOf(b) : jobs[j].status = "pending"}
Terminal(j) == jobs[j].status \in TerminalStatuses
Unsettled(b) == batches[b].status \in {"pending", "running"}

\* The channel attempts that count as active for the dispatcher.
ActiveJobs == {j \in JobIds : jobs[j].status \in {"queued", "running"}}

Idle(c) == client[c] = IdleClient
MayRun(c, role) == role \in Roles[c] /\ Idle(c)
Finish(c) == client' = [client EXCEPT ![c] = IdleClient]
Enter(c, phase) == client' = [client EXCEPT ![c].phase = phase]

Busy(w) == worker[w].phase # "idle"
Rest(w) == worker' = [worker EXCEPT ![w] = IdleWorker]

-----------------------------------------------------------------------------
(***************************************************************************)
(* Batches.                                                                *)
(***************************************************************************)
\* Mutant: a refresh that reads before the task's own outcome is flushed.
RefreshedUnflushed(b, statuses) ==
    LET completed == Cardinality({j \in JobsOf(b) : jobs[j].status = "completed"})
        failed    == Cardinality({j \in JobsOf(b) : jobs[j].status \in {"failed", "cancelled"}})
        status    == IF completed + failed = Cardinality(JobsOf(b)) THEN "completed" ELSE "running"
    IN  [batches[b] EXCEPT !.completed = completed, !.failed = failed, !.status = status]

\* Mutant: a batch that has a settled attempt is taken for settled.
RefreshedEarly(b, statuses) ==
    [batches[b] EXCEPT
        !.completed = Cardinality({j \in JobsOf(b) : statuses[j] = "completed"}),
        !.failed    = Cardinality({j \in JobsOf(b) : statuses[j] \in {"failed", "cancelled"}}),
        !.status    = "completed_with_errors"]

\* refresh_batch_progress, for the statuses that its query returns.
Refreshed(b, statuses) ==
    LET completed == Cardinality({j \in JobsOf(b) : statuses[j] = "completed"})
        failed    == Cardinality({j \in JobsOf(b) : statuses[j] \in {"failed", "cancelled"}})
        status    == IF completed + failed = Cardinality(JobsOf(b))
                     THEN IF failed > 0 THEN "completed_with_errors" ELSE "completed"
                     ELSE IF completed + failed > 0 THEN "running"
                     ELSE batches[b].status
    IN  [batches[b] EXCEPT !.completed = completed, !.failed = failed, !.status = status]

\* The row after a transaction that loaded it, changed it and writes back the
\* columns it changed.
Written(b, loaded, fresh) ==
    [f \in DOMAIN loaded |-> IF fresh[f] = loaded[f] THEN batches[b][f] ELSE fresh[f]]

\* _find_next_batch: the lowest number above that of b, whatever request made it.
IsNextBatch(b, n) ==
    /\ batches[n].status = "pending" /\ batches[n].number > batches[b].number
    /\ \A o \in BatchIds :
          batches[o].status = "pending" /\ batches[o].number > batches[b].number
          => batches[n].number <= batches[o].number

\* _earliest_dispatchable_job: a pending attempt of the first batch that has one.
IsDispatchable(b, j) ==
    /\ Unsettled(b)
    /\ j \in PendingOf(b)
    /\ \A e \in BatchIds : e < b /\ Unsettled(e) => PendingOf(e) = {}

-----------------------------------------------------------------------------
(***************************************************************************)
(* POST /api/channels/{id}/process and the dispatcher it calls.            *)
(***************************************************************************)
\* The attempts and their batches are committed, and the backlog is dispatched.
ProcessSelected(c) ==
    LET made  == Cardinality(Created)
        first == Cardinality(Opened) + 1
        batchOf(j) == first + (j - made - 1) \div BatchSize IN
    /\ MayRun(c, "process")
    /\ \E last \in made + 1 .. MaxJobs :
          /\ jobs' = [j \in JobIds |->
                IF j \in made + 1 .. last
                THEN [NoJob EXCEPT !.status = "pending", !.batch = batchOf(j)] ELSE jobs[j]]
          /\ batches' = [b \in BatchIds |->
                IF b \in first .. batchOf(last)
                THEN [NoBatch EXCEPT !.status  = IF b = first THEN "running" ELSE "pending",
                                     !.request = first,
                                     !.number  = b - first + 1]
                ELSE batches[b]]
    /\ Enter(c, "dispatching")
    /\ UNCHANGED <<queue, worker>>

\* promote_pending_channel_jobs asks once whether an attempt is active that no channel
\* request made, and gives up if so; those attempts come and go at any time ...
CheckManual(c) ==
    /\ client[c].phase = "dispatching"
    /\ \/ Finish(c)
       \/ Enter(c, "counting")
    /\ UNCHANGED <<jobs, batches, queue, worker>>

\* Mutant: only the running attempts count.
BelowLimitRunning == Cardinality({j \in JobIds : jobs[j].status = "running"}) < ActiveLimit

BelowLimit == Cardinality(ActiveJobs) < ActiveLimit

\* ... counts the active channel attempts before each promotion ...
CountActive(c) ==
    /\ client[c].phase = "counting"
    /\ IF BelowLimit THEN Enter(c, "picking") ELSE Finish(c)
    /\ UNCHANGED <<jobs, batches, queue, worker>>

\* ... picks a pending attempt ...
Pick(c) ==
    /\ client[c].phase = "picking"
    /\ \/ \E b \in BatchIds, j \in JobIds :
             /\ IsDispatchable(b, j)
             /\ client' = [client EXCEPT ![c].phase = "picked", ![c].job = j,
                                         ![c].opens = batches[b].status = "pending"]
       \/ /\ \A b \in BatchIds, j \in JobIds : ~IsDispatchable(b, j)
          /\ Finish(c)
    /\ UNCHANGED <<jobs, batches, queue, worker>>

\* ... and commits the queued state, over whatever the attempt has become.
Promote(c) ==
    LET me == client[c] IN
    /\ me.phase = "picked"
    /\ jobs' = [jobs EXCEPT ![me.job].status = "queued"]
    /\ batches' = IF me.opens THEN [batches EXCEPT ![jobs[me.job].batch].status = "running"]
                  ELSE batches
    /\ Enter(c, "publishing")
    /\ UNCHANGED <<queue, worker>>

Publish(c) ==
    /\ client[c].phase = "publishing"
    /\ queue' = queue \cup {client[c].job}
    /\ IF client[c].role = "process"
       THEN client' = [client EXCEPT ![c] = [IdleClient EXCEPT !.phase = "counting"]]
       ELSE Finish(c)
    /\ UNCHANGED <<jobs, batches, worker>>

\* Mutant: a status that the lifecycle does not have.
RefusedAsError(j) == [jobs EXCEPT ![j].status = "error", ![j].cause = "enqueue"]

\* The broker refuses the message: the attempt is failed, by a second commit that may
\* be lost, and the caller gives up without a look at the batch.
Refused(j) == [jobs EXCEPT ![j].status = "failed", ![j].cause = "enqueue"]

PublishFails(c) ==
    /\ client[c].phase = "publishing"
    /\ jobs' \in {jobs, Refused(client[c].job)}
    /\ Finish(c)
    /\ UNCHANGED <<batches, queue, worker>>

ClientDies(c) ==
    /\ ~Idle(c)
    /\ Finish(c)
    /\ UNCHANGED <<jobs, batches, queue, worker>>

-----------------------------------------------------------------------------
(***************************************************************************)
(* Cancellation, the reaper and the operator.  None of the first two looks *)
(* at the batch of the attempt.                                            *)
(***************************************************************************)
Cancel(c, j) ==
    /\ MayRun(c, "cancel")
    /\ jobs[j].status \in {"pending", "queued"}
    /\ jobs' = [jobs EXCEPT ![j].status = "cancelled"]
    /\ UNCHANGED <<batches, queue, client, worker>>

\* Nothing is about to advance the attempt: its last activity gets older.
Unattended(j) ==
    /\ j \notin queue
    /\ \A w \in Workers : worker[w].phase = "advancing" => worker[w].next # j
    /\ \A c \in Clients : client[c].phase \in {"picked", "publishing"} => client[c].job # j

\* Mutant: an attempt in the backlog is never stale.
StaleReleased(j) == jobs[j].status \in {"queued", "running"} /\ Unattended(j)

\* Past the timeout of its stage; an attempt that waits in the backlog gets there too.
Stale(j) == jobs[j].status \in {"pending", "queued", "running"} /\ Unattended(j)

\* recover_stale_handoff: an attempt that did not start is always behind its
\* artifacts ("queued" has no index), one that did may be.
RecoverStale(c, j) ==
    /\ MayRun(c, "reaper")
    /\ Stale(j) /\ ~jobs[j].recovered
    /\ jobs' = [jobs EXCEPT ![j].status = "queued", ![j].cause = "none", ![j].recovered = TRUE]
    /\ client' = [client EXCEPT ![c] =
          [IdleClient EXCEPT !.phase = "publishing", !.role = "reaper", !.job = j]]
    /\ UNCHANGED <<batches, queue, worker>>

FailStale(c, j) ==
    /\ MayRun(c, "reaper")
    /\ Stale(j) /\ (jobs[j].recovered \/ jobs[j].status = "running")
    /\ jobs' = [jobs EXCEPT ![j].status = "failed", ![j].cause = "stale"]
    /\ UNCHANGED <<batches, queue, client, worker>>

\* classify_batch_warning finds something to close.
Warning(b) ==
    /\ Unsettled(b)
    /\ (\A j \in JobsOf(b) : Terminal(j)) \/ (\E j \in JobsOf(b) : Stale(j))

\* reconcile_stale_batches: the operator closes the batch and leaves its attempts.
Reconcile(c, b) ==
    LET completed == Cardinality({j \in JobsOf(b) : jobs[j].status = "completed"})
        failed    == Cardinality(JobsOf(b)) - completed IN
    /\ MayRun(c, "operator")
    /\ Warning(b)
    /\ batches' = [batches EXCEPT
          ![b].completed = completed, ![b].failed = failed,
          ![b].status = IF failed > 0 THEN "completed_with_errors" ELSE "completed"]
    /\ UNCHANGED <<jobs, queue, client, worker>>

-----------------------------------------------------------------------------
(***************************************************************************)
(* Tasks.                                                                  *)
(***************************************************************************)
Delivered(w, j) == j \in queue /\ ~Busy(w) /\ \A v \in Workers : Busy(v) => worker[v].job # j

\* The stage gate lets an active attempt start and drops the message of a settled one.
Take(w, j) ==
    /\ Delivered(w, j)
    /\ ~Terminal(j)
    /\ jobs' = [jobs EXCEPT ![j].status = "running"]
    /\ worker' = [worker EXCEPT ![w] = [IdleWorker EXCEPT !.phase = "working", !.job = j]]
    /\ UNCHANGED <<batches, queue, client>>

Ignore(w, j) ==
    /\ Delivered(w, j)
    /\ Terminal(j)
    /\ queue' = queue \ {j}
    /\ UNCHANGED <<jobs, batches, client, worker>>

\* The attempt ends: the task loads the batch and the attempts of the batch, sees
\* its own outcome among them, and computes the refreshed row.
Refresh(w) ==
    LET j == worker[w].job
        b == jobs[j].batch IN
    /\ worker[w].phase = "working"
    /\ \E outcome \in {"completed", "failed"} :
          LET statuses == [k \in JobIds |-> IF k = j THEN outcome ELSE jobs[k].status]
          IN  worker' = [worker EXCEPT ![w] =
                 [IdleWorker EXCEPT !.phase = "refreshed", !.job = j, !.outcome = outcome,
                                    !.loaded = batches[b], !.fresh = Refreshed(b, statuses)]]
    /\ UNCHANGED <<jobs, batches, queue, client>>

\* The row of the attempt and of its batch, as the task's commit leaves them.
EndedJobs(w) ==
    [jobs EXCEPT ![worker[w].job].status = worker[w].outcome,
                 ![worker[w].job].cause  = IF worker[w].outcome = "failed" THEN "task" ELSE @]

EndedBatches(w) ==
    LET b == jobs[worker[w].job].batch
    IN  [batches EXCEPT ![b] = Written(b, worker[w].loaded, worker[w].fresh)]

\* Mutant: the next batch is released when an attempt ends, settled or not.
ReleasesAlways(w) == TRUE

\* update_batch_progress_and_maybe_advance goes on to the next batch.
Releases(w) == worker[w].fresh.status \in DoneStatuses

\* The batch has more to do, or no other follows it.
Commit(w) ==
    LET b == jobs[worker[w].job].batch IN
    /\ worker[w].phase = "refreshed"
    /\ Releases(w) => \A n \in BatchIds : ~IsNextBatch(b, n)
    /\ jobs' = EndedJobs(w)
    /\ batches' = EndedBatches(w)
    /\ queue' = queue \ {worker[w].job}
    /\ Rest(w)
    /\ UNCHANGED client

\* The batch is settled: the next one is locked and marked running, and one of its pending
\* attempts, if there are any, is queued in the same transaction.
CommitAndAdvance(w) ==
    LET b == jobs[worker[w].job].batch IN
    /\ worker[w].phase = "refreshed"
    /\ Releases(w)
    /\ \E n \in BatchIds :
          /\ IsNextBatch(b, n)
          /\ batches' = [EndedBatches(w) EXCEPT ![n].status = "running"]
          /\ \/ \E k \in PendingOf(n) :
                   /\ jobs' = [EndedJobs(w) EXCEPT ![k].status = "queued"]
                   /\ worker' = [worker EXCEPT ![w].phase = "advancing", ![w].next = k]
                   /\ UNCHANGED queue
             \/ /\ PendingOf(n) = {}
                /\ jobs' = EndedJobs(w)
                /\ queue' = queue \ {worker[w].job}
                /\ Rest(w)
    /\ UNCHANGED client

AdvancePublish(w) ==
    /\ worker[w].phase = "advancing"
    /\ queue' = (queue \cup {worker[w].next}) \ {worker[w].job}
    /\ Rest(w)
    /\ UNCHANGED <<jobs, batches, client>>

\* The broker refuses the message: the next attempt is failed and its batch
\* refreshed, in two commits that may each fail without notice.
AdvancePublishFails(w) ==
    LET k == worker[w].next
        n == jobs[k].batch IN
    /\ worker[w].phase = "advancing"
    /\ jobs' \in {jobs, Refused(k)}
    /\ batches' \in {batches,
           [batches EXCEPT ![n] = Refreshed(n, [j \in JobIds |-> jobs'[j].status])]}
    /\ queue' = queue \ {worker[w].job}
    /\ Rest(w)
    /\ UNCHANGED client

\* The message is published, and the commit that records its task id fails: the error
\* reaches the handler of the embedding task, whose attempt is committed as completed.  The
\* handler has it running again and retries it, or records a failure and looks at the
\* batch once more.  (An attempt that failed stays failed: it is in its handler already.)
AdvanceCommitFails(w) ==
    LET j == worker[w].job
        b == jobs[j].batch
        statuses == [k \in JobIds |-> IF k = j THEN "failed" ELSE jobs[k].status] IN
    /\ TaskIdErrors
    /\ worker[w].phase = "advancing" /\ worker[w].outcome = "completed"
    /\ queue' = queue \cup {worker[w].next}
    /\ \/ /\ jobs' = [jobs EXCEPT ![j].status = "running"]
          /\ Rest(w)
       \/ /\ worker' = [worker EXCEPT ![w] =
                [IdleWorker EXCEPT !.phase = "refreshed", !.job = j, !.outcome = "failed",
                                   !.loaded = batches[b], !.fresh = Refreshed(b, statuses)]]
          /\ UNCHANGED jobs
    /\ UNCHANGED <<batches, client>>

\* The process dies; its message is delivered again.
WorkerDies(w) ==
    /\ Busy(w)
    /\ Rest(w)
    /\ UNCHANGED <<jobs, batches, queue, client>>

-----------------------------------------------------------------------------
Init ==
    /\ jobs = [j \in JobIds |-> NoJob]
    /\ batches = [b \in BatchIds |-> NoBatch]
    /\ queue = {}
    /\ client = [c \in Clients |-> IdleClient]
    /\ worker = [w \in Workers |-> IdleWorker]

Dispatch(c) ==
    CheckManual(c) \/ CountActive(c) \/ Pick(c) \/ Promote(c) \/ Publish(c) \/ PublishFails(c)

Reap(c) == \E j \in JobIds : RecoverStale(c, j) \/ FailStale(c, j)

TakeAny(w) == \E j \in JobIds : Take(w, j) \/ Ignore(w, j)

EndTask(w) == Commit(w) \/ CommitAndAdvance(w)

Next ==
    \/ \E c \in Clients :
          \/ ProcessSelected(c) \/ Dispatch(c) \/ ClientDies(c) \/ Reap(c)
          \/ \E j \in JobIds : Cancel(c, j)
          \/ \E b \in BatchIds : Reconcile(c, b)
    \/ \E w \in Workers :
          \/ TakeAny(w) \/ Refresh(w) \/ EndTask(w)
          \/ AdvancePublish(w) \/ AdvancePublishFails(w) \/ AdvanceCommitFails(w)
          \/ WorkerDies(w)

Spec == Init /\ [][Next]_vars

\* A request that began goes on; tasks are taken and, if they are not killed every
\* time, end.
DispatchRuns ==
    /\ \A c \in Clients : WF_vars(Dispatch(c))
    /\ \A w \in Workers : /\ SF_vars(TakeAny(w))
                          /\ SF_vars(Refresh(w))
                          /\ SF_vars(EndTask(w))
                          /\ WF_vars(AdvancePublish(w) \/ AdvancePublishFails(w)
                                        \/ AdvanceCommitFails(w))

\* The reaper runs on its schedule, and the operator closes the batches for which
\* the operations page shows a warning.
CareRuns ==
    \A c \in Clients : /\ SF_vars(Reap(c))
                       /\ \A b \in BatchIds : SF_vars(Reconcile(c, b))

DispatchSpec == Spec /\ DispatchRuns
CareSpec     == Spec /\ DispatchRuns /\ CareRuns

-----------------------------------------------------------------------------
TypeOK ==
    /\ jobs \in [JobIds -> JobRecords]
    /\ batches \in [BatchIds -> BatchRecords]
    /\ queue \subseteq JobIds
    /\ client \in [Clients ->
          [phase : {"idle", "dispatching", "counting", "picking", "picked", "publishing"},
           role : {"process", "reaper"}, job : JobIds, opens : BOOLEAN]]
    /\ worker \in [Workers ->
          [phase : {"idle", "working", "refreshed", "advancing"}, job : JobIds,
           outcome : {"completed", "failed"}, loaded : BatchRecords, fresh : BatchRecords,
           next : JobIds]]

\* A "dispatcher mechanism that promotes only a safe number of channel attempts into
\* runnable queued state" (T011): however promotions, the releases by tasks, deaths
\* and redelivered messages follow each other, no more attempts are active than that; but
\* for TaskIdErrors, by which a completed attempt runs again beside the one it released.
LimitKept == Cardinality(ActiveJobs) <= ActiveLimit

\* A batch that is settled has only settled attempts, and its counters say how they ended.
\* The one exception is TaskIdErrors: when the task id of the next batch's attempt cannot be
\* recorded, the attempt that settled this batch is taken up again (embed.py, its handler).
SettledBatchIsDone ==
    \A b \in Opened : ~Unsettled(b) =>
        /\ \A j \in JobsOf(b) : Terminal(j)
        /\ batches[b].completed = Cardinality({j \in JobsOf(b) : jobs[j].status = "completed"})
        /\ batches[b].failed = Cardinality(JobsOf(b)) - batches[b].completed

\* A batch whose last attempt was ended by a task is settled by that task: as only one
\* attempt is active at a time, no two tasks miss each other's outcome, and none is
\* undone by the row an earlier one had loaded.  (A cancellation, the reaper and a
\* refused message end an attempt without a look at its batch; and TaskIdErrors lets
\* two tasks of different batches run at once.)
FinishedBatchIsSettled ==
    \A b \in Opened :
        (\A j \in JobsOf(b) : jobs[j].status = "completed" \/ jobs[j].cause = "task")
        => ~Unsettled(b)

\* The batches of a request are released in order: while one has pending attempts,
\* no attempt of a later one has left the backlog.  This is so as long as it is the
\* channel's only request: the numbers of a second one begin at 1 again, and the end
\* of a batch releases the next number of either.  With TaskIdErrors an attempt that ends
\* twice releases two batches.
BatchesInOrder ==
    \A e, b \in Opened :
        /\ \A o \in Opened : batches[o].request = batches[b].request
        /\ batches[e].number < batches[b].number
        /\ PendingOf(e) # {}
        => \A j \in JobsOf(b) : jobs[j].status \in {"pending", "cancelled"}

\* "Released gradually into runnable queues" (CLARIFICATIONS.md): once no further
\* request is made, all batches and all their attempts are settled in the end.  The end
\* of an attempt releases another one only if it settles the batch, so the rest of a
\* batch leaves the backlog by a later request or, at last, by the reaper, which takes
\* it for work that got stuck; and a batch whose attempts were settled by others is
\* closed by the operator.
AllSettled ==
    /\ \A b \in BatchIds : ~Unsettled(b)
    /\ \A j \in Created : Terminal(j)

BatchesSettle == ~AllSettled ~> AllSettled
=============================================================================
