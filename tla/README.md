# Verification of the transcription pipeline

TLA+ models of the YouTube transcriber: the attempts (pipeline jobs) of a video and
every process that touches them, the backlog of channel requests, and the services
around them, from the subscription poll to search, reader and reports. TLC checks
small instances; TLAPS proves the safety of the attempts, the backlog, the circuit, the
cookie profiles, the subscription poll and nine services for every size.

    tlc -workers 2 -config MCSerial.cfg MCPipelineAttempts.tla
    tlapm PipelineAttempts_proofs.tla

`PROJECT.json` maps every definition to the lines it translates, and lists the
runs, the hazards they are for, and for each property a mutant of the code that
it detects.

## 1. The system

The application is a FastAPI web process, Celery workers on three lanes
(`audio`, `diarize`, `post`), a set of scripts started by cron or launchd, a
Telegram bot, a PostgreSQL database and a Redis broker. PostgreSQL is authoritative
for what has to be done; Redis carries task messages, which may be lost to a refused
publication, delivered late or delivered twice.

| Part | State | Operations | Interacts with | What makes it correct |
|---|---|---|---|---|
| Attempt factory (`pipeline_attempts.py`, migration 010) | rows of `jobs`: status, attempt number, superseded-by | allocate, create, resolve a conflict, hide superseded failures | every entry point, inside its transaction | one active attempt per video; numbers that grow |
| Vocabulary and transitions (`pipeline_state.py`, `pipeline_routing.py`) | none | `set_pipeline_job_state`, routing | everything that writes a job | stage and status agree |
| Resume planning (`pipeline_resume.py`) | none; reads the artifacts | `detect_resume_point` | retry, sweep, reaper | never skips a stage whose product is missing |
| Stage gate and chain (`tasks/helpers.py`, `tasks/pipeline.py`, `celery_app.py`) | messages, worker ownership of a row | publish, deliver, gate, acknowledge late, next stage | broker, tasks | a settled or superseded attempt is not touched |
| Stage tasks (`tasks/*.py`) | the video row and its artifacts | start, report, store, retry, fail | the row of the attempt | products are complete and stored once |
| Commit before publish (`pipeline_enqueue.py`) | queued status | commit, publish, record a refusal | requests, dispatcher, reaper | no message without a queued row; a lost one is recoverable |
| Failure bookkeeping (`pipeline_recovery.py`) | signature, recovery status | count, block, staleness | tasks, reaper, allocation | repeated failures call for a person |
| Reaper and hand-over recovery (`reap_stale_jobs.py`, `stale_handoff_recovery.py`) | recovery count | scan, recover, fail | rows and messages of others | every attempt is settled; recovery is bounded |
| Requests (`routers/jobs.py`, `videos.py`, `channels.py`) | - | submit, retry, override, cancel, process a channel | factory, dispatcher | no request disturbs an attempt that is worked on |
| Retry sweeps (`transient_auto_retry.py`, `retry_download_403_failures.py`) | one session with rows read long ago | load candidates, retry each | factory, users' requests | a retry follows the failure it is for |
| Housekeeping (`reconcile_video_status.py`, `compress_stale_videos.py`, `reap_hidden_...`) | - | mark failed, delete | rows | same |
| Channel dispatcher and batches (`channel_dispatcher.py`, `batch_reconciliation.py`) | rows of `batches`, pending attempts | promote, refresh, advance, reconcile | channel requests, last stage of a task, operator | limit of active attempts; batches settle, in order |
| Download circuit (`download_circuit.py`) | two Redis keys with a time to live | failure, success, read | download task, subscription poll | bounded pause; a cluster keeps it open |
| Subscriptions and poll (`subscriptions.py`, `poll_subscriptions.py`) | cadence, ids seen, counters, lane items | poll, submit, attach to a lane, edit | factory over HTTP, circuit, users | no upload lost or submitted twice; caps |
| Cookie profiles (`youtube_cookie_profiles.py`, `refresh_youtube_cookies.py`) | state file, jars, their backups, two locks | probe, switch, refresh | downloads, operators | only probed jars in production; the operator's choice stays |
| Outcome watchdog (`pipeline_outcome_alerts.py`) | incident file | collect, save, tell | rows of attempts, notifications | every incident is told, once per reminder |
| Notifications (`telegram_notify.py`) | tables of a process: sent, under way | reserve, send, finish | Telegram | once per window; what is suppressed was sent |
| Lanes and digests (`recipient_lanes.py`, `lane_digest.py`) | items and their delivery | attach, gather, send, mark, retry | poll, pipeline, bot | what is marked was told; told once |
| Personas (`persona.py`, `generate_persona.py`) | corpus size and time of each persona | request, derive, upsert, sweep | embedding, commands | no completed video stays out unnoticed |
| LLM budget (`cost_tracker.py`, `llm_provider.py`) | usage rows, ambient source | check, call, fall back, record | all calls of models | overspend bounded by the threads; right source |
| Transcript cleanup (`transcript_cleanup.py`) | chunks under way | build, send in parallel, join, map | model, segments | every line is cleaned; no segment gets a later one's words (its own: `cleanup_lines`) |
| Summaries and reports (`summarization.py`, `summary_quality.py`, `reporting.py`, `backfill_scan_first_summaries.py`) | summary, report row and file, delivery | generate, gate, render, deliver, replace | pipeline, notifications | stored is current and reported; sent is the report |
| Chunks and speakers (`alignment.py`, `diarize.py`, `embedding.py`) | none | align, label, gather, split | tasks | no sentence lost; one voice in a chunk |
| Chat (`routers/chat.py`, `telegram_bot.py`, `chat.py`) | sessions, messages | open, rename, send, delete | model, search | whole exchanges; the current session |
| Search (`search.py`, `global_search.py`) | none; three statements | rank, fuse, spread, balance | chunks | nothing found is dropped while there is room |
| Reader (`reader.py`, `reader_annotations.py`, `routers/reader.py`) | reading state, annotations, chapters | build blocks, patch, annotate, generate | transcripts, browser tabs | anchors and chapters fit the transcript |
| Engines, access to YouTube, pages, health and dashboard | - | models, yt-dlp, rendering, listings | model servers, YouTube, users | not modelled, see 6 |

Where it is hard: every entry point reads in one statement and writes in a later
one; the ORM writes back only changed columns, so the result of a race is a mix of
two rows, and keeps rows of a session until its next commit; tasks check that they own
an attempt when they begin and not when they commit; commit and publication are two
steps; workers are killed between them; the reaper acts on rows it read before; calls of
models and of Telegram last long, fail, or succeed without the caller's knowledge.

## 2. Modules

    PipelineState            vocabulary, resume point, field update (pure operators)
      PipelineAttempts       the attempts of one video and every process that touches them
        PipelineClaims       statements of the documents that the code does not keep
          MCPipelineAttempts instances for TLC
        PipelineAttempts_proofs    types, one active attempt, refinement of AttemptMutex
          PipelineOutcomes_proofs  what a completed video has; attempt numbers; what timely
                                   work adds: final outcomes, review, chunks
    AttemptMutex             what attempts promise: the abstract specification
    ChannelDispatcher        batches, the limit and the release of the backlog
      MCChannelDispatcher
      ChannelDispatcher_proofs
    DownloadCircuit          the circuit, one Redis command per step
      DownloadCircuit_proofs
    CookieProfiles           the profile state file, the jars and their programs
      CookieProfiles_proofs
    SubscriptionPoll         the run over watches and lanes
      MCSubscriptionPoll
      SubscriptionPoll_proofs
    Notifier  OutcomeWatchdog  LaneDigests  ChatSessions
      Messages_proofs        what they send and keep on record
    RetrySweeps  SummaryReports  Personas  LlmBudget  ReaderDesk
      Videos_proofs          what they keep of videos
    SummaryGate  TranscriptCleanup  SpeakerChunks  LibrarySearch  ReaderBlocks
    MCServices               circuit, profiles, poll and all services, each explored by itself

### PipelineAttempts

`jobs` is the table of attempts of one video, `video` its row with the artifacts
(audio, transcript, summary, chunks), `queue` the messages that are not
acknowledged, `worker` and `client` what each Celery process and each web request
or script has read and has still to do.

A step is one database transaction, one publication or one acknowledgement.
What the code reads before a commit and uses after it travels in the process
record (`seen`, `number`, `start`, `old`), so a later write works with the stale
copy exactly where the code does, and leaves alone the columns the ORM would not
write. Examples:

| Action | Code |
|---|---|
| `Submit`, `RetryJob`, `ProcessChannelVideo`, `AutoRetry` then `Create` or `CreateConflicts` | an entry point up to its allocation, then the savepoint's INSERT under the unique index |
| `Publish`, `PublishFails` | `enqueue_pipeline_job_after_commit` |
| `CancelRequest`, `Cancel` | the read and the write of `cancel_job` |
| `ReapScan`, `RecoverHandoff`, `RecoveryConflicts`, `FailStale` | one stale job of `reap_stale_jobs` |
| `PassGate`, `IgnoreTask`, `SkipStage` | `get_pipeline_job_context` and the tasks that are switched off |
| `Start`, `Report`, `Succeed`, `RetryTask`, `FailTask`, `Abort` | the commits of a stage task; `Product` says what it stores |
| `Reopen`, `FailReleased` | a refused commit of the task id of the batch's next attempt, in the handler of the embedding task that has completed |
| `Hand`, `WorkerDies`, `DiesUnacknowledged` | Celery's chain with late acknowledgement |

Abstractions: a failure is "transient" or "other" and its signature is stage and
kind; an embedding run's chunks are named by its worker; the queue is a set, so two
copies of one message are one that is delivered twice; promotion by the dispatcher
is one transaction here, because `ChannelDispatcher` has its queries.  Two errors of the
database are switches: `SegmentErrors` (a transcription's segments may be refused after its
text was flushed) and `TaskIdErrors` (the commit of a task id may be refused after the message
was published). Whether an attempt belongs to a batch is recorded only where the latter may happen.

### ChannelDispatcher

`jobs` and `batches` are the rows of one channel, `queue` the attempts that have a
message. Each query of `promote_pending_channel_jobs` is a step (`CheckManual`,
`CountActive`, `Pick`, `Promote`, `Publish`), each request creates its attempts and
batches in one commit (`ProcessSelected`). A task is abstracted to its start, the
refresh it computes from what it reads (`Refresh`), the commit of both (`Commit`, or
`CommitAndAdvance` with the first attempt of the next batch) and the publication, whose
task id may be refused (`AdvanceCommitFails`, with `TaskIdErrors`).
`Written` is the ORM's write of changed columns. Cancellation and the reaper are one
step here; `PipelineAttempts` has their races. That an attempt outside the channel
is active is a free choice at the one query that asks. `Pick` takes any pending
attempt of the first batch that has one: attempts of one request are created by one
transaction, with the same creation time.

### DownloadCircuit

Each Redis command of the failure, success and read operations is a step, and a
process may stop between any two. Times are counted in ticks and kept relative to
now (time to live, and what is left of `open_until`), so that the state space is
finite. `quiet` and `blamed` are history variables for the properties.

### Services

| Module | State and steps | Left out, or by choice |
|---|---|---|
| `SubscriptionPoll` | rows of watches and lanes, the copies the run loaded, uploads and the ids seen, the override of a person. Every commit writes the changed columns of all loaded rows; a submission is an HTTP request that may fail after the attempt was made | a feed is the newest uploads of a channel; what the classifier finds is a property of the upload |
| `RetrySweeps` | rows of `jobs`, the status of each video; `sweep` has the candidates, the rows of the session and the videos written but not committed, which are locked | the age of a failure is a choice; attempts settle in one step; the limit of the query is taken from the failures there are |
| `CookieProfiles` | state file, jars with their backup, the program of each operator and refresh with the lock it holds; each read and replacement of a file is a step, and a read may fail and give the default | a jar is its number; age of evidence and cooldown end by choice |
| `OutcomeWatchdog` | outcomes of the latest attempts, the incident file and the check under way; the file is saved before the message | signature of an incident: its failed and overdue attempts |
| `Notifier` | table of sends, set of pending sends, threads between check, request and record | one process; `Restart` empties its tables |
| `LaneDigests` | items with their jobs, what was delivered, the run of every digest between gather, send and mark | texts |
| `Personas` | videos with creation and completion, queued messages, the task between its read and its write | the model's answer is the corpus it saw |
| `LlmBudget` | spend of the day by source, ambient tag of each thread, calls between check, answer and record | costs are one unit per call |
| `SummaryGate` | a text of headings and lines with the traits the two gates look at; ask, gate, ask again | words; the model's answer is any text of the bounded shapes |
| `TranscriptCleanup` | token counts of lines, chunks sent in parallel, the join and the map by position | the model answers the lines it was sent |
| `SummaryReports` | transcript, summary, report, file and delivery of each video, where a retry resumes; the script with its plan and session | reports and delivery are switched on; whether the short message arrives |
| `SpeakerChunks` | segments with the tokens of their sentences, turns heard, chunks so far | tokens of a text are the sum of its sentences'; times of pieces are integer shares |
| `ChatSessions` | sessions with counts of questions and answers and the time of `updated_at`; a message between read, flush, answer and commit | the answer |
| `LibrarySearch` | lanes as ranked passages, fused, spread and balanced by the functions of the code; a video may be embedded again between two statements; modes and scopes of the chat's search | distances are any order, and any passage may be missing from the approximate index |
| `ReaderBlocks` | segments read one after another, block by block, chapters at distances or from a proposal | |
| `ReaderDesk` | reading state, an annotation, chapter set; requests that read, decide and write columns; anchors and places in converted text, by tables of the conversion of each character | snapshots are stored stripped (`reader.py:398`); doubled blanks |

Each module defines its initial states, one action per operation, the next-state relation and
the properties. `MCServices` extends the twelve that theorems are about, whose definitions have
names of their own (`SweepInit`, `SweepNext`, `SweepSpec`), and gives the other five, and a
second instance of the poll, the same slots as variables, so that one run explores one service
after another: an initial state chooses the service and only its actions are enabled. They do
not share state in the code either, except through attempts, which the modules see as a free
choice of the pipeline's outcomes (`PipelineEnds`, `Settle`,
`Outcome`, `Work`).

## 3. Runs

| Run | Instance | Shows |
|---|---|---|
| `serial` | 3 attempts, one request at a time (all but cancel), a process for all lanes and a second for `post`, inline diarization on, cleanup off, timely work; 1.0 M states | types; products complete; failed means idle; chunks not doubled; numbers grow; manual review reached |
| `contention` | 2 attempts, channel and cancel requests and promotion beside reaper, janitor and a submission, messages delivered again; audio lane only; 1.6 M states | one active attempt; attempts take turns (refinement of `AttemptMutex`) |
| `settle` | 2 attempts, one client that submits, reaps, or asks for a batch and promotes it, one process for all lanes, refused segments and task ids | a settled attempt keeps its outcome, but for the named exception; every attempt is settled in the end |
| `dispatch` | 5 attempts in up to 5 batches of 2, requests and cancellations one at a time, 2 tasks; 0.5 M states | limit; batches settled exactly with their attempts; order |
| `batches_settle` | 2 attempts in 2 batches, a user beside the reaper and the operator | all batches and attempts are settled in the end |
| `services` | the circuit and 16 other services, each by itself, the poll in two instances; 1.7 M states, under four minutes | see below |
| `superseded`, `truncated`, `reaped_backlog`, `unrelated`, `run_cap`, `cleanup_lines` | violations | see 4 |

What `services` shows, and the instance of each:

| Service | Instance | Properties |
|---|---|---|
| circuit | 3 videos, threshold 2, window 2, cooldown 6 ticks, one download process and one poll | `TypeOK`; `DeferralIsBounded`: the pause ends; `ClusterStaysOpen`: a success does not close while enough failures are on record |
| poll | a watch and a lane on one channel, 2 uploads, feed of 2, caps of 1, one kill or refusal, a row disabled after one failure; a watch with a feed of 1 of which one id is kept, so that ids are dropped, and one kill or refusal or edit, a row disabled after two | `NothingIsMissed`: what is marked seen was handled, and is attached to its lane or waited for a person; `SeenIsKept`; `DailyLimitKept`; types in `ServicesTypeOK` |
| cookies | 2 profiles with a jar at first, jars of two versions, an operator beside a refresh, deaths, reads that fail | `ActiveIsChosen`: but for the default that a failed read leaves; `JarsAreSafe`: the jar in use was probed, the one before it is at hand; `SwitchHasEvidence`; types, one holder of each lock |
| watchdog | 2 videos, threshold 2, reminder 2 ticks | `AlertsAreTimely`: the operator knows the incident, no alert comes twice, silence is short |
| notifier | 1 event, 2 recipients, 2 threads, window 2 ticks | `SendsAreOnRecord`: once per window, what is suppressed was sent, no reservation outlives its send |
| lanes | 1 lane, 1 video, a scheduled run beside two commands, 2 attempts | `DigestsAreTold`: what is marked was told, and told once |
| personas | 3 videos, 2 workers, 2 queued, 1 retry | `UnseenIsNoticed` |
| budget | a main thread and a chunk thread, cap 2, 4 calls | `CostsAreOnRecord`: overspend is bounded, costs are under their source |
| gate | minimums 3, 2, 1; 3 odd sections | `GatesAgree`: a whole brief passes, what is stored is reported |
| cleanup | 5 lines of 1, 2 or 5 tokens, chunks of 4 with overlap 2, 2 in parallel | `CleanupCovers`: chunks cover the lines, no segment gets the words of a later one |
| chats | 3 sessions, a web request beside the bot | `ExchangesAreWhole`: no question without its answer; a rename and `/new` are not undone |
| library | 2 transcripts of one text, 2 summaries, one without a fingerprint, limits of one and of one beyond the maximum of three, one passage that the index misses | `AnswersAreFair`: see its parts, each with its exceptions: text once, nothing left out while there is room, transcripts shown, shares kept, no answer from outside the scope |
| blocks | 4 segments of 7 kinds, blocks of 5 characters and 6 s | `TranscriptIsWhole`: blocks tell all of the transcript in order and within limits, chapters what follows the first one's start |
| desk | 2 tabs, 3 requests, 2 transcriptions beside them, characters that change case and one that grows | `DeskAgrees`: states complete, notes with text, highlights and chapters fit the transcript |
| chunks | 4 segments of 7 kinds, target 3, maximum 4, overlapping turns | `ChunksTellAll`: nothing lost or swapped, limits, one voice in a chunk, labels by who speaks longest where there is one span for each segment |
| reports | a completed and a new video, 2 transcriptions, the script | `ReportsAreCurrent`: stored, reported and sent agree, replacements are whole |
| sweeps | 2 videos, 4 attempts, limit 2, a script beside users | `RetriesAreDue`: retries follow the failure they saw, pending videos are awaited, last failures stay in view |

A property that joins several parts has them as named definitions in its module, each with
its own comment. Where one part is about steps, the invariants beside it are stated of the
state that the step leads to. The mutant listed for it breaks the part that is hardest to see.

Why the bounds suffice: the races need an attempt, its successor, and a process
that still holds the first; a third attempt makes counts of failures, hidden rows
and renumbering matter, where `ReviewAfter` is 2. For the dispatcher, five attempts
in batches of two give a first, a middle and a last batch, or two requests whose
numbers overlap. In the circuit the window is shorter than the cooldown, as in
the settings (600 s and 1800 s), and three videos are one more than the threshold.
`contention` stops chains after the transcription because the property is about
the row's status, which the later stages change in the same way. The services' limits
are the smallest that are exceeded by one: a feed of two with a cap of one, a window of
two ticks, three sessions of which two compete for being the current one, lines that fit a
chunk, its overlap, or neither.

Five bounds are conditions on steps and not constants: `OneMishap` (poll: one kill, refusal, edit,
or video whose attempt failed or waits for a person at a time), `FallbackOrRefresh` (cookies: the
default stands for a state file that was not read, or a refresh has a candidate, one of the two
until the next choice), `OneRow` (desk: the requests of a behaviour are about one of the three
rows, which share nothing but the transcript), `OneRun` (reports: the pipeline is past the
transcript of one video at a time) and `OneScript` (sweeps: one script at a time, and one attempt
that is cancelled or held for review; both scripts at once give 7 M states and were also found
free of errors).
The theorems have none of them: `RetriesAreDueAlways` is about both scripts at once,
`DeskAgreesAlways` about requests to all rows. Where a theorem covers every size, the instance of
`services` is the smallest in which every action fires and the listed mutants are found.

`serial` and `settle` assume timely work (`SlowWork` false): an attempt is stale only
when nothing will ever advance it. With overdue work the document's claim is false
(`superseded`). `settle` has no redelivered messages, because with them liveness would need
their end; `OutcomesAreFinal` proves `SettledIsFinal` with them too, where one process takes each
lane's messages. `serial` has neither refused segments nor refused task ids: there a completed
video has a whole transcript (`truncated` shows it without), and a failed one is idle.
No run checks for deadlock, because the system may stop when all attempts, uploads or
requests there may be are done.

What the dispatcher's run rests on: one request at a time (two that overlap both
count no active attempt and promote past the limit), and no reaper
(`reaped_backlog`). `FinishedBatchIsSettled` holds because `CHANNEL_ACTIVE_LIMIT`
is 1: with `ActiveLimit = 2` TLC shows two tasks that end the last two attempts of
a batch, miss each other's uncommitted outcome and leave it running. The circuit has
one process that downloads: with two, a success that has counted the failures closes
the circuit that the other opened in between.

Several properties name an exception that the code really has, rather than
exclude it from the model. The history variables `slips`, `lost`, `excused`, `stirred`,
`unmarked`, `torn`, `mixed`, `cut`, `held` and `fellBack` record when it happened; the comment of
the property says which it is. Section 4 lists them.

Fairness. `FairSpec` (run `settle`): a client that began goes on (weak, it is
sequential code); the reaper scans again and again and is not killed in every run
(strong: it is started by the scheduler every time); each lane is served and a
worker is not killed in every task (strong, because death disables and re-enables
its steps). `CareSpec` (run `batches_settle`): the same of tasks, and of the
operator for batches that the operations page warns of, without which a batch ended by
a cancellation or a refused message stays open: nothing else looks at it.

## 4. Disagreements

Shown by a run:

* `superseded`: the gate checks ownership once; a report or final commit of a worker
  whose attempt was reaped and replaced makes the hidden row active again
  (`docs/tasks/T010`: "execution paths fail safe").
* `truncated`: a transcription refused on a segment commits its text with the failure,
  and the retry takes it for a finished transcript.
* `reaped_backlog`: pending attempts get stale while they wait, and the reaper
  releases them past the limit of the dispatcher (`docs/tasks/T011`).
* `unrelated`: failures expire before the circuit they opened, so an unrelated success
  closes it (`docs/tasks/T090`).
* `run_cap`: a submission that fails after others leaves the run without their count,
  and later subscriptions get their slots (`docs/tasks/T081`).
* `cleanup_lines`: chunks are joined with their overlap and mapped by position, so that segments
  behind the first boundary get the text of earlier lines, and the last lines are lost
  (`transcript_cleanup.py:250`: "back to the original segment by position").

Met while modelling, without a run of their own:

* Pipeline. A retry resets the video status before it plans the resume point and so
  repeats a finished cleanup (`routers/jobs.py:161`, against `pipeline_resume.py:53`);
  attempt numbers can repeat when two requests overlap; cancellation is written over a job
  that has started. The commit of a task id, after a batch went on, is inside the handler
  of the embedding task that has completed (`embed.py:235`, `263`, `pipeline_enqueue.py:65`): when
  it is refused, the completed attempt runs again or is recorded as failed, against
  `channel_dispatcher.py:139` ("do not let it retry/reclassify the just-completed current pipeline
  job"), which holds for a refused message, since that error is suppressed there.
  `SettledIsFinal` names the exception, `SettledBatchIsDone` and `FailedMeansIdle` are proved without it.
* Retry sweeps. The operator's script does not compare with the latest attempt, so that a
  video whose newer attempt completed is set back to pending and run again; it passes the
  `batch_id` on, so a finished batch gets an active attempt; after a conflict the video's
  "pending" stays in the session and is committed with the next candidate, over a running
  attempt; the query's LIMIT comes before the filter in Python, so that other recent
  failures can keep transient ones out.
* Poll. A lane marks a video that waits for a person as seen; when the person retries it and it
  is completed, the lane never gets an item for it (`poll_subscriptions.py:395`). The branch of
  `:161` that marks entries as seen without submitting them when the budget is low is dead:
  its caller passes a constant (`:481`).
* Cookie profiles. A state file that cannot be read counts as the default
  (`youtube_cookie_profiles.py:80`), and the next record writes it back: the active profile becomes
  the first one without anybody's choice.
* Gates. `validate_report_depth` says it is "intentionally more permissive than
  validate_summary_contract"; a stored summary can fail it (a subheading hides a section,
  a flag of low content is revoked further on).
* Budget. `poll_subscriptions.py:477` calls it "the hard ceiling", but summaries never
  check it; threads of the cleanup lose the source; the tag of one task stays for the next
  one of its process; an undecodable answer of the compatible provider is no
  `LLMProviderError` and so has no fallback.
* Personas. The sweep says it looks for videos "completed after persona.generated_at" and
  compares their creation.
* Chat. `docs/CHAT_FEATURE_PLAN.md:29` filters by the chat switches, `routers/chat.py:120`
  searches without them; the question is in the history and appended once more; question and
  answer have one creation time; overlapping messages move `updated_at` backwards;
  `/ask_video` changes the session and does not commit.
* Videos. `models/video.py:35` says a retry clears the dismissal; a resubmission does not.
* Lanes. An item whose linked attempt failed stays failed when a later one completes;
  a message names ten videos and all are marked; a message that Telegram accepted, and whose
  answer did not arrive in time, counts as not sent and is sent again.
* Reports. A retry resumes at the embedding as soon as there is any summary
  (`pipeline_resume.py:32`), and a new transcription keeps the old one: a run that stopped
  between the two stages completes with the summary, and the report, of the older transcript. A
  short message that is not sent is not looked at (`embed.py:133`), so nobody may be told.
* Search. The balance may bring back a text that was deduplicated, and replaces a summary
  although there was room. Texts without letters or digits of the Latin script have no
  fingerprint and are not deduplicated (`global_search.py:294`). The index of vectors is
  approximate and the scope a filter on its answer (migrations 001 and 003): fewer passages than
  there are may be found.
* Reader. Overlapping requests can leave "finished" without its time, or a note without
  text; a bookmark changed to a highlight is never compared with the text; a highlight that is
  found again has the place of the folded text and the length of the one that was not
  (`reader_annotations.py:34`, against its comment "Preserve character offsets whenever the text
  survives verbatim"): where a character grows in folding, other characters are marked; chapters of
  a model may begin after the transcript (`reader_chapters.py:52`); a segment without
  a speaker between two speakers lets a block mix both.
* Alignment. `alignment.py:3` keeps labels with their words; `diarize.py:105` zips labels by
  position with spans that are one per sentence, so they move to other segments.
* Backfill. Replaced summaries are not embedded again; replaced reports stay "pending"
  (`docs/tasks/T059` counts 33 of them); a rerun between load and apply leaves a summary of
  the old transcript; the file is written before the commit.

## 5. Proofs

Every theorem is about the specification that the runs check, for every value of its
constants. Where an assumption is needed beyond the types of the constants
(`SettingsAssumption`, `ConstantsAssumption`, `CircuitAssumption`, `CookieAssumption`,
`PollAssumption`, `SweepAssumption`, ..., which TLC evaluates on every run), it is a named condition and a hypothesis of the theorem:

| Condition | Says | Justified by | Without it |
|---|---|---|---|
| `OneClient` (`PipelineOutcomes_proofs`) | requests and scripts come one at a time | nothing in the code; it is how one operator works | two overlapping requests allocate one number (section 4) |
| `TimelyWork` (`PipelineOutcomes_proofs`) | no work is overdue; nobody cancels; one client at a time reaps or promotes; messages are redelivered only where one process takes them | timeouts of the reaper beyond the time limits of the tasks; reaper and dispatcher started by one scheduler; one process per lane | `superseded`; a cancellation is written over a started job (section 4); two processes with one message |
| `OneUser` (`ChannelDispatcher_proofs`) | one client, that processes a channel or cancels; `ActiveLimit` = 1; `~TaskIdErrors` | `CHANNEL_ACTIVE_LIMIT`, `channel_dispatcher.py:30`; one operator; a database that takes a second commit after the first | `reaped_backlog`; two overlapping requests; a limit of 2 (section 3); a completed attempt of a settled batch comes back (section 4) |
| `~TaskIdErrors` (`FailedIsIdle`, beside `TimelyWork`) | the ids of published tasks are stored | the same | a task whose attempt had completed records a failure of the video beside its next attempt |
| `OneDownloader` (`DownloadCircuit_proofs`) | one process downloads | the audio lane runs one task at a time | a success closes what another failure opened (section 3) |
| `SubscriptionsStay` (`SubscriptionPoll_proofs`) | no subscription of a channel is deleted | nothing in the code; users rarely do | a subscription deleted and made again while a run polls it is charged with the attempt of the old one |
| `ListIsLong` (`SubscriptionPoll_proofs`) | the list of ids holds twice the feed less one | 50 ids (`subscriptions.py:287`); YouTube's feed, and the limit of the fallback (`:59`), are 15 | older videos that were deferred are put before newer ones and push an id off that the feed still shows |

Each condition is met by the run that checks the property, or is weaker (`batches_settle` and
`settle` have refused task ids). `TimelyWork` lets
any number of clients submit, retry and sweep beside the one that reaps, and any number of
workers unless messages are redelivered. Users do not edit the subscriptions for which `services`
checks the daily limit; the theorem has any number of edits that delete none, of killed runs and
refused messages. The theorems about the nine services have no condition.

### Attempts

`PipelineAttempts_proofs`, with no condition: any clients, workers, lanes and settings, overdue
work and redelivered messages.

* `TypeCorrect`. A client's attempt is 0 until it has one, so that the messages it
  publishes are typed only thanks to `ClientsHoldJobs`; the conjunction is inductive.
* `ActiveIsUnique`. The argument: every step either leaves each row's activity as it
  was, settles a row, or makes one row active under `IndexAllows`, that is, when no
  other row is. Uniqueness is inductive together with the types, with no appeal to
  allocation's own check: the index alone carries it.
* `TurnsAreTaken`. The same case analysis gives more than uniqueness: no step makes
  one attempt active and another inactive, so each is a step of `AttemptMutex`.

`PipelineOutcomes_proofs`:

* `CompletedIsComplete`, with no condition. A worker's last commit says that the video is
  complete, but what is stored was stored by earlier tasks, perhaps of earlier attempts. The
  invariant (`ProductsInv`) says of everything that asks for an embedding (a message, a task,
  what a task hands over, a planned resume point) that summary and transcript are there by then.
  That the transcript is whole unless segments may be refused is an invariant of its own
  (`IsWhole`): no step stores a part of one, `Remains` apart.
* `NumbersGrow`, under `OneClient`. `NumbersInv` says that a number that was allocated and is
  not yet inserted is still ahead of all rows. Rows are inserted in the order of their ids and
  what anybody holds is a row (`RowsInv`, with no condition).

`NextNumber` is the set of the one next number instead of a CHOOSE, so that its type
follows without induction over the rows.

Also there, under `TimelyWork`: no invariant about rows alone is inductive: a settled
row stays settled because nobody who could write it has it in hand. `HandsInv` says who has
what: an attempt has one message or one task, a task past the gate has the active attempt,
what is about to be published or was found stale is nobody else's. From it follows, once,
how a row can go on in a step (`StepRowsGoOn`), and then

* `OutcomesAreFinal`: a settled attempt never changes except to be deleted, or to come back by
  the hands of the very task that completed it (`RowReopens`, `WorkersRelease`); the exception is
  part of the property, not a condition;
* `ReviewIsNotMissed`: the failures without a review are fewer than `ReviewAfter`
  (`UnreviewedAreFew`, which compares cardinalities of the sets before and after a step);
* `FailedIsIdle`, with `~TaskIdErrors`: the step that marks the video failed ends its only active
  attempt;
* `ChunksAreOneRuns`: an embedding run inserts into what it found empty or has deleted.

### Backlog

`ChannelDispatcher_proofs`: `DispatcherTypeCorrect` with no condition, the others under `OneUser`
in layers, each an invariant over those before it.

* `LimitIsKept` (`ActiveInv`): between the count of active attempts and the promotion nothing gets
  active, because a task releases the next batch only in the commit that ends its own attempt,
  and the one client is the dispatcher.
* `SettledBatchesAreDone` (`CountInv`): no counter of a batch, stored or computed by a task that is
  about to commit it, is ahead of the attempts, so that a mix of two rows is not either; a batch is
  only stored as settled with the counters of all its attempts.
* `FinishedBatchesAreSettled` (`FinishInv`): a task that finds all other attempts of its batch ended
  writes the batch as done; as attempts are active one at a time, one task always finds that.
* `BatchesStayInOrder` (`OrderInv`): which batches have been opened, and which one a dispatcher that
  has picked, or a task that has released an attempt, is about to open.

### Circuit

`DownloadCircuit_proofs`: `CircuitTypeCorrect` and `PauseIsBounded`, for any times and
any number of processes. What bounds the pause is that `open_until` is computed before
the first command: the strengthening says the same of the value each process carries
as of the one stored, since a tick lowers the one while it raises `quiet`, and a
new refusal resets `quiet` to 0. `ClusterKeepsCircuitOpen`, under `OneDownloader`: the count by which
a success goes on to close is not outdated (`CountIsCurrent`), since only failures add to the set.

### Cookie profiles

`CookieProfiles_proofs`, for any operators, refreshers and jars (`CookieInvariant`, of five parts):

* `ChoiceIsKept`. Every program writes the whole state file back. Who has it loaded has the lock, and
  no other program writes meanwhile (`LockInv`), so the choice it writes is the last one, or the
  default, if its read failed: what a program has loaded is one of the two (`InForce`), and the
  property says which.
* `JarsStaySafe`. A refresh replaces in two renames and may die after the first. `JarsInv` says what is
  where in each phase, `CandidatesInv` that a candidate is nobody else's jar and that the lock of the
  jar keeps other refreshes of the profile away.
* `SwitchesRestOnEvidence`. A success that is recorded, read or about to be recorded was probed
  within the maximal age (`EvidenceInv`).
* `CookieTypeCorrect`, with at most one holder of each lock.

### Subscription poll

`SubscriptionPoll_proofs`, for any subscriptions, lanes, channels, feeds and caps. `TypeInv` types the
run by its phase: one at a subscription has a row, one at an entry has a video of it.

* `NothingSeenIsMissed`, with no condition. An id is marked at the end of a subscription, long after
  its entry was handled, from lists the run keeps in memory. `SeenInv` says of every place an id passes
  through (row, copy, the lists of taken and rejected entries, the entry in hand) that the video
  is handled and attached, or was told to wait, by then; the write of changed columns then mixes
  rows that all say so.
* `PollTypeCorrect`. That no row counts past the cap and no run has more slots than its own rests on
  `CountInv`, which bounds the counters of rows and copies and what the run has still to count.
* `DailyLimitIsKept`, under `SubscriptionsStay`. An attempt is made by one request, counted in memory
  at the next step and written by a later commit, and users write the same row meanwhile. `LimitInv`
  says that what the session loaded is what the row still has in the two columns of the counter
  (`SessionInSync`), and that the attempts made are at most what is counted in row or copy, and two
  more for each slip (`MadeIsCounted`).
* `SeenStaysKnown`, under `ListIsLong`: the action property `IdsAreKept`, which `SeenIsKept` checks on
  two instances, both at the bound (a feed of 2 and 3 ids, of 1 and 1). The newest ids are put first, but
  an older video that was cut off or deferred goes before newer ones. Before an id that the feed
  still shows are those of newer videos, fewer than the feed, and of older ones. An older one was put
  there while one feed showed both, so that the uploads between them fit in a feed (`ListOK`), and these
  too are fewer than the feed (`FeedIsFirst`). What a run adds are different videos of the feed
  that its row has not seen (`FedInv`); what it adds them to is still the row's list, unless the row
  was deleted, and then the commit fails (`ListsInSync`).

### Messages

`Messages_proofs`, with no condition. The four services share nothing; each promise is about the
record after a step, and the invariant adds what a thread, run or message has in hand.

* `SendsAreOnRecordAlways` (`Notifier`, any threads, events and recipients). A key is reserved by one
  sending thread and by none that is not sending (`ReservedOnce`), so that nobody writes the table
  between a thread's check and its record; the table lags behind what Telegram confirmed only while a
  thread has still to record it (`TableIsCurrent`). A tick ages both in step.
* `AlertsAreTimelyAlways` (`OutcomeWatchdog`, any videos, thresholds and reminder times). The file is
  saved before its message: until then it says what the operator heard (`UnsavedIsTold`), afterwards
  what the operator is about to hear (`SavedIsAsked`). Only a run that died in between breaks the tie.
* `DigestsAreToldAlways` (`LaneDigests`, any lanes, videos and overlapping runs). What was told is
  marked, or about to be, or its run died (`ToldIsMarked`); a run marks only what it told
  (`MarksWhatItTold`) and repeats only what it could not know (`RepeatsAreExcused`).
* `ExchangesAreWholeAlways` (`ChatSessions`, any sessions and senders). `TimesAgree` orders the times
  of a row and of the transactions about it; `MessagesFollow` says that a message under way has read a row no
  younger than itself, and that one that opens its session is alone with it.

### Videos

`Videos_proofs`, with no condition:

* `RetriesAreDueAlways` (`RetrySweeps`, any videos and limits, both scripts at once). A script acts on
  rows that its session loaded any number of commits ago. The invariant says what of them cannot have
  changed: a failure that was read is still one, of the same cause (`ScriptsInv`); beside it, that only
  the latest attempt of a video is active and at most one failure in view, none beside an active attempt
  (`LatestInv`, `ViewInv`), and that a video written as pending, though not yet committed and so
  locked, has something to wait for (`AwaitedInv`).
* `ReportsAreCurrentAlways` (`SummaryReports`). The script's plan is of the stored transcript unless a run
  of the pipeline has met the video since (`PlanIsCurrent`), and its session holds the item in hand and
  nothing else (`SessionIsItem`), so that its commit replaces summary and report together;
  `RowsAreCurrent` follows the run of the pipeline stage by stage, also a retry that goes on behind
  a new transcript (`cut`).
* `UnseenVideosAreNoticed` (`Personas`). Overlapping tasks write in any order. What is written was read at
  some time, and every video outside it was created later or not completed then; that is said of
  what each task carries and of the row alike (`CorporaAreAccounted`), so the order does not matter.
* `CostsAreOnRecordAlways` (`LlmBudget`, any cap, finitely many threads). What was billed and the
  calls that passed the check and may still be billed are together bounded (`PassedIsBounded`), which
  counts the set of those calls in every step; check and sum are tied by `BilledIsSummed`.
* `DeskAgreesAlways` (`ReaderDesk`, any transcripts, texts and requests). What a request has
  loaded of an annotation that still exists is what the row has, but for type and note
  (`LoadedInv`), so that columns it writes beside another request's fit each other (`MarkInv`).
  Conversion is by any table of characters; where it keeps the length of two texts, places in
  the converted texts are places in the originals (`ShownIsChecked`), for which the property asks.

### Only model-checked

* Liveness (`AttemptsSettle`, `BatchesSettle`) and ENABLED are out of the prover's reach.
* What the folds of `SpeakerChunks`, `ReaderBlocks`, `TranscriptCleanup` and `LibrarySearch` compute
  for every input needs induction over data: these four, and `SummaryGate`, are checked over
  all their bounded inputs.

## 6. Not modelled

* Engines: speech, voices, embeddings and language models, their devices and prompts.
  What is done with their answers is modelled, the answers are free choices.
* Access to YouTube: options and order of yt-dlp's attempts, tokens, player clients. The
  outcome of a download is a choice, and what the circuit and the profiles do with it is modelled.
* Pages, templates and scripts of the front end, the operations dashboard and worker health:
  they render or list rows that others write and keep no state. The operator's closing of
  batches is in `ChannelDispatcher`.
* The bot's commands other than digests, chat and lane retries call the web API or only read.
* Evaluation, quality and one-off migration scripts, and the scripts under `skills/`, which
  are clients of the API.
* Formatting of reports, exports, messages, citations and evidence snippets.

Within the modelled parts: jobs without a video, several channels at a time, and
`time_limit` kills, which look like `WorkerDies`; an exception at one job that ends the
reaper's loop (it looks like a reaper that is killed).

## 7. Plan

Done: the core, the dispatcher, the circuit, the cookie profiles, the subscription poll and nine
services, each with its proofs; five algorithms, checked over their bounded inputs. Left, in
this order:

1. `ChannelDispatcher`: an invariant for a limit above one, which needs the lost update of a batch
   (section 3) as a named exception.
2. The requests of the bot and the commands of the pages that change state, beside those modelled.
