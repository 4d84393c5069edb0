---------------------------- MODULE SummaryReports ----------------------------
(***************************************************************************)
(* A video's summary and the report that renders it, written by two        *)
(* processes: the pipeline, which summarizes, completes the video, renders *)
(* the report and delivers it, and the script that replaces the summaries  *)
(* of completed videos, one transaction for each.                          *)
(*                                                                         *)
(* A summary is told by who wrote it, the transcript it is of and whether  *)
(* it is deep enough to be rendered. Reports are switched on.              *)
(***************************************************************************)
EXTENDS Integers, FiniteSets, Sequences, SequencesExt, FiniteSetsExt

CONSTANTS
    ReportVideos,
    Old,             \* the videos that are completed, and reported, at the start
    MaxTranscripts,  \* bound: transcriptions of all videos
    None

ASSUME ReportAssumption == IsFiniteSet(ReportVideos) /\ Old \subseteq ReportVideos /\ MaxTranscripts \in Nat

VARIABLES
    video,   \* the rows of each video, its run, its report's file and what was sent of it;
             \* history (cut): a run stopped before it replaced the summary, since the last
             \* that did
    script,  \* where it is in its plan, and what its session has not committed
    mixed    \* videos of which a run and the script overlapped, or over whose file it failed

reportVars == <<video, script, mixed>>

\* Written by the script and not committed: the row is locked.
RowLocked(v) == script.session[v] # None
ReportLocked(v) == RowLocked(v) /\ script.at = "rendered"
Planned == {entry.video : entry \in ToSet(script.plan)}

Transcripts == MapThenSumSet(LAMBDA v : video[v].transcript, ReportVideos)

-----------------------------------------------------------------------------
\* Where a retry goes on: at the embedding as soon as there is any summary, unless cleanup
\* was the last that was done.
ResumesAt(v) ==
    IF video[v].transcript = 0 THEN {"queued"}
    ELSE IF video[v].summary = None THEN {"queued", "transcribed"}
    ELSE {"transcribed", "summarized"}

\* A run from the beginning is asked for, or a failed one is retried.
Resubmit(v) ==
    /\ video[v].run \in {"done", "failed"}
    /\ \E run \in ResumesAt(v) \cup {"queued"} :
          /\ run = "queued" => Transcripts < MaxTranscripts
          /\ run # "queued" => video[v].run = "failed"
          /\ video' = [video EXCEPT ![v].run = run, ![v].told = "nothing"]
    /\ mixed' = mixed \cup (Planned \cap {v})
    /\ UNCHANGED script

Transcribe(v) ==
    /\ video[v].run = "queued"
    /\ Transcripts < MaxTranscripts
    /\ video' = [video EXCEPT ![v].run = "transcribed", ![v].transcript = @ + 1]
    /\ UNCHANGED <<script, mixed>>

\* A summary that is there is replaced; a new transcript leaves it alone.
Upserted(v, deep) == [by |-> "task", of |-> video[v].transcript, deep |-> deep]

Summarize(v) ==
    /\ video[v].run = "transcribed" /\ ~RowLocked(v)
    /\ \E deep \in BOOLEAN :
          video' = [video EXCEPT ![v].run = "summarized", ![v].summary = Upserted(v, deep),
                                 ![v].cut = FALSE]
    /\ UNCHANGED <<script, mixed>>

\* Also after the video was completed, when the batch cannot go on (generate_embeddings_task).
FailRun(v) ==
    /\ video[v].run \in {"queued", "transcribed", "summarized", "completed"}
    /\ video' = [video EXCEPT ![v].run = "failed",
                           ![v].cut = @ \/ (video[v].run = "transcribed" /\ video[v].summary # None)]
    /\ UNCHANGED <<script, mixed>>

\* The video is completed before its report is made.
Complete(v) ==
    /\ video[v].run = "summarized"
    /\ video' = [video EXCEPT ![v].run = "completed"]
    /\ UNCHANGED <<script, mixed>>

\* The file is written before the row.
Render(v) ==
    /\ video[v].run = "completed" /\ video[v].summary.deep
    /\ video' = [video EXCEPT ![v].run = "rendered", ![v].file = video[v].summary,
                              ![v].held = video[v].summary]
    /\ UNCHANGED <<script, mixed>>

PublishReport(v) ==
    /\ video[v].run = "rendered" /\ ~ReportLocked(v)
    /\ video' = [video EXCEPT ![v].run = "reported", ![v].report = video[v].held,
                              ![v].held = None, ![v].delivery = "pending"]
    /\ UNCHANGED <<script, mixed>>

\* The short message takes the place of a report that was not sent.
AfterDelivery(sent) == IF sent THEN "done" ELSE "short"

Deliver(v) ==
    /\ video[v].run = "reported" /\ ~ReportLocked(v)
    /\ \E sent \in BOOLEAN :
          video' = [video EXCEPT ![v].run = AfterDelivery(sent),
                       ![v].delivery = IF sent THEN "sent" ELSE "failed",
                       ![v].sent = IF sent THEN video[v].file ELSE @,
                       ![v].told = IF sent THEN "report" ELSE @]
    /\ UNCHANGED <<script, mixed>>

\* The summary is too thin, or something else failed, at the end the commit of a message
\* that was sent: the report that is there is marked, if the session still can.
Refuse(v) ==
    /\ video[v].run \in {"completed", "rendered", "reported"} /\ ~ReportLocked(v)
    /\ \E marked \in IF video[v].report = None THEN {FALSE} ELSE BOOLEAN :
          video' = [video EXCEPT ![v].run = "short", ![v].held = None,
                       ![v].sent = IF video[v].run = "reported" THEN video[v].file ELSE @,
                       ![v].delivery = IF marked THEN "failed" ELSE @]
    /\ UNCHANGED <<script, mixed>>

\* Nobody looks at what becomes of the short message, which may not arrive.
SendShort(v) ==
    /\ video[v].run = "short"
    /\ video' = [video EXCEPT ![v].run = "done"]
    /\ UNCHANGED <<script, mixed>>

-----------------------------------------------------------------------------
NothingWritten == [v \in ReportVideos |-> None]

IsCompleted(v) == video[v].run \in {"completed", "rendered", "reported", "short", "done"}

\* The transcripts are read once, for the whole plan. A dry run goes no further.
Load ==
    /\ script.at = "off"
    /\ \E chosen \in SUBSET {v \in ReportVideos : IsCompleted(v)} \ {{}} :
       \E order \in SetToSeqs(chosen) :
          /\ script' = [at |-> "generate", session |-> NothingWritten,
                        pages |-> NothingWritten,
                        plan |-> [k \in DOMAIN order |->
                                     [video |-> order[k], of |-> video[order[k]].transcript]]]
          /\ mixed' = mixed \cup {v \in chosen : video[v].run # "done"}
    /\ UNCHANGED video

Item == Head(script.plan).video

\* The model's brief is sound, or the operator allows others (a brief that fails the contract
\* is FailItem otherwise); in both cases it may be too thin for a report.
Generate ==
    /\ script.at = "generate" /\ script.plan # <<>>
    /\ \E deep \in BOOLEAN :
          script' = [script EXCEPT !.at = "flushed",
                !.session[Item] = [by |-> "backfill", of |-> Head(script.plan).of, deep |-> deep]]
    /\ UNCHANGED <<video, mixed>>

\* The session sees what it has flushed.
SummaryInSession(v) == script.session[v]

RenderBackfill ==
    /\ script.at = "flushed" /\ SummaryInSession(Item).deep
    /\ script' = [script EXCEPT !.at = "rendered", !.pages[Item] = SummaryInSession(Item)]
    /\ video' = [video EXCEPT ![Item].file = SummaryInSession(Item)]
    /\ UNCHANGED mixed

\* What another rendering makes of the delivery.
Redelivery(delivery) == "pending"

CommitItem ==
    /\ script.at = "rendered"
    /\ video' = [v \in ReportVideos |->
           [video[v] EXCEPT
               !.summary = IF script.session[v] = None THEN @ ELSE script.session[v],
               !.report = IF script.pages[v] = None THEN @ ELSE script.pages[v],
               !.delivery = IF script.pages[v] = None THEN @ ELSE Redelivery(@)]]
    /\ script' = [script EXCEPT !.at = "generate", !.plan = Tail(@),
                                !.session = NothingWritten, !.pages = NothingWritten]
    /\ UNCHANGED mixed

\* Mutant: the session goes on with what it has flushed.
SessionKept(session) == session

RolledBack(session) == NothingWritten

\* The model fails, the brief is not sound or too thin for a report, or the database
\* refuses: the next item follows.
FailItem ==
    /\ script.at \in {"generate", "flushed", "rendered"} /\ script.plan # <<>>
    /\ script' = [script EXCEPT !.at = "generate", !.plan = Tail(@),
                                !.session = RolledBack(@), !.pages = NothingWritten]
    /\ mixed' = IF script.at = "rendered" THEN mixed \cup {Item} ELSE mixed
    /\ UNCHANGED video

\* The script ends after its plan, or it is stopped anywhere.
LeaveScript ==
    /\ script.at \notin {"off", "over"}
    /\ script' = [script EXCEPT !.at = "over", !.plan = <<>>,
                                !.session = NothingWritten, !.pages = NothingWritten]
    /\ mixed' = IF script.at = "rendered" THEN mixed \cup {Item} ELSE mixed
    /\ UNCHANGED video

-----------------------------------------------------------------------------
FirstSummary == [by |-> "task", of |-> 1, deep |-> TRUE]

ReportInit ==
    /\ video = [v \in ReportVideos |->
           IF v \in Old
           THEN [run |-> "done", transcript |-> 1, summary |-> FirstSummary,
                 report |-> FirstSummary, held |-> None, delivery |-> "sent",
                 file |-> FirstSummary, sent |-> FirstSummary, told |-> "report", cut |-> FALSE]
           ELSE [run |-> "queued", transcript |-> 0, summary |-> None, report |-> None,
                 held |-> None, delivery |-> "none", file |-> None, sent |-> None,
                 told |-> "nothing", cut |-> FALSE]]
    /\ script = [at |-> "off", plan |-> <<>>, session |-> NothingWritten, pages |-> NothingWritten]
    /\ mixed = {}

ReportNext ==
    \/ \E v \in ReportVideos :
          \/ Resubmit(v) \/ Transcribe(v) \/ Summarize(v) \/ FailRun(v) \/ Complete(v)
          \/ Render(v) \/ PublishReport(v) \/ Deliver(v) \/ Refuse(v) \/ SendShort(v)
    \/ Load \/ Generate \/ RenderBackfill \/ CommitItem \/ FailItem \/ LeaveScript

ReportSpec == ReportInit /\ [][ReportNext]_reportVars

\* Bound of the checks: the pipeline is past the transcript of one video at a time.
OneRun ==
    Cardinality({v \in ReportVideos : video'[v].run \notin {"queued", "failed", "done"}}) <= 1

-----------------------------------------------------------------------------
\* A replaced summary is stored with the report that renders it, or not at all: an item that
\* failed leaves nothing that the commit of a later one would store (apply_backfill_item, main).
BackfillIsWhole ==
    \A v \in ReportVideos :
        video'[v].summary # video[v].summary /\ video'[v].summary.by = "backfill" =>
            video'[v].report = video'[v].summary

AtRest(v) == video[v].run = "done" /\ script.at \in {"off", "over"} /\ v \notin mixed

\* When nothing runs, and no run of the video and the script overlapped, the report renders
\* the summary that is stored, where the run ended with a report (generate_video_report,
\* regenerate_video_report_artifact), and the summary is of the transcript that is stored. The
\* exception: a run that stopped between its transcript and its summary, and was retried at
\* the embedding because the summary of the older transcript was there (select_resume_stage).
ReportIsCurrent ==
    \A v \in ReportVideos : AtRest(v) =>
        /\ video[v].summary.of = video[v].transcript \/ video[v].cut
        /\ video[v].told = "report" => video[v].report = video[v].summary

\* A report that is marked as sent is the one that was sent, not one that was rendered since.
SentIsTheReport ==
    \A v \in ReportVideos : AtRest(v) /\ video[v].delivery = "sent" => video[v].sent = video[v].report

\* After every step what is stored, reported and sent of a video at rest is the same, but for
\* the summary of an older transcript that a retry went on with, and no step stored the half
\* of a replacement.
ReportsAreCurrent ==
    [][/\ ReportIsCurrent' /\ SentIsTheReport' /\ BackfillIsWhole]_reportVars

=============================================================================
