--------------------------- MODULE PipelineState ---------------------------
(***************************************************************************)
(* The vocabulary of the transcription pipeline: stages, lifecycle         *)
(* statuses, the worker lanes, the stage gate's ownership table, the       *)
(* planning of a resume point from durable artifacts, and the field update *)
(* every lifecycle transition of a job goes through.                       *)
(***************************************************************************)
EXTENDS Integers

CONSTANTS
    InlineDiarization,  \* settings.inline_diarization_enabled
    CleanupEnabled      \* settings.transcript_cleanup_enabled

ASSUME SettingsAssumption ==
    /\ InlineDiarization \in BOOLEAN
    /\ CleanupEnabled \in BOOLEAN

Stages == {"download", "transcribe", "diarize", "cleanup", "summarize", "embed"}

TerminalOnlyStages == {"completed", "cancelled"}

JobStages == Stages \cup {"queued"} \cup TerminalOnlyStages

ActiveStatuses   == {"pending", "queued", "running"}
TerminalStatuses == {"completed", "failed", "cancelled"}

VideoStatuses ==
    {"discovered", "pending", "downloading", "downloaded", "transcribing",
     "transcribed", "cleaned", "summarizing", "summarized", "completed", "failed"}

\* _STAGE_INDEX, with its default of -1 for every stage it does not list.
StageIndex(stage) ==
    CASE stage = "download"   -> 0
      [] stage = "transcribe" -> 1
      [] stage = "diarize"    -> 2
      [] stage = "cleanup"    -> 3
      [] stage = "summarize"  -> 4
      [] stage = "embed"      -> 5
      [] OTHER                -> -1

\* The lane (Celery queue) each stage is routed to.
QueueOf(stage) ==
    CASE stage \in {"download", "transcribe"} -> "audio"
      [] stage = "diarize"                    -> "diarize"
      [] OTHER                                -> "post"

Queues == {"audio", "diarize", "post"}

\* The stages a job may be in when a task of the given stage picks it up.
AllowedStageOwnership(expected) ==
    CASE expected = "download"   -> {"queued", "download"}
      [] expected = "transcribe" -> {"queued", "download", "transcribe"}
      [] expected = "diarize"    -> {"queued", "transcribe", "diarize"}
      [] expected = "cleanup"    -> {"queued", "transcribe", "diarize", "cleanup"}
      [] expected = "summarize"  -> {"queued", "transcribe", "diarize", "cleanup", "summarize"}
      [] expected = "embed"      -> {"queued", "summarize", "embed"}

\* Tasks that return their payload at once because their feature is switched
\* off.  (Diarization that is switched off never enters the chain.)
SkippedStages == IF CleanupEnabled THEN {} ELSE {"cleanup"}

\* The stages that follow a stage in the Celery chain; {} after the last one.
NextStages(stage) ==
    CASE stage = "download"   -> {"transcribe"}
      [] stage = "transcribe" -> IF InlineDiarization THEN {"diarize"} ELSE {"cleanup"}
      [] stage = "diarize"    -> {"cleanup"}
      [] stage = "cleanup"    -> {"summarize"}
      [] stage = "summarize"  -> {"embed"}
      [] OTHER                -> {}

\* How many times a task may ask Celery to run it again after an error.
RetryLimit(stage) ==
    CASE stage = "download"               -> 1
      [] stage \in {"summarize", "embed"} -> 2
      [] OTHER                            -> 0

(***************************************************************************)
(* set_pipeline_job_state on the two fields the lifecycle logic reads.     *)
(***************************************************************************)
ResolvedStage(existing, status, stage) ==
    CASE status \in {"pending", "queued"} -> "queued"
      [] status = "completed"             -> "completed"
      [] status = "cancelled"             -> "cancelled"
      [] status = "running" /\ stage \in TerminalOnlyStages ->
            IF existing \notin TerminalOnlyStages THEN existing ELSE "queued"
      [] OTHER -> stage

SetJobState(job, status, stage) ==
    [job EXCEPT !.status = status,
                !.stage  = ResolvedStage(job.stage, status, stage)]

(***************************************************************************)
(* The stage to resume from, given the artifacts a video has.  "cleaned"   *)
(* is the video status that proves the cleanup of the stored transcript.   *)
(***************************************************************************)
\* Mutant: a transcript is taken for a summary.
SelectResumeStageEarly(hasEmbeddings, hasSummary, hasTranscription, hasAudio) ==
    IF hasTranscription THEN "embed" ELSE IF hasAudio THEN "transcribe" ELSE "download"

SelectResumeStage(hasEmbeddings, hasSummary, hasTranscription, hasAudio) ==
    CASE hasTranscription /\ (hasEmbeddings \/ hasSummary)  -> "embed"
      [] hasTranscription /\ ~hasEmbeddings /\ ~hasSummary  ->
            IF ~InlineDiarization THEN "cleanup"
            ELSE IF hasAudio THEN "diarize" ELSE "download"
      [] ~hasTranscription /\ hasAudio                      -> "transcribe"
      [] OTHER                                              -> "download"

ResumePoint(art, videoStatus) ==
    IF art.transcript # "none" /\ videoStatus = "cleaned"
    THEN "summarize"
    ELSE SelectResumeStage(art.chunks # {}, art.summary, art.transcript # "none", art.audio)
=============================================================================
