--------------------------- MODULE PipelineClaims ---------------------------
(***************************************************************************)
(* What the repository's documents and error messages say of the attempts  *)
(* of a video, in the cases in which the code does otherwise.              *)
(***************************************************************************)
EXTENDS PipelineAttempts

\* "Wrong-attempt / superseded-attempt execution paths fail safe" (T010): a hidden
\* attempt, which a newer one replaced, never becomes active again.
SupersededStaysSettled == \A j \in Active : jobs[j].hiddenBy = 0

\* "It detects where the pipeline failed based on existing data and resumes from
\* the correct step" (README.md): a transcript that a failed transcription cut
\* short does not end up in a completed video.
NoTruncatedTranscript == video.status = "completed" => video.transcript # "partial"
=============================================================================
