------------------------- MODULE MCPipelineAttempts -------------------------
(***************************************************************************)
(* Instances of PipelineAttempts for TLC: the worker deployments and the   *)
(* mixes of requests and scripts that the configurations choose from.      *)
(***************************************************************************)
EXTENDS PipelineClaims, TLC

CONSTANTS A, P, Q,   \* worker processes
          C, D       \* clients

-----------------------------------------------------------------------------
\* The native deployment: one process per lane (audio and diarize share one here).
OnePerLane == A :> {"audio", "diarize"} @@ P :> {"post"}

\* One process that consumes every lane, alone or beside a second post process.
OneForAll == P :> Queues
TwoOnPost == P :> Queues @@ Q :> {"post"}

\* Only the audio lane is served: chains stop after the transcription.
AudioOnly == P :> {"audio"}

-----------------------------------------------------------------------------
\* Every entry point but cancellation, one at a time.
Serial == C :> (RoleNames \ {"cancel"})

\* The channel page, its dispatcher and cancellations beside the reaper, the
\* janitor and a user who submits the same video.
Contention == C :> {"channel", "promote", "cancel"} @@ D :> {"reaper", "janitor", "submit"}

\* The channel page, its dispatcher, the reaper and a user, one at a time.
OneAtATime == C :> {"channel", "promote", "reaper", "submit"}

\* A user who submits, with the reaper and with retries.
SubmitOrReap  == C :> {"submit", "reaper"}
SubmitOrRetry == C :> {"submit", "retry"}
=============================================================================
