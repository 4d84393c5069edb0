------------------------------ MODULE Personas ------------------------------
(***************************************************************************)
(* The persona of a channel: derived by a model from the chunks of its     *)
(* videos, in a task that the embedding, a command or a daily sweep        *)
(* queues.  A task reads, waits for the model and writes in one            *)
(* transaction, whose start is the generated_at of what it writes; videos  *)
(* come and complete meanwhile, and tasks overlap.                         *)
(***************************************************************************)
EXTENDS Integers, FiniteSets

CONSTANTS
    ChannelVideos, \* the videos of the channel
    Workers,       \* processes that run generate_channel_persona_task
    MinVideos,     \* persona_min_videos
    MaxRetries,    \* max_retries of the task
    MaxQueued      \* bound: messages in the queue

ASSUME PersonaAssumption == MinVideos \in Nat \ {0} /\ MaxRetries \in Nat /\ MaxQueued \in Nat \ {0}

VARIABLES
    clip,      \* "absent", "pending", "completed": a completed video has its chunks
    persona,   \* the row: its corpus, and which videos were created after generated_at
    requests,  \* the messages of the task
    deriving   \* what each worker is doing

personaVars == <<clip, persona, requests, deriving>>

\* after: videos created since the transaction began; late: created, and without chunks,
\* when the corpus was read.
NoPersona == [made |-> FALSE, corpus |-> {}, after |-> {}, late |-> {}]
NoTask == [phase |-> "idle", message |-> [forced |-> FALSE, tries |-> 0],
           corpus |-> {}, after |-> {}, late |-> {}]

Completed == {v \in ChannelVideos : clip[v] = "completed"}

\* channel_needs_persona: only a channel without one gets its first.
NeedsPersona == Cardinality(Completed) >= MinVideos /\ ~persona.made

\* Fire and forget: a message may also be lost.
Enqueued(message) == IF Cardinality(requests) < MaxQueued THEN requests \cup {message} ELSE requests

Message(forced, tries) == [forced |-> forced, tries |-> tries]
-----------------------------------------------------------------------------
\* A video row is created: later than every transaction under way.
CreateClip(v) ==
    /\ clip[v] = "absent"
    /\ clip' = [clip EXCEPT ![v] = "pending"]
    /\ persona' = IF persona.made THEN [persona EXCEPT !.after = @ \cup {v}] ELSE persona
    /\ deriving' = [w \in Workers |-> IF deriving[w].phase = "idle" THEN NoTask
                                      ELSE [deriving[w] EXCEPT !.after = @ \cup {v}]]
    /\ UNCHANGED requests

\* The embedding completes the video and asks for a persona.
CompleteClip(v) ==
    /\ clip[v] = "pending"
    /\ clip' = [clip EXCEPT ![v] = "completed"]
    /\ requests' \in {requests, Enqueued(Message(FALSE, 0))}
    /\ UNCHANGED <<persona, deriving>>

\* /refresh_persona and the button of the bot.
Refresh ==
    /\ persona.made
    /\ requests' = Enqueued(Message(TRUE, 0))
    /\ UNCHANGED <<clip, persona, deriving>>

\* The daily sweep: a completed video that was created after generated_at.
Sweep ==
    /\ persona.made /\ persona.after \cap Completed # {}
    /\ requests' = Enqueued(Message(TRUE, 0))
    /\ UNCHANGED <<clip, persona, deriving>>

\* The task begins its transaction.
BeginTask(w) ==
    /\ deriving[w].phase = "idle"
    /\ \E message \in requests :
          /\ requests' = requests \ {message}
          /\ deriving' = IF message.forced \/ NeedsPersona
                         THEN [deriving EXCEPT ![w] = [NoTask EXCEPT !.phase = "read", !.message = message]]
                         ELSE deriving
    /\ UNCHANGED <<clip, persona>>

\* select_characteristic_chunks: without chunks the task is skipped.
ReadCorpus(w) ==
    /\ deriving[w].phase = "read"
    /\ deriving' = [deriving EXCEPT ![w] =
          IF Completed = {} THEN NoTask
          ELSE [@ EXCEPT !.phase = "derive", !.corpus = Completed,
                         !.late = {v \in ChannelVideos : clip[v] = "pending"}]]
    /\ UNCHANGED <<clip, persona, requests>>

Derive(w) ==
    /\ deriving[w].phase = "derive"
    /\ deriving' = [deriving EXCEPT ![w].phase = "write"]
    /\ UNCHANGED <<clip, persona, requests>>

\* The model fails, its answer is no persona, or the upsert fails: the task is retried.
Fail(w) ==
    /\ deriving[w].phase \in {"read", "derive", "write"}
    /\ LET message == deriving[w].message IN
          requests' = IF message.tries < MaxRetries
                      THEN Enqueued(Message(message.forced, message.tries + 1)) ELSE requests
    /\ deriving' = [deriving EXCEPT ![w] = NoTask]
    /\ UNCHANGED <<clip, persona>>

\* Mutant: generated_at is the time of the write.
PersonaWrittenNow(w) == [made |-> TRUE, corpus |-> deriving[w].corpus, after |-> {}, late |-> deriving[w].late]

\* upsert_persona: generated_at is now(), the start of the transaction.
PersonaWritten(w) == [made |-> TRUE, corpus |-> deriving[w].corpus, after |-> deriving[w].after,
                      late |-> deriving[w].late]

Upsert(w) ==
    /\ deriving[w].phase = "write"
    /\ persona' = PersonaWritten(w)
    /\ deriving' = [deriving EXCEPT ![w] = NoTask]
    /\ UNCHANGED <<clip, requests>>

PersonaInit ==
    /\ clip = [v \in ChannelVideos |-> "absent"]
    /\ persona = NoPersona
    /\ requests = {}
    /\ deriving = [w \in Workers |-> NoTask]

PersonaNext ==
    \/ \E v \in ChannelVideos : CreateClip(v) \/ CompleteClip(v)
    \/ \E w \in Workers : BeginTask(w) \/ ReadCorpus(w) \/ Derive(w) \/ Fail(w) \/ Upsert(w)
    \/ Refresh \/ Sweep

PersonaSpec == PersonaInit /\ [][PersonaNext]_personaVars

-----------------------------------------------------------------------------
\* No completed video is left out of the persona without the sweep noticing it, whichever
\* of overlapping tasks writes last, unless it was already created and not completed when
\* the corpus was read (refresh_stale_personas compares the creation, not the completion).
UnseenIsNoticed ==
    persona.made => Completed \ persona.corpus \subseteq persona.after \cup persona.late
=============================================================================
