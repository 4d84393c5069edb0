-------------------------- MODULE TranscriptCleanup --------------------------
(***************************************************************************)
(* Cleanup of a transcript by a model: a short one in one request, a long  *)
(* one in overlapping chunks that run in parallel.  The answers are joined *)
(* and given back to the segments by their position.  The model is taken   *)
(* at its best: it returns the lines that it was sent, cleaned.            *)
(***************************************************************************)
EXTENDS Integers, Sequences, FiniteSets, SequencesExt

CONSTANTS
    MaxLines,      \* bound: segments of the transcript
    Weights,       \* token counts of a line
    MaxSingle,     \* MAX_TOKENS_SINGLE
    ChunkSize,     \* CHUNK_SIZE
    ChunkOverlap,  \* CHUNK_OVERLAP
    Parallel       \* MAX_CONCURRENT_CHUNKS

CleanupAssumption ==
    /\ Weights \subseteq Nat \ {0} /\ Parallel \in Nat \ {0}
    /\ ChunkOverlap < ChunkSize /\ ChunkSize <= MaxSingle

VARIABLES
    tokens,    \* for each segment, in order, the tokens of its line
    request,   \* each chunk: "waiting", "sent", "answered"
    segments,  \* for each segment the line that its text comes from, and whether it is cleaned
    outcome    \* "running", "cleaned", "failed"

cleanupVars == <<tokens, request, segments, outcome>>

Weight(chunk) == FoldLeft(LAMBDA sum, i : sum + tokens[i], 0, chunk)

\* The last lines of a chunk that fit in the overlap start the next one.
Overlap(chunk) ==
    LET fits == {k \in 0..Len(chunk) : Weight(SubSeq(chunk, Len(chunk) - k + 1, Len(chunk))) <= ChunkOverlap}
        k == Max(fits)
    IN SubSeq(chunk, Len(chunk) - k + 1, Len(chunk))

\* A line that does not fit closes the chunk.
AddLine(built, i) ==
    IF Weight(built.open) + tokens[i] > ChunkSize /\ built.open # <<>>
    THEN [closed |-> Append(built.closed, built.open), open |-> Append(Overlap(built.open), i)]
    ELSE [built EXCEPT !.open = Append(@, i)]

Built(built) == IF built.open = <<>> THEN built.closed ELSE Append(built.closed, built.open)

AllLines == [i \in DOMAIN tokens |-> i]

\* _build_chunks, or the one request of a short transcript.
Chunks ==
    IF Weight(AllLines) <= MaxSingle THEN <<AllLines>>
    ELSE Built(FoldLeft(AddLine, [closed |-> <<>>, open |-> <<>>], AllLines))

\* The answers in the order of the chunks; what overlaps stays in twice.
Joined == FlattenSeq(Chunks)

-----------------------------------------------------------------------------
\* The pool takes the next chunk.
Send(c) ==
    /\ outcome = "running" /\ request[c] = "waiting"
    /\ \A d \in 1..c - 1 : request[d] # "waiting"
    /\ Cardinality({d \in DOMAIN request : request[d] = "sent"}) < Parallel
    /\ request' = [request EXCEPT ![c] = "sent"]
    /\ UNCHANGED <<tokens, segments, outcome>>

Receive(c) ==
    /\ outcome = "running" /\ request[c] = "sent"
    /\ request' = [request EXCEPT ![c] = "answered"]
    /\ UNCHANGED <<tokens, segments, outcome>>

\* The error of one chunk fails the stage; the transcript is as it was.
Fail(c) ==
    /\ outcome = "running" /\ request[c] = "sent"
    /\ outcome' = "failed"
    /\ UNCHANGED <<tokens, request, segments>>

\* Mutant: the segments take the lines from the second on.
ShiftedText(i) == IF i + 1 <= Len(Joined) THEN <<Joined[i + 1], "cleaned">> ELSE <<i, "raw">>

\* _map_cleaned_to_segments: a segment without a line keeps its text.
MappedText(i) == IF i <= Len(Joined) THEN <<Joined[i], "cleaned">> ELSE <<i, "raw">>

\* All chunks are answered: segments and full_text are written and committed.
Store ==
    /\ outcome = "running"
    /\ \A c \in DOMAIN request : request[c] = "answered"
    /\ segments' = [i \in DOMAIN tokens |-> MappedText(i)]
    /\ outcome' = "cleaned"
    /\ UNCHANGED <<tokens, request>>

Init ==
    /\ tokens \in UNION {[1..n -> Weights] : n \in 1..MaxLines}
    /\ request = [c \in DOMAIN Chunks |-> "waiting"]
    /\ segments = [i \in DOMAIN tokens |-> <<i, "raw">>]
    /\ outcome = "running"

Next ==
    \/ \E c \in DOMAIN request : Send(c) \/ Receive(c) \/ Fail(c)
    \/ Store

-----------------------------------------------------------------------------
\* After the cleanup every segment has a cleaned line: its own up to the end of the first
\* chunk, and after that its own or one of an earlier segment, never of a later one, since
\* lines that were sent twice only push the others back (_map_cleaned_to_segments).
LinesOnlySlipBack ==
    outcome = "cleaned" =>
       \A i \in DOMAIN segments :
          /\ segments[i][2] = "cleaned" /\ segments[i][1] <= i
          /\ i <= Len(Chunks[1]) => segments[i][1] = i

\* Every line is sent and a chunk begins with lines of the chunk before it and goes on with
\* new ones, within its size unless one line alone is larger (_build_chunks).
ChunksCover ==
    /\ Range(Joined) = DOMAIN tokens
    /\ \A c \in DOMAIN Chunks :
          /\ \A k \in 1..Len(Chunks[c]) - 1 : Chunks[c][k + 1] = Chunks[c][k] + 1
          /\ c > 1 => Last(Chunks[c]) > Last(Chunks[c - 1])
          /\ Len(Chunks) > 1 =>
                Weight(Chunks[c]) <= ChunkSize + ChunkOverlap \/ tokens[Last(Chunks[c])] > ChunkSize

\* The whole transcript is cleaned, and no segment is given the words of a later one
\* (clean_transcript).
CleanupCovers ==
    ChunksCover /\ LinesOnlySlipBack

\* "Split the cleaned text into lines and try to match each line back to the original
\* segment by position. Preserves timestamps and metadata." (transcript_cleanup.py:250-251)
LinesKeepTheirSegment ==
    outcome = "cleaned" => \A i \in DOMAIN segments : segments[i] = <<i, "cleaned">>
=============================================================================
