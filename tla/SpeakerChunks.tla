---------------------------- MODULE SpeakerChunks -----------------------------
(***************************************************************************)
(* From the segments of a transcript to the passages that search looks     *)
(* through: speakers are put to segments, and segments, or the sentences   *)
(* of a long one, are gathered in chunks that keep a speaker and a length. *)
(*                                                                         *)
(* A text is the sequence of its sentences, <<segment, sentence>>, those   *)
(* of the summary with segment 0; its tokens are the sum of theirs.        *)
(***************************************************************************)
EXTENDS Integers, Sequences, SequencesExt, FiniteSetsExt

CONSTANTS
    Kinds,         \* segments: what they last and the tokens of their sentences
    Talks,         \* what the diarization may answer: turns by their start
    Summaries,     \* summaries: the tokens of their sentences
    MaxSegments,   \* bound
    TargetTokens,  \* chunk_target_tokens
    MaxTokens      \* chunk_max_tokens

ChunkAssumption ==
    /\ Kinds \subseteq [lasts : Nat \ {0}, sentences : Seq(Nat \ {0})]
    /\ \A turns \in Talks : turns \in Seq([start : Nat, end : Nat, speaker : STRING])
    /\ Summaries \subseteq Seq(Nat \ {0})
    /\ MaxSegments \in Nat /\ 0 < TargetTokens /\ TargetTokens <= MaxTokens

VARIABLES
    segments,  \* of the transcript
    speakers,  \* the label of each
    heard,     \* what the labels were made from: the turns, and the intervals that were aligned
    read,      \* how many segments were gathered
    current,   \* the segments that wait for their chunk
    chunks

chunkVars == <<segments, speakers, heard, read, current, chunks>>

Total(s) == FoldLeft(LAMBDA a, b : a + b, 0, s)

-----------------------------------------------------------------------------
Transcribe(kind) ==
    LET from == IF segments = <<>> THEN 0 ELSE Last(segments).end
    IN  /\ Len(segments) < MaxSegments /\ heard = <<>>
        /\ segments' = Append(segments, [start |-> from, end |-> from + kind.lasts,
                                         sentences |-> kind.sentences])
        /\ speakers' = Append(speakers, "none")
        /\ UNCHANGED <<heard, read, current, chunks>>

Overlap(span, turn) == Max({0, Min({span.end, turn.end}) - Max({span.start, turn.start})})

\* How long a speaker talks in a span.
Voice(span, turns, who) ==
    FoldLeft(LAMBDA n, t : n + (IF t.speaker = who THEN Overlap(span, t) ELSE 0), 0, turns)

\* Of speakers who talk as long, the one who talks first.
FindSpeaker(span, turns) ==
    LET over == SelectSeq(turns, LAMBDA t : Overlap(span, t) > 0)
        first == SelectInSeq(over, LAMBDA t : \A u \in ToSet(over) :
                     Voice(span, turns, t.speaker) >= Voice(span, turns, u.speaker))
    IN  IF over = <<>> THEN "none" ELSE over[first].speaker

\* whisperX answers one span for every sentence; the spans share the segment's time.
Sentencewise(segment) ==
    LET n == Max({1, Len(segment.sentences)})
        At(k) == segment.start + ((segment.end - segment.start) * k) \div n
    IN  [k \in 1 .. n |-> [start |-> At(k - 1), end |-> At(k)]]

\* Without whisperX, or when it fails, the segments keep their times.
Alignments ==
    {FlattenSeq([i \in DOMAIN segments |-> Sentencewise(segments[i])]),
     [i \in DOMAIN segments |-> [start |-> segments[i].start, end |-> segments[i].end]]}

\* Labels are put to segments by position, although a segment may have several spans.
\* Diarization that is switched off hears nothing.
DiarizeAndAlign(turns, aligned) ==
    /\ segments # <<>> /\ heard = <<>>
    /\ heard' = <<turns, aligned>>
    /\ speakers' = [i \in DOMAIN segments |->
                       IF turns = <<>> \/ i > Len(aligned) THEN "none"
                       ELSE FindSpeaker(aligned[i], turns)]
    /\ UNCHANGED <<segments, read, current, chunks>>

-----------------------------------------------------------------------------
Sentences(i) == [j \in DOMAIN segments[i].sentences |-> <<i, j>>]

TextOf(indices) == FlattenSeq([k \in DOMAIN indices |-> Sentences(indices[k])])

\* sizes: the tokens of the sentences of the summary.
Tokens(text, sizes) ==
    Total([k \in DOMAIN text |-> IF text[k][1] = 0 THEN sizes[text[k][2]]
                                 ELSE segments[text[k][1]].sentences[text[k][2]]])

SegmentTokens(indices) == Tokens(TextOf(indices), <<>>)

Overfull(piece, sentence, sizes) ==
    piece # <<>> /\ Tokens(Append(piece, sentence), sizes) > MaxTokens

\* _split_at_sentence_boundaries.
SplitText(text, sizes) ==
    LET Take(acc, sentence) ==
            LET full  == Overfull(acc.piece, sentence, sizes)
                done  == IF full THEN Append(acc.done, acc.piece) ELSE acc.done
                piece == IF full THEN <<sentence>> ELSE Append(acc.piece, sentence)
            IN  IF Tokens(piece, sizes) >= TargetTokens
                THEN [done |-> Append(done, piece), piece |-> <<>>]
                ELSE [done |-> done, piece |-> piece]
        all == FoldLeft(Take, [done |-> <<>>, piece |-> <<>>], text)
    IN  IF all.piece = <<>> THEN all.done ELSE Append(all.done, all.piece)

\* Where the pieces of a segment begin: its time is shared by their tokens.
PieceStarts(i, pieces) ==
    LET length == segments[i].end - segments[i].start
        Before(k) == Tokens(FlattenSeq(SubSeq(pieces, 1, k - 1)), <<>>)
    IN  [k \in 1 .. Len(pieces) + 1 |->
            segments[i].start + (length * Before(k)) \div SegmentTokens(<<i>>)]

\* split_oversized_segment
SplitSegment(i) ==
    LET pieces == SplitText(Sentences(i), <<>>)
        starts == PieceStarts(i, pieces)
    IN  [k \in DOMAIN pieces |->
            [text |-> pieces[k], start |-> starts[k], speaker |-> speakers[i],
             end |-> IF k = Len(pieces) THEN segments[i].end ELSE starts[k + 1]]]

\* flush_current
Flushed(indices) ==
    IF indices = <<>> THEN <<>>
    ELSE <<[text |-> TextOf(indices), start |-> segments[indices[1]].start,
            end |-> segments[Last(indices)].end, speaker |-> speakers[indices[1]]]>>

Oversized(i) == SegmentTokens(<<i>>) > MaxTokens

\* Mutant: the speaker is not asked for.
JoinsAnyone(i) == current # <<>> /\ SegmentTokens(Append(current, i)) <= MaxTokens

Joins(i) ==
    /\ current # <<>> /\ speakers[i] = speakers[current[1]]
    /\ SegmentTokens(Append(current, i)) <= MaxTokens

Closes(i) == Oversized(i) \/ ~Joins(i)

Gather ==
    LET i == read + 1
        kept == IF Oversized(i) THEN <<>> ELSE IF Closes(i) THEN <<i>> ELSE Append(current, i)
        full == SegmentTokens(kept) >= TargetTokens
    IN  /\ heard # <<>> /\ i <= Len(segments)
        /\ read' = i
        /\ chunks' = chunks \o (IF Closes(i) THEN Flushed(current) ELSE <<>>)
                            \o (IF Oversized(i) THEN SplitSegment(i) ELSE <<>>)
                            \o (IF full THEN Flushed(kept) ELSE <<>>)
        /\ current' = IF full THEN <<>> ELSE kept
        /\ UNCHANGED <<segments, speakers, heard>>

\* The last chunk, and those of the summary, which have no time (sizes: their sentences).
Finish(summary) ==
    LET pieces == SplitText([j \in DOMAIN summary |-> <<0, j>>], summary)
    IN  /\ heard # <<>> /\ read = Len(segments)
        /\ read' = read + 1
        /\ chunks' = chunks \o Flushed(current)
                            \o [k \in DOMAIN pieces |->
                                   [text |-> pieces[k], speaker |-> "__SUMMARY__",
                                    sizes |-> summary]]
        /\ current' = <<>>
        /\ UNCHANGED <<segments, speakers, heard>>

-----------------------------------------------------------------------------
Init ==
    /\ segments = <<>> /\ speakers = <<>> /\ heard = <<>>
    /\ read = 0 /\ current = <<>> /\ chunks = <<>>

Next ==
    \/ \E kind \in Kinds : Transcribe(kind)
    \/ \E turns \in Talks : \E aligned \in Alignments : DiarizeAndAlign(turns, aligned)
    \/ Gather
    \/ \E summary \in Summaries : Finish(summary)

-----------------------------------------------------------------------------
Spoken == SelectSeq(chunks, LAMBDA c : c.speaker # "__SUMMARY__")
Told   == SelectSeq(chunks, LAMBDA c : c.speaker = "__SUMMARY__")
SizesOf(c) == IF c.speaker = "__SUMMARY__" THEN c.sizes ELSE <<>>

\* The chunks tell every sentence of the transcript once and in order, then those of the
\* summary, whatever was split, joined or left waiting (_build_speaker_chunks).
NothingIsLost ==
    /\ FlattenSeq([k \in DOMAIN Spoken |-> Spoken[k].text]) \o TextOf(current)
          = TextOf([i \in 1 .. Min({read, Len(segments)}) |-> i])
    /\ Told # <<>> => FlattenSeq([k \in DOMAIN Told |-> Told[k].text])
                         = [j \in DOMAIN Told[1].sizes |-> <<0, j>>]

\* A chunk keeps within max_tokens, but for a single sentence that does not
\* (_split_at_sentence_boundaries, _build_speaker_chunks).
ChunksFit ==
    \A k \in DOMAIN chunks :
        Tokens(chunks[k].text, SizesOf(chunks[k])) > MaxTokens => Len(chunks[k].text) = 1

\* A chunk that search names a speaker of holds nothing of a segment with another label.
OneVoice ==
    \A k \in DOMAIN Spoken : \A place \in ToSet(Spoken[k].text) :
        speakers[place[1]] = Spoken[k].speaker

\* The chunks follow one another in time, as the segments do, and the pieces of a segment
\* share its time without a gap (split_oversized_segment).
SpansFollow ==
    \A k \in DOMAIN Spoken :
        /\ Spoken[k].start <= Spoken[k].end
        /\ Spoken[k].end <= segments[Len(segments)].end
        /\ k > 1 => /\ Spoken[k].start >= Spoken[k - 1].end
                    /\ Spoken[k].text # <<>> /\ Spoken[k - 1].text # <<>>
                          /\ Spoken[k].text[1][1] = Last(Spoken[k - 1].text)[1]
                          => Spoken[k].start = Spoken[k - 1].end

\* A chunk stays below target_tokens only where another speaker follows, where what follows
\* would not fit, or where a long segment ends (_build_speaker_chunks).
ShortForAReason ==
    \A k \in DOMAIN Spoken :
        LET c == Spoken[k]
            d == Spoken[k + 1]
            last == Last(c.text)[1]
            next == d.text[1][1]
            short == Tokens(c.text, <<>>) < TargetTokens
        IN  k < Len(Spoken) /\ c.text # <<>> /\ d.text # <<>> /\ short =>
                \/ c.speaker # d.speaker
                \/ last # next /\ Oversized(last)
                \/ last # next /\ Tokens(c.text, <<>>) + SegmentTokens(<<next>>) > MaxTokens
                \/ last = next /\ Tokens(Append(c.text, d.text[1]), <<>>) > MaxTokens

\* No one talks longer than the speaker who is put to a segment (_find_speaker) during the
\* span that the alignment answered at the segment's position.  Where it answers one span
\* for every segment that is the segment itself; where it answers more, the labels slip
\* (the exception: diarize.py zips spans and segments by position).
LabelIsTheVoice ==
    heard # <<>> =>
        \A i \in 1 .. Min({Len(segments), Len(heard[2])}) :
            LET span == IF Len(heard[2]) = Len(segments) THEN segments[i] ELSE heard[2][i]
            IN  \A turn \in ToSet(heard[1]) :
                    \/ Overlap(span, turn) = 0
                    \/ Voice(span, heard[1], turn.speaker) <= Voice(span, heard[1], speakers[i])

\* From the segments to the passages no sentence is lost, swapped, in a chunk that is too long
\* or short without reason, and a passage has the words of one label.  The label is the one
\* who spoke longest in the segment only where the alignment answered a span for each.
ChunksTellAll ==
    /\ NothingIsLost /\ ChunksFit /\ SpansFollow /\ ShortForAReason
    /\ OneVoice /\ LabelIsTheVoice

=============================================================================
