---------------------------- MODULE ReaderBlocks ----------------------------
(***************************************************************************)
(* The transcript as the reader shows it: segments are merged, one after   *)
(* the other, into blocks, and blocks are gathered in chapters, at regular *)
(* distances or where the model puts them.                                 *)
(***************************************************************************)
EXTENDS Integers, FiniteSets, Sequences, SequencesExt, FiniteSetsExt

CONSTANTS
    Kinds,        \* segments: characters, distance to the last one, length, speaker, full stop
    MaxSegments,  \* bound
    MaxRaw,       \* bound: chapters that the model proposes
    MaxChapters,  \* how many of them validate_semantic_chapters takes
    MaxChars,     \* max_chars of build_reader_blocks
    MaxSeconds,   \* max_seconds
    Gap,          \* paragraph_gap_seconds
    Interval      \* interval_seconds of deterministic_chapters

BlockAssumption ==
    /\ Kinds \subseteq [chars : Nat \ {0}, gap : Int, lasts : Nat, who : STRING, stops : BOOLEAN]
    /\ {MaxSegments, MaxRaw, MaxChapters, MaxChars, MaxSeconds, Gap, Interval} \subseteq Nat

VARIABLES
    segments,  \* those that were read
    blocks,    \* groups of segments; the last one is `current`
    chars,     \* current_chars
    proposal,  \* what the model answered: blocks by number, 0 for an item without a title
               \* or with an anchor that is unknown
    chapters

blockVars == <<segments, blocks, chars, proposal, chapters>>

StartOf(block) == block[1].start
EndOf(block)   == Max({StartOf(block), Last(block).end})
LengthOf(block) == Len(block) - 1 + FoldLeft(LAMBDA n, s : n + s.chars, 0, block)

-----------------------------------------------------------------------------
\* A segment follows the one before; segments may overlap.
Segment(kind) ==
    LET from == IF segments = <<>> THEN 0 ELSE Max({0, Last(segments).end + kind.gap})
    IN  [start |-> from, end |-> from + kind.lasts, chars |-> kind.chars,
         who |-> kind.who, stops |-> kind.stops]

TooLong(s) == chars + s.chars + 1 > MaxChars

\* Mutant: the start of the segment is looked at.
TooWideByStart(block, s) == s.start - StartOf(block) > MaxSeconds

TooWide(block, s) == s.end - StartOf(block) > MaxSeconds

SpeakerChanged(block, s) == "none" \notin {Last(block).who, s.who} /\ Last(block).who # s.who

Pause(block, s) == s.start - Last(block).end >= Gap /\ Last(block).stops

Read(kind) ==
    LET s == Segment(kind)
        block == Last(blocks)
        starts == blocks = <<>> \/ SpeakerChanged(block, s) \/ TooLong(s)
                  \/ TooWide(block, s) \/ Pause(block, s)
    IN  /\ Len(segments) < MaxSegments /\ chapters = <<>>
        /\ segments' = Append(segments, s)
        /\ blocks' = IF starts THEN Append(blocks, <<s>>)
                     ELSE [blocks EXCEPT ![Len(blocks)] = Append(@, s)]
        /\ chars' = IF starts THEN s.chars ELSE chars + s.chars + 1
        /\ UNCHANGED <<proposal, chapters>>

-----------------------------------------------------------------------------
\* A chapter ends where the next one begins, the last one with the transcript.
Chapters(starts) ==
    [i \in DOMAIN starts |->
        [block |-> starts[i], start |-> StartOf(blocks[starts[i]]),
         end |-> IF i < Len(starts) THEN StartOf(blocks[starts[i + 1]]) ELSE EndOf(Last(blocks))]]

NextBoundary(boundary, b) == StartOf(blocks[b]) + Interval

Regular ==
    LET Select(acc, b) ==
            IF StartOf(blocks[b]) >= acc.boundary
            THEN [starts |-> Append(acc.starts, b), boundary |-> NextBoundary(acc.boundary, b)]
            ELSE acc
    IN  FoldLeft(Select, [starts |-> <<1>>, boundary |-> StartOf(blocks[1]) + Interval],
                 [i \in 1 .. Len(blocks) - 1 |-> i + 1]).starts

Valid(raw) ==
    /\ raw # <<>> /\ Len(raw) <= MaxChapters
    /\ \A i \in DOMAIN raw : raw[i] # 0
    /\ \A i \in 2 .. Len(raw) : StartOf(blocks[raw[i]]) >= StartOf(blocks[raw[i - 1]])

\* generate_chapters: a proposal that is not valid leaves the regular chapters.
Generate(raw) ==
    /\ blocks # <<>> /\ chapters = <<>>
    /\ proposal' = raw
    /\ chapters' = Chapters(IF Valid(raw) THEN raw ELSE Regular)
    /\ UNCHANGED <<segments, blocks, chars>>

-----------------------------------------------------------------------------
Init ==
    /\ segments = <<>> /\ blocks = <<>> /\ chars = 0
    /\ proposal = <<>> /\ chapters = <<>>

Next ==
    \/ \E kind \in Kinds : Read(kind)
    \/ \E raw \in SeqOf(0 .. Len(blocks), MaxRaw) : Generate(raw)

-----------------------------------------------------------------------------
\* Nothing of the transcript is lost or told twice, and a block that has more than one
\* segment keeps within the characters of its text and the seconds between its ends
\* (build_reader_blocks, _make_block).
BlocksFit ==
    /\ FlattenSeq(blocks) = segments
    /\ \A b \in DOMAIN blocks : Len(blocks[b]) > 1 =>
          LengthOf(blocks[b]) <= MaxChars /\ EndOf(blocks[b]) - StartOf(blocks[b]) <= MaxSeconds

\* Chapters follow one another without a gap or an overlap up to the end of the transcript.
\* The regular ones begin with it (deterministic_chapters); the model's begin at the block that
\* it names first, and what comes before is in no chapter (the exception: nothing in
\* validate_semantic_chapters asks for the first block).
ChaptersFollow ==
    chapters # <<>> =>
        /\ \A i \in 1 .. Len(chapters) - 1 :
              chapters[i].end = chapters[i + 1].start /\ chapters[i].start <= chapters[i].end
        /\ chapters[1].start = StartOf(blocks[IF Valid(proposal) THEN proposal[1] ELSE 1])
        /\ Last(chapters).end = EndOf(Last(blocks))

\* A regular chapter lasts for the interval at least, but for the last one.
ChaptersAreLong ==
    ~Valid(proposal) => \A i \in 1 .. Len(chapters) - 1 : chapters[i].end - chapters[i].start >= Interval

\* After any segments and any answer of the model, the blocks tell the whole transcript, in
\* order and within their limits, and the chapters all of it from the first one's start on,
\* which is the transcript's start unless the model chose another.
TranscriptIsWhole ==
    BlocksFit /\ ChaptersFollow /\ ChaptersAreLong
=============================================================================
