--------------------------- MODULE LibrarySearch ---------------------------
(***************************************************************************)
(* Retrieval from the embedded chunks: the search that the chat uses       *)
(* (semantic_search), one statement, and the search of the whole corpus    *)
(* (global_search), three statements whose ranked lanes are fused, made    *)
(* diverse and balanced.  Between two statements the pipeline may embed a  *)
(* video again, which gives its chunks new ids.                            *)
(***************************************************************************)
EXTENDS Integers, FiniteSets, Sequences, SequencesExt, FiniteSetsExt

CONSTANTS
    Passages,        \* what can be a chunk
    VideoOf,         \* the video of a passage
    TextOf,          \* its text, as the fingerprint of the first words tells it apart,
                     \* which is "" where the text has no Latin word
    Summaries,       \* the passages that are of a summary (SUMMARY_SPEAKER_LABEL)
    RawLimits,       \* limits that a request may ask for
    MaxLimit,        \* MAX_LIMIT
    CandidateLimit,  \* candidate_limit, after normalized()
    SummaryLimit,    \* summary_limit, after normalized()
    PerVideo,        \* per_video_limit, after normalized()
    RrfK,            \* rrf_k
    MaxMatches,      \* bound: passages that a query matches as words
    MaxMissed,       \* bound: passages that the index of the embeddings misses
    MaxReembeds      \* bound: videos that are embedded again

SearchAssumption ==
    /\ Summaries \subseteq Passages
    /\ \A n \in {MaxLimit, CandidateLimit, PerVideo, RrfK} : n \in Nat \ {0}
    /\ RawLimits \subseteq Int /\ {SummaryLimit, MaxMatches, MaxMissed, MaxReembeds} \subseteq Nat

VideoIds == {VideoOf[p] : p \in Passages}

VARIABLES
    near,     \* the passages by distance to the query
    words,    \* the passages that match the query as words, by ts_rank
    age,      \* how often each video was embedded again: the id of a chunk has it
    search    \* the request

searchVars == <<near, words, age, search>>

Chunk(p) == [of |-> p, age |-> age[VideoOf[p]]]
Video(c) == VideoOf[c.of]
Text(c)  == TextOf[c.of]
IsSummary(c) == c.of \in Summaries
First(n, s) == SubSeq(s, 1, Min({n, Len(s)}))

NoSearch == [phase |-> "idle", source |-> "all", limit |-> 1, lanes |-> <<>>, fused |-> <<>>,
             selected |-> <<>>, results |-> <<>>, scope |-> {}, found |-> {}]

-----------------------------------------------------------------------------
(***************************************************************************)
(* The statements.                                                         *)
(***************************************************************************)
Matching(scope, s) == SelectSeq(s, LAMBDA p : p \in scope)

Rows(n, s) == [i \in DOMAIN First(n, s) |-> Chunk(s[i])]

\* The rows of the scope that match the words, by ts_rank.
Ranked(scope, n) == Rows(n, Matching(scope, words))

\* The rows of the scope by distance. The HNSW index is approximate, and the scope is a
\* filter on what it answers: any rows may be missing, whatever the limit.
Nearest(scope, n) ==
    {Rows(n, Matching(scope \ missed, near)) :
        missed \in {T \in SUBSET scope : Cardinality(T) <= MaxMissed}}

(***************************************************************************)
(* Reciprocal ranks, as integers: six decimals are kept of each.           *)
(***************************************************************************)
Inverse6(d) == (2000000 + d) \div (2 * d)

\* The lanes are sequences of different things.
RrfScore(lanes, c) ==
    LET Rank(l) == CHOOSE r \in DOMAIN lanes[l] : lanes[l][r] = c
    IN  MapThenSumSet(LAMBDA l : Inverse6(RrfK + Rank(l)),
                      {l \in DOMAIN lanes : c \in ToSet(lanes[l])})

\* sorted(key=score, reverse=True), which leaves what is equal in its order.
ByScore(s, lanes) ==
    LET score == [i \in DOMAIN s |-> RrfScore(lanes, s[i])]
        order == SortSeq([i \in DOMAIN s |-> i],
                    LAMBDA i, j : score[i] > score[j] \/ (score[i] = score[j] /\ i < j))
    IN  [i \in DOMAIN s |-> s[order[i]]]

\* reciprocal_rank_fuse: what any lane has, once, best first.
Fuse(lanes) ==
    ByScore(FoldLeft(LAMBDA all, c : IF c \in ToSet(all) THEN all ELSE Append(all, c),
                     <<>>, FlattenSeq(lanes)), lanes)

-----------------------------------------------------------------------------
(***************************************************************************)
(* select_diverse_results and balance_source_types.                        *)
(***************************************************************************)
CountOf(v, s) == Cardinality({i \in DOMAIN s : Video(s[i]) = v})
TextsOf(s) == {Text(s[i]) : i \in DOMAIN s}

\* Mutant: what was put off comes first.
DeferredFirst(taken, limit) == First(limit, taken.deferred \o taken.selected)

\* When the videos have had their shares and there is room, what was put off follows.
WithDeferred(taken, limit) == First(limit, taken.selected \o taken.deferred)

\* A text without a fingerprint repeats nothing; the ids are distinct.
Repeats(taken, c) ==
    Text(c) # "" /\ Text(c) \in TextsOf(taken.selected \o taken.deferred)

Diverse(fused, limit) ==
    LET Take(taken, c) ==
            IF Len(taken.selected) = limit \/ Repeats(taken, c)
            THEN taken
            ELSE IF CountOf(Video(c), taken.selected) >= PerVideo
            THEN [taken EXCEPT !.deferred = Append(@, c)]
            ELSE [taken EXCEPT !.selected = Append(@, c)]
    IN  WithDeferred(FoldLeft(Take, [selected |-> <<>>, deferred |-> <<>>], fused), limit)

MinTranscripts(limit) == Max({1, (limit * 33 + 99) \div 100})
Transcripts(s) == SelectSeq(s, LAMBDA c : ~IsSummary(c))

\* The transcripts that take the place of summaries: of videos below their share first.
Replacements(selected, fused, needed) ==
    LET Take(found, c) ==
            IF Len(found.within) >= needed \/ c \in ToSet(selected) THEN found
            ELSE IF CountOf(Video(c), selected \o found.within) < PerVideo
            THEN [found EXCEPT !.within = Append(@, c)]
            ELSE [found EXCEPT !.beyond = Append(@, c)]
        found == FoldLeft(Take, [within |-> <<>>, beyond |-> <<>>], Transcripts(fused))
    IN  First(needed, found.within \o found.beyond)

\* The last summary makes room, if there is one.
ReplaceLast(s, c) ==
    LET summaries == {i \in DOMAIN s : IsSummary(s[i])}
    IN  IF summaries = {} THEN s ELSE [s EXCEPT ![Max(summaries)] = c]

Balanced(selected, fused, lanes, limit) ==
    LET needed == MinTranscripts(limit) - Len(Transcripts(selected))
    IN  IF selected = <<>> \/ needed <= 0 THEN selected
        ELSE ByScore(FoldLeft(ReplaceLast, selected, Replacements(selected, fused, needed)), lanes)

-----------------------------------------------------------------------------
(***************************************************************************)
(* global_search.                                                          *)
(***************************************************************************)
InSource(source) ==
    CASE source = "all" -> Passages
      [] source = "summary" -> Summaries
      [] source = "transcript" -> Passages \ Summaries

Keeps(next) == search' = next /\ UNCHANGED <<near, words, age>>

\* The request; normalized() makes the limit a legal one.
Ask(source, limit) ==
    /\ search.phase = "idle"
    /\ Keeps([NoSearch EXCEPT !.phase = "vector", !.source = source,
                              !.limit = Max({1, Min({limit, MaxLimit})})])

VectorLane ==
    /\ search.phase = "vector"
    /\ \E lane \in Nearest(InSource(search.source), CandidateLimit) :
          Keeps([search EXCEPT !.phase = "keyword", !.lanes = <<lane>>])

KeywordLane ==
    /\ search.phase = "keyword"
    /\ Keeps([search EXCEPT !.phase = "summary",
                  !.lanes = Append(@, Ranked(InSource(search.source), CandidateLimit))])

\* The lane of summaries is left out when transcripts are asked for.
SummaryLane ==
    /\ search.phase = "summary"
    /\ \E lane \in IF search.source = "transcript" THEN {<<>>} ELSE Nearest(Summaries, SummaryLimit) :
          Keeps([search EXCEPT !.phase = "fuse", !.lanes = Append(@, lane)])

Answer ==
    /\ search.phase = "fuse"
    /\ LET fused    == Fuse(search.lanes)
           selected == Diverse(fused, search.limit)
       IN  Keeps([search EXCEPT !.phase = "answered", !.fused = fused, !.selected = selected,
                     !.results = IF search.source = "all"
                                 THEN Balanced(selected, fused, search.lanes, search.limit)
                                 ELSE selected])

-----------------------------------------------------------------------------
(***************************************************************************)
(* semantic_search: limits and ranks within the scope that the caller set, *)
(* the videos enabled for the chat, or one video.                          *)
(***************************************************************************)
\* The best of two ranked lanes; the order of what has one score is not determined.
HybridBest(lanes, limit) ==
    LET all == UNION {ToSet(lanes[l]) : l \in DOMAIN lanes}
    IN  {best \in kSubset(Min({limit, Cardinality(all)}), all) :
            \A c \in best, d \in all \ best : RrfScore(lanes, c) >= RrfScore(lanes, d)}

\* A mode that needs the text of the query is the vector mode without it.
Mode(mode, text) == IF text THEN mode ELSE "vector"

Found(mode, scope, limit) ==
    CASE mode = "vector"  -> {ToSet(lane) : lane \in Nearest(scope, limit)}
      [] mode = "keyword" -> {ToSet(Ranked(scope, limit))}
      [] mode = "hybrid"  -> UNION {HybridBest(<<lane, Ranked(scope, 3 * limit)>>, limit) :
                                       lane \in Nearest(scope, 3 * limit)}

Semantic(mode, text, scope, limit) ==
    /\ search.phase = "idle" /\ limit > 0
    /\ \E found \in Found(Mode(mode, text), scope, limit) :
          Keeps([NoSearch EXCEPT !.phase = "found", !.source = Mode(mode, text), !.limit = limit,
                                 !.scope = scope, !.found = found])

\* The chunks of a video are deleted and inserted again in one transaction.
Reembed(v) ==
    /\ search.phase \in {"keyword", "summary"}
    /\ SumSet(Range(age)) < MaxReembeds
    /\ age' = [age EXCEPT ![v] = @ + 1]
    /\ UNCHANGED <<near, words, search>>

-----------------------------------------------------------------------------
Init ==
    /\ near \in SetToSeqs(Passages)
    /\ words \in UNION {SetToSeqs(S) : S \in {T \in SUBSET Passages : Cardinality(T) <= MaxMatches}}
    /\ age = [v \in VideoIds |-> 0]
    /\ search = NoSearch

Scopes == {{p \in Passages : VideoOf[p] \in V} : V \in SUBSET VideoIds}

Next ==
    \/ \E source \in {"all", "transcript", "summary"}, limit \in RawLimits : Ask(source, limit)
    \/ VectorLane \/ KeywordLane \/ SummaryLane \/ Answer
    \/ \E mode \in {"vector", "keyword", "hybrid"}, text \in BOOLEAN, scope \in Scopes,
          limit \in RawLimits : Semantic(mode, text, scope, limit)
    \/ \E v \in VideoIds : Reembed(v)

-----------------------------------------------------------------------------
Answered == search.phase = "answered"
Distinct(s) == \A i, j \in DOMAIN s : Text(s[i]) = Text(s[j]) => i = j

\* The answer has the chunk, or one with the same text.
Offers(s, c) == IF Text(c) = "" THEN c \in ToSet(s) ELSE Text(c) \in TextsOf(s)

\* The same text is not offered twice, although a video that is embedded again between two
\* statements has its chunks under two ids (select_diverse_results). Two exceptions: a text
\* without a fingerprint, and a transcript that the balance brought in (balance_source_types).
TextIsOfferedOnce ==
    Answered => \A i, j \in DOMAIN search.results :
        i # j /\ Text(search.results[i]) = Text(search.results[j])
        => \/ Text(search.results[i]) = ""
           \/ {search.results[i], search.results[j]} \ ToSet(search.selected) # {}

\* Nothing that a lane found is left out while there is room in the answer. The exception is
\* the balance of an answer from all sources, when two candidates have the same text.
NothingIsLeftOut ==
    Answered /\ Len(search.results) < search.limit
             /\ (search.source # "all" \/ Distinct(search.fused))
    => \A c \in ToSet(search.fused) : Offers(search.results, c)

\* "default search should expose some raw transcript evidence when transcript candidates
\* exist" (balance_source_types): a share of the answer, or all the transcripts there are.
TranscriptsAreShown ==
    Answered /\ search.source = "all" =>
        Len(Transcripts(search.results)) >=
            Min({MinTranscripts(search.limit), Len(search.results), Len(Transcripts(search.fused))})

\* Before the balance, the share of a video is exceeded only when nothing of a video below
\* its share was left ("a soft per-video cap", select_diverse_results).  The exception is a
\* text that a video with its share has too: put off for that video, it is dropped for others.
ShareIsKept ==
    Answered => \A v, w \in VideoIds :
        CountOf(v, search.selected) > PerVideo /\ CountOf(w, search.selected) < PerVideo
        => \A c \in ToSet(search.fused) : Video(c) = w =>
              \/ Offers(search.selected, c)
              \/ \E d \in ToSet(search.fused) : d # c /\ Text(d) = Text(c)
                        /\ CountOf(Video(d), search.selected) >= PerVideo

\* Nothing outside the scope is found (_build_where_clause in every statement), and where
\* words are searched for, what the scope has of them is found up to the limit. The nearest
\* alone promise no number: the index may miss rows, and filters after its limit.
ScopeIsKept ==
    search.phase = "found" =>
        /\ \A c \in search.found : c.of \in search.scope
        /\ Cardinality(search.found) <= search.limit
        /\ search.source # "vector" =>
               Cardinality(search.found)
                  >= Min({search.limit, Cardinality(search.scope \cap Range(words))})

\* Whatever the index answers, deduplication, shares, the minimum of transcripts, scope and
\* limit are each kept, but for the exceptions that are named with them: the balance may
\* repeat a text, leave one out and go beyond a share (global_search, semantic_search).
AnswersAreFair ==
    /\ TextIsOfferedOnce /\ NothingIsLeftOut /\ ScopeIsKept
    /\ TranscriptsAreShown /\ ShareIsKept
=============================================================================
