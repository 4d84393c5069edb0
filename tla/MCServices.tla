----------------------------- MODULE MCServices -----------------------------
(***************************************************************************)
(* Services that keep state of their own, and algorithms on their inputs.  *)
(* They share no state, so that each is explored by itself: an initial     *)
(* state chooses one service, and only that one takes steps.  The          *)
(* services that theorems are about keep their variables; the slots hold   *)
(* those of the others.                                                    *)
(***************************************************************************)
EXTENDS DownloadCircuit, CookieProfiles, SubscriptionPoll, RetrySweeps, OutcomeWatchdog,
        Notifier, LaneDigests, Personas, LlmBudget, ChatSessions, SummaryReports, ReaderDesk, TLC

VARIABLES
    service,   \* the one explored
    slot1, slot2, slot3, slot4, slot5, slot6, slot7, slot8, slot9   \* its variables

CONSTANTS W, L, H, V1, V2, Ev, R1, R2, T1, T2, T3, V3, S1, S2, S3

\* Two transcripts of one text, and a summary of each of the two videos, one of them in a
\* script that has no fingerprint.
Texts == [t1 |-> "p", t2 |-> "p", s1 |-> "q", s2 |-> ""]
PassageVideos == [t1 |-> V1, t2 |-> V2, s1 |-> V1, s2 |-> V2]

SegmentKinds ==
    {[chars |-> 1, gap |-> 0, lasts |-> 2, who |-> w, stops |-> TRUE] : w \in {"none", "a", "b"}}
    \cup {[chars |-> 2, gap |-> g, lasts |-> 4, who |-> "none", stops |-> g = 0] : g \in {0, 2, -1}}
    \cup {[chars |-> 6, gap |-> 3, lasts |-> 7, who |-> "a", stops |-> FALSE]}

\* Of a transcript and the one that follows, the last block stays the same but for its case
\* and a part of a second; the last transcript has a letter that grows in conversion.
TranscriptBlocks ==
    <<<<[start |-> 0, words |-> <<"x", "y">>], [start |-> 6, words |-> <<"x">>]>>,
      <<[start |-> 0, words |-> <<"Y", "s">>], [start |-> 7, words |-> <<"X">>]>>,
      <<[start |-> 0, words |-> <<"sz", "y">>]>>>>

SelectedTexts == {<<>>, <<"x">>, <<"y">>}

Folding == [c \in {"x", "y", "s", "X", "Y", "sz"} |->
    CASE c = "X" -> <<"x">> [] c = "Y" -> <<"y">> [] c = "sz" -> <<"s", "s">> [] OTHER -> <<c>>]
Lowering == [Folding EXCEPT !["sz"] = <<"sz">>]

FailureCauses == {"transient", "access"}

ChunkKinds ==
    {[lasts |-> 2, sentences |-> s] : s \in {<<>>, <<1>>, <<2>>, <<1, 1>>}}
    \cup {[lasts |-> 4, sentences |-> s] : s \in {<<5>>, <<2, 1, 4>>, <<2, 3, 1>>}}

Turn(from, to, who) == [start |-> from, end |-> to, speaker |-> who]
TurnsHeard ==
    {<<>>, <<Turn(0, 3, "a"), Turn(3, 9, "b")>>,
     <<Turn(0, 1, "a"), Turn(1, 3, "b"), Turn(2, 4, "a")>>}

\* The watch and the lane are for one channel.
OneChannel == [s \in {W, L} |-> H]

\* A feed so small, and so few ids kept of it, that ids are dropped.
SmallFeed == INSTANCE SubscriptionPoll WITH
    Watches <- {W}, LaneWatches <- {}, Channels <- {H},
    ChannelOf <- [s \in {W} |-> H], MaxSubs <- 1,
    MaxVideos <- 2, MaxRows <- 2, FeedSize <- 1, SeenMax <- 1,
    MaxPerPoll <- 1, MaxPerRun <- 1, DisableAfter <- 2, MaxSlips <- 1, MaxEdits <- 1,
    uploads <- slot1, kind <- slot2, work <- slot3, items <- slot4, rows <- slot5,
    poll <- slot6, made <- slot7, slips <- slot8, edits <- slot9, held <- <<>>

Gated == INSTANCE SummaryGate WITH
    DeepTakes <- 3, NormalTakes <- 2, LowTakes <- 1, MaxOdd <- 3,
    phase <- slot1, text <- slot2, deep <- slot3, whole <- slot4

Cleaned == INSTANCE TranscriptCleanup WITH
    MaxLines <- 5, Weights <- {1, 2, 5}, MaxSingle <- 5, ChunkSize <- 4,
    ChunkOverlap <- 2, Parallel <- 2,
    tokens <- slot1, request <- slot2, segments <- slot3, outcome <- slot4

Library == INSTANCE LibrarySearch WITH
    Passages <- DOMAIN Texts, VideoOf <- PassageVideos, TextOf <- Texts, Summaries <- {"s1", "s2"},
    RawLimits <- {1, 4}, MaxLimit <- 3, CandidateLimit <- 3, SummaryLimit <- 1, PerVideo <- 1,
    RrfK <- 60, MaxMatches <- 2, MaxMissed <- 1, MaxReembeds <- 1,
    near <- slot1, words <- slot2, age <- slot3, search <- slot4

Blocks == INSTANCE ReaderBlocks WITH
    Kinds <- SegmentKinds, MaxSegments <- 3, MaxRaw <- 3, MaxChapters <- 2,
    MaxChars <- 5, MaxSeconds <- 6, Gap <- 2, Interval <- 4,
    segments <- slot1, blocks <- slot2, chars <- slot3, proposal <- slot4,
    chapters <- slot5

Chunked == INSTANCE SpeakerChunks WITH
    Kinds <- ChunkKinds, Talks <- TurnsHeard, Summaries <- {<<>>, <<1, 2, 2, 5>>},
    MaxSegments <- 4, TargetTokens <- 3, MaxTokens <- 4,
    segments <- slot1, speakers <- slot2, heard <- slot3, read <- slot4,
    current <- slot5, chunks <- slot6

ASSUME
    /\ Gated!SummaryAssumption
    /\ Cleaned!CleanupAssumption
    /\ Library!SearchAssumption
    /\ Blocks!BlockAssumption
    /\ Chunked!ChunkAssumption

slots == <<slot1, slot2, slot3, slot4, slot5, slot6, slot7, slot8, slot9>>
kept  == <<vars, cookieVars, pollVars, sweepVars, watchdogVars, notifierVars, laneVars,
           personaVars, budgetVars, chatVars, reportVars, deskVars>>
allVars == <<service, kept, slots>>

\* The services that have variables of their own.
Named == {"circuit", "cookies", "poll", "sweeps", "watchdog", "notifier", "lanes",
          "personas", "budget", "chats", "reports", "desk"}

MCInit ==
    /\ Init /\ CookieInit /\ PollInit /\ SweepInit /\ WatchdogInit /\ NotifierInit
    /\ LaneInit /\ PersonaInit /\ BudgetInit /\ ChatInit /\ ReportInit /\ DeskInit
    /\ \/ /\ service \in Named
          /\ slot1 = 0 /\ slot2 = 0 /\ slot3 = 0 /\ slot4 = 0 /\ slot5 = 0
          /\ slot6 = 0 /\ slot7 = 0 /\ slot8 = 0 /\ slot9 = 0
       \/ /\ service = "feed" /\ SmallFeed!PollInit
       \/ /\ service = "gate" /\ Gated!Init
          /\ slot5 = 0 /\ slot6 = 0 /\ slot7 = 0 /\ slot8 = 0 /\ slot9 = 0
       \/ /\ service = "cleanup" /\ Cleaned!Init
          /\ slot5 = 0 /\ slot6 = 0 /\ slot7 = 0 /\ slot8 = 0 /\ slot9 = 0
       \/ /\ service = "library" /\ Library!Init
          /\ slot5 = 0 /\ slot6 = 0 /\ slot7 = 0 /\ slot8 = 0 /\ slot9 = 0
       \/ /\ service = "blocks" /\ Blocks!Init
          /\ slot6 = 0 /\ slot7 = 0 /\ slot8 = 0 /\ slot9 = 0
       \/ /\ service = "chunks" /\ Chunked!Init
          /\ slot7 = 0 /\ slot8 = 0 /\ slot9 = 0
    \* Bounds: both profiles have a jar; elsewhere than in the poll the watch has a row.
    /\ jars = [p \in Profiles |-> 1]
    /\ service = "poll" \/ rows[W].id # 0

CircuitSteps ==
    /\ service = "circuit" /\ Next
    /\ UNCHANGED <<service, cookieVars, pollVars, sweepVars, watchdogVars, notifierVars,
                   laneVars, personaVars, budgetVars, chatVars, reportVars, deskVars, slots>>

CookiesSteps ==
    /\ service = "cookies" /\ CookieNext /\ FallbackOrRefresh
    /\ UNCHANGED <<service, vars, pollVars, sweepVars, watchdogVars, notifierVars, laneVars,
                   personaVars, budgetVars, chatVars, reportVars, deskVars, slots>>

PollSteps ==
    /\ service = "poll" /\ PollNext /\ OneMishap
    /\ UNCHANGED <<service, vars, cookieVars, sweepVars, watchdogVars, notifierVars, laneVars,
                   personaVars, budgetVars, chatVars, reportVars, deskVars, slots>>

FeedSteps ==
    /\ service = "feed" /\ SmallFeed!PollNext /\ SmallFeed!OneMishap
    /\ UNCHANGED <<service, kept>>

SweepsSteps ==
    /\ service = "sweeps" /\ SweepNext /\ OneScript
    /\ UNCHANGED <<service, vars, cookieVars, pollVars, watchdogVars, notifierVars, laneVars,
                   personaVars, budgetVars, chatVars, reportVars, deskVars, slots>>

WatchdogSteps ==
    /\ service = "watchdog" /\ WatchdogNext
    /\ UNCHANGED <<service, vars, cookieVars, pollVars, sweepVars, notifierVars, laneVars,
                   personaVars, budgetVars, chatVars, reportVars, deskVars, slots>>

NotifierSteps ==
    /\ service = "notifier" /\ NotifierNext
    /\ UNCHANGED <<service, vars, cookieVars, pollVars, sweepVars, watchdogVars, laneVars,
                   personaVars, budgetVars, chatVars, reportVars, deskVars, slots>>

LanesSteps ==
    /\ service = "lanes" /\ LaneNext
    /\ UNCHANGED <<service, vars, cookieVars, pollVars, sweepVars, watchdogVars, notifierVars,
                   personaVars, budgetVars, chatVars, reportVars, deskVars, slots>>

PersonasSteps ==
    /\ service = "personas" /\ PersonaNext
    /\ UNCHANGED <<service, vars, cookieVars, pollVars, sweepVars, watchdogVars, notifierVars,
                   laneVars, budgetVars, chatVars, reportVars, deskVars, slots>>

BudgetSteps ==
    /\ service = "budget" /\ BudgetNext
    /\ UNCHANGED <<service, vars, cookieVars, pollVars, sweepVars, watchdogVars, notifierVars,
                   laneVars, personaVars, chatVars, reportVars, deskVars, slots>>

ChatsSteps ==
    /\ service = "chats" /\ ChatNext
    /\ UNCHANGED <<service, vars, cookieVars, pollVars, sweepVars, watchdogVars, notifierVars,
                   laneVars, personaVars, budgetVars, reportVars, deskVars, slots>>

ReportsSteps ==
    /\ service = "reports" /\ ReportNext /\ OneRun
    /\ UNCHANGED <<service, vars, cookieVars, pollVars, sweepVars, watchdogVars, notifierVars,
                   laneVars, personaVars, budgetVars, chatVars, deskVars, slots>>

DeskSteps ==
    /\ service = "desk" /\ DeskNext /\ OneRow
    /\ UNCHANGED <<service, vars, cookieVars, pollVars, sweepVars, watchdogVars, notifierVars,
                   laneVars, personaVars, budgetVars, chatVars, reportVars, slots>>

GateSteps ==
    /\ service = "gate" /\ Gated!Next
    /\ UNCHANGED <<service, kept, slot5, slot6, slot7, slot8, slot9>>

CleanupSteps ==
    /\ service = "cleanup" /\ Cleaned!Next
    /\ UNCHANGED <<service, kept, slot5, slot6, slot7, slot8, slot9>>

LibrarySteps ==
    /\ service = "library" /\ Library!Next
    /\ UNCHANGED <<service, kept, slot5, slot6, slot7, slot8, slot9>>

BlocksSteps ==
    /\ service = "blocks" /\ Blocks!Next
    /\ UNCHANGED <<service, kept, slot6, slot7, slot8, slot9>>

ChunksSteps ==
    /\ service = "chunks" /\ Chunked!Next
    /\ UNCHANGED <<service, kept, slot7, slot8, slot9>>

MCNext ==
    \/ CircuitSteps
    \/ CookiesSteps
    \/ PollSteps
    \/ FeedSteps
    \/ SweepsSteps
    \/ WatchdogSteps
    \/ NotifierSteps
    \/ LanesSteps
    \/ PersonasSteps
    \/ BudgetSteps
    \/ ChatsSteps
    \/ ReportsSteps
    \/ DeskSteps
    \/ GateSteps
    \/ CleanupSteps
    \/ LibrarySteps
    \/ BlocksSteps
    \/ ChunksSteps

MCSpec == MCInit /\ [][MCNext]_allVars

\* What the services promise whose modules have no variables here, and their types.

\* What the watchlist and the cookie profiles keep has its type.
ServicesTypeOK ==
    /\ service = "poll" => PollTypeOK
    /\ service = "feed" => SmallFeed!PollTypeOK
    /\ service = "cookies" => CookieTypeOK

SeenIsKept ==
    [][/\ service = "poll" => IdsAreKept
       /\ service = "feed" => SmallFeed!IdsAreKept]_allVars
GatesAgree == service = "gate" => Gated!GatesAgree
CleanupCovers == service = "cleanup" => Cleaned!CleanupCovers
AnswersAreFair == service = "library" => Library!AnswersAreFair
TranscriptIsWhole == service = "blocks" => Blocks!TranscriptIsWhole
ChunksTellAll == service = "chunks" => Chunked!ChunksTellAll
=============================================================================
