CONSTANTS
    Videos = {v1, v2, v3}
    Threshold = 2
    Window = 2
    Cooldown = 6
    Downloaders = {D}
    Pollers = {P}
    A = A
    B = B
    Operators = {Op}
    Refreshers = {Ref}
    Refreshed = {A}
    MaxJars = 2
    Watches = {W}
    LaneWatches = {L}
    Channels = {H}
    ChannelOf <- OneChannel
    MaxSubs = 1
    MaxVideos = 2
    MaxRows = 2
    FeedSize = 2
    SeenMax = 3
    MaxPerPoll = 1
    MaxPerRun = 1
    DisableAfter = 1
    MaxSlips = 1
    MaxEdits = 0
    W = W
    L = L
    H = H
    V1 = V1
    V2 = V2
    Ev = Ev
    R1 = R1
    R2 = R2
    T1 = T1
    T2 = T2
    T3 = T3
    V3 = V3
    S1 = S1
    S2 = S2
    S3 = S3
    Ingested = {V1, V2}
    FailureThreshold = 2
    Reminder = 2
    MaxNumber = 1
    Events = {Ev}
    Recipients = {R1, R2}
    Threads = {T1, T2}
    DedupeWindow = 2
    Lanes = {L}
    LaneVideos = {V1}
    Scheduled = {T1}
    Commands = {T2, T3}
    MaxAttempts = 2
    ChannelVideos = {V1, V2, V3}
    Workers = {T1, T2}
    MinVideos = 2
    MaxRetries = 1
    MaxQueued = 2
    Mains = {T1}
    ChunkThreads = {T2}
    Cap = 2
    MaxCalls = 4
    Sessions = {S1, S2, S3}
    Web = {T1}
    Bot = T2
    MaxClock = 4
    Clients = {T1, T2}
    BlocksOf <- TranscriptBlocks
    Snapshots <- SelectedTexts
    Casefold <- Folding
    Lowercase <- Lowering
    MaxNewer = 2
    MaxRequests = 3
    ReportVideos = {V1, V2}
    Old = {V1}
    MaxTranscripts = 2
    None = None
    SweptVideos = {V1, V2}
    Causes <- FailureCauses
    Limit = 2
    MaxJobs = 4
SPECIFICATION MCSpec
INVARIANTS TypeOK DeferralIsBounded ServicesTypeOK NothingIsMissed DailyLimitKept
    ActiveIsChosen JarsAreSafe UnseenIsNoticed GatesAgree CleanupCovers
    AnswersAreFair TranscriptIsWhole DeskAgrees ChunksTellAll RetriesAreDue
PROPERTIES ClusterStaysOpen SeenIsKept SwitchHasEvidence AlertsAreTimely SendsAreOnRecord
    DigestsAreTold CostsAreOnRecord ExchangesAreWhole ReportsAreCurrent
CHECK_DEADLOCK FALSE
