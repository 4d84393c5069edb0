\* A watch and a lane; RunWithinCap is violated.
SPECIFICATION PollSpec
CONSTANTS
    W = W
    L = L
    H = H
    Watches = {W}
    LaneWatches = {L}
    Channels = {H}
    ChannelOf <- OneChannel
    MaxSubs = 2
    MaxVideos = 3
    MaxRows = 1
    FeedSize = 3
    SeenMax = 5
    MaxPerPoll = 2
    MaxPerRun = 2
    DisableAfter = 2
    MaxSlips = 0
    MaxEdits = 0
INVARIANTS RunWithinCap
CHECK_DEADLOCK FALSE
