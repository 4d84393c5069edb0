\* Transcripts that are sent in several chunks, whose overlap is joined twice.
CONSTANTS
    MaxLines = 4
    Weights = {1, 2}
    MaxSingle = 2
    ChunkSize = 2
    ChunkOverlap = 1
    Parallel = 2
INIT Init
NEXT Next
INVARIANTS LinesKeepTheirSegment
CHECK_DEADLOCK FALSE
