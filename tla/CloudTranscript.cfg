SPECIFICATION CloudSpec
CONSTANTS
    Handles = {h1}
    NoHandle = none
    Chunks = 1
    MaxJobs = 1
    MaxTranscripts = 2
    MaxGrants = 1
    MaxEnds = 0
INVARIANT
    ActiveAnalysisIsCurrent
CHECK_DEADLOCK FALSE
