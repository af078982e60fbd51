SPECIFICATION AnalysisSpec
CONSTANTS
    Handles = {h1}
    NoHandle = none
    Chunks = 2
    MaxJobs = 1
    MaxTranscripts = 2
    MaxGrants = 2
    MaxEnds = 1
    Places = {1, 2, 3}
    MaxRows = 3
    MaxReviews = 3
    CropIds = {c1, c2}
    MaxOutput = 2
    MaxEditRevision = 3
    Parts = 2
    MaxStarts = 4
    Releases = {2, 5, 8, 13, 20}
    MaxOpens = 3
INVARIANTS
    RevocationStopsUploads
    PoolKeepsDecisions
    EditsAreSound
    ReadyModelIsWhole
    RowsStayReadable
PROPERTY
    CloudJobsSettle
CHECK_DEADLOCK FALSE
