SPECIFICATION DesktopSpec
CONSTANTS
    MaxEdits = 1
    MaxRetries = 1
    MaxDeaths = 1
    Ids = {j1}
    MaxProcs = 2
    MaxCalls = 2
    MaxRestarts = 1
    Ops = {o1, o2}
    Video = {v1}
    Sidecars = {srt, vtt}
    MaxStoreCrashes = 2
    MaxSaves = 2
    MaxStarts = 4
    Sections = {"timeline", "composition", "captions"}
    Values = {1, 2}
    MaxRevision = 3
    MaxCommits = 1
    CropTimes = {0, 1, 2, 3}
    Scale = 36
    Unit = 3200
    DayHours = 6
    MinDuration = 2
    MaxDuration = 4
    Planned = {1, 2, 3}
    Priority <- MCPriority
    Owner <- MCOwner
    Rules <- MCRules
    MaxRuleSets = 2
    MaxPlaces = 2
INVARIANTS
    SettledRowsAreTrue
    OneLiveAttempt
    OneWorker
    StoreAgrees
    StartupKeepsData
    EditorIsTruthful
    OneTimeline
    CropsAreShownAsEdited
    RenderIsWellFormed
    CalendarIsKept
    ProposalsAreSound
PROPERTIES
    WaitingEnds
CHECK_DEADLOCK FALSE
