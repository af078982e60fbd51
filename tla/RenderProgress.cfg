SPECIFICATION FairSpec
CONSTANTS
    r1 = r1
    r2 = r2
    episode = episode
    short = short
    None = None
    Episodes = {episode}
    Shorts = {short}
    EpisodeOf <- MCEpisodeOf
    Renders = {r1, r2}
    MaxRevision = 2
    MaxEntryRevision = 1
    MaxCrashes = 3
PROPERTIES ImplementsContract AttemptsEnd
