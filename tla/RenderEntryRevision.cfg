SPECIFICATION Spec
CONSTANTS
    r1 = r1
    r2 = r2
    episode = episode
    short = short
    None = None
    Episodes = {episode}
    Shorts = {short}
    EpisodeOf <- MCEpisodeOf
    Renders = {r1, r2}
    MaxRevision = 4
    MaxEntryRevision = 2
    MaxCrashes = 1
SYMMETRY RenderSymmetry
PROPERTY EveryChangeIsARevision
