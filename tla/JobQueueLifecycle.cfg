SPECIFICATION Spec
CONSTANTS
    j1 = j1
    j2 = j2
    folder = folder
    episode = episode
    None = None
    cred = cred
    Jobs = {j1, j2}
    Credentials = {cred}
    Entities <- MCEntities
    Requests <- MCRequests
    MaxCrashes = 3
    MaxRestarts = 1
PROPERTY DocumentedLifecycle
