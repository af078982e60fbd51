SPECIFICATION HostedSpec
CONSTANTS
    Projects = {p}
    Jobs = {j}
    Workers = {w1, w2}
    Nobody = nobody
    MaxLeases = 3
    MaxFaults = 2
    Uploads = {u1, u2, u3}
    Calls = {c1, c2}
    Bytes <- Bytes1
    StorageByteLimit = 1
    OneCall = c1
    OneUpload = u1
    Users = {u}
    Roles = {owner, editor}
    MaxEvents = 5
    PartCount = 3
    MaxParallelParts = 2
    Runs = {r1, r2, r3}
INVARIANTS
    OneWorkerPerJob
    SessionsHoldReservations
    IngestIffComplete
    OverdraftIsBounded
    MembershipConverges
    CompletionNamesEveryPart
PROPERTIES
    SettledIsFinal
    JobsReachTheQueue
CHECK_DEADLOCK FALSE
