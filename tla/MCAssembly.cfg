SPECIFICATION ASpec
CONSTANTS
    None = None
    Foreign = Foreign
    worker = worker
    batch = batch
    opening = opening
    ending = ending
    first = first
    second = second
    Workers = {worker, batch}
    Reusing = {worker}
    Units = {opening, ending}
    Paths = {first, second}
    Length <- MCLength
    Jobs <- MCJobs
    Plan <- MCPlan
    Takes = {1, 2}
    MaxFaults = 1
    MaxRestarts = 1
CHECK_DEADLOCK FALSE
INVARIANTS
    PublishedIsWhole
    VideoIsTheFilm
PROPERTIES
    ReturnedIsVerified
