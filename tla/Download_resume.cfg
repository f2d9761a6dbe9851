CONSTANTS
    first = first
    second = second
    other = other
    here = here
    there = there
    None = None
    Tasks = {first, second}
    Paths = {here}
    Path <- MCPath
    Resuming = {second}
    Cached = {first}
    Redirecting = {second}
    MaxWorkers = 1
    MaxRetry = 1
    MaxRedirects = 1
    Contents = {"a", "b", "c"}
    Bytes <- MCBytes
SPECIFICATION FairSpec
INVARIANTS TypeOK SeamsMatch NothingLeaks
PROPERTIES NewerWins DownloadEnds
CHECK_DEADLOCK FALSE
