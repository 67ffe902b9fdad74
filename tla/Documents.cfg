\* One download and one import, with retries, re-extraction by a new build, a
\* deletion, a crash, a browser that may exit, and the chunk worker's sweep of what
\* is extracted: a sweep takes one batch of one source, and leaves the other.
SPECIFICATION FairSpec

CONSTANTS
    s1 = s1
    s2 = s2
    p1 = p1
    p2 = p2
    eager = eager
    Nobody = Nobody
    Callers = {s1, eager}
    Locations = {s1}
    Eager = eager
    Remote = {s1}
    Local = {s2}
    PapersOf = {p1, p2}
    PaperOf <- MCPaperOf
    MaxAttempts = 2
    MaxExtractions = 1
    BatchSize = 1
    MaxBatches = 1
    MaxEvents = 3
    MaxFaults = 1
    MaxBuilds = 2
    MaxExits = 1

CONSTRAINT OneAtFault

INVARIANTS
    TypeOK
    OneBrowser
    CachedIsReadable
    SearchableIsReady
    ExtractingHasJob
    DownloadingHasJob
    SweepAhead

PROPERTIES
    DownloadsAdvance
    DownloadsEnd
    

\* the researcher may stop working
CHECK_DEADLOCK FALSE
