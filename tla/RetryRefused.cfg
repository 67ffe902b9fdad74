\* One request, two calls of it.
SPECIFICATION Spec

CONSTANTS
    e1 = e1
    e2 = e2
    t1 = t1
    t2 = t2
    p1 = p1
    q1 = q1
    g1 = g1
    Entries = {e1, e2}
    Texts = {t1, t2}
    Papers = {p1}
    Requests = {q1}
    Runs = {}
    Drafts <- MCDrafts
    Reviews = {"contested"}
    Batches <- MCBatches
    NoVersion = NoVersion
    Unseen = Unseen
    MaxRevision = 1
    MaxExtractions = 2
    MaxMoves = 0
    MaxCalls = 2
    MaxAnchors = 1

PROPERTY RefusedLeavesNothing

\* the researcher and the agents may stop
CHECK_DEADLOCK FALSE
