\* What the State says, and its log: two entries and one paper, three revisions, a
\* request called twice at once and a Run, with a paper that is extracted anew,
\* removed, deleted and added again.
SPECIFICATION Spec

CONSTANTS
    e1 = e1
    e2 = e2
    t1 = t1
    t2 = t2
    p1 = p1
    q1 = q1
    g1 = g1
    Entries = {e1, e2}
    Texts = {t1, t2}
    Papers = {p1}
    Requests = {q1}
    Runs = {g1}
    Drafts <- MCDrafts
    Reviews = {"contested"}
    Batches <- MCBatches
    NoVersion = NoVersion
    Unseen = Unseen
    MaxRevision = 3
    MaxExtractions = 2
    MaxMoves = 1
    MaxCalls = 2
    MaxAnchors = 1

CONSTRAINT ThirdAlone

INVARIANTS
    TypeOK
    RestoredAsItWas
    SynthesisIsSound
    PremisesExist

PROPERTIES
    EvidenceIsGenuine
    ImplementsLog

\* the researcher and the agents may stop
CHECK_DEADLOCK FALSE
