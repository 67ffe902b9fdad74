----------------------------- MODULE Documents -----------------------------
(***************************************************************************)
(* From a paper's location to chunks that can be searched: PdfDownload-    *)
(* Manager, PdfExtractionManager and ChunkEmbeddingWorker over the rows of *)
(* library_store.rs, with the commands that add, import, retry, extract    *)
(* and delete.                                                             *)
(*                                                                         *)
(* The queues are sets of ids in memory (queued_or_active); only statuses  *)
(* survive a crash.  Each source has at most one download and one          *)
(* extraction job; a request for a source that is in the set is dropped.   *)
(***************************************************************************)
EXTENDS Acquisition

CONSTANTS
    Remote,         \* PDF sources with a URL
    Local,          \* PDF sources imported from a file
    PapersOf,       \* papers
    PaperOf,        \* source -> its paper
    Eager,          \* the task of setup() that starts the browser early
    MaxAttempts,    \* retry_max_attempts
    MaxExtractions, \* max_concurrent_extractions
    BatchSize,      \* chunks per embedding call
    MaxBatches,     \* MAX_BATCHES_PER_SWEEP
    MaxEvents,      \* bounds of the model: commands and faults,
    MaxFaults,      \* faults,
    MaxBuilds       \* and builds

Sources == Remote \cup Local

ASSUME DocumentsAssumption ==
    /\ Remote \cup {Eager} \subseteq Callers /\ Eager \notin Remote
    /\ Remote \subseteq Locations
    /\ PaperOf \in [Sources -> PapersOf]
    /\ {"none", "abstract"} \cap Sources = {}
    /\ MaxAttempts \in Nat \ {0} /\ MaxBuilds \in Nat \ {0}
    /\ MaxBatches \in Nat /\ MaxEvents \in Nat /\ MaxFaults \in Nat

Workers == {"startup", "forever"}

VARIABLES
    app,        \* "down", as far as setup() has come, or "up"
    build,      \* EXTRACTOR_VERSION and CHUNK_VERSION of the running build
    paper,      \* papers
    source,     \* document_sources
    extraction, \* document_extractions with their blocks
    chunk,      \* document_chunks of each extraction
    embedding,  \* document_chunk_embeddings
    file,       \* sources whose PDF is in the document storage
    opened,     \* sources whose PDF the Reader fetched before they were saved
    download,   \* PdfDownloadManager: the job of each source
    extract,    \* PdfExtractionManager: the job of each source
    worker,     \* ChunkEmbeddingWorker: the startup sweep and run_forever
    wake,       \* its Notify holds a permit
    left,       \* history: why chunks were left to a sweep that nobody has asked for
    used        \* events, faults, whether the extractor has panicked

rowVars == <<paper, source, extraction, chunk, embedding>>
memVars == <<download, extract, worker, wake, left>>
vars == <<acqVars, rowVars, memVars, app, build, file, opened, used>>

-----------------------------------------------------------------------------
None == 0           \* extractions, chunks and embeddings bear the build that made them
Builds == 1 .. MaxBuilds

NoPaper == [saved |-> FALSE, active |-> "none", text |-> "none"]
NoSource == [status |-> "none", path |-> FALSE]
NoExtraction == [status |-> "none", build |-> None]
IdleDownload == [pc |-> "idle", tries |-> 0]
IdleExtract == [pc |-> "idle", force |-> FALSE]
Resting(pc) == [pc |-> pc, batch |-> {}, batches |-> 0]
IdleWorker == Resting("idle")

DownloadPcs ==
    {"idle", "queued", "read", "attempt", "http", "browser", "written", "ending"}
ExtractPcs == {"idle", "queued", "running", "ending"}
WorkerPcs == {"idle", "rechunk", "replace", "sweep", "embed", "index"}
Reasons == {"failed", "limit", "unheard"}

PaperRows ==
    [saved : BOOLEAN, active : Sources \cup {"none", "abstract"},
     text : Sources \cup {"none", "abstract"}]

WorkerStates ==
    [pc : WorkerPcs, batch : SUBSET Sources, batches : 0 .. MaxBatches]

TypeOK ==
    /\ AcqTypeOK
    /\ app \in {"down", "recovered", "sweeping", "up"}
    /\ build \in Builds
    /\ paper \in [PapersOf -> PaperRows]
    /\ source \in [Sources -> [status : {"none", "remote_available", "downloading", "cached", "failed"},
                               path   : BOOLEAN]]
    /\ extraction \in [Sources -> [status : {"none", "queued", "extracting", "ready", "failed"},
                                   build  : 0 .. MaxBuilds]]
    /\ chunk \in [Sources -> 0 .. MaxBuilds]
    /\ embedding \in [Sources -> 0 .. MaxBuilds]
    /\ file \in SUBSET Sources
    /\ opened \in SUBSET Remote
    /\ download \in [Remote -> [pc : DownloadPcs, tries : 0 .. MaxAttempts - 1]]
    /\ extract \in [Sources -> [pc : ExtractPcs, force : BOOLEAN]]
    /\ worker \in [Workers -> WorkerStates]
    /\ wake \in BOOLEAN /\ left \subseteq Reasons
    /\ used \in [events : 0 .. MaxEvents, faults : 0 .. MaxFaults, panicked : BOOLEAN]

Init ==
    /\ AcqInit
    /\ app = "up" /\ build = 1
    /\ paper = [p \in PapersOf |-> NoPaper]
    /\ source = [s \in Sources |-> NoSource]
    /\ extraction = [s \in Sources |-> NoExtraction]
    /\ chunk = [s \in Sources |-> None]
    /\ embedding = [s \in Sources |-> None]
    /\ file = {} /\ opened = {}
    /\ download = [s \in Remote |-> IdleDownload]
    /\ extract = [s \in Sources |-> IdleExtract]
    /\ worker = [w \in Workers |-> IdleWorker]
    /\ wake = FALSE /\ left = {}
    /\ used = [events |-> 0, faults |-> 0, panicked |-> FALSE]

-----------------------------------------------------------------------------
(* Rows *)

Cached(s) == source[s].status = "cached"

\* set_document_source_cached: the paper's active source becomes this one when
\* it had none, or only the abstract; the extraction of the abstract goes with it.
CachedPaper(p, s) ==
    IF p.active \in {"none", "abstract"}
    THEN [saved |-> p.saved, active |-> s, text |-> IF p.active = "abstract" THEN "none" ELSE p.text]
    ELSE p

SavedPaper(p) == [saved |-> TRUE, active |-> p.active, text |-> p.text]

\* queue_source: dropped when the source is queued or active.
QueuedDownloads(sources) ==
    [s \in Remote |-> IF s \in sources /\ download[s].pc = "idle"
                      THEN [pc |-> "queued", tries |-> 0] ELSE download[s]]

QueuedExtracts(sources, force) ==
    [s \in Sources |-> IF s \in sources /\ extract[s].pc = "idle"
                       THEN [pc |-> "queued", force |-> force] ELSE extract[s]]

\* A paper's rows go with it: sources, extractions, blocks, chunks, embeddings.
Deleted(p) ==
    LET gone(f, empty) == [s \in Sources |-> IF PaperOf[s] = p THEN empty ELSE f[s]]
    IN  /\ paper' = [paper EXCEPT ![p] = NoPaper]
        /\ source' = gone(source, NoSource)
        /\ extraction' = gone(extraction, NoExtraction)
        /\ chunk' = gone(chunk, None)
        /\ embedding' = gone(embedding, None)

\* Mutant: the chunks of the text that is being replaced are kept.
NoChunksForgotten(s) == UNCHANGED <<chunk, embedding>>

NoChunks(s) ==
    /\ chunk' = [chunk EXCEPT ![s] = None]
    /\ embedding' = [embedding EXCEPT ![s] = None]

-----------------------------------------------------------------------------
(* The researcher's commands *)

Command ==
    /\ app = "up" /\ used.events < MaxEvents
    /\ used' = [used EXCEPT !.events = @ + 1]
    /\ UNCHANGED <<app, build>>

Fault(panic) ==
    /\ used.events < MaxEvents /\ used.faults < MaxFaults
    /\ used' = [events |-> used.events + 1, faults |-> used.faults + 1, panicked |-> used.panicked \/ panic]

\* The Reader fetches the PDF of a candidate that is not saved yet.
OpenCandidate(s) ==
    /\ Command
    /\ opened' = opened \cup {s}
    /\ UNCHANGED <<acqVars, rowVars, memVars, file>>

\* add_paper_to_vaults: the rows, then the PDFs the Reader already has, then
\* the downloads.
AddPaper(p) ==
    LET listed == {s \in Remote : PaperOf[s] = p}
        wanted == {s \in listed : ~Cached(s)}
        promoted == wanted \cap opened
    IN  /\ Command
        /\ listed # {}
        /\ source' = [s \in Sources |->
              IF s \in promoted THEN [status |-> "cached", path |-> TRUE]
              ELSE IF s \in wanted THEN [status |-> "remote_available", path |-> FALSE]
              ELSE source[s]]
        /\ \E s \in IF promoted = {} THEN {"none"} ELSE promoted :
              paper' = [paper EXCEPT ![p] =
                  IF s = "none" THEN SavedPaper(@) ELSE CachedPaper(SavedPaper(@), s)]
        /\ file' = file \cup promoted
        /\ download' = QueuedDownloads(wanted)
        /\ UNCHANGED <<acqVars, extraction, chunk, embedding, opened, extract, worker, wake, left>>

\* import_local_pdfs: the copy, the rows, the extraction.
ImportLocal(s) ==
    /\ Command
    /\ file' = file \cup {s}
    /\ source' = [source EXCEPT ![s] = [status |-> "cached", path |-> TRUE]]
    /\ paper' = [paper EXCEPT ![PaperOf[s]] = [@ EXCEPT !.saved = TRUE, !.active = s]]
    /\ extract' = QueuedExtracts({s}, FALSE)
    /\ UNCHANGED <<acqVars, extraction, chunk, embedding, opened, download, worker, wake, left>>

\* materialize_paper_abstract: the abstract becomes active only if nothing is.
Abstract(p) ==
    /\ Command
    /\ paper[p].saved
    /\ paper' = [paper EXCEPT ![p] =
          [saved |-> TRUE,
           active |-> IF @.active = "none" THEN "abstract" ELSE @.active,
           text |-> IF @.text = "none" THEN "abstract" ELSE @.text]]
    /\ UNCHANGED <<acqVars, source, extraction, chunk, embedding, memVars, file, opened>>

\* download_paper_pdf: a failed source is made available again first.
DownloadPaperPdf(s) ==
    /\ Command
    /\ source[s].status # "none"
    /\ source' = IF source[s].status = "failed"
                 THEN [source EXCEPT ![s].status = "remote_available"] ELSE source
    /\ download' = QueuedDownloads({s})
    /\ UNCHANGED <<acqVars, paper, extraction, chunk, embedding, file, opened, extract, worker,
                   wake, left>>

\* extract_paper_document.
ExtractPaper(s, force) ==
    /\ Command
    /\ Cached(s) /\ source[s].path
    /\ extract' = QueuedExtracts({s}, force)
    /\ UNCHANGED <<acqVars, rowVars, file, opened, download, worker, wake, left>>

\* delete_paper_globally, or removal from the last Vault.
DeletePaper(p) ==
    /\ Command
    /\ paper[p].saved
    /\ Deleted(p)
    /\ UNCHANGED <<acqVars, memVars, file, opened>>

-----------------------------------------------------------------------------
(* PdfDownloadManager *)

DownloadAt(s, from, to) == download[s].pc = from /\ download' = [download EXCEPT ![s].pc = to]

RowsKept == UNCHANGED <<rowVars, app, build, file, opened, used, extract, worker, wake, left>>

\* download_source reads the row once it has a permit...
ReadSource(s) ==
    /\ source[s].status \notin {"none", "cached"}
    /\ DownloadAt(s, "queued", "read")
    /\ RowsKept /\ UNCHANGED acqVars

NothingToDownload(s) ==
    /\ source[s].status \in {"none", "cached"}
    /\ DownloadAt(s, "queued", "ending")
    /\ extract' = IF Cached(s) THEN QueuedExtracts({s}, FALSE) ELSE extract
    /\ UNCHANGED <<acqVars, rowVars, app, build, file, opened, used, worker, wake, left>>

\* ... and marks it downloading later, whatever has become of it.
SetDownloading(s) ==
    /\ DownloadAt(s, "read", IF source[s].status = "none" THEN "ending" ELSE "attempt")
    /\ source' = IF source[s].status = "none" THEN source
                 ELSE [source EXCEPT ![s].status = "downloading"]
    /\ UNCHANGED <<acqVars, paper, extraction, chunk, embedding, app, build, file, opened, used,
                   extract, worker, wake, left>>

\* Mutant: one attempt too many.
AttemptFailedOnceMore(s, from) ==
    \/ /\ download[s].pc = from /\ download[s].tries + 1 <= MaxAttempts
       /\ download' = [download EXCEPT ![s] = [pc |-> "attempt", tries |-> @.tries + 1]]
       /\ RowsKept
    \/ /\ download[s].tries + 1 > MaxAttempts /\ DownloadAt(s, from, "ending")
       /\ source' = IF source[s].status = "none" THEN source
                    ELSE [source EXCEPT ![s].status = "failed"]
       /\ UNCHANGED <<paper, extraction, chunk, embedding, app, build, file, opened, used,
                      extract, worker, wake, left>>

\* Mutant: an attempt that fails in the browser is not counted.
AttemptFailedUncounted(s, from) ==
    \/ /\ download[s].pc = from /\ from = "browser"
       /\ download' = [download EXCEPT ![s].pc = "attempt"]
       /\ RowsKept
    \/ /\ from # "browser" /\ DownloadAt(s, from, "ending")
       /\ source' = IF source[s].status = "none" THEN source
                    ELSE [source EXCEPT ![s].status = "failed"]
       /\ UNCHANGED <<paper, extraction, chunk, embedding, app, build, file, opened, used,
                      extract, worker, wake, left>>

\* An attempt has failed: another one after the backoff, or
\* set_document_source_failed.
AttemptFailed(s, from) ==
    \/ /\ download[s].pc = from /\ download[s].tries + 1 < MaxAttempts
       /\ download' = [download EXCEPT ![s] = [pc |-> "attempt", tries |-> @.tries + 1]]
       /\ RowsKept
    \/ /\ download[s].tries + 1 = MaxAttempts /\ DownloadAt(s, from, "ending")
       /\ source' = IF source[s].status = "none" THEN source
                    ELSE [source EXCEPT ![s].status = "failed"]
       /\ UNCHANGED <<paper, extraction, chunk, embedding, app, build, file, opened, used,
                      extract, worker, wake, left>>

\* The PDF is written as source.pdf.part and renamed.
WritePdf(s, from) ==
    /\ DownloadAt(s, from, "written")
    /\ file' = file \cup {s}
    /\ UNCHANGED <<rowVars, app, build, opened, used, extract, worker, wake, left>>

\* One attempt: the plan may have nothing left to try.
BeginAttempt(s) ==
    /\ \/ WithoutRecentFailures({s}) # {} /\ DownloadAt(s, "attempt", "http") /\ RowsKept
       \/ WithoutRecentFailures({s}) = {} /\ AttemptFailed(s, "attempt")
    /\ UNCHANGED acqVars

\* Direct HTTP brings the PDF, or fails and leaves the browser.
DirectFetch(s) ==
    \/ WritePdf(s, "http") /\ Forget({s})
    \/ /\ DownloadAt(s, "http", "browser") /\ RowsKept
       /\ negative' = negative \cup {s}
       /\ asking' = [asking EXCEPT ![s] = "ensure"]
       /\ UNCHANGED <<process, startup, exits>>

\* The browser's fetch of the location, then of what the landing page links to.
AwaitBrowser(s) ==
    /\ EnsureReady(s) /\ download[s].pc = "browser"
    /\ RowsKept /\ UNCHANGED download

BrowserBrings(s) ==
    /\ WritePdf(s, "browser")
    /\ Moves(s, "ready", "no")
    /\ negative' = negative \ {s}
    /\ UNCHANGED <<process, startup, exits>>

BrowserFails(s) ==
    /\ AttemptFailed(s, "browser")
    /\ \E answer \in {"ready", "failed"} : Answered(s, answer)

\* Mutant: the deadline covers the HTTP client only.
OverallDeadlineDirect(s) == AttemptFailed(s, "http") /\ UNCHANGED acqVars

\* ACQUIRE_OVERALL_DEADLINE drops the acquisition wherever it waits.
OverallDeadline(s) ==
    \/ AttemptFailed(s, "http") /\ UNCHANGED acqVars
    \/ AttemptFailed(s, "browser") /\ Dropped(s)

\* A PDF that was written is recorded; a row that has gone makes the attempt fail.
SetCached(s) ==
    /\ source[s].status # "none" /\ DownloadAt(s, "written", "ending")
    /\ source' = [source EXCEPT ![s] = [status |-> "cached", path |-> TRUE]]
    /\ paper' = [paper EXCEPT ![PaperOf[s]] = CachedPaper(@, s)]
    /\ extract' = QueuedExtracts({s}, FALSE)
    /\ UNCHANGED <<acqVars, extraction, chunk, embedding, app, build, file, opened, used, worker,
                   wake, left>>

SourceGone(s) == source[s].status = "none" /\ AttemptFailed(s, "written") /\ UNCHANGED acqVars

\* mark_finished comes after the row has its final status.
DownloadFinished(s) ==
    /\ download[s].pc = "ending"
    /\ download' = [download EXCEPT ![s] = IdleDownload]
    /\ RowsKept /\ UNCHANGED acqVars

Download(s) ==
    \/ ReadSource(s) \/ NothingToDownload(s) \/ SetDownloading(s) \/ BeginAttempt(s) \/ DirectFetch(s)
    \/ AwaitBrowser(s) \/ BrowserBrings(s) \/ BrowserFails(s)
    \/ SetCached(s) \/ SourceGone(s) \/ DownloadFinished(s)

-----------------------------------------------------------------------------
(* PdfExtractionManager *)

ExtractAt(s, from, to) == extract[s].pc = from /\ extract' = [extract EXCEPT ![s].pc = to]

ElseKept == UNCHANGED <<acqVars, app, build, file, opened, download>>

Ready(s) == extraction[s].status = "ready"

Extracting == {s \in Sources : extract[s].pc = "running"}

\* extract_source: start_document_extraction clears the row's children (or, forced,
\* replaces the row); what is ready, unless forced, or not there is skipped.
StartExtraction(s) ==
    /\ Cardinality(Extracting) < MaxExtractions
    /\ extract[s].force \/ ~Ready(s)
    /\ Cached(s) /\ source[s].path
    /\ ExtractAt(s, "queued", "running")
    /\ extraction' = [extraction EXCEPT ![s] = [status |-> "extracting", build |-> build]]
    /\ NoChunks(s)
    /\ ElseKept /\ UNCHANGED <<paper, source, worker, wake, left, used>>

SkipExtraction(s) ==
    /\ Cardinality(Extracting) < MaxExtractions
    /\ (~extract[s].force /\ Ready(s)) \/ ~Cached(s) \/ ~source[s].path
    /\ ExtractAt(s, "queued", "ending")
    /\ ElseKept /\ UNCHANGED <<rowVars, worker, wake, left, used>>

\* Mutant: the wake reaches only a worker that is waiting for it.
FinishExtractionNotifyWaiters(s) ==
    /\ ExtractAt(s, "running", "ending")
    /\ IF extraction[s].status = "none"
       THEN UNCHANGED <<extraction, chunk, embedding, paper, wake, left>>
       ELSE /\ extraction' = [extraction EXCEPT ![s].status = "ready"]
            /\ chunk' = [chunk EXCEPT ![s] = build]
            /\ embedding' = [embedding EXCEPT ![s] = None]
            /\ paper' = [paper EXCEPT ![PaperOf[s]].text = IF @ = "none" THEN s ELSE @]
            /\ wake' = (wake \/ (app = "up" /\ worker["forever"].pc = "idle"))
            /\ left' = IF app = "up" THEN left ELSE left \cup {"unheard"}
    /\ ElseKept /\ UNCHANGED <<source, worker, used>>

\* Mutant: text that replaces another wakes nobody.
FinishExtractionFirstText(s) ==
    /\ ExtractAt(s, "running", "ending")
    /\ IF extraction[s].status = "none"
       THEN UNCHANGED <<extraction, chunk, embedding, paper, wake, left>>
       ELSE /\ extraction' = [extraction EXCEPT ![s].status = "ready"]
            /\ chunk' = [chunk EXCEPT ![s] = build]
            /\ embedding' = [embedding EXCEPT ![s] = None]
            /\ paper' = [paper EXCEPT ![PaperOf[s]].text = IF @ = "none" THEN s ELSE @]
            /\ wake' = (wake \/ (app = "up" /\ paper[PaperOf[s]].text = "none"))
            /\ left' = IF app = "up" THEN left ELSE left \cup {"unheard"}
    /\ ElseKept /\ UNCHANGED <<source, worker, used>>

\* finish_document_extraction: structure, chunks and status in one transaction;
\* the ready event wakes the embedding worker, once setup() has attached the
\* listener.  A row that has gone refuses it.
FinishExtraction(s) ==
    /\ ExtractAt(s, "running", "ending")
    /\ IF extraction[s].status = "none"
       THEN UNCHANGED <<extraction, chunk, embedding, paper, wake, left>>
       ELSE /\ extraction' = [extraction EXCEPT ![s].status = "ready"]
            /\ chunk' = [chunk EXCEPT ![s] = build]
            /\ embedding' = [embedding EXCEPT ![s] = None]
            /\ paper' = [paper EXCEPT ![PaperOf[s]].text = IF @ = "none" THEN s ELSE @]
            /\ wake' = (wake \/ app = "up")
            /\ left' = IF app = "up" THEN left ELSE left \cup {"unheard"}
    /\ ElseKept /\ UNCHANGED <<source, worker, used>>

\* The PDF cannot be read, or the time is up.
FailExtraction(s) ==
    /\ ExtractAt(s, "running", "ending")
    /\ extraction' = IF extraction[s].status = "none" THEN extraction
                     ELSE [extraction EXCEPT ![s].status = "failed"]
    /\ ElseKept /\ UNCHANGED <<paper, source, chunk, embedding, worker, wake, left, used>>

\* The blocking task panics: its JoinError returns before the row is marked.
PanicExtraction(s) ==
    /\ Fault(TRUE)
    /\ ExtractAt(s, "running", "ending")
    /\ ElseKept /\ UNCHANGED <<rowVars, worker, wake, left>>

ExtractFinished(s) ==
    /\ extract[s].pc = "ending"
    /\ extract' = [extract EXCEPT ![s] = IdleExtract]
    /\ ElseKept /\ UNCHANGED <<rowVars, worker, wake, left, used>>

Extract(s) ==
    StartExtraction(s) \/ SkipExtraction(s) \/ FinishExtraction(s) \/ FailExtraction(s) \/ ExtractFinished(s)

-----------------------------------------------------------------------------
(* ChunkEmbeddingWorker *)

Pending(s) ==
    /\ chunk[s] = build
    /\ embedding[s] # build

NeedsRechunk(s) == Ready(s) /\ chunk[s] # build

WorkerKept == ElseKept /\ UNCHANGED <<paper, source, extraction, extract, used>>

\* recover_and_sweep lists what an older chunker made, ...
ListOutdatedChunks ==
    /\ worker["startup"].pc = "rechunk"
    /\ worker' = [worker EXCEPT !["startup"].pc = "replace",
                                !["startup"].batch = {s \in Sources : NeedsRechunk(s)}]
    /\ WorkerKept /\ UNCHANGED <<chunk, embedding, wake, left>>

\* ... and replaces it, one extraction after the other; blocks that have gone by
\* then refuse the new chunks.
ReplaceChunks ==
    /\ worker["startup"].pc = "replace"
    /\ \/ /\ worker["startup"].batch = {}
          /\ worker' = [worker EXCEPT !["startup"].pc = "sweep"]
          /\ UNCHANGED <<chunk, embedding>>
       \/ \E s \in worker["startup"].batch :
             /\ worker' = [worker EXCEPT !["startup"].batch = @ \ {s}]
             /\ IF Ready(s)
                THEN /\ chunk' = [chunk EXCEPT ![s] = build]
                     /\ embedding' = [embedding EXCEPT ![s] = None]
                ELSE UNCHANGED <<chunk, embedding>>
    /\ WorkerKept /\ UNCHANGED <<wake, left>>

\* run_forever takes the permit: whatever was left has a sweep again.
Woken ==
    /\ worker["forever"].pc = "idle" /\ wake
    /\ wake' = FALSE
    /\ worker' = [worker EXCEPT !["forever"] = Resting("sweep")]
    /\ left' = {}
    /\ WorkerKept /\ UNCHANGED <<chunk, embedding>>

\* sweep reads a batch of what is missing, or is done: nothing is missing, or it
\* has had its batches, whatever is missing still.
ReadBatch(w) ==
    LET pending == {s \in Sources : Pending(s)}
        done == pending = {} \/ worker[w].batches = MaxBatches
    IN  /\ worker[w].pc = "sweep"
        /\ \/ /\ done
              /\ worker' = [worker EXCEPT ![w] = Resting("index")]
              /\ left' = IF pending = {} THEN {} ELSE left \cup {"limit"}
           \/ /\ ~done
              /\ \E batch \in SUBSET pending :
                    /\ Cardinality(batch) = IF Cardinality(pending) < BatchSize
                                            THEN Cardinality(pending) ELSE BatchSize
                    /\ worker' = [worker EXCEPT ![w] =
                          [pc |-> "embed", batch |-> batch, batches |-> @.batches + 1]]
              /\ UNCHANGED left
        /\ WorkerKept /\ UNCHANGED <<chunk, embedding, wake>>

\* The model fails, and what is left waits for the next sweep; or it embeds the
\* batch, and save_chunk_embedding refuses the chunks that have gone.
Embed(w) ==
    /\ worker[w].pc = "embed"
    /\ \/ /\ worker' = [worker EXCEPT ![w] = Resting("index")]
          /\ left' = left \cup {"failed"}
          /\ UNCHANGED embedding
       \/ /\ worker' = [worker EXCEPT ![w] = [pc |-> "sweep", batch |-> {}, batches |-> @.batches]]
          /\ embedding' = [s \in Sources |->
                IF s \in worker[w].batch /\ chunk[s] # None THEN build ELSE embedding[s]]
          /\ UNCHANGED left
    /\ WorkerKept /\ UNCHANGED <<chunk, wake>>

\* index_missing_chunk_vectors comes after the sweep; chunks that appear
\* meanwhile are nobody's but the next one's.
IndexVectors(w) ==
    /\ worker[w].pc = "index"
    /\ worker' = [worker EXCEPT ![w] = IdleWorker]
    /\ WorkerKept /\ UNCHANGED <<chunk, embedding, wake, left>>

Worker(w) ==
    \/ w = "startup" /\ (ListOutdatedChunks \/ ReplaceChunks)
    \/ w = "forever" /\ Woken
    \/ ReadBatch(w) \/ Embed(w) \/ IndexVectors(w)

-----------------------------------------------------------------------------
(* The browser, crashes and setup() *)

EagerBrowser ==
    /\ EnsureReady(Eager)
    /\ UNCHANGED <<rowVars, memVars, app, build, file, opened, used>>

SidecarDies ==
    /\ Fault(FALSE)
    /\ SidecarExits
    /\ UNCHANGED <<rowVars, memVars, app, build, file, opened>>

\* NEGATIVE_CACHE_TTL is far longer than a download.
Expires ==
    /\ \E s \in negative : download[s].pc = "idle" /\ Forget({s})
    /\ UNCHANGED <<rowVars, memVars, app, build, file, opened, used>>

Crash ==
    /\ Fault(FALSE)
    /\ app # "down" /\ app' = "down"
    /\ AcqLost
    /\ download' = [s \in Remote |-> IdleDownload]
    /\ extract' = [s \in Sources |-> IdleExtract]
    /\ worker' = [w \in Workers |-> IdleWorker]
    /\ wake' = FALSE /\ left' = {}
    /\ UNCHANGED <<rowVars, build, file, opened>>

\* recover_and_queue_startup_downloads: a stale download whose PDF is there is
\* recorded as cached, any other starts again; so does whatever is available.
Stale(s) == source[s].status = "downloading"
\* Mutant: validate_cached_pdf is left out.
KeptAnyway(s) == Stale(s)
Kept(s) == Stale(s) /\ source[s].path /\ s \in file

\* Mutant: a download that was interrupted is left as it is.
RecoveredSourcesAsTheyAre ==
    [s \in Sources |-> IF Kept(s) THEN [status |-> "cached", path |-> TRUE] ELSE source[s]]

RecoveredSources ==
    [s \in Sources |-> IF Kept(s) THEN [status |-> "cached", path |-> TRUE]
                       ELSE IF Stale(s) THEN [source[s] EXCEPT !.status = "remote_available"]
                       ELSE source[s]]

\* Mutant: rows that were being extracted are queued as they are.
RecoveredExtractionsAsTheyAre == extraction

\* recover_and_queue_startup_extractions: what was interrupted, what is cached
\* and has no ready extraction, and, forced, what an older build extracted.
RecoveredExtractions ==
    [s \in Sources |-> IF extraction[s].status = "extracting"
                       THEN [extraction[s] EXCEPT !.status = "queued"] ELSE extraction[s]]

Outdated(s) == Ready(s) /\ extraction[s].build # build'

Restart ==
    LET unready == {s \in Sources : RecoveredSources[s].status = "cached" /\ RecoveredSources[s].path
                                    /\ ~Ready(s)}
        interrupted == {s \in Sources : extraction[s].status = "extracting"}
    IN  /\ app = "down"
        /\ app' = "recovered"
        /\ build' \in build .. MaxBuilds
        /\ source' = RecoveredSources
        /\ paper' = [p \in PapersOf |->
              IF \E s \in Sources : PaperOf[s] = p /\ Kept(s)
              THEN CachedPaper(paper[p], CHOOSE s \in Sources : PaperOf[s] = p /\ Kept(s))
              ELSE paper[p]]
        /\ extraction' = RecoveredExtractions
        /\ download' = [s \in Remote |->
              IF RecoveredSources[s].status = "remote_available"
              THEN [pc |-> "queued", tries |-> 0] ELSE IdleDownload]
        /\ extract' = [s \in Sources |->
              IF s \in unready \cup interrupted \/ Kept(s) THEN [pc |-> "queued", force |-> FALSE]
              ELSE IF Outdated(s) THEN [pc |-> "queued", force |-> TRUE]
              ELSE IdleExtract]
        /\ UNCHANGED <<acqVars, chunk, embedding, worker, wake, left, file, opened, used>>

\* The rest of setup(), while the recovered jobs run: the worker's two tasks are
\* spawned, ...
SpawnSweep ==
    /\ app = "recovered" /\ app' = "sweeping"
    /\ worker' = [worker EXCEPT !["startup"].pc = "rechunk"]
    /\ UNCHANGED <<acqVars, rowVars, download, extract, wake, left, build, file, opened, used>>

\* ... then its listener is attached, the state is managed, which lets commands
\* in, and a task starts the browser early.
AttachListener ==
    /\ app = "sweeping" /\ app' = "up"
    /\ asking' = [asking EXCEPT ![Eager] = "lock"]
    /\ UNCHANGED <<process, startup, exits, negative, rowVars, memVars, build, file, opened, used>>

-----------------------------------------------------------------------------
Commands ==
    \/ \E s \in Remote : OpenCandidate(s) \/ DownloadPaperPdf(s)
    \/ \E p \in PapersOf : AddPaper(p) \/ Abstract(p) \/ DeletePaper(p)
    \/ \E s \in Local : ImportLocal(s)
    \/ \E s \in Sources, force \in BOOLEAN : ExtractPaper(s, force)

Next ==
    \/ Commands
    \/ \E s \in Remote : Download(s) \/ OverallDeadline(s)
    \/ \E s \in Sources : Extract(s) \/ PanicExtraction(s)
    \/ \E w \in Workers : Worker(w)
    \/ EagerBrowser \/ SidecarDies \/ Expires \/ Crash \/ Restart \/ SpawnSweep \/ AttachListener

\* tokio schedules the downloads and the worker, an acquisition has its deadline,
\* and setup() waits for nobody; nothing is assumed of the extractions nor of the
\* task that starts the browser early.
Fairness ==
    /\ \A s \in Remote : WF_vars(Download(s) \/ OverallDeadline(s))
    /\ \A w \in Workers : WF_vars(Worker(w))
    /\ WF_vars(SpawnSweep \/ AttachListener)

Spec == Init /\ [][Next]_vars
FairSpec == Spec /\ Fairness

-----------------------------------------------------------------------------
(* Properties *)

\* What the Reader and the extractor open is there: a source is recorded as
\* cached only when its PDF is in the document storage, whether it was
\* downloaded, promoted from the Reader's cache, imported or recovered, and so
\* is the PDF a paper shows.
CachedIsReadable ==
    /\ \A s \in Sources : Cached(s) => source[s].path /\ s \in file
    /\ \A p \in PapersOf : paper[p].active \in Sources => paper[p].active \in file

\* "an extraction is therefore never `ready` without its chunks", and nothing
\* that is being extracted again, has failed or has gone can still be searched.
SearchableIsReady == \A s \in Sources : Ready(s) <=> chunk[s] # None

\* Unless the extractor has panicked, a row that says extracting has a job.
ExtractingHasJob ==
    \A s \in Sources : app # "down" /\ extraction[s].status = "extracting" /\ ~used.panicked
        => extract[s].pc = "running"

\* A source that says downloading has a job that has still to say how it ended:
\* also when its paper is deleted and added again under the job, or the
\* application starts after a crash that left the status behind.
DownloadingHasJob ==
    \A s \in Remote : app # "down" /\ source[s].status = "downloading"
        => download[s].pc \in {"attempt", "http", "browser", "written"}

\* How many steps a job may take in this attempt, ...
StepsLeft ==
    [queued |-> 10, read |-> 9, attempt |-> 8, http |-> 7, browser |-> 3, written |-> 2, ending |-> 1,
     idle |-> 0]

\* ... of which in ensure_ready, ...
AskingLeft == [ensure |-> 3, lock |-> 2, health |-> 1, ready |-> 0, failed |-> 0, no |-> 0]

\* ... and in all.
Rank(s) ==
    StepsLeft[download[s].pc]
        + (IF download[s].pc = "browser" THEN AskingLeft[asking[s]] ELSE 0)
        + (IF download[s].pc \in {"ending", "idle"} THEN 0 ELSE 7 * (MaxAttempts - download[s].tries))

\* Once it is queued, a download does nothing twice and waits for the browser
\* once per attempt, however often the browser exits or another task gets it
\* first: each of its steps leaves it fewer, at most 7 * MaxAttempts + 10.
DownloadsAdvance ==
    [][\A s \in Remote :
          download'[s] # download[s] \/ (download[s].pc = "browser" /\ asking'[s] # asking[s])
            => download[s].pc = "idle" \/ app' = "down" \/ Rank(s)' < Rank(s)]_vars

\* A download ends, whatever the location, the browser, the researcher and the
\* deadline do; the next start takes care of one that a crash leaves behind.
DownloadsEnd ==
    \A s \in Remote : source[s].status = "downloading"
        ~> source[s].status # "downloading" \/ app = "down"

\* Chunks that are missing their embeddings are ahead of a sweep: one that has
\* still to read, or the one that the permit asks for, which a wake that arrives
\* during a sweep leaves; and where no sweep is ahead one says why: its batch
\* failed, it reached MAX_BATCHES_PER_SWEEP, or the extraction was ready before
\* setup() attached the listener (chunk_worker.rs:83-150, lib.rs:201-226).
Missing == \E s \in Sources : Pending(s)
Ahead == wake \/ \E w \in Workers : worker[w].pc \notin {"idle", "index"}

SweepAhead == app \in {"sweeping", "up"} /\ Missing => Ahead \/ left # {}

\* Every chunk is embedded, also one that appears while a sweep is running, with
\* three exceptions, which wait for the next extraction or the next start: a
\* batch that failed, what MAX_BATCHES_PER_SWEEP batches have not come to, and
\* what was ready before the listener was there (chunk_worker.rs:33-37, 115).
LeftBehind == left # {} /\ ~Ahead

ChunksEmbedded == Missing ~> ~Missing \/ app = "down" \/ LeftBehind

=============================================================================
