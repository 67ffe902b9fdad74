-------------------------- MODULE DocumentsProofs --------------------------
(***************************************************************************)
(* The safety invariants of Documents, for any papers, sources, callers,   *)
(* numbers of attempts, batches, builds, events, faults and exits.         *)
(***************************************************************************)
EXTENDS Documents, TLAPS

USE DocumentsAssumption, AcquisitionAssumption DEF Sources

\* What is not said by the properties themselves: a job that has written a PDF
\* leaves it where it is, a job that runs owns its row, and a caller that waits
\* for a child holds the startup lock.
WrittenIsThere == \A s \in Remote : download[s].pc = "written" => s \in file

RunningOwnsRow ==
    \A s \in Sources : extract[s].pc = "running" => extraction[s].status \in {"extracting", "none"}

HealthHoldsStartup ==
    \A c \in Callers : asking[c] = "health" => startup = c /\ process = "none"

\* CachedIsReadable, row by row.
CachedHasFile == \A s \in Sources : source[s].status = "cached" => source[s].path /\ s \in file

ActiveHasFile == \A p \in PapersOf : paper[p].active \in Sources => paper[p].active \in file

\* TypeOK, variable by variable.
PaperType == paper \in [PapersOf -> PaperRows]

SourceType ==
    source \in [Sources -> [status : {"none", "remote_available", "downloading", "cached", "failed"},
                            path   : BOOLEAN]]

ExtractionType ==
    extraction \in [Sources -> [status : {"none", "queued", "extracting", "ready", "failed"},
                                build  : 0 .. MaxBuilds]]

ChunkType == chunk \in [Sources -> 0 .. MaxBuilds]

EmbeddingType == embedding \in [Sources -> 0 .. MaxBuilds]

DownloadType == download \in [Remote -> [pc : DownloadPcs, tries : 0 .. MaxAttempts - 1]]

ExtractType == extract \in [Sources -> [pc : ExtractPcs, force : BOOLEAN]]

WorkerType == worker \in [Workers -> WorkerStates]

AppType == app \in {"down", "recovered", "sweeping", "up"} /\ build \in Builds

FilesType == file \in SUBSET Sources /\ opened \in SUBSET Remote

UsedType ==
    used \in [events : 0 .. MaxEvents, faults : 0 .. MaxFaults, panicked : BOOLEAN]

WakeType == wake \in BOOLEAN /\ left \subseteq Reasons

Inv ==
    /\ AcqTypeOK
    /\ PaperType /\ SourceType /\ ExtractionType /\ ChunkType /\ EmbeddingType
    /\ DownloadType /\ ExtractType /\ WorkerType
    /\ AppType /\ FilesType /\ UsedType /\ WakeType
    /\ HealthHoldsStartup
    /\ CachedHasFile /\ ActiveHasFile /\ WrittenIsThere
    /\ SearchableIsReady /\ RunningOwnsRow /\ ExtractingHasJob

\* The parts together are the properties of Documents.
LEMMA InvParts ==
    Inv <=> /\ TypeOK /\ HealthHoldsStartup /\ CachedIsReadable /\ WrittenIsThere
            /\ SearchableIsReady /\ RunningOwnsRow /\ ExtractingHasJob
<1>1. TypeOK <=> /\ AcqTypeOK
                 /\ PaperType /\ SourceType /\ ExtractionType /\ ChunkType /\ EmbeddingType
                 /\ DownloadType /\ ExtractType /\ WorkerType
                 /\ AppType /\ FilesType /\ UsedType /\ WakeType
  BY Zenon DEF TypeOK, PaperType, SourceType, ExtractionType, ChunkType, EmbeddingType,
            DownloadType, ExtractType, WorkerType, AppType, FilesType, UsedType, WakeType
<1>2. CachedIsReadable <=> CachedHasFile /\ ActiveHasFile
  BY DEF CachedIsReadable, CachedHasFile, ActiveHasFile, Cached
<1>3. QED
  BY <1>1, <1>2 DEF Inv

\* set_document_source_cached makes a row of papers, with the source or the one it had.
LEMMA CachedPaperRow ==
    ASSUME NEW r \in PaperRows, NEW s \in Sources
    PROVE  CachedPaper(r, s) \in PaperRows /\ CachedPaper(r, s).active \in {r.active, s}
<1>1. CASE r.active \in {"none", "abstract"}
  BY <1>1 DEF CachedPaper, PaperRows
<1>2. CASE r.active \notin {"none", "abstract"}
  BY <1>2 DEF CachedPaper, PaperRows
<1>3. QED
  BY <1>1, <1>2

LEMMA QueuedExtractsType ==
    ASSUME ExtractType, NEW sources, NEW force \in BOOLEAN
    PROVE  /\ QueuedExtracts(sources, force) \in [Sources -> [pc : ExtractPcs, force : BOOLEAN]]
           /\ \A s \in Sources :
                 extract[s].pc # "idle" => QueuedExtracts(sources, force)[s].pc = extract[s].pc
           /\ \A s \in Sources :
                 extract[s].pc = "idle" => QueuedExtracts(sources, force)[s].pc \in {"idle", "queued"}
  BY DEF QueuedExtracts, ExtractType, ExtractPcs

\* A failed attempt leaves every row but the source's status alone, and no PDF behind.
LEMMA AttemptFailedKeeps ==
    ASSUME Inv, NEW s \in Remote, NEW from, AttemptFailed(s, from)
    PROVE  /\ UNCHANGED <<paper, extraction, chunk, embedding, extract, worker, wake, left, app, build,
                         file, opened, used>>
           /\ SourceType' /\ DownloadType' /\ CachedHasFile' /\ WrittenIsThere'
<1> USE DEF Inv, SourceType, DownloadType, DownloadPcs, CachedHasFile, WrittenIsThere,
            AttemptFailed, DownloadAt, RowsKept, rowVars
<1>1. UNCHANGED <<paper, extraction, chunk, embedding, extract, worker, wake, left, app, build,
                  file, opened, used>>
  OBVIOUS
<1>2. CASE /\ download[s].pc = from /\ download[s].tries + 1 < MaxAttempts
           /\ download' = [download EXCEPT ![s] = [pc |-> "attempt", tries |-> @.tries + 1]]
           /\ RowsKept
  <2>1. SourceType' /\ CachedHasFile'
    BY <1>2, <1>1
  <2>2. DownloadType' /\ WrittenIsThere'
    BY <1>2, <1>1
  <2>3. QED
    BY <1>1, <2>1, <2>2
<1>3. CASE /\ DownloadAt(s, from, "ending")
           /\ source' = IF source[s].status = "none" THEN source
                        ELSE [source EXCEPT ![s].status = "failed"]
  <2>1. SourceType' /\ CachedHasFile'
    BY <1>3, <1>1
  <2>2. DownloadType' /\ WrittenIsThere'
    BY <1>3, <1>1
  <2>3. QED
    BY <1>1, <2>1, <2>2
<1>4. QED
  BY <1>2, <1>3

\* The commands.
LEMMA OpenCandidatePreserves ==
    ASSUME Inv, NEW s \in Remote, OpenCandidate(s) PROVE Inv'
<1>1. UNCHANGED <<process, startup, asking, exits, negative, paper, source, extraction,
    chunk, embedding, download, extract, worker, wake, left, app, build, file>>
  BY DEF OpenCandidate, Command, acqVars, rowVars, memVars
<1>2. AcqTypeOK' /\ PaperType' /\ SourceType' /\ ExtractionType' /\ ChunkType'
      /\ EmbeddingType' /\ DownloadType' /\ ExtractType' /\ WorkerType' /\ AppType'
      /\ WakeType' /\ HealthHoldsStartup' /\ CachedHasFile' /\ ActiveHasFile' /\ WrittenIsThere'
      /\ SearchableIsReady' /\ RunningOwnsRow'
  BY <1>1 DEF Inv, AcqTypeOK, AcqTypeOK, Asking, PaperType, PaperRows, SourceType,
      ExtractionType, ChunkType, EmbeddingType, DownloadType, DownloadPcs, ExtractType,
      ExtractPcs, WorkerType, WorkerStates, WorkerPcs, AppType, Builds, WakeType,
      HealthHoldsStartup, CachedHasFile, ActiveHasFile, WrittenIsThere, SearchableIsReady,
      Ready, RunningOwnsRow
<1>3. FilesType'
  BY <1>1 DEF Inv, FilesType, OpenCandidate, Command
<1>4. UsedType'
  BY <1>1 DEF Inv, UsedType, OpenCandidate, Command
<1>5. ExtractingHasJob'
  BY <1>1 DEF Inv, ExtractingHasJob, AppType, Builds, ExtractionType, UsedType, ExtractType,
      ExtractPcs, OpenCandidate, Command
<1>6. QED
  BY <1>2, <1>3, <1>4, <1>5 DEF Inv

LEMMA AddPaperPreserves ==
    ASSUME Inv, NEW p \in PapersOf, AddPaper(p) PROVE Inv'
<1>1. UNCHANGED <<process, startup, asking, exits, negative, extraction, chunk, embedding,
    extract, worker, wake, left, app, build, opened>>
  BY DEF AddPaper, Command, acqVars
<1>2. AcqTypeOK' /\ ExtractionType' /\ ChunkType' /\ EmbeddingType' /\ ExtractType'
      /\ WorkerType' /\ AppType' /\ WakeType' /\ HealthHoldsStartup' /\ SearchableIsReady'
      /\ RunningOwnsRow'
  BY <1>1 DEF Inv, AcqTypeOK, AcqTypeOK, Asking, ExtractionType, ChunkType, EmbeddingType,
      ExtractType, ExtractPcs, WorkerType, WorkerStates, WorkerPcs, AppType, Builds,
      WakeType, HealthHoldsStartup, SearchableIsReady, Ready, RunningOwnsRow
<1>3. PaperType'
  <2>1. SavedPaper(paper[p]) \in PaperRows
    BY DEF Inv, PaperType, PaperRows, SavedPaper
  <2>2. PICK row \in PaperRows : paper' = [paper EXCEPT ![p] = row]
    BY <2>1, CachedPaperRow DEF AddPaper
  <2>3. QED
    BY <2>2 DEF Inv, PaperType
<1>4. SourceType'
  BY <1>1 DEF Inv, SourceType, AddPaper, QueuedDownloads, Cached, SavedPaper, Command
<1>5. DownloadType'
  BY <1>1 DEF Inv, DownloadType, DownloadPcs, AddPaper, QueuedDownloads, Cached, SavedPaper,
      Command
<1>6. FilesType'
  BY <1>1 DEF Inv, FilesType, AddPaper, QueuedDownloads, Cached, SavedPaper, Command
<1>7. UsedType'
  BY <1>1 DEF Inv, UsedType, AddPaper, QueuedDownloads, Cached, SavedPaper, Command
<1>8. CachedHasFile'
  BY <1>1 DEF Inv, CachedHasFile, SourceType, FilesType, AddPaper, QueuedDownloads, Cached,
      SavedPaper, Command
<1>9. ActiveHasFile'
  <2>1. /\ SavedPaper(paper[p]) \in PaperRows
        /\ SavedPaper(paper[p]).active = paper[p].active
    BY DEF Inv, PaperType, PaperRows, SavedPaper
  <2>2. \/ paper' = [paper EXCEPT ![p] = SavedPaper(paper[p])]
        \/ \E t \in Sources : /\ t \in file'
                              /\ paper' = [paper EXCEPT ![p] = CachedPaper(SavedPaper(paper[p]), t)]
    BY DEF AddPaper
  <2>3. file \subseteq file'
    BY DEF AddPaper
  <2>4. QED
    <3>1. CASE paper' = [paper EXCEPT ![p] = SavedPaper(paper[p])]
      BY <3>1, <2>1, <2>3 DEF Inv, PaperType, ActiveHasFile
    <3>2. ASSUME NEW t \in Sources, t \in file',
                 paper' = [paper EXCEPT ![p] = CachedPaper(SavedPaper(paper[p]), t)]
          PROVE  ActiveHasFile'
      <4>1. CachedPaper(SavedPaper(paper[p]), t).active \in {paper[p].active, t}
        BY <2>1, CachedPaperRow
      <4>2. QED
        BY <3>2, <4>1, <2>3 DEF Inv, PaperType, ActiveHasFile
    <3>3. QED
      BY <2>2, <3>1, <3>2
<1>10. WrittenIsThere'
  BY <1>1 DEF Inv, WrittenIsThere, DownloadType, DownloadPcs, FilesType, AddPaper,
      QueuedDownloads, Cached, SavedPaper, Command
<1>11. ExtractingHasJob'
  BY <1>1 DEF Inv, ExtractingHasJob, AppType, Builds, ExtractionType, UsedType, ExtractType,
      ExtractPcs, AddPaper, QueuedDownloads, Cached, SavedPaper, Command
<1>12. QED
  BY <1>2, <1>3, <1>4, <1>5, <1>6, <1>7, <1>8, <1>9, <1>10, <1>11 DEF Inv

LEMMA ImportLocalPreserves ==
    ASSUME Inv, NEW s \in Local, ImportLocal(s) PROVE Inv'
<1>1. UNCHANGED <<process, startup, asking, exits, negative, extraction, chunk, embedding,
    download, worker, wake, left, app, build, opened>>
  BY DEF ImportLocal, Command, acqVars
<1>2. AcqTypeOK' /\ ExtractionType' /\ ChunkType' /\ EmbeddingType' /\ DownloadType'
      /\ WorkerType' /\ AppType' /\ WakeType' /\ HealthHoldsStartup' /\ SearchableIsReady'
  BY <1>1 DEF Inv, AcqTypeOK, AcqTypeOK, Asking, ExtractionType, ChunkType, EmbeddingType,
      DownloadType, DownloadPcs, WorkerType, WorkerStates, WorkerPcs, AppType, Builds,
      WakeType, HealthHoldsStartup, SearchableIsReady, Ready
<1>3. PaperType'
  BY ZenonT(60), <1>1 DEF Inv, PaperType, PaperRows, ImportLocal, QueuedExtracts, Command
<1>4. SourceType'
  BY <1>1 DEF Inv, SourceType, ImportLocal, QueuedExtracts, Command
<1>5. ExtractType'
  BY <1>1 DEF Inv, ExtractType, ExtractPcs, ImportLocal, QueuedExtracts, Command
<1>6. FilesType'
  BY <1>1 DEF Inv, FilesType, ImportLocal, QueuedExtracts, Command
<1>7. UsedType'
  BY <1>1 DEF Inv, UsedType, ImportLocal, QueuedExtracts, Command
<1>8. CachedHasFile'
  BY <1>1 DEF Inv, CachedHasFile, SourceType, FilesType, ImportLocal, QueuedExtracts,
      Command
<1>9. ActiveHasFile'
  BY <1>1 DEF Inv, ActiveHasFile, PaperType, PaperRows, FilesType, ImportLocal,
      QueuedExtracts, Command
<1>10. WrittenIsThere'
  BY <1>1 DEF Inv, WrittenIsThere, DownloadType, DownloadPcs, FilesType, ImportLocal,
      QueuedExtracts, Command
<1>11. RunningOwnsRow'
  BY <1>1 DEF Inv, RunningOwnsRow, ExtractType, ExtractPcs, ExtractionType, ImportLocal,
      QueuedExtracts, Command
<1>12. ExtractingHasJob'
  BY <1>1 DEF Inv, ExtractingHasJob, AppType, Builds, ExtractionType, UsedType, ExtractType,
      ExtractPcs, ImportLocal, QueuedExtracts, Command
<1>13. QED
  BY <1>2, <1>3, <1>4, <1>5, <1>6, <1>7, <1>8, <1>9, <1>10, <1>11, <1>12 DEF Inv

LEMMA AbstractPreserves ==
    ASSUME Inv, NEW p \in PapersOf, Abstract(p) PROVE Inv'
<1>1. UNCHANGED <<process, startup, asking, exits, negative, source, extraction, chunk,
    embedding, download, extract, worker, wake, left, app, build, file, opened>>
  BY DEF Abstract, Command, acqVars, memVars
<1>2. AcqTypeOK' /\ SourceType' /\ ExtractionType' /\ ChunkType' /\ EmbeddingType'
      /\ DownloadType' /\ ExtractType' /\ WorkerType' /\ AppType' /\ FilesType'
      /\ WakeType' /\ HealthHoldsStartup' /\ CachedHasFile' /\ WrittenIsThere' /\ SearchableIsReady'
      /\ RunningOwnsRow'
  BY <1>1 DEF Inv, AcqTypeOK, AcqTypeOK, Asking, SourceType, ExtractionType, ChunkType,
      EmbeddingType, DownloadType, DownloadPcs, ExtractType, ExtractPcs, WorkerType,
      WorkerStates, WorkerPcs, AppType, Builds, FilesType, WakeType, HealthHoldsStartup,
      CachedHasFile, WrittenIsThere, SearchableIsReady, Ready, RunningOwnsRow
<1>3. PaperType'
  <2>1. PICK row \in PaperRows : paper' = [paper EXCEPT ![p] = row]
    <3>1. /\ paper[p] \in PaperRows
          /\ (IF paper[p].active = "none" THEN "abstract" ELSE paper[p].active)
                \in Sources \cup {"none", "abstract"}
          /\ (IF paper[p].text = "none" THEN "abstract" ELSE paper[p].text)
                \in Sources \cup {"none", "abstract"}
      BY DEF Inv, PaperType, PaperRows
    <3>2. QED
      BY <3>1 DEF Abstract, PaperRows
  <2>2. QED
    BY <2>1 DEF Inv, PaperType
<1>4. UsedType'
  BY <1>1 DEF Inv, UsedType, Abstract, Command
<1>5. ActiveHasFile'
  <2>1. paper'[p].active \in {paper[p].active, "abstract"}
    BY DEF Inv, PaperType, PaperRows, Abstract
  <2>2. \A q \in PapersOf \ {p} : paper'[q] = paper[q]
    BY DEF Inv, PaperType, Abstract
  <2>3. QED
    BY <1>1, <2>1, <2>2 DEF Inv, ActiveHasFile
<1>6. ExtractingHasJob'
  BY <1>1 DEF Inv, ExtractingHasJob, AppType, Builds, ExtractionType, UsedType, ExtractType,
      ExtractPcs, Abstract, Command
<1>7. QED
  BY <1>2, <1>3, <1>4, <1>5, <1>6 DEF Inv

LEMMA DownloadPaperPdfPreserves ==
    ASSUME Inv, NEW s \in Remote, DownloadPaperPdf(s) PROVE Inv'
<1>1. UNCHANGED <<process, startup, asking, exits, negative, paper, extraction, chunk,
    embedding, extract, worker, wake, left, app, build, file, opened>>
  BY DEF DownloadPaperPdf, Command, acqVars
<1>2. AcqTypeOK' /\ PaperType' /\ ExtractionType' /\ ChunkType' /\ EmbeddingType'
      /\ ExtractType' /\ WorkerType' /\ AppType' /\ FilesType' /\ WakeType'
      /\ HealthHoldsStartup' /\ ActiveHasFile' /\ SearchableIsReady' /\ RunningOwnsRow'
  BY <1>1 DEF Inv, AcqTypeOK, AcqTypeOK, Asking, PaperType, PaperRows, ExtractionType,
      ChunkType, EmbeddingType, ExtractType, ExtractPcs, WorkerType, WorkerStates,
      WorkerPcs, AppType, Builds, FilesType, WakeType, HealthHoldsStartup, ActiveHasFile,
      SearchableIsReady, Ready, RunningOwnsRow
<1>3. SourceType'
  BY <1>1 DEF Inv, SourceType, DownloadPaperPdf, QueuedDownloads, Command
<1>4. DownloadType'
  BY <1>1 DEF Inv, DownloadType, DownloadPcs, DownloadPaperPdf, QueuedDownloads, Command
<1>5. UsedType'
  BY <1>1 DEF Inv, UsedType, DownloadPaperPdf, QueuedDownloads, Command
<1>6. CachedHasFile'
  BY <1>1 DEF Inv, CachedHasFile, SourceType, FilesType, DownloadPaperPdf, QueuedDownloads,
      Command
<1>7. WrittenIsThere'
  BY <1>1 DEF Inv, WrittenIsThere, DownloadType, DownloadPcs, FilesType, DownloadPaperPdf,
      QueuedDownloads, Command
<1>8. ExtractingHasJob'
  BY <1>1 DEF Inv, ExtractingHasJob, AppType, Builds, ExtractionType, UsedType, ExtractType,
      ExtractPcs, DownloadPaperPdf, QueuedDownloads, Command
<1>9. QED
  BY <1>2, <1>3, <1>4, <1>5, <1>6, <1>7, <1>8 DEF Inv

LEMMA ExtractPaperPreserves ==
    ASSUME Inv, NEW s \in Sources, NEW force \in BOOLEAN, ExtractPaper(s, force) PROVE Inv'
<1>1. UNCHANGED <<process, startup, asking, exits, negative, paper, source, extraction,
    chunk, embedding, download, worker, wake, left, app, build, file, opened>>
  BY DEF ExtractPaper, Command, acqVars, rowVars
<1>2. AcqTypeOK' /\ PaperType' /\ SourceType' /\ ExtractionType' /\ ChunkType'
      /\ EmbeddingType' /\ DownloadType' /\ WorkerType' /\ AppType' /\ FilesType'
      /\ WakeType' /\ HealthHoldsStartup' /\ CachedHasFile' /\ ActiveHasFile' /\ WrittenIsThere'
      /\ SearchableIsReady'
  BY <1>1 DEF Inv, AcqTypeOK, AcqTypeOK, Asking, PaperType, PaperRows, SourceType,
      ExtractionType, ChunkType, EmbeddingType, DownloadType, DownloadPcs, WorkerType,
      WorkerStates, WorkerPcs, AppType, Builds, FilesType, WakeType, HealthHoldsStartup,
      CachedHasFile, ActiveHasFile, WrittenIsThere, SearchableIsReady, Ready
<1>3. ExtractType'
  BY <1>1 DEF Inv, ExtractType, ExtractPcs, ExtractPaper, QueuedExtracts, Command
<1>4. UsedType'
  BY <1>1 DEF Inv, UsedType, ExtractPaper, QueuedExtracts, Command
<1>5. RunningOwnsRow'
  BY <1>1 DEF Inv, RunningOwnsRow, ExtractType, ExtractPcs, ExtractionType, ExtractPaper,
      QueuedExtracts, Command
<1>6. ExtractingHasJob'
  BY <1>1 DEF Inv, ExtractingHasJob, AppType, Builds, ExtractionType, UsedType, ExtractType,
      ExtractPcs, ExtractPaper, QueuedExtracts, Command
<1>7. QED
  BY <1>2, <1>3, <1>4, <1>5, <1>6 DEF Inv

LEMMA DeletePaperPreserves ==
    ASSUME Inv, NEW p \in PapersOf, DeletePaper(p) PROVE Inv'
<1>1. UNCHANGED <<process, startup, asking, exits, negative, download, extract, worker,
    wake, left, app, build, file, opened>>
  BY DEF DeletePaper, Command, Deleted, acqVars, memVars
<1>2. AcqTypeOK' /\ DownloadType' /\ ExtractType' /\ WorkerType' /\ AppType'
      /\ FilesType' /\ WakeType' /\ HealthHoldsStartup' /\ WrittenIsThere'
  BY <1>1 DEF Inv, AcqTypeOK, AcqTypeOK, Asking, DownloadType, DownloadPcs, ExtractType,
      ExtractPcs, WorkerType, WorkerStates, WorkerPcs, AppType, Builds, FilesType, WakeType,
      HealthHoldsStartup, WrittenIsThere
<1>3. PaperType'
  BY <1>1 DEF Inv, PaperType, PaperRows, DeletePaper, Deleted, NoPaper, NoSource,
      NoExtraction, None, Command
<1>4. SourceType'
  BY <1>1 DEF Inv, SourceType, DeletePaper, Deleted, NoPaper, NoSource, NoExtraction, None,
      Command
<1>5. ExtractionType'
  BY <1>1 DEF Inv, ExtractionType, DeletePaper, Deleted, NoPaper, NoSource, NoExtraction,
      None, Command
<1>6. ChunkType'
  BY <1>1 DEF Inv, ChunkType, DeletePaper, Deleted, NoPaper, NoSource, NoExtraction, None,
      Command
<1>7. EmbeddingType'
  BY <1>1 DEF Inv, EmbeddingType, DeletePaper, Deleted, NoPaper, NoSource, NoExtraction,
      None, Command
<1>8. UsedType'
  BY <1>1 DEF Inv, UsedType, DeletePaper, Deleted, NoPaper, NoSource, NoExtraction, None,
      Command
<1>9. CachedHasFile'
  BY <1>1 DEF Inv, CachedHasFile, SourceType, FilesType, DeletePaper, Deleted, NoPaper,
      NoSource, NoExtraction, None, Command
<1>10. ActiveHasFile'
  BY <1>1 DEF Inv, ActiveHasFile, PaperType, PaperRows, FilesType, DeletePaper, Deleted,
      NoPaper, NoSource, NoExtraction, None, Command
<1>11. SearchableIsReady'
  BY <1>1 DEF Inv, SearchableIsReady, Ready, ExtractionType, ChunkType, DeletePaper,
      Deleted, NoPaper, NoSource, NoExtraction, None, Command
<1>12. RunningOwnsRow'
  BY <1>1 DEF Inv, RunningOwnsRow, ExtractType, ExtractPcs, ExtractionType, DeletePaper,
      Deleted, NoPaper, NoSource, NoExtraction, None, Command
<1>13. ExtractingHasJob'
  BY <1>1 DEF Inv, ExtractingHasJob, AppType, Builds, ExtractionType, UsedType, ExtractType,
      ExtractPcs, DeletePaper, Deleted, NoPaper, NoSource, NoExtraction, None, Command
<1>14. QED
  BY <1>2, <1>3, <1>4, <1>5, <1>6, <1>7, <1>8, <1>9, <1>10, <1>11, <1>12, <1>13 DEF Inv

\* The downloads.
LEMMA ReadSourcePreserves ==
    ASSUME Inv, NEW s \in Remote, ReadSource(s) PROVE Inv'
<1>1. UNCHANGED <<process, startup, asking, exits, negative, paper, source, extraction,
    chunk, embedding, extract, worker, wake, left, app, build, file, opened, used>>
  BY DEF ReadSource, DownloadAt, RowsKept, rowVars, acqVars
<1>2. AcqTypeOK' /\ PaperType' /\ SourceType' /\ ExtractionType' /\ ChunkType'
      /\ EmbeddingType' /\ ExtractType' /\ WorkerType' /\ AppType' /\ FilesType'
      /\ UsedType' /\ WakeType' /\ HealthHoldsStartup' /\ CachedHasFile' /\ ActiveHasFile'
      /\ SearchableIsReady' /\ RunningOwnsRow' /\ ExtractingHasJob'
  BY <1>1 DEF Inv, AcqTypeOK, AcqTypeOK, Asking, PaperType, PaperRows, SourceType,
      ExtractionType, ChunkType, EmbeddingType, ExtractType, ExtractPcs, WorkerType,
      WorkerStates, WorkerPcs, AppType, Builds, FilesType, UsedType, WakeType,
      HealthHoldsStartup, CachedHasFile, ActiveHasFile, SearchableIsReady, Ready,
      RunningOwnsRow, ExtractingHasJob
<1>3. DownloadType'
  BY <1>1 DEF Inv, DownloadType, DownloadPcs, ReadSource, DownloadAt, RowsKept
<1>4. WrittenIsThere'
  BY <1>1 DEF Inv, WrittenIsThere, DownloadType, DownloadPcs, FilesType, ReadSource,
      DownloadAt, RowsKept
<1>5. QED
  BY <1>2, <1>3, <1>4 DEF Inv

LEMMA NothingToDownloadPreserves ==
    ASSUME Inv, NEW s \in Remote, NothingToDownload(s) PROVE Inv'
<1>1. UNCHANGED <<process, startup, asking, exits, negative, paper, source, extraction,
    chunk, embedding, worker, wake, left, app, build, file, opened, used>>
  BY DEF NothingToDownload, DownloadAt, acqVars, rowVars
<1>2. AcqTypeOK' /\ PaperType' /\ SourceType' /\ ExtractionType' /\ ChunkType'
      /\ EmbeddingType' /\ WorkerType' /\ AppType' /\ FilesType' /\ UsedType'
      /\ WakeType' /\ HealthHoldsStartup' /\ CachedHasFile' /\ ActiveHasFile' /\ SearchableIsReady'
  BY <1>1 DEF Inv, AcqTypeOK, AcqTypeOK, Asking, PaperType, PaperRows, SourceType,
      ExtractionType, ChunkType, EmbeddingType, WorkerType, WorkerStates, WorkerPcs,
      AppType, Builds, FilesType, UsedType, WakeType, HealthHoldsStartup, CachedHasFile,
      ActiveHasFile, SearchableIsReady, Ready
<1>3. DownloadType'
  BY <1>1 DEF Inv, DownloadType, DownloadPcs, NothingToDownload, DownloadAt
<1>4. ExtractType'
  BY <1>1, QueuedExtractsType DEF Inv, ExtractType, NothingToDownload
<1>5. WrittenIsThere'
  BY <1>1 DEF Inv, WrittenIsThere, DownloadType, DownloadPcs, FilesType, NothingToDownload,
      DownloadAt
<1>6. RunningOwnsRow'
  BY ZenonT(60), <1>1, QueuedExtractsType DEF Inv, RunningOwnsRow, ExtractType, ExtractPcs,
      NothingToDownload
<1>7. ExtractingHasJob'
  <2>1. \A t \in Sources : extract[t].pc = "running" => extract'[t].pc = "running"
    BY DEF QueuedExtracts, Inv, ExtractType, ExtractPcs, NothingToDownload
  <2>2. QED
    BY <1>1, <2>1 DEF Inv, ExtractingHasJob
<1>8. QED
  BY <1>2, <1>3, <1>4, <1>5, <1>6, <1>7 DEF Inv

LEMMA SetDownloadingPreserves ==
    ASSUME Inv, NEW s \in Remote, SetDownloading(s) PROVE Inv'
<1>1. UNCHANGED <<process, startup, asking, exits, negative, paper, extraction, chunk,
    embedding, extract, worker, wake, left, app, build, file, opened, used>>
  BY DEF SetDownloading, DownloadAt, acqVars
<1>2. AcqTypeOK' /\ PaperType' /\ ExtractionType' /\ ChunkType' /\ EmbeddingType'
      /\ ExtractType' /\ WorkerType' /\ AppType' /\ FilesType' /\ UsedType'
      /\ WakeType' /\ HealthHoldsStartup' /\ ActiveHasFile' /\ SearchableIsReady' /\ RunningOwnsRow'
      /\ ExtractingHasJob'
  BY <1>1 DEF Inv, AcqTypeOK, AcqTypeOK, Asking, PaperType, PaperRows, ExtractionType,
      ChunkType, EmbeddingType, ExtractType, ExtractPcs, WorkerType, WorkerStates,
      WorkerPcs, AppType, Builds, FilesType, UsedType, WakeType, HealthHoldsStartup,
      ActiveHasFile, SearchableIsReady, Ready, RunningOwnsRow, ExtractingHasJob
<1>3. SourceType'
  BY <1>1 DEF Inv, SourceType, SetDownloading, DownloadAt, RowsKept
<1>4. DownloadType'
  BY <1>1 DEF Inv, DownloadType, DownloadPcs, SetDownloading, DownloadAt, RowsKept
<1>5. CachedHasFile'
  BY <1>1 DEF Inv, CachedHasFile, SourceType, FilesType, SetDownloading, DownloadAt,
      RowsKept
<1>6. WrittenIsThere'
  BY <1>1 DEF Inv, WrittenIsThere, DownloadType, DownloadPcs, FilesType, SetDownloading,
      DownloadAt, RowsKept
<1>7. QED
  BY <1>2, <1>3, <1>4, <1>5, <1>6 DEF Inv

LEMMA BeginAttemptPreserves ==
    ASSUME Inv, NEW s \in Remote, BeginAttempt(s) PROVE Inv'
<1>1. UNCHANGED <<process, startup, asking, exits, negative, paper, extraction, chunk,
    embedding, extract, worker, wake, left, app, build, file, opened, used>>
  BY DEF BeginAttempt, DownloadAt, RowsKept, rowVars, AttemptFailed, acqVars
<1>2. AcqTypeOK' /\ PaperType' /\ ExtractionType' /\ ChunkType' /\ EmbeddingType'
      /\ ExtractType' /\ WorkerType' /\ AppType' /\ FilesType' /\ UsedType'
      /\ WakeType' /\ HealthHoldsStartup' /\ ActiveHasFile' /\ SearchableIsReady' /\ RunningOwnsRow'
      /\ ExtractingHasJob'
  BY <1>1 DEF Inv, AcqTypeOK, AcqTypeOK, Asking, PaperType, PaperRows, ExtractionType,
      ChunkType, EmbeddingType, ExtractType, ExtractPcs, WorkerType, WorkerStates,
      WorkerPcs, AppType, Builds, FilesType, UsedType, WakeType, HealthHoldsStartup,
      ActiveHasFile, SearchableIsReady, Ready, RunningOwnsRow, ExtractingHasJob
<1>3. SourceType'
  <2>1. CASE AttemptFailed(s, "attempt")
    BY <2>1, AttemptFailedKeeps
  <2>2. CASE DownloadAt(s, "attempt", "http") /\ RowsKept
    BY <2>2 DEF Inv, SourceType, DownloadAt, RowsKept, rowVars
  <2>3. QED
    BY <2>1, <2>2 DEF BeginAttempt
<1>4. DownloadType'
  <2>1. CASE AttemptFailed(s, "attempt")
    BY <2>1, AttemptFailedKeeps
  <2>2. CASE DownloadAt(s, "attempt", "http") /\ RowsKept
    BY <2>2 DEF Inv, DownloadType, DownloadPcs, DownloadAt, RowsKept, rowVars
  <2>3. QED
    BY <2>1, <2>2 DEF BeginAttempt
<1>5. CachedHasFile'
  <2>1. CASE AttemptFailed(s, "attempt")
    BY <2>1, AttemptFailedKeeps
  <2>2. CASE DownloadAt(s, "attempt", "http") /\ RowsKept
    BY <2>2 DEF Inv, CachedHasFile, DownloadAt, RowsKept, rowVars
  <2>3. QED
    BY <2>1, <2>2 DEF BeginAttempt
<1>6. WrittenIsThere'
  <2>1. CASE AttemptFailed(s, "attempt")
    BY <2>1, AttemptFailedKeeps
  <2>2. CASE DownloadAt(s, "attempt", "http") /\ RowsKept
    BY <2>2 DEF Inv, WrittenIsThere, DownloadType, DownloadAt, RowsKept, rowVars
  <2>3. QED
    BY <2>1, <2>2 DEF BeginAttempt
<1>7. QED
  BY <1>2, <1>3, <1>4, <1>5, <1>6 DEF Inv

LEMMA DirectFetchPreserves ==
    ASSUME Inv, NEW s \in Remote, DirectFetch(s) PROVE Inv'
<1>1. UNCHANGED <<process, startup, exits, paper, source, extraction, chunk, embedding,
    extract, worker, wake, left, app, build, opened, used>>
  BY DEF DirectFetch, WritePdf, DownloadAt, rowVars, Forget, RowsKept
<1>2. PaperType' /\ SourceType' /\ ExtractionType' /\ ChunkType' /\ EmbeddingType'
      /\ ExtractType' /\ WorkerType' /\ AppType' /\ UsedType' /\ WakeType'
      /\ SearchableIsReady' /\ RunningOwnsRow' /\ ExtractingHasJob'
  BY <1>1 DEF Inv, PaperType, PaperRows, SourceType, ExtractionType, ChunkType,
      EmbeddingType, ExtractType, ExtractPcs, WorkerType, WorkerStates, WorkerPcs, AppType,
      Builds, UsedType, WakeType, SearchableIsReady, Ready, RunningOwnsRow, ExtractingHasJob
<1>3. AcqTypeOK'
  BY <1>1 DEF Inv, AcqTypeOK, Asking, DirectFetch, WritePdf, Forget, DownloadAt, RowsKept
<1>4. DownloadType'
  BY <1>1 DEF Inv, DownloadType, DownloadPcs, DirectFetch, WritePdf, Forget, DownloadAt,
      RowsKept
<1>5. FilesType'
  BY <1>1 DEF Inv, FilesType, DirectFetch, WritePdf, Forget, DownloadAt, RowsKept
<1>6. HealthHoldsStartup'
  BY <1>1 DEF Inv, HealthHoldsStartup, AcqTypeOK, Asking, DirectFetch, WritePdf, Forget,
      DownloadAt, RowsKept
<1>7. CachedHasFile'
  BY <1>1 DEF Inv, CachedHasFile, SourceType, FilesType, DirectFetch, WritePdf, Forget,
      DownloadAt, RowsKept
<1>8. ActiveHasFile'
  BY <1>1 DEF Inv, ActiveHasFile, PaperType, PaperRows, FilesType, DirectFetch, WritePdf,
      Forget, DownloadAt, RowsKept
<1>9. WrittenIsThere'
  BY <1>1 DEF Inv, WrittenIsThere, DownloadType, DownloadPcs, FilesType, DirectFetch,
      WritePdf, Forget, DownloadAt, RowsKept
<1>10. QED
  BY <1>2, <1>3, <1>4, <1>5, <1>6, <1>7, <1>8, <1>9 DEF Inv

LEMMA AwaitBrowserPreserves ==
    ASSUME Inv, NEW s \in Remote, AwaitBrowser(s) PROVE Inv'
<1>1. UNCHANGED <<exits, negative, paper, source, extraction, chunk, embedding, download,
    extract, worker, wake, left, app, build, file, opened, used>>
  BY DEF AwaitBrowser, EnsureReady, Ensure, ReadyEndpoint, Moves, TakeStartup, Healthy,
      Unhealthy, RowsKept, rowVars
<1>2. PaperType' /\ SourceType' /\ ExtractionType' /\ ChunkType' /\ EmbeddingType'
      /\ DownloadType' /\ ExtractType' /\ WorkerType' /\ AppType' /\ FilesType'
      /\ UsedType' /\ WakeType' /\ CachedHasFile' /\ ActiveHasFile' /\ WrittenIsThere'
      /\ SearchableIsReady' /\ RunningOwnsRow' /\ ExtractingHasJob'
  BY <1>1 DEF Inv, PaperType, PaperRows, SourceType, ExtractionType, ChunkType,
      EmbeddingType, DownloadType, DownloadPcs, ExtractType, ExtractPcs, WorkerType,
      WorkerStates, WorkerPcs, AppType, Builds, FilesType, UsedType, WakeType,
      CachedHasFile, ActiveHasFile, WrittenIsThere, SearchableIsReady, Ready,
      RunningOwnsRow, ExtractingHasJob
<1>3. AcqTypeOK'
  BY <1>1 DEF Inv, AcqTypeOK, Asking, AwaitBrowser, EnsureReady, Ensure, ReadyEndpoint,
      TakeStartup, Healthy, Unhealthy, Moves, RowsKept
<1>4. HealthHoldsStartup'
  BY <1>1 DEF Inv, HealthHoldsStartup, AcqTypeOK, Asking, AwaitBrowser, EnsureReady, Ensure,
      ReadyEndpoint, TakeStartup, Healthy, Unhealthy, Moves, RowsKept
<1>5. QED
  BY <1>2, <1>3, <1>4 DEF Inv

LEMMA BrowserBringsPreserves ==
    ASSUME Inv, NEW s \in Remote, BrowserBrings(s) PROVE Inv'
<1>1. UNCHANGED <<process, startup, exits, paper, source, extraction, chunk, embedding,
    extract, worker, wake, left, app, build, opened, used>>
  BY DEF BrowserBrings, WritePdf, DownloadAt, rowVars, Moves
<1>2. PaperType' /\ SourceType' /\ ExtractionType' /\ ChunkType' /\ EmbeddingType'
      /\ ExtractType' /\ WorkerType' /\ AppType' /\ UsedType' /\ WakeType'
      /\ SearchableIsReady' /\ RunningOwnsRow' /\ ExtractingHasJob'
  BY <1>1 DEF Inv, PaperType, PaperRows, SourceType, ExtractionType, ChunkType,
      EmbeddingType, ExtractType, ExtractPcs, WorkerType, WorkerStates, WorkerPcs, AppType,
      Builds, UsedType, WakeType, SearchableIsReady, Ready, RunningOwnsRow, ExtractingHasJob
<1>3. AcqTypeOK'
  BY <1>1 DEF Inv, AcqTypeOK, Asking, BrowserBrings, WritePdf, Moves, DownloadAt
<1>4. DownloadType'
  BY <1>1 DEF Inv, DownloadType, DownloadPcs, BrowserBrings, WritePdf, Moves, DownloadAt
<1>5. FilesType'
  BY <1>1 DEF Inv, FilesType, BrowserBrings, WritePdf, Moves, DownloadAt
<1>6. HealthHoldsStartup'
  BY <1>1 DEF Inv, HealthHoldsStartup, AcqTypeOK, Asking, BrowserBrings, WritePdf, Moves,
      DownloadAt
<1>7. CachedHasFile'
  BY <1>1 DEF Inv, CachedHasFile, SourceType, FilesType, BrowserBrings, WritePdf, Moves,
      DownloadAt
<1>8. ActiveHasFile'
  BY <1>1 DEF Inv, ActiveHasFile, PaperType, PaperRows, FilesType, BrowserBrings, WritePdf,
      Moves, DownloadAt
<1>9. WrittenIsThere'
  BY <1>1 DEF Inv, WrittenIsThere, DownloadType, DownloadPcs, FilesType, BrowserBrings,
      WritePdf, Moves, DownloadAt
<1>10. QED
  BY <1>2, <1>3, <1>4, <1>5, <1>6, <1>7, <1>8, <1>9 DEF Inv

LEMMA BrowserFailsPreserves ==
    ASSUME Inv, NEW s \in Remote, BrowserFails(s) PROVE Inv'
<1>1. UNCHANGED <<process, startup, exits, negative, paper, extraction, chunk, embedding,
    extract, worker, wake, left, app, build, file, opened, used>>
  BY DEF BrowserFails, AttemptFailed, RowsKept, rowVars, DownloadAt, Answered, Moves
<1>2. PaperType' /\ ExtractionType' /\ ChunkType' /\ EmbeddingType' /\ ExtractType'
      /\ WorkerType' /\ AppType' /\ FilesType' /\ UsedType' /\ WakeType'
      /\ ActiveHasFile' /\ SearchableIsReady' /\ RunningOwnsRow' /\ ExtractingHasJob'
  BY <1>1 DEF Inv, PaperType, PaperRows, ExtractionType, ChunkType, EmbeddingType,
      ExtractType, ExtractPcs, WorkerType, WorkerStates, WorkerPcs, AppType, Builds,
      FilesType, UsedType, WakeType, ActiveHasFile, SearchableIsReady, Ready,
      RunningOwnsRow, ExtractingHasJob
<1>3. AcqTypeOK'
  BY <1>1 DEF Inv, AcqTypeOK, Asking, BrowserFails, Answered, Moves
<1>4. SourceType'
  BY <1>1, AttemptFailedKeeps DEF Inv, BrowserFails
<1>5. DownloadType'
  BY <1>1, AttemptFailedKeeps DEF Inv, BrowserFails
<1>6. HealthHoldsStartup'
  BY <1>1 DEF Inv, HealthHoldsStartup, AcqTypeOK, Asking, BrowserFails, Answered, Moves
<1>7. CachedHasFile'
  BY <1>1, AttemptFailedKeeps DEF Inv, BrowserFails
<1>8. WrittenIsThere'
  BY <1>1, AttemptFailedKeeps DEF Inv, BrowserFails
<1>9. QED
  BY <1>2, <1>3, <1>4, <1>5, <1>6, <1>7, <1>8 DEF Inv

LEMMA OverallDeadlinePreserves ==
    ASSUME Inv, NEW s \in Remote, OverallDeadline(s) PROVE Inv'
<1>1. UNCHANGED <<process, exits, negative, paper, extraction, chunk, embedding, extract,
    worker, wake, left, app, build, file, opened, used>>
  BY DEF OverallDeadline, AttemptFailed, RowsKept, rowVars, DownloadAt, acqVars, Dropped
<1>2. PaperType' /\ ExtractionType' /\ ChunkType' /\ EmbeddingType' /\ ExtractType'
      /\ WorkerType' /\ AppType' /\ FilesType' /\ UsedType' /\ WakeType'
      /\ ActiveHasFile' /\ SearchableIsReady' /\ RunningOwnsRow' /\ ExtractingHasJob'
  BY <1>1 DEF Inv, PaperType, PaperRows, ExtractionType, ChunkType, EmbeddingType,
      ExtractType, ExtractPcs, WorkerType, WorkerStates, WorkerPcs, AppType, Builds,
      FilesType, UsedType, WakeType, ActiveHasFile, SearchableIsReady, Ready,
      RunningOwnsRow, ExtractingHasJob
<1>3. AcqTypeOK'
  <2>1. CASE UNCHANGED acqVars
    BY <2>1 DEF Inv, AcqTypeOK, Asking, acqVars
  <2>2. CASE Dropped(s)
    BY <2>2 DEF Inv, AcqTypeOK, Asking, Dropped
  <2>3. QED
    BY <2>1, <2>2 DEF OverallDeadline
<1>4. SourceType'
  BY <1>1, AttemptFailedKeeps DEF Inv, OverallDeadline
<1>5. DownloadType'
  BY <1>1, AttemptFailedKeeps DEF Inv, OverallDeadline
<1>6. HealthHoldsStartup'
  <2>1. CASE UNCHANGED acqVars
    BY <2>1 DEF Inv, HealthHoldsStartup, AcqTypeOK, acqVars
  <2>2. CASE Dropped(s)
    BY <2>2 DEF Inv, HealthHoldsStartup, AcqTypeOK, Dropped
  <2>3. QED
    BY <2>1, <2>2 DEF OverallDeadline
<1>7. CachedHasFile'
  BY <1>1, AttemptFailedKeeps DEF Inv, OverallDeadline
<1>8. WrittenIsThere'
  BY <1>1, AttemptFailedKeeps DEF Inv, OverallDeadline
<1>9. QED
  BY <1>2, <1>3, <1>4, <1>5, <1>6, <1>7, <1>8 DEF Inv

LEMMA SourceGonePreserves ==
    ASSUME Inv, NEW s \in Remote, SourceGone(s) PROVE Inv'
<1>1. UNCHANGED <<process, startup, asking, exits, negative, paper, extraction, chunk,
    embedding, extract, worker, wake, left, app, build, file, opened, used>>
  BY DEF SourceGone, AttemptFailed, RowsKept, rowVars, DownloadAt, acqVars
<1>2. AcqTypeOK' /\ PaperType' /\ ExtractionType' /\ ChunkType' /\ EmbeddingType'
      /\ ExtractType' /\ WorkerType' /\ AppType' /\ FilesType' /\ UsedType'
      /\ WakeType' /\ HealthHoldsStartup' /\ ActiveHasFile' /\ SearchableIsReady' /\ RunningOwnsRow'
      /\ ExtractingHasJob'
  BY <1>1 DEF Inv, AcqTypeOK, AcqTypeOK, Asking, PaperType, PaperRows, ExtractionType,
      ChunkType, EmbeddingType, ExtractType, ExtractPcs, WorkerType, WorkerStates,
      WorkerPcs, AppType, Builds, FilesType, UsedType, WakeType, HealthHoldsStartup,
      ActiveHasFile, SearchableIsReady, Ready, RunningOwnsRow, ExtractingHasJob
<1>3. SourceType'
  BY <1>1, AttemptFailedKeeps DEF Inv, SourceGone
<1>4. DownloadType'
  BY <1>1, AttemptFailedKeeps DEF Inv, SourceGone
<1>5. CachedHasFile'
  BY <1>1, AttemptFailedKeeps DEF Inv, SourceGone
<1>6. WrittenIsThere'
  BY <1>1, AttemptFailedKeeps DEF Inv, SourceGone
<1>7. QED
  BY <1>2, <1>3, <1>4, <1>5, <1>6 DEF Inv

LEMMA SetCachedPreserves ==
    ASSUME Inv, NEW s \in Remote, SetCached(s) PROVE Inv'
<1>1. UNCHANGED <<process, startup, asking, exits, negative, extraction, chunk, embedding,
    worker, wake, left, app, build, file, opened, used>>
  BY DEF SetCached, DownloadAt, acqVars
<1>2. AcqTypeOK' /\ ExtractionType' /\ ChunkType' /\ EmbeddingType' /\ WorkerType'
      /\ AppType' /\ FilesType' /\ UsedType' /\ WakeType' /\ HealthHoldsStartup'
      /\ SearchableIsReady'
  BY <1>1 DEF Inv, AcqTypeOK, AcqTypeOK, Asking, ExtractionType, ChunkType, EmbeddingType,
      WorkerType, WorkerStates, WorkerPcs, AppType, Builds, FilesType, UsedType, WakeType,
      HealthHoldsStartup, SearchableIsReady, Ready
<1>3. PaperType'
  BY <1>1, CachedPaperRow DEF Inv, PaperType, SetCached
<1>4. SourceType'
  BY <1>1 DEF Inv, SourceType, SetCached, DownloadAt
<1>5. DownloadType'
  BY <1>1 DEF Inv, DownloadType, DownloadPcs, SetCached, DownloadAt
<1>6. ExtractType'
  BY <1>1, QueuedExtractsType DEF Inv, ExtractType, SetCached
<1>7. CachedHasFile'
  BY <1>1 DEF Inv, CachedHasFile, SourceType, FilesType, WrittenIsThere, SetCached,
      DownloadAt
<1>8. ActiveHasFile'
  BY <1>1, CachedPaperRow DEF Inv, ActiveHasFile, PaperType, WrittenIsThere, SetCached,
      DownloadAt
<1>9. WrittenIsThere'
  BY <1>1 DEF Inv, WrittenIsThere, DownloadType, DownloadPcs, FilesType, SetCached,
      DownloadAt
<1>10. RunningOwnsRow'
  BY ZenonT(60), <1>1, QueuedExtractsType DEF Inv, RunningOwnsRow, ExtractType, ExtractPcs,
      SetCached
<1>11. ExtractingHasJob'
  <2>1. \A t \in Sources : extract[t].pc = "running" => extract'[t].pc = "running"
    BY DEF QueuedExtracts, Inv, ExtractType, ExtractPcs, SetCached
  <2>2. QED
    BY <1>1, <2>1 DEF Inv, ExtractingHasJob
<1>12. QED
  BY <1>2, <1>3, <1>4, <1>5, <1>6, <1>7, <1>8, <1>9, <1>10, <1>11 DEF Inv

LEMMA DownloadFinishedPreserves ==
    ASSUME Inv, NEW s \in Remote, DownloadFinished(s) PROVE Inv'
<1>1. UNCHANGED <<process, startup, asking, exits, negative, paper, source, extraction,
    chunk, embedding, extract, worker, wake, left, app, build, file, opened, used>>
  BY DEF DownloadFinished, RowsKept, rowVars, acqVars
<1>2. AcqTypeOK' /\ PaperType' /\ SourceType' /\ ExtractionType' /\ ChunkType'
      /\ EmbeddingType' /\ ExtractType' /\ WorkerType' /\ AppType' /\ FilesType'
      /\ UsedType' /\ WakeType' /\ HealthHoldsStartup' /\ CachedHasFile' /\ ActiveHasFile'
      /\ SearchableIsReady' /\ RunningOwnsRow' /\ ExtractingHasJob'
  BY <1>1 DEF Inv, AcqTypeOK, AcqTypeOK, Asking, PaperType, PaperRows, SourceType,
      ExtractionType, ChunkType, EmbeddingType, ExtractType, ExtractPcs, WorkerType,
      WorkerStates, WorkerPcs, AppType, Builds, FilesType, UsedType, WakeType,
      HealthHoldsStartup, CachedHasFile, ActiveHasFile, SearchableIsReady, Ready,
      RunningOwnsRow, ExtractingHasJob
<1>3. DownloadType'
  BY <1>1 DEF Inv, DownloadType, DownloadPcs, DownloadFinished, IdleDownload, DownloadAt,
      RowsKept
<1>4. WrittenIsThere'
  BY <1>1 DEF Inv, WrittenIsThere, DownloadType, DownloadPcs, FilesType, DownloadFinished,
      IdleDownload, DownloadAt, RowsKept
<1>5. QED
  BY <1>2, <1>3, <1>4 DEF Inv

\* The extractions.
LEMMA StartExtractionPreserves ==
    ASSUME Inv, NEW s \in Sources, StartExtraction(s) PROVE Inv'
<1>1. UNCHANGED <<process, startup, asking, exits, negative, paper, source, download,
    worker, wake, left, app, build, file, opened, used>>
  BY DEF StartExtraction, ExtractAt, NoChunks, ElseKept, acqVars
<1>2. AcqTypeOK' /\ PaperType' /\ SourceType' /\ DownloadType' /\ WorkerType'
      /\ AppType' /\ FilesType' /\ UsedType' /\ WakeType' /\ HealthHoldsStartup'
      /\ CachedHasFile' /\ ActiveHasFile' /\ WrittenIsThere'
  BY <1>1 DEF Inv, AcqTypeOK, AcqTypeOK, Asking, PaperType, PaperRows, SourceType,
      DownloadType, DownloadPcs, WorkerType, WorkerStates, WorkerPcs, AppType, Builds,
      FilesType, UsedType, WakeType, HealthHoldsStartup, CachedHasFile, ActiveHasFile,
      WrittenIsThere
<1>3. ExtractionType'
  BY <1>1 DEF Inv, ExtractionType, AppType, Builds, StartExtraction, NoChunks, None,
      ExtractAt, ElseKept
<1>4. ChunkType'
  BY <1>1 DEF Inv, ChunkType, StartExtraction, NoChunks, None, ExtractAt, ElseKept
<1>5. EmbeddingType'
  BY <1>1 DEF Inv, EmbeddingType, StartExtraction, NoChunks, None, ExtractAt, ElseKept
<1>6. ExtractType'
  BY <1>1 DEF Inv, ExtractType, ExtractPcs, StartExtraction, NoChunks, None, ExtractAt,
      ElseKept
<1>7. SearchableIsReady'
  BY <1>1 DEF Inv, SearchableIsReady, Ready, ExtractionType, ChunkType, StartExtraction,
      NoChunks, None, ExtractAt, ElseKept
<1>8. RunningOwnsRow'
  BY <1>1 DEF Inv, RunningOwnsRow, ExtractType, ExtractPcs, ExtractionType, StartExtraction,
      NoChunks, None, ExtractAt, ElseKept
<1>9. ExtractingHasJob'
  BY <1>1 DEF Inv, ExtractingHasJob, AppType, Builds, ExtractionType, UsedType, ExtractType,
      ExtractPcs, StartExtraction, NoChunks, None, ExtractAt, ElseKept
<1>10. QED
  BY <1>2, <1>3, <1>4, <1>5, <1>6, <1>7, <1>8, <1>9 DEF Inv

LEMMA SkipExtractionPreserves ==
    ASSUME Inv, NEW s \in Sources, SkipExtraction(s) PROVE Inv'
<1>1. UNCHANGED <<process, startup, asking, exits, negative, paper, source, extraction,
    chunk, embedding, download, worker, wake, left, app, build, file, opened, used>>
  BY DEF SkipExtraction, ExtractAt, ElseKept, acqVars, rowVars
<1>2. AcqTypeOK' /\ PaperType' /\ SourceType' /\ ExtractionType' /\ ChunkType'
      /\ EmbeddingType' /\ DownloadType' /\ WorkerType' /\ AppType' /\ FilesType'
      /\ UsedType' /\ WakeType' /\ HealthHoldsStartup' /\ CachedHasFile' /\ ActiveHasFile'
      /\ WrittenIsThere' /\ SearchableIsReady'
  BY <1>1 DEF Inv, AcqTypeOK, AcqTypeOK, Asking, PaperType, PaperRows, SourceType,
      ExtractionType, ChunkType, EmbeddingType, DownloadType, DownloadPcs, WorkerType,
      WorkerStates, WorkerPcs, AppType, Builds, FilesType, UsedType, WakeType,
      HealthHoldsStartup, CachedHasFile, ActiveHasFile, WrittenIsThere, SearchableIsReady,
      Ready
<1>3. ExtractType'
  BY <1>1 DEF Inv, ExtractType, ExtractPcs, SkipExtraction, ExtractAt, ElseKept
<1>4. RunningOwnsRow'
  BY <1>1 DEF Inv, RunningOwnsRow, ExtractType, ExtractPcs, ExtractionType, SkipExtraction,
      ExtractAt, ElseKept
<1>5. ExtractingHasJob'
  BY <1>1 DEF Inv, ExtractingHasJob, AppType, Builds, ExtractionType, UsedType, ExtractType,
      ExtractPcs, SkipExtraction, ExtractAt, ElseKept
<1>6. QED
  BY <1>2, <1>3, <1>4, <1>5 DEF Inv

LEMMA FinishExtractionPreserves ==
    ASSUME Inv, NEW s \in Sources, FinishExtraction(s) PROVE Inv'
<1>1. UNCHANGED <<process, startup, asking, exits, negative, source, download, worker, app,
    build, file, opened, used>>
  BY DEF FinishExtraction, ExtractAt, ElseKept, acqVars
<1>2. AcqTypeOK' /\ SourceType' /\ DownloadType' /\ WorkerType' /\ AppType'
      /\ FilesType' /\ UsedType' /\ HealthHoldsStartup' /\ CachedHasFile' /\ WrittenIsThere'
  BY <1>1 DEF Inv, AcqTypeOK, AcqTypeOK, Asking, SourceType, DownloadType, DownloadPcs,
      WorkerType, WorkerStates, WorkerPcs, AppType, Builds, FilesType, UsedType,
      HealthHoldsStartup, CachedHasFile, WrittenIsThere
<1>3. PaperType'
  BY <1>1 DEF Inv, PaperType, PaperRows, FinishExtraction, None, ExtractAt, ElseKept
<1>4. ExtractionType'
  BY <1>1 DEF Inv, ExtractionType, FinishExtraction, None, ExtractAt, ElseKept
<1>5. ChunkType'
  BY <1>1 DEF Inv, ChunkType, AppType, Builds, FinishExtraction, None, ExtractAt, ElseKept
<1>6. EmbeddingType'
  BY <1>1 DEF Inv, EmbeddingType, FinishExtraction, None, ExtractAt, ElseKept
<1>7. ExtractType'
  BY <1>1 DEF Inv, ExtractType, ExtractPcs, FinishExtraction, None, ExtractAt, ElseKept
<1>8. WakeType'
  BY <1>1 DEF Inv, WakeType, Reasons, FinishExtraction
<1>9. ActiveHasFile'
  BY <1>1 DEF Inv, ActiveHasFile, PaperType, PaperRows, FilesType, FinishExtraction, None,
      ExtractAt, ElseKept
<1>10. SearchableIsReady'
  BY <1>1 DEF Inv, SearchableIsReady, Ready, ExtractionType, ChunkType, AppType, Builds,
      RunningOwnsRow, FinishExtraction, None, ExtractAt, ElseKept
<1>11. RunningOwnsRow'
  BY <1>1 DEF Inv, RunningOwnsRow, ExtractType, ExtractPcs, ExtractionType,
      FinishExtraction, None, ExtractAt, ElseKept
<1>12. ExtractingHasJob'
  BY <1>1 DEF Inv, ExtractingHasJob, AppType, Builds, ExtractionType, UsedType, ExtractType,
      ExtractPcs, FinishExtraction, None, ExtractAt, ElseKept
<1>13. QED
  BY <1>2, <1>3, <1>4, <1>5, <1>6, <1>7, <1>8, <1>9, <1>10, <1>11, <1>12 DEF Inv

LEMMA FailExtractionPreserves ==
    ASSUME Inv, NEW s \in Sources, FailExtraction(s) PROVE Inv'
<1>1. UNCHANGED <<process, startup, asking, exits, negative, paper, source, chunk,
    embedding, download, worker, wake, left, app, build, file, opened, used>>
  BY DEF FailExtraction, ExtractAt, ElseKept, acqVars
<1>2. AcqTypeOK' /\ PaperType' /\ SourceType' /\ ChunkType' /\ EmbeddingType'
      /\ DownloadType' /\ WorkerType' /\ AppType' /\ FilesType' /\ UsedType'
      /\ WakeType' /\ HealthHoldsStartup' /\ CachedHasFile' /\ ActiveHasFile' /\ WrittenIsThere'
  BY <1>1 DEF Inv, AcqTypeOK, AcqTypeOK, Asking, PaperType, PaperRows, SourceType,
      ChunkType, EmbeddingType, DownloadType, DownloadPcs, WorkerType, WorkerStates,
      WorkerPcs, AppType, Builds, FilesType, UsedType, WakeType, HealthHoldsStartup,
      CachedHasFile, ActiveHasFile, WrittenIsThere
<1>3. ExtractionType'
  BY <1>1 DEF Inv, ExtractionType, FailExtraction, ExtractAt, ElseKept
<1>4. ExtractType'
  BY <1>1 DEF Inv, ExtractType, ExtractPcs, FailExtraction, ExtractAt, ElseKept
<1>5. SearchableIsReady'
  BY <1>1 DEF Inv, SearchableIsReady, Ready, ExtractionType, ChunkType, RunningOwnsRow,
      FailExtraction, ExtractAt, ElseKept
<1>6. RunningOwnsRow'
  BY <1>1 DEF Inv, RunningOwnsRow, ExtractType, ExtractPcs, ExtractionType, FailExtraction,
      ExtractAt, ElseKept
<1>7. ExtractingHasJob'
  BY <1>1 DEF Inv, ExtractingHasJob, AppType, Builds, ExtractionType, UsedType, ExtractType,
      ExtractPcs, FailExtraction, ExtractAt, ElseKept
<1>8. QED
  BY <1>2, <1>3, <1>4, <1>5, <1>6, <1>7 DEF Inv

LEMMA PanicExtractionPreserves ==
    ASSUME Inv, NEW s \in Sources, PanicExtraction(s) PROVE Inv'
<1>1. UNCHANGED <<process, startup, asking, exits, negative, paper, source, extraction,
    chunk, embedding, download, worker, wake, left, app, build, file, opened>>
  BY DEF PanicExtraction, Fault, ExtractAt, ElseKept, acqVars, rowVars
<1>2. AcqTypeOK' /\ PaperType' /\ SourceType' /\ ExtractionType' /\ ChunkType'
      /\ EmbeddingType' /\ DownloadType' /\ WorkerType' /\ AppType' /\ FilesType'
      /\ WakeType' /\ HealthHoldsStartup' /\ CachedHasFile' /\ ActiveHasFile' /\ WrittenIsThere'
      /\ SearchableIsReady'
  BY <1>1 DEF Inv, AcqTypeOK, AcqTypeOK, Asking, PaperType, PaperRows, SourceType,
      ExtractionType, ChunkType, EmbeddingType, DownloadType, DownloadPcs, WorkerType,
      WorkerStates, WorkerPcs, AppType, Builds, FilesType, WakeType, HealthHoldsStartup,
      CachedHasFile, ActiveHasFile, WrittenIsThere, SearchableIsReady, Ready
<1>3. ExtractType'
  BY <1>1 DEF Inv, ExtractType, ExtractPcs, PanicExtraction, Fault, ExtractAt, ElseKept
<1>4. UsedType'
  BY <1>1 DEF Inv, UsedType, PanicExtraction, Fault, ExtractAt, ElseKept
<1>5. RunningOwnsRow'
  BY <1>1 DEF Inv, RunningOwnsRow, ExtractType, ExtractPcs, ExtractionType, PanicExtraction,
      Fault, ExtractAt, ElseKept
<1>6. ExtractingHasJob'
  BY <1>1 DEF Inv, ExtractingHasJob, AppType, Builds, ExtractionType, UsedType, ExtractType,
      ExtractPcs, PanicExtraction, Fault, ExtractAt, ElseKept
<1>7. QED
  BY <1>2, <1>3, <1>4, <1>5, <1>6 DEF Inv

LEMMA ExtractFinishedPreserves ==
    ASSUME Inv, NEW s \in Sources, ExtractFinished(s) PROVE Inv'
<1>1. UNCHANGED <<process, startup, asking, exits, negative, paper, source, extraction,
    chunk, embedding, download, worker, wake, left, app, build, file, opened, used>>
  BY DEF ExtractFinished, ElseKept, acqVars, rowVars
<1>2. AcqTypeOK' /\ PaperType' /\ SourceType' /\ ExtractionType' /\ ChunkType'
      /\ EmbeddingType' /\ DownloadType' /\ WorkerType' /\ AppType' /\ FilesType'
      /\ UsedType' /\ WakeType' /\ HealthHoldsStartup' /\ CachedHasFile' /\ ActiveHasFile'
      /\ WrittenIsThere' /\ SearchableIsReady'
  BY <1>1 DEF Inv, AcqTypeOK, AcqTypeOK, Asking, PaperType, PaperRows, SourceType,
      ExtractionType, ChunkType, EmbeddingType, DownloadType, DownloadPcs, WorkerType,
      WorkerStates, WorkerPcs, AppType, Builds, FilesType, UsedType, WakeType,
      HealthHoldsStartup, CachedHasFile, ActiveHasFile, WrittenIsThere, SearchableIsReady,
      Ready
<1>3. ExtractType'
  BY <1>1 DEF Inv, ExtractType, ExtractPcs, ExtractFinished, IdleExtract, ExtractAt,
      ElseKept
<1>4. RunningOwnsRow'
  BY <1>1 DEF Inv, RunningOwnsRow, ExtractType, ExtractPcs, ExtractionType, ExtractFinished,
      IdleExtract, ExtractAt, ElseKept
<1>5. ExtractingHasJob'
  BY <1>1 DEF Inv, ExtractingHasJob, AppType, Builds, ExtractionType, UsedType, ExtractType,
      ExtractPcs, ExtractFinished, IdleExtract, ExtractAt, ElseKept
<1>6. QED
  BY <1>2, <1>3, <1>4, <1>5 DEF Inv

\* The embedding worker.
LEMMA ListOutdatedChunksPreserves ==
    ASSUME Inv, ListOutdatedChunks PROVE Inv'
<1>1. UNCHANGED <<process, startup, asking, exits, negative, paper, source, extraction,
    chunk, embedding, download, extract, wake, left, app, build, file, opened, used>>
  BY DEF ListOutdatedChunks, WorkerKept, ElseKept, acqVars
<1>2. AcqTypeOK' /\ PaperType' /\ SourceType' /\ ExtractionType' /\ ChunkType'
      /\ EmbeddingType' /\ DownloadType' /\ ExtractType' /\ AppType' /\ FilesType'
      /\ UsedType' /\ WakeType' /\ HealthHoldsStartup' /\ CachedHasFile' /\ ActiveHasFile'
      /\ WrittenIsThere' /\ SearchableIsReady' /\ RunningOwnsRow' /\ ExtractingHasJob'
  BY <1>1 DEF Inv, AcqTypeOK, AcqTypeOK, Asking, PaperType, PaperRows, SourceType,
      ExtractionType, ChunkType, EmbeddingType, DownloadType, DownloadPcs, ExtractType,
      ExtractPcs, AppType, Builds, FilesType, UsedType, WakeType, HealthHoldsStartup,
      CachedHasFile, ActiveHasFile, WrittenIsThere, SearchableIsReady, Ready,
      RunningOwnsRow, ExtractingHasJob
<1>3. WorkerType'
  <2> DEFINE listed == {s \in Sources : NeedsRechunk(s)}
  <2>1. worker["startup"] \in WorkerStates /\ listed \in SUBSET Sources
    BY DEF Inv, WorkerType, Workers
  <2> HIDE DEF listed
  <2>2. [worker["startup"] EXCEPT !.pc = "replace"] \in WorkerStates
    BY <2>1 DEF WorkerStates, WorkerPcs
  <2>3. [[worker["startup"] EXCEPT !.pc = "replace"] EXCEPT !.batch = listed] \in WorkerStates
    BY <2>1, <2>2 DEF WorkerStates
  <2>4. worker' = [worker EXCEPT !["startup"] =
                     [[worker["startup"] EXCEPT !.pc = "replace"] EXCEPT !.batch = listed]]
    BY DEF ListOutdatedChunks, Inv, WorkerType, listed
  <2>5. QED
    BY <2>3, <2>4 DEF Inv, WorkerType
<1>4. QED
  BY <1>2, <1>3 DEF Inv

LEMMA ReplaceChunksPreserves ==
    ASSUME Inv, ReplaceChunks PROVE Inv'
<1>1. UNCHANGED <<process, startup, asking, exits, negative, paper, source, extraction,
    download, extract, wake, left, app, build, file, opened, used>>
  BY DEF ReplaceChunks, WorkerKept, ElseKept, acqVars
<1>2. AcqTypeOK' /\ PaperType' /\ SourceType' /\ ExtractionType' /\ DownloadType'
      /\ ExtractType' /\ AppType' /\ FilesType' /\ UsedType' /\ WakeType'
      /\ HealthHoldsStartup' /\ CachedHasFile' /\ ActiveHasFile' /\ WrittenIsThere' /\ RunningOwnsRow'
      /\ ExtractingHasJob'
  BY <1>1 DEF Inv, AcqTypeOK, AcqTypeOK, Asking, PaperType, PaperRows, SourceType,
      ExtractionType, DownloadType, DownloadPcs, ExtractType, ExtractPcs, AppType, Builds,
      FilesType, UsedType, WakeType, HealthHoldsStartup, CachedHasFile, ActiveHasFile,
      WrittenIsThere, RunningOwnsRow, ExtractingHasJob
<1>3. ChunkType'
  BY <1>1 DEF Inv, ChunkType, AppType, Builds, ReplaceChunks, None, Workers, WorkerKept,
      ElseKept
<1>4. EmbeddingType'
  BY <1>1 DEF Inv, EmbeddingType, ReplaceChunks, None, Workers, WorkerKept, ElseKept
<1>5. WorkerType'
  BY <1>1 DEF Inv, WorkerType, WorkerStates, WorkerPcs, ReplaceChunks, None, Workers,
      WorkerKept, ElseKept
<1>6. SearchableIsReady'
  BY <1>1 DEF Inv, SearchableIsReady, Ready, ExtractionType, ChunkType, AppType, Builds,
      ReplaceChunks, None, Workers, WorkerKept, ElseKept
<1>7. QED
  BY <1>2, <1>3, <1>4, <1>5, <1>6 DEF Inv

LEMMA WokenPreserves ==
    ASSUME Inv, Woken PROVE Inv'
<1>1. UNCHANGED <<process, startup, asking, exits, negative, paper, source, extraction,
    chunk, embedding, download, extract, app, build, file, opened, used>>
  BY DEF Woken, WorkerKept, ElseKept, acqVars
<1>2. AcqTypeOK' /\ PaperType' /\ SourceType' /\ ExtractionType' /\ ChunkType'
      /\ EmbeddingType' /\ DownloadType' /\ ExtractType' /\ AppType' /\ FilesType'
      /\ UsedType' /\ HealthHoldsStartup' /\ CachedHasFile' /\ ActiveHasFile' /\ WrittenIsThere'
      /\ SearchableIsReady' /\ RunningOwnsRow' /\ ExtractingHasJob'
  BY <1>1 DEF Inv, AcqTypeOK, AcqTypeOK, Asking, PaperType, PaperRows, SourceType,
      ExtractionType, ChunkType, EmbeddingType, DownloadType, DownloadPcs, ExtractType,
      ExtractPcs, AppType, Builds, FilesType, UsedType, HealthHoldsStartup, CachedHasFile,
      ActiveHasFile, WrittenIsThere, SearchableIsReady, Ready, RunningOwnsRow,
      ExtractingHasJob
<1>3. WorkerType'
  <2>1. Resting("sweep") \in WorkerStates
    BY DEF Inv, WorkerType, WorkerStates, WorkerPcs, Resting
  <2>2. QED
    BY <2>1 DEF Inv, WorkerType, Woken, Workers
<1>4. WakeType'
  BY <1>1 DEF Inv, WakeType, Woken, WorkerKept, ElseKept
<1>5. QED
  BY <1>2, <1>3, <1>4 DEF Inv

LEMMA ReadBatchPreserves ==
    ASSUME Inv, NEW w \in Workers, ReadBatch(w) PROVE Inv'
<1>1. UNCHANGED <<process, startup, asking, exits, negative, paper, source, extraction,
    chunk, embedding, download, extract, wake, app, build, file, opened, used>>
  BY DEF ReadBatch, WorkerKept, ElseKept, acqVars
<1>2. AcqTypeOK' /\ PaperType' /\ SourceType' /\ ExtractionType' /\ ChunkType'
      /\ EmbeddingType' /\ DownloadType' /\ ExtractType' /\ AppType' /\ FilesType'
      /\ UsedType' /\ HealthHoldsStartup' /\ CachedHasFile' /\ ActiveHasFile'
      /\ WrittenIsThere' /\ SearchableIsReady' /\ RunningOwnsRow' /\ ExtractingHasJob'
  BY <1>1 DEF Inv, AcqTypeOK, AcqTypeOK, Asking, PaperType, PaperRows, SourceType,
      ExtractionType, ChunkType, EmbeddingType, DownloadType, DownloadPcs, ExtractType,
      ExtractPcs, AppType, Builds, FilesType, UsedType, HealthHoldsStartup,
      CachedHasFile, ActiveHasFile, WrittenIsThere, SearchableIsReady, Ready,
      RunningOwnsRow, ExtractingHasJob
<1>3. WorkerType'
  <2>1. Resting("index") \in WorkerStates
    BY DEF WorkerStates, WorkerPcs, Resting
  <2>2. ASSUME NEW batch \in SUBSET Sources, worker[w].batches # MaxBatches
        PROVE  [pc |-> "embed", batch |-> batch, batches |-> worker[w].batches + 1]
                 \in WorkerStates
    BY <2>2 DEF Inv, WorkerType, WorkerStates, WorkerPcs
  <2>3. PICK state \in WorkerStates : worker' = [worker EXCEPT ![w] = state]
    BY <2>1, <2>2 DEF ReadBatch
  <2>4. QED
    BY <2>3 DEF Inv, WorkerType
<1>4. WakeType'
  BY <1>1 DEF Inv, WakeType, Reasons, ReadBatch
<1>5. QED
  BY <1>2, <1>3, <1>4 DEF Inv

LEMMA EmbedPreserves ==
    ASSUME Inv, NEW w \in Workers, Embed(w) PROVE Inv'
<1>1. UNCHANGED <<process, startup, asking, exits, negative, paper, source, extraction,
    chunk, download, extract, wake, app, build, file, opened, used>>
  BY DEF Embed, WorkerKept, ElseKept, acqVars
<1>2. AcqTypeOK' /\ PaperType' /\ SourceType' /\ ExtractionType' /\ ChunkType'
      /\ DownloadType' /\ ExtractType' /\ AppType' /\ FilesType' /\ UsedType'
      /\ HealthHoldsStartup' /\ CachedHasFile' /\ ActiveHasFile' /\ WrittenIsThere'
      /\ SearchableIsReady' /\ RunningOwnsRow' /\ ExtractingHasJob'
  BY <1>1 DEF Inv, AcqTypeOK, AcqTypeOK, Asking, PaperType, PaperRows, SourceType,
      ExtractionType, ChunkType, DownloadType, DownloadPcs, ExtractType, ExtractPcs,
      AppType, Builds, FilesType, UsedType, HealthHoldsStartup, CachedHasFile,
      ActiveHasFile, WrittenIsThere, SearchableIsReady, Ready, RunningOwnsRow,
      ExtractingHasJob
<1>3. EmbeddingType'
  <2>1. CASE UNCHANGED embedding
    BY <2>1 DEF Inv, EmbeddingType
  <2>2. CASE embedding' = [s \in Sources |-> IF s \in worker[w].batch /\ chunk[s] # None
                                            THEN build ELSE embedding[s]]
    BY <2>2 DEF Inv, EmbeddingType, AppType, Builds
  <2>3. QED
    BY <2>1, <2>2 DEF Embed
<1>4. WorkerType'
  <2>1. Resting("index") \in WorkerStates
    BY DEF WorkerStates, WorkerPcs, Resting
  <2>2. [pc |-> "sweep", batch |-> {}, batches |-> worker[w].batches] \in WorkerStates
    BY DEF Inv, WorkerType, WorkerStates, WorkerPcs
  <2>3. PICK state \in WorkerStates : worker' = [worker EXCEPT ![w] = state]
    BY <2>1, <2>2 DEF Embed
  <2>4. QED
    BY <2>3 DEF Inv, WorkerType
<1>5. WakeType'
  BY <1>1 DEF Inv, WakeType, Reasons, Embed
<1>6. QED
  BY <1>2, <1>3, <1>4, <1>5 DEF Inv

LEMMA IndexVectorsPreserves ==
    ASSUME Inv, NEW w \in Workers, IndexVectors(w) PROVE Inv'
<1>1. UNCHANGED <<process, startup, asking, exits, negative, paper, source, extraction,
    chunk, embedding, download, extract, wake, left, app, build, file, opened, used>>
  BY DEF IndexVectors, WorkerKept, ElseKept, acqVars
<1>2. AcqTypeOK' /\ PaperType' /\ SourceType' /\ ExtractionType' /\ ChunkType'
      /\ EmbeddingType' /\ DownloadType' /\ ExtractType' /\ AppType' /\ FilesType'
      /\ UsedType' /\ WakeType' /\ HealthHoldsStartup' /\ CachedHasFile' /\ ActiveHasFile'
      /\ WrittenIsThere' /\ SearchableIsReady' /\ RunningOwnsRow' /\ ExtractingHasJob'
  BY <1>1 DEF Inv, AcqTypeOK, Asking, PaperType, SourceType, ExtractionType, ChunkType,
      EmbeddingType, DownloadType, ExtractType, AppType, FilesType, UsedType, WakeType,
      HealthHoldsStartup, CachedHasFile, ActiveHasFile, WrittenIsThere, SearchableIsReady,
      Ready, RunningOwnsRow, ExtractingHasJob
<1>3. WorkerType'
  <2>1. IdleWorker \in WorkerStates
    BY DEF WorkerStates, WorkerPcs, IdleWorker, Resting
  <2>2. QED
    BY <2>1 DEF Inv, WorkerType, IndexVectors
<1>4. QED
  BY <1>2, <1>3 DEF Inv

\* The browser, crashes and the next start.
LEMMA EagerBrowserPreserves ==
    ASSUME Inv, EagerBrowser PROVE Inv'
<1>1. UNCHANGED <<exits, negative, paper, source, extraction, chunk, embedding, download,
    extract, worker, wake, left, app, build, file, opened, used>>
  BY DEF EagerBrowser, EnsureReady, Ensure, ReadyEndpoint, Moves, TakeStartup, Healthy,
      Unhealthy, rowVars, memVars
<1>2. PaperType' /\ SourceType' /\ ExtractionType' /\ ChunkType' /\ EmbeddingType'
      /\ DownloadType' /\ ExtractType' /\ WorkerType' /\ AppType' /\ FilesType'
      /\ UsedType' /\ WakeType' /\ CachedHasFile' /\ ActiveHasFile' /\ WrittenIsThere'
      /\ SearchableIsReady' /\ RunningOwnsRow' /\ ExtractingHasJob'
  BY <1>1 DEF Inv, PaperType, PaperRows, SourceType, ExtractionType, ChunkType,
      EmbeddingType, DownloadType, DownloadPcs, ExtractType, ExtractPcs, WorkerType,
      WorkerStates, WorkerPcs, AppType, Builds, FilesType, UsedType, WakeType,
      CachedHasFile, ActiveHasFile, WrittenIsThere, SearchableIsReady, Ready,
      RunningOwnsRow, ExtractingHasJob
<1>3. AcqTypeOK'
  BY <1>1 DEF Inv, AcqTypeOK, Asking, EagerBrowser, EnsureReady, Ensure, ReadyEndpoint,
      TakeStartup, Healthy, Unhealthy, Moves
<1>4. HealthHoldsStartup'
  BY <1>1 DEF Inv, HealthHoldsStartup, AcqTypeOK, Asking, EagerBrowser, EnsureReady, Ensure,
      ReadyEndpoint, TakeStartup, Healthy, Unhealthy, Moves
<1>5. QED
  BY <1>2, <1>3, <1>4 DEF Inv

LEMMA SidecarDiesPreserves ==
    ASSUME Inv, SidecarDies PROVE Inv'
<1>1. UNCHANGED <<startup, asking, negative, paper, source, extraction, chunk, embedding,
    download, extract, worker, wake, left, app, build, file, opened>>
  BY DEF SidecarDies, Fault, SidecarExits, rowVars, memVars
<1>2. PaperType' /\ SourceType' /\ ExtractionType' /\ ChunkType' /\ EmbeddingType'
      /\ DownloadType' /\ ExtractType' /\ WorkerType' /\ AppType' /\ FilesType'
      /\ WakeType' /\ CachedHasFile' /\ ActiveHasFile' /\ WrittenIsThere' /\ SearchableIsReady'
      /\ RunningOwnsRow'
  BY <1>1 DEF Inv, PaperType, PaperRows, SourceType, ExtractionType, ChunkType,
      EmbeddingType, DownloadType, DownloadPcs, ExtractType, ExtractPcs, WorkerType,
      WorkerStates, WorkerPcs, AppType, Builds, FilesType, WakeType, CachedHasFile,
      ActiveHasFile, WrittenIsThere, SearchableIsReady, Ready, RunningOwnsRow
<1>3. AcqTypeOK'
  BY <1>1 DEF Inv, AcqTypeOK, Asking, SidecarDies, SidecarExits, Fault
<1>4. UsedType'
  BY <1>1 DEF Inv, UsedType, SidecarDies, SidecarExits, Fault
<1>5. HealthHoldsStartup'
  BY <1>1 DEF Inv, HealthHoldsStartup, AcqTypeOK, Asking, SidecarDies, SidecarExits, Fault
<1>6. ExtractingHasJob'
  BY <1>1 DEF Inv, ExtractingHasJob, AppType, Builds, ExtractionType, UsedType, ExtractType,
      ExtractPcs, SidecarDies, SidecarExits, Fault
<1>7. QED
  BY <1>2, <1>3, <1>4, <1>5, <1>6 DEF Inv

LEMMA ExpiresPreserves ==
    ASSUME Inv, Expires PROVE Inv'
<1>1. UNCHANGED <<process, startup, asking, exits, paper, source, extraction, chunk,
    embedding, download, extract, worker, wake, left, app, build, file, opened, used>>
  BY DEF Expires, Forget, rowVars, memVars
<1>2. PaperType' /\ SourceType' /\ ExtractionType' /\ ChunkType' /\ EmbeddingType'
      /\ DownloadType' /\ ExtractType' /\ WorkerType' /\ AppType' /\ FilesType'
      /\ UsedType' /\ WakeType' /\ HealthHoldsStartup' /\ CachedHasFile' /\ ActiveHasFile'
      /\ WrittenIsThere' /\ SearchableIsReady' /\ RunningOwnsRow' /\ ExtractingHasJob'
  BY <1>1 DEF Inv, PaperType, PaperRows, SourceType, ExtractionType, ChunkType,
      EmbeddingType, DownloadType, DownloadPcs, ExtractType, ExtractPcs, WorkerType,
      WorkerStates, WorkerPcs, AppType, Builds, FilesType, UsedType, WakeType,
      HealthHoldsStartup, CachedHasFile, ActiveHasFile, WrittenIsThere, SearchableIsReady,
      Ready, RunningOwnsRow, ExtractingHasJob
<1>3. AcqTypeOK'
  BY <1>1 DEF Inv, AcqTypeOK, Asking, Expires, Forget
<1>4. QED
  BY <1>2, <1>3 DEF Inv

LEMMA CrashPreserves ==
    ASSUME Inv, Crash PROVE Inv'
<1>1. UNCHANGED <<exits, paper, source, extraction, chunk, embedding, build, file, opened>>
  BY DEF Crash, Fault, AcqLost, rowVars
<1>2. PaperType' /\ SourceType' /\ ExtractionType' /\ ChunkType' /\ EmbeddingType'
      /\ FilesType' /\ CachedHasFile' /\ ActiveHasFile' /\ SearchableIsReady'
  BY <1>1 DEF Inv, PaperType, PaperRows, SourceType, ExtractionType, ChunkType,
      EmbeddingType, FilesType, CachedHasFile, ActiveHasFile, SearchableIsReady, Ready
<1>3. AcqTypeOK'
  BY <1>1 DEF Inv, AcqTypeOK, Asking, Crash, Fault, AcqLost, IdleDownload, IdleExtract,
      IdleWorker, Resting
<1>4. DownloadType'
  BY <1>1 DEF Inv, DownloadType, DownloadPcs, Crash, Fault, AcqLost, IdleDownload,
      IdleExtract, IdleWorker, Resting
<1>5. ExtractType'
  BY <1>1 DEF Inv, ExtractType, ExtractPcs, Crash, Fault, AcqLost, IdleDownload,
      IdleExtract, IdleWorker, Resting
<1>6. WorkerType'
  BY <1>1 DEF Inv, WorkerType, WorkerStates, WorkerPcs, Crash, Fault, AcqLost, IdleDownload,
      IdleExtract, IdleWorker, Resting
<1>7. AppType'
  BY <1>1 DEF Inv, AppType, Builds, Crash, Fault, AcqLost, IdleDownload, IdleExtract,
      IdleWorker, Resting
<1>8. UsedType'
  BY <1>1 DEF Inv, UsedType, Crash, Fault, AcqLost, IdleDownload, IdleExtract, IdleWorker,
      Resting
<1>9. WakeType'
  BY <1>1 DEF Inv, WakeType, Crash, Fault, AcqLost, IdleDownload, IdleExtract, IdleWorker,
      Resting
<1>10. HealthHoldsStartup'
  BY <1>1 DEF Inv, HealthHoldsStartup, AcqTypeOK, Asking, Crash, Fault, AcqLost,
      IdleDownload, IdleExtract, IdleWorker, Resting
<1>11. WrittenIsThere'
  BY <1>1 DEF Inv, WrittenIsThere, DownloadType, DownloadPcs, FilesType, Crash, Fault,
      AcqLost, IdleDownload, IdleExtract, IdleWorker, Resting
<1>12. RunningOwnsRow'
  BY <1>1 DEF Inv, RunningOwnsRow, ExtractType, ExtractPcs, ExtractionType, Crash, Fault,
      AcqLost, IdleDownload, IdleExtract, IdleWorker, Resting
<1>13. ExtractingHasJob'
  BY <1>1 DEF Inv, ExtractingHasJob, AppType, Builds, ExtractionType, UsedType, ExtractType,
      ExtractPcs, Crash, Fault, AcqLost, IdleDownload, IdleExtract, IdleWorker, Resting
<1>14. QED
  BY <1>2, <1>3, <1>4, <1>5, <1>6, <1>7, <1>8, <1>9, <1>10, <1>11, <1>12, <1>13 DEF Inv

LEMMA RestartPreserves ==
    ASSUME Inv, Restart PROVE Inv'
<1>1. UNCHANGED <<process, startup, asking, exits, negative, chunk, embedding, worker, wake, left,
    file, opened, used>>
  BY DEF Restart, Outdated, acqVars
<1>2. ChunkType' /\ EmbeddingType' /\ FilesType' /\ UsedType' /\ WakeType'
  BY <1>1 DEF Inv, ChunkType, EmbeddingType, FilesType, UsedType, WakeType
<1>3. AcqTypeOK'
  BY <1>1 DEF Inv, AcqTypeOK, Asking, Restart, RecoveredSources, RecoveredExtractions, Kept,
      Stale, IdleDownload, IdleExtract, Outdated
<1>4. PaperType'
  <2>1. ASSUME NEW p \in PapersOf, NEW s \in Sources PROVE CachedPaper(paper[p], s) \in PaperRows
    BY CachedPaperRow DEF Inv, PaperType
  <2>2. \A p \in PapersOf : paper'[p] \in PaperRows
    BY <2>1 DEF Inv, PaperType, Restart
  <2>3. QED
    BY <2>2 DEF Restart, PaperType
<1>5. SourceType'
  BY <1>1 DEF Inv, SourceType, Restart, RecoveredSources, RecoveredExtractions, Kept, Stale,
      IdleDownload, IdleExtract, Outdated
<1>6. ExtractionType'
  BY <1>1 DEF Inv, ExtractionType, Restart, RecoveredSources, RecoveredExtractions, Kept,
      Stale, IdleDownload, IdleExtract, Outdated
<1>7. DownloadType'
  BY <1>1 DEF Inv, DownloadType, DownloadPcs, IdleDownload, Restart
<1>8. ExtractType'
  BY <1>1 DEF Inv, ExtractType, ExtractPcs, Restart, RecoveredSources, RecoveredExtractions,
      Kept, Stale, IdleDownload, IdleExtract, Outdated
<1>9. WorkerType'
  BY <1>1 DEF Inv, WorkerType
<1>10. AppType'
  BY <1>1 DEF Inv, AppType, Builds, Restart
<1>11. HealthHoldsStartup'
  BY <1>1 DEF Inv, HealthHoldsStartup, AcqTypeOK, Asking, Restart, RecoveredSources,
      RecoveredExtractions, Kept, Stale, IdleDownload, IdleExtract, Outdated
<1>12. CachedHasFile'
  BY <1>1 DEF Inv, CachedHasFile, SourceType, FilesType, Restart, RecoveredSources,
      RecoveredExtractions, Kept, Stale, IdleDownload, IdleExtract, Outdated
<1>13. ActiveHasFile'
  <2>1. ASSUME NEW p \in PapersOf
        PROVE  paper'[p].active = paper[p].active \/ paper'[p].active \in file
    <3>1. CASE \E s \in Sources : PaperOf[s] = p /\ Kept(s)
      <4>1. PICK s \in Sources : Kept(s) /\ paper'[p] = CachedPaper(paper[p], s)
        BY <3>1 DEF Restart
      <4>2. paper'[p].active \in {paper[p].active, s}
        BY <4>1, CachedPaperRow DEF Inv, PaperType
      <4>3. QED
        BY <4>1, <4>2 DEF Kept
    <3>2. CASE ~ \E s \in Sources : PaperOf[s] = p /\ Kept(s)
      BY <3>2 DEF Restart
    <3>3. QED
      BY <3>1, <3>2
  <2>2. QED
    BY <1>1, <2>1 DEF Inv, ActiveHasFile
<1>14. WrittenIsThere'
  BY <1>1 DEF Inv, WrittenIsThere, DownloadType, DownloadPcs, FilesType, Restart,
      RecoveredSources, RecoveredExtractions, Kept, Stale, IdleDownload, IdleExtract,
      Outdated
<1>15. SearchableIsReady'
  BY <1>1 DEF Inv, SearchableIsReady, Ready, ExtractionType, ChunkType, Restart,
      RecoveredSources, RecoveredExtractions, Kept, Stale, IdleDownload, IdleExtract,
      Outdated
<1>16. RunningOwnsRow'
  BY <1>1 DEF Inv, RunningOwnsRow, ExtractType, ExtractPcs, ExtractionType, Restart,
      RecoveredSources, RecoveredExtractions, Kept, Stale, IdleDownload, IdleExtract,
      Outdated
<1>17. ExtractingHasJob'
  BY <1>1 DEF Inv, ExtractingHasJob, AppType, Builds, ExtractionType, UsedType, ExtractType,
      ExtractPcs, Restart, RecoveredSources, RecoveredExtractions, Kept, Stale,
      IdleDownload, IdleExtract, Outdated
<1>18. QED
  BY <1>2, <1>3, <1>4, <1>5, <1>6, <1>7, <1>8, <1>9, <1>10, <1>11, <1>12, <1>13, <1>14,
      <1>15, <1>16, <1>17 DEF Inv

\* The rest of setup().
LEMMA SpawnSweepPreserves ==
    ASSUME Inv, SpawnSweep PROVE Inv'
<1>1. /\ UNCHANGED <<process, startup, asking, exits, negative, paper, source, extraction,
           chunk, embedding, download, extract, wake, left, build, file, opened, used>>
      /\ app = "recovered" /\ app' = "sweeping"
  BY DEF SpawnSweep, acqVars, rowVars
<1>2. AcqTypeOK' /\ PaperType' /\ SourceType' /\ ExtractionType' /\ ChunkType'
      /\ EmbeddingType' /\ DownloadType' /\ ExtractType' /\ AppType' /\ FilesType'
      /\ UsedType' /\ WakeType' /\ HealthHoldsStartup' /\ CachedHasFile' /\ ActiveHasFile'
      /\ WrittenIsThere' /\ SearchableIsReady' /\ RunningOwnsRow' /\ ExtractingHasJob'
  BY <1>1 DEF Inv, AcqTypeOK, Asking, PaperType, SourceType, ExtractionType, ChunkType,
      EmbeddingType, DownloadType, ExtractType, AppType, FilesType, UsedType, WakeType,
      HealthHoldsStartup, CachedHasFile, ActiveHasFile, WrittenIsThere, SearchableIsReady,
      Ready, RunningOwnsRow, ExtractingHasJob
<1>3. WorkerType'
  BY DEF Inv, WorkerType, WorkerStates, WorkerPcs, SpawnSweep
<1>4. QED
  BY <1>2, <1>3 DEF Inv

LEMMA AttachListenerPreserves ==
    ASSUME Inv, AttachListener PROVE Inv'
<1>1. /\ UNCHANGED <<process, startup, exits, negative, paper, source, extraction, chunk,
           embedding, download, extract, worker, wake, left, build, file, opened, used>>
      /\ app = "sweeping" /\ app' = "up"
  BY DEF AttachListener, rowVars, memVars
<1>2. PaperType' /\ SourceType' /\ ExtractionType' /\ ChunkType'
      /\ EmbeddingType' /\ DownloadType' /\ ExtractType' /\ WorkerType' /\ AppType'
      /\ FilesType' /\ UsedType' /\ WakeType' /\ CachedHasFile' /\ ActiveHasFile'
      /\ WrittenIsThere' /\ SearchableIsReady' /\ RunningOwnsRow' /\ ExtractingHasJob'
  BY <1>1 DEF Inv, PaperType, SourceType, ExtractionType, ChunkType, EmbeddingType,
      DownloadType, ExtractType, WorkerType, AppType, FilesType, UsedType, WakeType,
      CachedHasFile, ActiveHasFile, WrittenIsThere, SearchableIsReady, Ready,
      RunningOwnsRow, ExtractingHasJob
<1>3. AcqTypeOK' /\ HealthHoldsStartup'
  BY <1>1 DEF Inv, AcqTypeOK, Asking, HealthHoldsStartup, AttachListener
<1>4. QED
  BY <1>2, <1>3 DEF Inv

-----------------------------------------------------------------------------
LEMMA InitInv == Init => Inv
<1> SUFFICES ASSUME Init PROVE Inv
  OBVIOUS
<1> USE DEF Init, AcqInit, NoPaper, NoSource, NoExtraction, IdleDownload, IdleExtract, IdleWorker,
            Resting, None
<1>1. AcqTypeOK /\ HealthHoldsStartup
  BY DEF AcqTypeOK, Asking, HealthHoldsStartup
<1>2. PaperType /\ SourceType /\ ExtractionType /\ ChunkType /\ EmbeddingType
  BY DEF PaperType, PaperRows, SourceType, ExtractionType, ChunkType, EmbeddingType
<1>3. DownloadType /\ ExtractType /\ WakeType
  <2>1. DownloadType
    BY DEF DownloadType, DownloadPcs
  <2>2. ExtractType /\ WakeType
    BY DEF ExtractType, ExtractPcs, WakeType
  <2>3. QED
    BY <2>1, <2>2
<1>4. WorkerType
  BY DEF WorkerType, WorkerStates, WorkerPcs
<1>5. AppType /\ FilesType /\ UsedType
  BY DEF AppType, Builds, FilesType, UsedType
<1>6. CachedHasFile /\ ActiveHasFile /\ WrittenIsThere
  BY DEF CachedHasFile, ActiveHasFile, WrittenIsThere
<1>7. SearchableIsReady /\ RunningOwnsRow /\ ExtractingHasJob
  BY DEF SearchableIsReady, Ready, RunningOwnsRow, ExtractingHasJob
<1>8. QED
  BY <1>1, <1>2, <1>3, <1>4, <1>5, <1>6, <1>7 DEF Inv

LEMMA NextInv == Inv /\ [Next]_vars => Inv'
<1> SUFFICES ASSUME Inv, [Next]_vars PROVE Inv'
  OBVIOUS
<1>1. CASE Commands
  BY <1>1, OpenCandidatePreserves, DownloadPaperPdfPreserves, AddPaperPreserves,
     AbstractPreserves, DeletePaperPreserves, ImportLocalPreserves, ExtractPaperPreserves
     DEF Commands
<1>2. ASSUME NEW s \in Remote, Download(s) \/ OverallDeadline(s) PROVE Inv'
  BY <1>2, ReadSourcePreserves, NothingToDownloadPreserves, SetDownloadingPreserves,
     BeginAttemptPreserves, DirectFetchPreserves, AwaitBrowserPreserves, BrowserBringsPreserves,
     BrowserFailsPreserves, SetCachedPreserves, SourceGonePreserves, DownloadFinishedPreserves,
     OverallDeadlinePreserves
     DEF Download
<1>3. ASSUME NEW s \in Sources, Extract(s) \/ PanicExtraction(s) PROVE Inv'
  BY <1>3, StartExtractionPreserves, SkipExtractionPreserves, FinishExtractionPreserves,
     FailExtractionPreserves, ExtractFinishedPreserves, PanicExtractionPreserves
     DEF Extract
<1>4. ASSUME NEW w \in Workers, Worker(w) PROVE Inv'
  BY <1>4, ListOutdatedChunksPreserves, ReplaceChunksPreserves, WokenPreserves,
     ReadBatchPreserves, EmbedPreserves, IndexVectorsPreserves
     DEF Worker
<1>5. CASE EagerBrowser \/ SidecarDies \/ Expires \/ Crash \/ Restart \/ SpawnSweep \/ AttachListener
  BY <1>5, EagerBrowserPreserves, SidecarDiesPreserves, ExpiresPreserves, CrashPreserves,
     RestartPreserves, SpawnSweepPreserves, AttachListenerPreserves
<1>6. CASE UNCHANGED vars
  BY <1>6 DEF vars, acqVars, rowVars, memVars, Inv, AcqTypeOK, PaperType, SourceType,
     ExtractionType, ChunkType, EmbeddingType, DownloadType, ExtractType, WorkerType, AppType,
     FilesType, UsedType, WakeType, HealthHoldsStartup, CachedHasFile, ActiveHasFile,
     WrittenIsThere, SearchableIsReady, Ready, RunningOwnsRow, ExtractingHasJob
<1>7. QED
  BY <1>1, <1>2, <1>3, <1>4, <1>5, <1>6 DEF Next

LEMMA Invariance == Spec => []Inv
BY InitInv, NextInv, PTL DEF Spec

\* Every variable of Documents and of Acquisition keeps its type.
THEOREM DocumentsTypeCorrect == Spec => []TypeOK
<1>1. Inv => TypeOK
  BY InvParts
<1>2. QED
  BY <1>1, Invariance, PTL

\* A source says it is cached, and a paper shows a PDF, only when the PDF is in
\* the document storage: across promotion, import, retries, deletion and restart.
THEOREM CachedAlwaysReadable == Spec => []CachedIsReadable
<1>1. Inv => CachedIsReadable
  BY InvParts
<1>2. QED
  BY <1>1, Invariance, PTL

\* An extraction is ready exactly while it has chunks, so nothing that is being
\* replaced, failed or was deleted is searched.
THEOREM SearchableAlwaysReady == Spec => []SearchableIsReady
<1>1. Inv => SearchableIsReady
  BY DEF Inv
<1>2. QED
  BY <1>1, Invariance, PTL

\* A row that says extracting has a running job, unless the extractor panicked.
THEOREM ExtractingAlwaysHasJob == Spec => []ExtractingHasJob
<1>1. Inv => ExtractingHasJob
  BY DEF Inv
<1>2. QED
  BY <1>1, Invariance, PTL

\* At most one browser is started or running, however many tasks ask for it and
\* whichever of them is dropped while it waits.
THEOREM OneBrowserAtATime == Spec => []OneBrowser
<1>1. Inv => OneBrowser
  BY DEF Inv, HealthHoldsStartup, OneBrowser
<1>2. QED
  BY <1>1, Invariance, PTL

-----------------------------------------------------------------------------
(* Chunks are ahead of a sweep. *)

\* What SweepAhead speaks of is disturbed by the extractions, the worker and setup().
SweepVars == <<app, build, chunk, embedding, worker, wake, left>>

LEMMA SweepUntouched ==
    ASSUME SweepAhead, UNCHANGED SweepVars PROVE SweepAhead'
  BY DEF SweepAhead, Missing, Pending, Ahead, SweepVars

\* Chunks that go leave nothing that was not missing before.
LEMMA FewerChunks ==
    ASSUME Inv, SweepAhead, UNCHANGED <<app, build, worker, wake, left>>,
           \A s \in Sources :
              chunk'[s] = None \/ (chunk'[s] = chunk[s] /\ embedding'[s] = embedding[s])
    PROVE  SweepAhead'
<1>1. build # None
  BY DEF Inv, AppType, Builds, None
<1>2. Missing' => Missing
  BY <1>1 DEF Missing, Pending
<1>3. QED
  BY <1>2 DEF SweepAhead, Ahead

\* A worker that is about to read is ahead of whatever is missing.
LEMMA AtWork ==
    ASSUME NEW w \in Workers, worker'[w].pc \notin {"idle", "index"} PROVE SweepAhead'
  BY DEF SweepAhead, Ahead

LEMMA SweepAheadExtract ==
    ASSUME Inv, SweepAhead, NEW s \in Sources, Extract(s) \/ PanicExtraction(s)
    PROVE  SweepAhead'
<1>1. CASE SkipExtraction(s) \/ FailExtraction(s) \/ ExtractFinished(s) \/ PanicExtraction(s)
  BY <1>1, SweepUntouched DEF SkipExtraction, FailExtraction, ExtractFinished, PanicExtraction,
     ElseKept, rowVars, SweepVars
<1>2. CASE StartExtraction(s)
  <2>1. \A t \in Sources :
           chunk'[t] = None \/ (chunk'[t] = chunk[t] /\ embedding'[t] = embedding[t])
    BY <1>2 DEF StartExtraction, NoChunks, Inv, ChunkType, EmbeddingType
  <2>2. UNCHANGED <<app, build, worker, wake, left>>
    BY <1>2 DEF StartExtraction, ElseKept
  <2>3. QED
    BY <2>1, <2>2, FewerChunks
<1>3. CASE FinishExtraction(s)
  <2>1. CASE extraction[s].status = "none"
    BY <1>3, <2>1, SweepUntouched DEF FinishExtraction, ElseKept, SweepVars
  <2>2. CASE extraction[s].status # "none"
    BY <1>3, <2>2 DEF FinishExtraction, ElseKept, SweepAhead, Ahead
  <2>3. QED
    BY <2>1, <2>2
<1>4. QED
  BY <1>1, <1>2, <1>3 DEF Extract

LEMMA SweepAheadWorker ==
    ASSUME Inv, SweepAhead, NEW w \in Workers, Worker(w)
    PROVE  SweepAhead'
<1>1. worker \in [Workers -> WorkerStates] /\ "startup" \in Workers /\ "forever" \in Workers
  BY DEF Inv, WorkerType, Workers
<1>2. CASE ListOutdatedChunks \/ ReplaceChunks
  <2>1. worker'["startup"].pc \in {"replace", "sweep"}
    BY <1>1, <1>2 DEF ListOutdatedChunks, ReplaceChunks, WorkerStates
  <2>2. QED
    BY <1>1, <2>1, AtWork
<1>3. CASE Woken
  <2>1. worker'["forever"].pc = "sweep"
    BY <1>1, <1>3 DEF Woken, Resting
  <2>2. QED
    BY <1>1, <2>1, AtWork
<1>4. CASE ReadBatch(w)
  <2> DEFINE missing == {s \in Sources : Pending(s)}
  <2>1. /\ UNCHANGED <<chunk, embedding, build>>
        /\ \/ left' = IF missing = {} THEN {} ELSE left \cup {"limit"}
           \/ \E batch : worker' = [worker EXCEPT ![w] =
                            [pc |-> "embed", batch |-> batch, batches |-> @.batches + 1]]
    BY <1>4 DEF ReadBatch, WorkerKept, ElseKept
  <2>2. missing = {} => ~Missing'
    BY <2>1 DEF Missing, Pending
  <2> HIDE DEF missing
  <2>3. CASE left' = IF missing = {} THEN {} ELSE left \cup {"limit"}
    BY <2>2, <2>3 DEF SweepAhead
  <2>4. CASE \E batch : worker' = [worker EXCEPT ![w] =
                           [pc |-> "embed", batch |-> batch, batches |-> @.batches + 1]]
    <3>1. worker'[w].pc = "embed"
      BY <1>1, <2>4
    <3>2. QED
      BY <3>1, AtWork
  <2>5. QED
    BY <2>1, <2>3, <2>4
<1>5. CASE Embed(w)
  <2>1. left' # {} \/ worker'[w].pc = "sweep"
    BY <1>1, <1>5 DEF Embed
  <2>2. QED
    BY <2>1, AtWork DEF SweepAhead
<1>6. CASE IndexVectors(w)
  <2>1. /\ worker[w].pc = "index" /\ worker' = [worker EXCEPT ![w] = IdleWorker]
        /\ UNCHANGED <<app, build, chunk, embedding, wake, left>>
    BY <1>6 DEF IndexVectors, WorkerKept, ElseKept
  <2>2. Ahead => Ahead'
    BY <1>1, <2>1 DEF Ahead
  <2>3. QED
    BY <2>1, <2>2 DEF SweepAhead, Missing, Pending
<1>7. QED
  BY <1>2, <1>3, <1>4, <1>5, <1>6 DEF Worker

\* While the worker's tasks run, chunks without embeddings are ahead of a sweep, or
\* one has been cut short or was not asked for: for any number of sources and any
\* size and number of batches.
THEOREM SweepAlwaysAhead == Spec => []SweepAhead
<1>1. Init => SweepAhead
  BY DEF Init, SweepAhead, Missing, Pending, None
<1>2. ASSUME Inv, SweepAhead, [Next]_vars PROVE SweepAhead'
  <2> USE <1>2
  <2>1. ASSUME NEW p \in PapersOf, DeletePaper(p) PROVE SweepAhead'
    <3>1. \A s \in Sources :
             chunk'[s] = None \/ (chunk'[s] = chunk[s] /\ embedding'[s] = embedding[s])
      BY <2>1 DEF DeletePaper, Deleted, None
    <3>2. UNCHANGED <<app, build, worker, wake, left>>
      BY <2>1 DEF DeletePaper, Command, memVars
    <3>3. QED
      BY <3>1, <3>2, FewerChunks
  <2>2. CASE Commands /\ ~ \E p \in PapersOf : DeletePaper(p)
    <3>1. UNCHANGED SweepVars
      BY <2>2 DEF Commands, OpenCandidate, DownloadPaperPdf, AddPaper, Abstract, ImportLocal,
         ExtractPaper, Command, rowVars, memVars, SweepVars
    <3>2. QED
      BY <3>1, SweepUntouched
  <2>3. ASSUME NEW s \in Remote, Download(s) \/ OverallDeadline(s) PROVE SweepAhead'
    <3>1. UNCHANGED SweepVars
      BY <2>3 DEF Download, OverallDeadline, ReadSource, NothingToDownload, SetDownloading,
         BeginAttempt, DirectFetch, AwaitBrowser, WritePdf, BrowserBrings, BrowserFails,
         SetCached, SourceGone, DownloadFinished, AttemptFailed, RowsKept, rowVars, SweepVars
    <3>2. QED
      BY <3>1, SweepUntouched
  <2>4. CASE \E s \in Sources : Extract(s) \/ PanicExtraction(s)
    BY <2>4, SweepAheadExtract
  <2>5. CASE \E w \in Workers : Worker(w)
    BY <2>5, SweepAheadWorker
  <2>6. CASE EagerBrowser \/ SidecarDies \/ Expires \/ UNCHANGED vars
    BY <2>6, SweepUntouched DEF EagerBrowser, SidecarDies, Expires, Fault, rowVars, memVars, vars,
       SweepVars
  <2>7. CASE Crash \/ Restart
    BY <2>7 DEF Crash, Restart, SweepAhead
  <2>8. CASE SpawnSweep
    <3>1. worker'["startup"].pc = "rechunk" /\ "startup" \in Workers
      BY <2>8 DEF SpawnSweep, Inv, WorkerType, WorkerStates, Workers
    <3>2. QED
      BY <3>1, AtWork
  <2>9. CASE AttachListener
    BY <2>9 DEF AttachListener, rowVars, memVars, SweepAhead, Missing, Pending, Ahead
  <2>10. QED
    BY <2>1, <2>2, <2>3, <2>4, <2>5, <2>6, <2>7, <2>8, <2>9 DEF Next, Commands
<1>3. QED
  BY <1>1, <1>2, Invariance, PTL DEF Spec

-----------------------------------------------------------------------------
(* A download that a row speaks of is under way, and comes to an end. *)

\* No job outlives the process.
DownIsIdle == app = "down" => \A s \in Remote : download[s].pc = "idle"

UnderWay == {"attempt", "http", "browser", "written"}

DownloadInv == Inv /\ DownloadingHasJob /\ DownIsIdle

LEMMA DownloadsUntouched ==
    ASSUME DownloadInv, UNCHANGED <<app, source, download>>
    PROVE  DownloadingHasJob' /\ DownIsIdle'
  BY DEF DownloadInv, DownloadingHasJob, DownIsIdle

\* A failed attempt is followed by another, or by the row that says so.
LEMMA AttemptFailedKeepsJob ==
    ASSUME DownloadInv, NEW s \in Remote, NEW from \in UnderWay, AttemptFailed(s, from)
    PROVE  DownloadingHasJob' /\ DownIsIdle'
<1>1. download[s].pc = from /\ UNCHANGED app
  BY DEF AttemptFailed, DownloadAt, RowsKept
<1>2. app # "down"
  BY <1>1 DEF DownloadInv, DownIsIdle, UnderWay
<1>3. CASE /\ download' = [download EXCEPT ![s] = [pc |-> "attempt", tries |-> @.tries + 1]]
           /\ UNCHANGED source
  BY <1>1, <1>2, <1>3 DEF DownloadInv, Inv, DownloadType, DownloadingHasJob, DownIsIdle
<1>4. CASE /\ download' = [download EXCEPT ![s].pc = "ending"]
           /\ source' = IF source[s].status = "none" THEN source
                        ELSE [source EXCEPT ![s].status = "failed"]
  <2>1. source'[s].status \in {"none", "failed"} /\ \A t \in Remote \ {s} : source'[t] = source[t]
    BY <1>4 DEF DownloadInv, Inv, SourceType
  <2>2. \A t \in Remote \ {s} : download'[t] = download[t]
    BY <1>4 DEF DownloadInv, Inv, DownloadType
  <2>3. QED
    BY <1>1, <1>2, <2>1, <2>2 DEF DownloadInv, DownloadingHasJob, DownIsIdle
<1>5. QED
  BY <1>3, <1>4 DEF AttemptFailed, DownloadAt, RowsKept, rowVars

\* Commands that write the rows of sources: none of them says downloading, nor
\* takes a job away.
LEMMA CommandKeepsJob ==
    ASSUME DownloadInv, Commands
    PROVE  DownloadingHasJob' /\ DownIsIdle'
<1>1. app = "up" /\ app' = "up"
  BY DEF Commands, OpenCandidate, DownloadPaperPdf, AddPaper, Abstract, DeletePaper, ImportLocal,
     ExtractPaper, Command
<1>2. SUFFICES ASSUME NEW s \in Remote, source'[s].status = "downloading"
               PROVE  download'[s].pc \in UnderWay
  BY <1>1 DEF DownloadingHasJob, DownIsIdle, UnderWay
<1>3. ASSUME source[s].status = "downloading" PROVE download[s].pc \in UnderWay
  BY <1>1, <1>3 DEF DownloadInv, DownloadingHasJob, UnderWay
<1>4. ASSUME NEW sources, download[s].pc \in UnderWay
      PROVE  QueuedDownloads(sources)[s].pc \in UnderWay
  BY <1>4 DEF QueuedDownloads, UnderWay
<1>5. CASE \E p \in PapersOf : AddPaper(p)
  <2>1. PICK p \in PapersOf : AddPaper(p)
    BY <1>5
  <2>2. source[s].status = "downloading"
    BY <1>2, <2>1 DEF AddPaper
  <2>3. QED
    BY <2>1, <2>2, <1>3, <1>4 DEF AddPaper
<1>6. CASE \E t \in Remote : DownloadPaperPdf(t)
  <2>1. PICK t \in Remote : DownloadPaperPdf(t)
    BY <1>6
  <2>2. source[s].status = "downloading"
    BY <1>2, <2>1 DEF DownloadPaperPdf, DownloadInv, Inv, SourceType
  <2>3. QED
    BY <2>1, <2>2, <1>3, <1>4 DEF DownloadPaperPdf
<1>7. CASE \E t \in Local : ImportLocal(t)
  <2>1. PICK t \in Local : ImportLocal(t)
    BY <1>7
  <2>2. source[s].status = "downloading" /\ UNCHANGED download
    BY <1>2, <2>1 DEF ImportLocal, DownloadInv, Inv, SourceType
  <2>3. QED
    BY <2>2, <1>3
<1>8. CASE \E p \in PapersOf : DeletePaper(p)
  <2>1. PICK p \in PapersOf : DeletePaper(p)
    BY <1>8
  <2>2. source[s].status = "downloading" /\ UNCHANGED download
    BY <1>2, <2>1 DEF DeletePaper, Deleted, NoSource, memVars
  <2>3. QED
    BY <2>2, <1>3
<1>9. CASE UNCHANGED <<source, download>>
  BY <1>2, <1>3, <1>9
<1>10. QED
  BY <1>5, <1>6, <1>7, <1>8, <1>9
     DEF Commands, OpenCandidate, Abstract, ExtractPaper, rowVars, memVars

\* The job's own steps.
LEMMA DownloadKeepsJob ==
    ASSUME DownloadInv, NEW s \in Remote, Download(s) \/ OverallDeadline(s)
    PROVE  DownloadingHasJob' /\ DownIsIdle'
<1>1. CASE \E from \in UnderWay : AttemptFailed(s, from)
  BY <1>1, AttemptFailedKeepsJob
<1>2. CASE AwaitBrowser(s)
  BY <1>2, DownloadsUntouched DEF AwaitBrowser, RowsKept, rowVars
<1>3. ASSUME NEW from \in DownloadPcs \ {"idle"}, NEW to \in UnderWay,
             DownloadAt(s, from, to), UNCHANGED <<app, source>>
      PROVE  DownloadingHasJob' /\ DownIsIdle'
  BY <1>3 DEF DownloadAt, DownloadInv, Inv, DownloadType, DownloadingHasJob, DownIsIdle, UnderWay
<1>4. CASE ReadSource(s) \/ NothingToDownload(s)
  <2>1. PICK to \in {"read", "ending"} :
            DownloadAt(s, "queued", to) /\ UNCHANGED <<app, source>>
    BY <1>4 DEF ReadSource, NothingToDownload, RowsKept, rowVars
  <2>2. QED
    BY <2>1 DEF DownloadAt, DownloadInv, Inv, DownloadType, DownloadingHasJob, DownIsIdle
<1>5. CASE SetDownloading(s)
  <2>1. /\ download[s].pc = "read" /\ UNCHANGED app
        /\ \A t \in Remote \ {s} : source'[t] = source[t] /\ download'[t] = download[t]
        /\ source'[s].status = "none" \/ download'[s].pc = "attempt"
    BY <1>5 DEF SetDownloading, DownloadAt, DownloadInv, Inv, DownloadType, SourceType
  <2>2. QED
    BY <2>1 DEF DownloadInv, DownloadingHasJob, DownIsIdle
<1>6. CASE DownloadAt(s, "attempt", "http") /\ RowsKept
  BY <1>3, <1>6 DEF RowsKept, rowVars, DownloadPcs, UnderWay
<1>7. CASE DirectFetch(s) \/ BrowserBrings(s)
  BY <1>3, <1>7 DEF DirectFetch, BrowserBrings, WritePdf, RowsKept, rowVars, DownloadPcs, UnderWay
<1>8. CASE SetCached(s)
  <2>1. /\ download[s].pc = "written" /\ UNCHANGED app
        /\ \A t \in Remote \ {s} : source'[t] = source[t] /\ download'[t] = download[t]
        /\ source'[s].status = "cached"
    BY <1>8 DEF SetCached, DownloadAt, DownloadInv, Inv, DownloadType, SourceType
  <2>2. QED
    BY <2>1 DEF DownloadInv, DownloadingHasJob, DownIsIdle
<1>9. CASE DownloadFinished(s)
  <2>1. /\ download[s].pc = "ending" /\ UNCHANGED <<app, source>>
        /\ \A t \in Remote \ {s} : download'[t] = download[t]
    BY <1>9 DEF DownloadFinished, RowsKept, rowVars, DownloadInv, Inv, DownloadType
  <2>2. QED
    BY <2>1 DEF DownloadInv, DownloadingHasJob, DownIsIdle
<1>10. QED
  BY <1>1, <1>2, <1>4, <1>5, <1>6, <1>7, <1>8, <1>9
     DEF Download, OverallDeadline, BeginAttempt, BrowserFails, SourceGone, UnderWay

\* A crash takes the jobs; the next start queues what it left behind.
LEMMA RestartKeepsJob ==
    ASSUME DownloadInv, Crash \/ Restart
    PROVE  DownloadingHasJob' /\ DownIsIdle'
<1>1. CASE Crash
  <2>1. app' = "down" /\ \A s \in Remote : download'[s].pc = "idle"
    BY <1>1 DEF Crash, IdleDownload
  <2>2. QED
    BY <2>1 DEF DownloadingHasJob, DownIsIdle
<1>2. CASE Restart
  <2>1. app' = "recovered" /\ source' = RecoveredSources
    BY <1>2 DEF Restart
  <2>2. \A s \in Remote : RecoveredSources[s].status # "downloading"
    BY DEF RecoveredSources, Kept, Stale, DownloadInv, Inv, SourceType
  <2>3. QED
    BY <2>1, <2>2 DEF DownloadingHasJob, DownIsIdle
<1>3. QED
  BY <1>1, <1>2

LEMMA SetupKeepsJob ==
    ASSUME DownloadInv, SpawnSweep \/ AttachListener
    PROVE  DownloadingHasJob' /\ DownIsIdle'
<1>1. app # "down" /\ app' # "down" /\ UNCHANGED <<source, download>>
  BY DEF SpawnSweep, AttachListener, rowVars, memVars
<1>2. QED
  BY <1>1 DEF DownloadInv, DownloadingHasJob, DownIsIdle

LEMMA DownloadInvStep == DownloadInv /\ [Next]_vars => DownloadInv'
<1> SUFFICES ASSUME DownloadInv, [Next]_vars PROVE DownloadInv'
  OBVIOUS
<1>1. Inv'
  BY NextInv DEF DownloadInv
<1>2. CASE Commands
  BY <1>1, <1>2, CommandKeepsJob DEF DownloadInv
<1>3. CASE \E s \in Remote : Download(s) \/ OverallDeadline(s)
  BY <1>1, <1>3, DownloadKeepsJob DEF DownloadInv
<1>4. CASE Crash \/ Restart \/ SpawnSweep \/ AttachListener
  BY <1>1, <1>4, RestartKeepsJob, SetupKeepsJob DEF DownloadInv
<1>5. CASE UNCHANGED <<app, source, download>>
  BY <1>1, <1>5, DownloadsUntouched DEF DownloadInv
<1>6. ASSUME NEW s \in Sources, Extract(s) \/ PanicExtraction(s)
      PROVE  UNCHANGED <<app, source, download>>
  BY <1>6 DEF Extract, PanicExtraction, StartExtraction, SkipExtraction, FinishExtraction,
     FailExtraction, ExtractFinished, ElseKept, rowVars
<1>7. ASSUME NEW w \in Workers, Worker(w)
      PROVE  UNCHANGED <<app, source, download>>
  BY <1>7 DEF Worker, ListOutdatedChunks, ReplaceChunks, Woken, ReadBatch, Embed, IndexVectors, WorkerKept,
     ElseKept
<1>8. ASSUME EagerBrowser \/ SidecarDies \/ Expires
      PROVE  UNCHANGED <<app, source, download>>
  BY <1>8 DEF EagerBrowser, SidecarDies, Expires, rowVars, memVars
<1>9. CASE UNCHANGED vars
  BY <1>5, <1>9 DEF vars, rowVars, memVars
<1>10. QED
  BY <1>2, <1>3, <1>4, <1>5, <1>6, <1>7, <1>8, <1>9 DEF Next

LEMMA DownloadInvHolds == Spec => []DownloadInv
<1>1. Init => DownloadInv
  BY InitInv DEF DownloadInv, DownloadingHasJob, DownIsIdle, Init, NoSource
<1>2. QED
  BY <1>1, DownloadInvStep, PTL DEF Spec

\* A source that says downloading has a job that has still to end, also when its
\* paper goes and comes back, and after a restart.
THEOREM DownloadingAlwaysHasJob == Spec => []DownloadingHasJob
<1>1. DownloadInv => DownloadingHasJob
  BY DEF DownloadInv
<1>2. QED
  BY <1>1, DownloadInvHolds, PTL

\* A job that moves to a later place of its attempt has fewer steps left, ...
LEMMA LaterIsLess ==
    ASSUME NEW s \in Remote, DownloadType, DownloadType', AcqTypeOK, AcqTypeOK',
           download'[s].tries = download[s].tries,
           download'[s].pc # "idle",
           download[s].pc \notin {"idle", "ending"},
           download'[s].pc = "browser" => download[s].pc = "http",
           StepsLeft[download'[s].pc] < StepsLeft[download[s].pc]
    PROVE  Rank(s)' < Rank(s)
<1> DEFINE toGo == 7 * (MaxAttempts - download[s].tries)
<1>1. toGo \in Nat /\ toGo >= 7 /\ download[s].pc \in DownloadPcs /\ download'[s].pc \in DownloadPcs
  BY DEF DownloadType
<1>2. /\ asking[s] \in Asking /\ AskingLeft[asking[s]] \in 0 .. 3
      /\ asking'[s] \in Asking /\ AskingLeft[asking'[s]] \in 0 .. 3
  <2>1. asking[s] \in Asking /\ asking'[s] \in Asking
    BY DEF AcqTypeOK
  <2>2. QED
    BY <2>1 DEF Asking, AskingLeft
<1>3. CASE download'[s].pc = "browser"
  <2>1. /\ Rank(s) = 7 + toGo
        /\ Rank(s)' = 3 + AskingLeft[asking'[s]] + toGo
    BY <1>3, <1>1, <1>2 DEF Rank, StepsLeft
  <2>2. QED
    BY <2>1, <1>1, <1>2
<1>4. CASE download'[s].pc # "browser" /\ download'[s].pc # "ending"
  <2>1. /\ Rank(s) = StepsLeft[download[s].pc]
                     + (IF download[s].pc = "browser" THEN AskingLeft[asking[s]] ELSE 0) + toGo
        /\ Rank(s)' = StepsLeft[download'[s].pc] + 0 + toGo
    BY <1>4 DEF Rank
  <2>2. StepsLeft[download[s].pc] \in Nat /\ StepsLeft[download'[s].pc] \in Nat
    BY <1>1 DEF DownloadPcs, StepsLeft
  <2>3. QED
    BY <2>1, <2>2, <1>1, <1>2
<1>5. CASE download'[s].pc = "ending"
  <2>1. /\ Rank(s) = StepsLeft[download[s].pc]
                     + (IF download[s].pc = "browser" THEN AskingLeft[asking[s]] ELSE 0) + toGo
        /\ Rank(s)' = 1
    BY <1>5 DEF Rank, StepsLeft
  <2>2. StepsLeft[download[s].pc] \in Nat
    BY <1>1 DEF DownloadPcs, StepsLeft
  <2>3. QED
    BY <2>1, <2>2, <1>1, <1>2
<1>6. QED
  BY <1>3, <1>4, <1>5

\* ... and so has one that gives an attempt up: for the next one, or for good.
LEMMA NextAttemptIsLess ==
    ASSUME DownloadInv, DownloadInv', NEW s \in Remote, NEW from \in UnderWay,
           AttemptFailed(s, from)
    PROVE  Rank(s)' < Rank(s)
<1>1. download[s].pc = from /\ download[s].tries \in 0 .. MaxAttempts - 1 /\ asking[s] \in Asking
  BY DEF AttemptFailed, DownloadAt, DownloadInv, Inv, DownloadType, AcqTypeOK
<1>2. CASE /\ download[s].tries + 1 < MaxAttempts
           /\ download' = [download EXCEPT ![s] = [pc |-> "attempt", tries |-> @.tries + 1]]
  <2>1. download'[s] = [pc |-> "attempt", tries |-> download[s].tries + 1]
    BY <1>2 DEF DownloadInv, Inv, DownloadType
  <2>2. Rank(s)' = 8 + 7 * (MaxAttempts - (download[s].tries + 1))
    BY <2>1, <1>1 DEF Rank, StepsLeft
  <2>3. Rank(s) = StepsLeft[from] + (IF from = "browser" THEN AskingLeft[asking[s]] ELSE 0)
                    + 7 * (MaxAttempts - download[s].tries)
    BY <1>1 DEF Rank, UnderWay
  <2>4. /\ StepsLeft[from] \in Nat /\ StepsLeft[from] >= 2
        /\ AskingLeft[asking[s]] \in Nat
    BY <1>1 DEF StepsLeft, UnderWay, AskingLeft, Asking
  <2>5. QED
    BY <2>2, <2>3, <2>4, <1>1
<1>3. CASE DownloadAt(s, from, "ending")
  <2>1. download'[s] = [download[s] EXCEPT !.pc = "ending"]
    BY <1>3 DEF DownloadAt, DownloadInv, Inv, DownloadType
  <2>2. StepsLeft[download'[s].pc] < StepsLeft[download[s].pc]
    BY <2>1, <1>1 DEF StepsLeft, UnderWay, DownloadInv, Inv, DownloadType
  <2>3. QED
    BY <2>1, <2>2, <1>1, LaterIsLess DEF DownloadInv, Inv, DownloadType, UnderWay
<1>4. QED
  BY <1>2, <1>3 DEF AttemptFailed

\* Each place of ensure_ready is left for a later one.
LEMMA AskingIsLess ==
    ASSUME DownloadInv, DownloadInv', NEW s \in Remote, AwaitBrowser(s)
    PROVE  Rank(s)' < Rank(s)
<1>1. UNCHANGED download /\ download[s].pc = "browser" /\ EnsureReady(s)
  BY DEF AwaitBrowser
<1>2. asking[s] \in Asking /\ asking'[s] \in Asking
  BY DEF DownloadInv, Inv, AcqTypeOK
<1>3. PICK from \in Asking, to \in Asking :
          AskingLeft[to] < AskingLeft[from] /\ asking[s] = from /\ asking'[s] = to
  <2>1. \/ asking[s] = "ensure" /\ asking'[s] \in {"ready", "lock"}
        \/ asking[s] = "lock" /\ asking'[s] \in {"ready", "health", "failed"}
        \/ asking[s] = "health" /\ asking'[s] \in {"ready", "failed"}
    BY <1>1 DEF EnsureReady, Ensure, TakeStartup, Healthy, Unhealthy, ReadyEndpoint, Moves,
       DownloadInv, Inv, AcqTypeOK
  <2>2. QED
    BY <2>1, <1>2 DEF AskingLeft
<1>4. /\ Rank(s) = 3 + AskingLeft[asking[s]] + 7 * (MaxAttempts - download[s].tries)
      /\ Rank(s)' = 3 + AskingLeft[asking'[s]] + 7 * (MaxAttempts - download[s].tries)
  BY <1>1 DEF Rank, StepsLeft
<1>5. download[s].tries \in Nat /\ AskingLeft[asking[s]] \in Nat /\ AskingLeft[asking'[s]] \in Nat
  BY <1>2 DEF DownloadInv, Inv, DownloadType, AskingLeft, Asking
<1>6. QED
  BY <1>3, <1>4, <1>5

LEMMA DownloadLowersRank ==
    ASSUME DownloadInv, DownloadInv', NEW s \in Remote, Download(s) \/ OverallDeadline(s)
    PROVE  Rank(s)' < Rank(s)
<1>1. CASE \E from \in UnderWay : AttemptFailed(s, from)
  BY <1>1, NextAttemptIsLess
<1>2. CASE AwaitBrowser(s)
  BY <1>2, AskingIsLess
<1>3. ASSUME NEW from \in DownloadPcs, NEW to \in DownloadPcs, DownloadAt(s, from, to),
             from \notin {"idle", "ending"}, to # "idle", to = "browser" => from = "http",
             StepsLeft[to] < StepsLeft[from]
      PROVE  Rank(s)' < Rank(s)
  <2>1. download[s].pc = from /\ download'[s] = [download[s] EXCEPT !.pc = to]
    BY <1>3 DEF DownloadAt, DownloadInv, Inv, DownloadType
  <2>2. download'[s].pc = to /\ download'[s].tries = download[s].tries
    BY <2>1 DEF DownloadInv, Inv, DownloadType
  <2>3. QED
    BY <1>3, <2>1, <2>2, LaterIsLess DEF DownloadInv, Inv
<1>4. CASE DownloadFinished(s)
  <2>1. download[s].pc = "ending" /\ download'[s] = IdleDownload
    BY <1>4 DEF DownloadFinished, DownloadInv, Inv, DownloadType
  <2>2. Rank(s) = 1 /\ Rank(s)' = 0
    BY <2>1 DEF Rank, StepsLeft, IdleDownload
  <2>3. QED
    BY <2>2
<1>5. CASE \/ DownloadAt(s, "queued", "read") \/ DownloadAt(s, "queued", "ending")
           \/ DownloadAt(s, "read", "ending") \/ DownloadAt(s, "read", "attempt")
           \/ DownloadAt(s, "attempt", "http") \/ DownloadAt(s, "http", "written")
           \/ DownloadAt(s, "http", "browser") \/ DownloadAt(s, "browser", "written")
           \/ DownloadAt(s, "written", "ending")
  BY <1>3, <1>5 DEF DownloadPcs, StepsLeft
<1>6. QED
  BY <1>1, <1>2, <1>4, <1>5
     DEF Download, OverallDeadline, ReadSource, NothingToDownload, SetDownloading, BeginAttempt,
         DirectFetch, WritePdf, BrowserBrings, BrowserFails, SetCached, SourceGone, UnderWay

\* One job's step is nothing to another.
LEMMA DownloadKeepsOthers ==
    ASSUME DownloadInv, NEW s \in Remote, NEW t \in Remote \ {s}, Download(t) \/ OverallDeadline(t)
    PROVE  download'[s] = download[s] /\ asking'[s] = asking[s]
<1>1. download'[s] = download[s]
  BY DEF Download, OverallDeadline, ReadSource, NothingToDownload, SetDownloading, BeginAttempt,
     DirectFetch, AwaitBrowser, WritePdf, BrowserBrings, BrowserFails, SetCached, SourceGone,
     DownloadFinished, AttemptFailed, DownloadAt, DownloadInv, Inv, DownloadType
<1>2. asking'[s] = asking[s]
  <2>1. CASE UNCHANGED asking
    BY <2>1
  <2>2. CASE EnsureReady(t)
    BY <2>2 DEF EnsureReady, Ensure, TakeStartup, Healthy, Unhealthy, ReadyEndpoint, Moves,
       DownloadInv, Inv, AcqTypeOK
  <2>3. CASE \E answer : asking' = [asking EXCEPT ![t] = answer]
    BY <2>3 DEF DownloadInv, Inv, AcqTypeOK
  <2>4. QED
    BY <2>1, <2>2, <2>3
       DEF Download, OverallDeadline, ReadSource, NothingToDownload, SetDownloading, BeginAttempt,
           DirectFetch, AwaitBrowser, BrowserBrings, BrowserFails, SetCached, SourceGone,
           DownloadFinished, Moves, Answered, Dropped, Forget, acqVars
<1>3. QED
  BY <1>1, <1>2

\* Each step of a download lowers its rank, and nothing else moves it: it takes at
\* most 7 * MaxAttempts + 10 steps, for any number of attempts.
THEOREM DownloadsAlwaysAdvance == Spec => DownloadsAdvance
<1>1. ASSUME DownloadInv, DownloadInv', [Next]_vars, NEW s \in Remote,
             download'[s] # download[s]
               \/ (download[s].pc = "browser" /\ asking'[s] # asking[s])
      PROVE  download[s].pc = "idle" \/ app' = "down" \/ Rank(s)' < Rank(s)
  <2> USE <1>1
  <2>1. ASSUME NEW t \in Remote, Download(t) \/ OverallDeadline(t)
        PROVE  Rank(s)' < Rank(s)
    BY <2>1, DownloadLowersRank, DownloadKeepsOthers
  <2>2. CASE Commands
    <3>1. UNCHANGED asking
      BY <2>2 DEF Commands, OpenCandidate, DownloadPaperPdf, AddPaper, Abstract, DeletePaper,
         ImportLocal, ExtractPaper, acqVars
    <3>2. download' = download \/ \E sources : download' = QueuedDownloads(sources)
      BY <2>2 DEF Commands, OpenCandidate, DownloadPaperPdf, AddPaper, Abstract, DeletePaper,
         ImportLocal, ExtractPaper, memVars
    <3>3. QED
      BY <3>1, <3>2 DEF QueuedDownloads
  <2>3. CASE Crash \/ Restart \/ SpawnSweep
    BY <2>3 DEF Crash, Restart, SpawnSweep, DownloadInv, DownIsIdle, acqVars
  <2>4. CASE UNCHANGED <<download, asking>>
    BY <2>4
  <2>5. CASE EagerBrowser
    <3>1. UNCHANGED download
      BY <2>5 DEF EagerBrowser, memVars
    <3>2. asking'[s] = asking[s]
      BY <2>5 DEF EagerBrowser, EnsureReady, Ensure, TakeStartup, Healthy, Unhealthy,
         ReadyEndpoint, Moves, DownloadInv, Inv, AcqTypeOK
    <3>3. QED
      BY <3>1, <3>2
  <2>6. ASSUME NEW t \in Sources, Extract(t) \/ PanicExtraction(t)
        PROVE  UNCHANGED <<download, asking>>
    BY <2>6 DEF Extract, PanicExtraction, StartExtraction, SkipExtraction, FinishExtraction,
       FailExtraction, ExtractFinished, ElseKept, acqVars
  <2>7. ASSUME NEW w \in Workers, Worker(w)
        PROVE  UNCHANGED <<download, asking>>
    BY <2>7 DEF Worker, ListOutdatedChunks, ReplaceChunks, Woken, ReadBatch, Embed, IndexVectors, WorkerKept,
       ElseKept, acqVars
  <2>8. ASSUME SidecarDies \/ Expires PROVE UNCHANGED <<download, asking>>
    BY <2>8 DEF SidecarDies, SidecarExits, Expires, Forget, memVars
  <2>9. CASE UNCHANGED vars
    BY <2>9 DEF vars, acqVars, memVars
  <2>10. CASE AttachListener
    <3>1. UNCHANGED download /\ asking'[s] = asking[s]
      BY <2>10 DEF AttachListener, memVars, DownloadInv, Inv, AcqTypeOK
    <3>2. QED
      BY <3>1
  <2>11. QED
    BY <2>1, <2>2, <2>3, <2>4, <2>5, <2>6, <2>7, <2>8, <2>9, <2>10 DEF Next
<1>2. DownloadInv /\ DownloadInv' /\ [Next]_vars
        => [\A s \in Remote :
              download'[s] # download[s] \/ (download[s].pc = "browser" /\ asking'[s] # asking[s])
                => download[s].pc = "idle" \/ app' = "down" \/ Rank(s)' < Rank(s)]_vars
  BY <1>1
<1>3. QED
  BY <1>2, DownloadInvHolds, PTL DEF Spec, DownloadsAdvance

=============================================================================
