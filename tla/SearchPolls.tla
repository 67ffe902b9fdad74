----------------------------- MODULE SearchPolls -----------------------------
(***************************************************************************)
(* search_get (services/mcp.rs): a client reads the candidates of one      *)
(* search run page by page while the run's task appends them               *)
(* (services/research/manager.rs, storage/library_store.rs).  A page       *)
(* carries a cursor to the next one; the walk is over when it carries      *)
(* none.  Candidates are only counted: an event is its sequence number.    *)
(***************************************************************************)
EXTENDS Naturals

CONSTANTS
    PageLimit,      \* the limit of the request
    MaxEvents       \* bound on the candidate events of the run

VARIABLES
    status,     \* search_runs.status
    events,     \* how many agent_search_candidate_events the run has
    writer,     \* where the task is: in its loop, or past the ranked candidates
    client,     \* between requests, in one, or at the end of the walk
    terminal,   \* what the request in progress read of the run
    cursor      \* the cursor the client holds

vars == <<status, events, writer, client, terminal, cursor>>

PollInit ==
    /\ status = "planning" /\ events = 0 /\ writer = "looping"
    /\ client = "idle" /\ terminal = FALSE
    /\ cursor = [high |-> 0, after |-> 0]

\* A round's previews, or the ranked candidates once the loop returns.
AppendCandidateEvents ==
    /\ writer = "looping"
    /\ events' \in events .. MaxEvents
    /\ writer' \in {"looping", "ranked"}
    /\ UNCHANGED <<status, client, terminal, cursor>>

SetReady ==
    /\ writer = "ranked"
    /\ writer' = "done" /\ status' = "ready"
    /\ UNCHANGED <<events, client, terminal, cursor>>

\* The request reads the run first.
ReadRun ==
    /\ client = "idle"
    /\ client' = "reading"
    /\ terminal' = (status = "ready")
    /\ UNCHANGED <<status, events, writer, cursor>>

\* Then a page, up to the high-water mark of its cursor, or up to a new mark if
\* the cursor has none.  The mark is dropped when the pages reach it.
ReadPage ==
    /\ client = "reading"
    /\ LET high == IF cursor.high = 0 THEN events ELSE cursor.high
           next == cursor.after + PageLimit
           after == IF next < high THEN next ELSE high
           more == after < high
       IN /\ cursor' = [high |-> IF more THEN high ELSE 0, after |-> after]
          /\ client' = IF more \/ ~terminal THEN "idle" ELSE "done"
    /\ UNCHANGED <<status, events, writer, terminal>>

PollNext == AppendCandidateEvents \/ SetReady \/ ReadRun \/ ReadPage

PollSpec == PollInit /\ [][PollNext]_vars

\* "Candidate events remain complete under reranking, polling, and partial
\* errors" (RFC 0133): a client that follows the cursors until there is none
\* has read every candidate of the run (mcp.rs:1475-1528).
PollComplete == client = "done" => cursor.after = events
=============================================================================
