----------------------------- MODULE SearchRuns -----------------------------
(***************************************************************************)
(* The search manager (services/research/manager.rs), the tables it writes *)
(* (storage/library_store.rs) and the clients that start and cancel        *)
(* searches: the researcher (commands/research.rs) and an agent outside    *)
(* any research Run (services/mcp.rs, search_start and search_cancel).     *)
(* Searches an agent starts inside a Run are in ResearchRun, which leaves  *)
(* the loop of SearchAgent out.                                            *)
(*                                                                         *)
(* Every store call is one transaction and one step.  Left out: the        *)
(* searches.status copy of the latest run's status, the previews (see      *)
(* SearchPolls), and, as run_harness_search_with_timeout has no caller,    *)
(* the time limit and the reconciliation of the old Harness pipeline.      *)
(***************************************************************************)
EXTENDS SearchAgent

CONSTANTS
    Searches,
    Runs,
    SearchOf,       \* [Runs -> Searches]
    AgentRuns,      \* the runs made by search_start
    NoRun,
    NoJob,
    MaxCalls,       \* bound: start requests in flight for a run
    MaxRestarts     \* bound on crashes

ASSUME SearchRunsAssumption ==
    /\ SearchOf \in [Runs -> Searches]
    /\ AgentRuns \subseteq Runs
    /\ NoRun \notin Runs
    /\ NoJob \notin Jobs
    /\ Jobs \subseteq Nat
    /\ MaxRestarts \in Nat

VARIABLES
    saved,      \* search_candidates, by search
    run,        \* search_runs and, for an agent's, agent_search_runs
    shown,      \* the ranked agent_search_candidate_events, by run
    job,        \* the spawned tasks: the run each works for and how far it is
    queued,     \* SearchManager.queued_or_active
    token,      \* SearchManager.cancellations
    restarts

managerVars == <<saved, run, shown, job, queued, token, restarts>>
vars == <<agentVars, managerVars>>

Terminal == {"ready", "failed", "cancelled"}
Statuses == {"queued", "planning"} \union Terminal

RunRows ==
    [status : Statuses \union {"absent"},
     calls : Nat,               \* enqueue calls between their read and mark_queued
     requested : BOOLEAN,       \* cancel_requested
     inspected : Nat]           \* inspected_candidate_count

\* The steps of execute; any of them may return an error, save the loop itself,
\* which says when it breaks.
Storing == {"begin", "snapshot", "candidates", "events", "usage", "status", "concluded"}

\* The steps during which queued_or_active holds the search.
InSlot == Storing \union {"loop", "failed"}

JobSteps == InSlot \union {"idle", "cleanup", "failed_cleanup", "fail_run", "over", "lost"}

JobRows == [at : JobSteps, run : Runs \union {NoRun}, ranked : SUBSET Papers]

NoTask == [at |-> "idle", run |-> NoRun, ranked |-> {}]

NoSearchRun == [status |-> "absent", calls |-> 0, requested |-> FALSE, inspected |-> 0]

InitRuns ==
    /\ loop = [j \in Jobs |-> NoLoop]
    /\ tripped = [j \in Jobs |-> FALSE]
    /\ saved = [s \in Searches |-> {}]
    /\ run = [r \in Runs |-> NoSearchRun]
    /\ shown = [r \in Runs |-> {}]
    /\ job = [j \in Jobs |-> NoTask]
    /\ queued = {}
    /\ token = [r \in Runs |-> NoJob]
    /\ restarts = 0

SearchIn(j) == SearchOf[job[j].run]

-----------------------------------------------------------------------------
(* Starting a run. *)

\* run_search: a row for the run, then enqueue_run.  The search may have run
\* before, and may be running now.
RunSearch(r) ==
    /\ r \notin AgentRuns
    /\ run[r].status = "absent"
    /\ run' = [run EXCEPT ![r].status = "queued", ![r].calls = 1]
    /\ UNCHANGED <<saved, shown, job, queued, token, restarts, agentVars>>

\* search_start writes search, run and receipt together; a repeated request
\* finds the receipt.  Either way it enqueues a run that it reads as queued.
SearchStart(r) ==
    /\ r \in AgentRuns
    /\ run[r].status \in {"absent", "queued"}
    /\ run[r].calls < MaxCalls
    /\ run' = [run EXCEPT ![r].status = "queued", ![r].calls = @ + 1]
    /\ UNCHANGED <<saved, shown, job, queued, token, restarts, agentVars>>

EnqueueNothingTwice(r) ==
    /\ SearchOf[r] \in queued
    /\ run' = [run EXCEPT ![r].calls = @ - 1]
    /\ UNCHANGED <<saved, shown, job, queued, token, restarts, agentVars>>

\* The search is in the queue already: the call returns Ok and does nothing.
EnqueueNothing(r) ==
    /\ run[r].calls > 0
    /\ SearchOf[r] \in queued
    /\ run' = [run EXCEPT ![r].calls = @ - 1]
    /\ UNCHANGED <<saved, shown, job, queued, token, restarts, agentVars>>

\* The search enters the queue, a fresh token the map, and a task is spawned.
Spawn(r, j) ==
    /\ run' = [run EXCEPT ![r].calls = @ - 1]
    /\ queued' = queued \union {SearchOf[r]}
    /\ token' = [token EXCEPT ![r] = j]
    /\ tripped' = [tripped EXCEPT ![j] = FALSE]
    /\ job' = [job EXCEPT ![j] = [at |-> "begin", run |-> r, ranked |-> {}]]
    /\ UNCHANGED <<saved, shown, restarts, loop>>

\* Tasks are numbered in the order they are spawned.
FirstIdle(j) ==
    /\ job[j].at = "idle"
    /\ \A k \in Jobs : job[k].at = "idle" => j <= k

EnqueueByRun(r, j) ==
    /\ run[r].calls > 0
    /\ token[r] = NoJob
    /\ FirstIdle(j)
    /\ Spawn(r, j)

Enqueue(r, j) ==
    /\ run[r].calls > 0
    /\ SearchOf[r] \notin queued
    /\ FirstIdle(j)
    /\ Spawn(r, j)

-----------------------------------------------------------------------------
(* The task of a run: execute, then the clean-up in enqueue_run. *)

Step(j, from, to) ==
    /\ job[j].at = from
    /\ job' = [job EXCEPT ![j].at = to]

\* set_search_run_status on the task's own run, whatever it shows.
SetRun(j, status) == run' = [run EXCEPT ![job[j].run].status = status]

Begin(j) ==
    /\ Step(j, "begin", "snapshot")
    /\ SetRun(j, "planning")
    /\ UNCHANGED <<saved, shown, queued, token, restarts, agentVars>>

\* The keys of the candidates the search has.
Snapshot(j) ==
    /\ Step(j, "snapshot", "loop")
    /\ loop' = [loop EXCEPT ![j] = NewLoop(saved[SearchIn(j)])]
    /\ UNCHANGED <<saved, run, shown, queued, token, restarts, tripped>>

LoopSteps(j) ==
    \/ RoundsUsed(j) \/ SeesCancel(j) \/ StopsBefore(j)
    \/ AsksForPlan(j) \/ AsksAgain(j) \/ Planned(j) \/ NextRound(j)
    \/ Browses(j) \/ Exhausted(j) \/ Found(j) \/ Summarized(j) \/ Reflected(j) \/ Breaks(j)

Loop(j) ==
    /\ job[j].at = "loop"
    /\ LoopSteps(j)
    /\ UNCHANGED <<tripped, managerVars>>

\* The loop returns its ranked candidates and its stop reason.
LoopReturns(j) ==
    /\ job[j].at = "loop" /\ loop[j].at = "stopped"
    /\ \E ranked \in Ranked(loop[j]) :
        job' = [job EXCEPT ![j].at = "candidates", ![j].ranked = ranked]
    /\ Move(j, [NoLoop EXCEPT !.stop = loop[j].stop])
    /\ UNCHANGED <<saved, run, shown, queued, token, restarts, tripped>>

LoopErrs(j) ==
    /\ loop[j].at = "broken"
    /\ Step(j, "loop", "failed")
    /\ Move(j, NoLoop)
    /\ UNCHANGED <<saved, run, shown, queued, token, restarts, tripped>>

\* A store call of execute fails, or the configuration does not load.
Errs(j) ==
    /\ \E at \in Storing : Step(j, at, "failed")
    /\ UNCHANGED <<saved, run, shown, queued, token, restarts, agentVars>>

AppendCandidates(j) ==
    /\ Step(j, "candidates", "events")
    /\ saved' = [saved EXCEPT ![SearchIn(j)] = @ \union job[j].ranked]
    /\ UNCHANGED <<run, shown, queued, token, restarts, agentVars>>

AppendEventsOrNot(j) ==
    /\ Step(j, "events", "usage")
    /\ UNCHANGED <<saved, run, shown, queued, token, restarts, agentVars>>

\* Only an agent's run has candidate events.
AppendEvents(j) ==
    /\ Step(j, "events", "usage")
    /\ shown' = IF job[j].run \in AgentRuns
                  THEN [shown EXCEPT ![job[j].run] = @ \union job[j].ranked]
                  ELSE shown
    /\ UNCHANGED <<saved, run, queued, token, restarts, agentVars>>

\* set_search_run_usage, with the number of candidates the loop returned.
SetUsage(j) ==
    /\ Step(j, "usage", "status")
    /\ run' = [run EXCEPT ![job[j].run].inspected = Cardinality(job[j].ranked)]
    /\ UNCHANGED <<saved, shown, queued, token, restarts, agentVars>>

Conclude(j) ==
    /\ Step(j, "status", "concluded")
    /\ SetRun(j, IF loop[j].stop = "cancelled" THEN "cancelled" ELSE "ready")
    /\ UNCHANGED <<saved, shown, queued, token, restarts, agentVars>>

\* execute has returned, its locals with it; mark_finished frees the search.
MarkFinished(j) ==
    /\ \/ /\ job[j].at = "concluded"
          /\ job' = [job EXCEPT ![j].at = "cleanup", ![j].ranked = {}]
       \/ /\ job[j].at = "failed"
          /\ job' = [job EXCEPT ![j].at = "failed_cleanup", ![j].ranked = {}]
    /\ loop' = [loop EXCEPT ![j] = NoLoop]
    /\ queued' = queued \ {SearchIn(j)}
    /\ UNCHANGED <<saved, run, shown, token, restarts, tripped>>

\* The token of the run leaves the map, whichever task put it there, and the
\* task's own is dropped.
RemoveToken(j) ==
    /\ \/ Step(j, "cleanup", "over")
       \/ Step(j, "failed_cleanup", "fail_run")
    /\ token' = [token EXCEPT ![job[j].run] = NoJob]
    /\ tripped' = [tripped EXCEPT ![j] = FALSE]
    /\ UNCHANGED <<saved, run, shown, queued, restarts, loop>>

FailRunSilently(j) ==
    /\ Step(j, "fail_run", "over")
    /\ UNCHANGED <<saved, run, shown, queued, token, restarts, agentVars>>

FailRun(j) ==
    /\ Step(j, "fail_run", "over")
    /\ SetRun(j, "failed")
    /\ UNCHANGED <<saved, shown, queued, token, restarts, agentVars>>

TaskSteps(j) ==
    \/ Begin(j) \/ Snapshot(j) \/ Loop(j) \/ LoopReturns(j) \/ LoopErrs(j) \/ Errs(j)
    \/ AppendCandidates(j) \/ AppendEvents(j) \/ SetUsage(j) \/ Conclude(j)
    \/ MarkFinished(j) \/ RemoveToken(j) \/ FailRun(j)

-----------------------------------------------------------------------------
(* Cancelling and restarting. *)

\* cancel_run trips the token in the map, if the run has one there.
Trip(r) ==
    tripped' = IF token[r] # NoJob THEN [tripped EXCEPT ![token[r]] = TRUE] ELSE tripped

\* The researcher's cancel_search_run.
CancelRun(r) ==
    /\ token[r] # NoJob
    /\ Trip(r)
    /\ UNCHANGED <<loop, managerVars>>

\* search_cancel trips the token only when it is the first to record the
\* request; a later call returns what is stored.
SearchCancel(r) ==
    /\ r \in AgentRuns
    /\ run[r].status \in Statuses \ Terminal
    /\ ~run[r].requested
    /\ run' = [run EXCEPT ![r].requested = TRUE]
    /\ Trip(r)
    /\ UNCHANGED <<loop, saved, shown, job, queued, token, restarts>>

\* The tasks, the queue, the tokens and the calls in flight die with the
\* process; recover_and_queue_startup_runs leaves the rows as they are.
Restart ==
    /\ restarts < MaxRestarts
    /\ restarts' = restarts + 1
    /\ job' = [j \in Jobs |-> IF job[j].at = "idle" THEN NoTask
                              ELSE [at |-> IF job[j].at = "over" THEN "over" ELSE "lost",
                                    run |-> job[j].run, ranked |-> {}]]
    /\ loop' = [j \in Jobs |-> NoLoop]
    /\ tripped' = [j \in Jobs |-> FALSE]
    /\ queued' = {}
    /\ token' = [r \in Runs |-> NoJob]
    /\ run' = [r \in Runs |-> [run[r] EXCEPT !.calls = 0]]
    /\ UNCHANGED <<saved, shown>>

Next ==
    \/ \E r \in Runs :
        \/ RunSearch(r) \/ SearchStart(r) \/ EnqueueNothing(r)
        \/ CancelRun(r) \/ SearchCancel(r)
        \/ \E j \in Jobs : Enqueue(r, j)
    \/ \E j \in Jobs : TaskSteps(j)
    \/ Restart

Spec == InitRuns /\ [][Next]_vars

\* Awaiting a remote answer: nothing bounds the wait for the model, for a page of
\* the browser or for a record of OpenAlex or arXiv.
Waits(j) ==
    \/ loop[j].at \in {"planning", "reflecting"}
    \/ loop[j].at = "searching" /\ loop[j].issued > 0

\* The task goes on whenever it awaits nobody.
Prompt(j) == ~Waits(j) /\ TaskSteps(j)

FairSpec == Spec /\ \A j \in Jobs : WF_vars(Prompt(j))

-----------------------------------------------------------------------------
(* Properties. *)

\* The state has the shape of the tables, of the manager's maps and of the
\* tasks, whatever is started, cancelled, failed or interrupted.
TypeOK ==
    /\ loop \in [Jobs -> Loops]
    /\ tripped \in [Jobs -> BOOLEAN]
    /\ saved \in [Searches -> SUBSET Papers]
    /\ run \in [Runs -> RunRows]
    /\ shown \in [Runs -> SUBSET Papers]
    /\ job \in [Jobs -> JobRows]
    /\ queued \subseteq Searches
    /\ token \in [Runs -> Jobs \union {NoJob}]
    /\ restarts \in 0 .. MaxRestarts

\* Two tasks never execute one search at a time, whoever asked for its runs and
\* however often: so the snapshot of its candidates that a task takes is the
\* set it stacks on (manager.rs:192-194, 627-639).
OneTaskPerSearch ==
    \A j, k \in Jobs :
        job[j].at \in InSlot /\ job[k].at \in InSlot /\ SearchIn(j) = SearchIn(k) => j = k

\* A run that shows ready has its results where its readers look for them: the
\* candidates it counts are all among its events, and these in the search's
\* pool, although each is a transaction of its own and any may fail
\* (manager.rs:459-510).
ReadyIsReadable ==
    \A r \in AgentRuns : run[r].status = "ready" =>
        /\ Cardinality(shown[r]) >= run[r].inspected
        /\ shown[r] \subseteq saved[SearchOf[r]]

\* The task has shown its run as planning, and has yet to show how it ended.
Unsettled == {"snapshot", "loop", "candidates", "events", "usage", "status",
              "failed", "failed_cleanup", "fail_run"}

\* A run that shows planning has a task that will show how it ends, wherever an
\* error sends it, or had one when the process was restarted: nothing resets it
\* then (manager.rs:148-154, 205-226).
NoOrphanSearch ==
    \A r \in Runs : run[r].status = "planning" =>
        \E j \in Jobs : job[j].run = r /\ job[j].at \in Unsettled \union {"lost"}

\* The steps a task may still take outside its loop, and within it: five to a
\* round, of MaxIterations rounds, and the remote calls of the round.
StepsLeft ==
    [begin |-> 12, snapshot |-> 11, loop |-> 10, candidates |-> 9, events |-> 8, usage |-> 7,
     status |-> 6, concluded |-> 5, failed |-> 4, failed_cleanup |-> 3, fail_run |-> 2,
     cleanup |-> 1]

LoopLeft ==
    [reflecting |-> BatchCalls + ReAsks + 5, top |-> BatchCalls + ReAsks + 4,
     planning |-> BatchCalls + 3, searching |-> 2, assessing |-> 1, stopped |-> 0,
     broken |-> 0]

RoundSteps == BatchCalls + ReAsks + ReAsks + 5

Rank(j) ==
    IF job[j].at \in {"idle", "over", "lost"} THEN 0
    ELSE StepsLeft[job[j].at] +
         (IF job[j].at \in {"begin", "snapshot"}
          THEN RoundSteps * MaxIterations + LoopLeft["top"] + 1
          ELSE IF job[j].at = "loop"
               THEN RoundSteps * (MaxIterations - loop[j].iteration)
                        + LoopLeft[loop[j].at] + loop[j].left
          ELSE 0)

\* Every step of a task, in its loop or out of it, brings it nearer to its end,
\* and nobody else moves it: whatever the model asks for and the web answers, a
\* task takes RoundSteps * (MaxIterations + 1) + 12 steps at most
\* (agent.rs:145-233).
SearchesAdvance ==
    [][\A j \in Jobs :
          job'[j] # job[j] \/ loop'[j] # loop[j] =>
              job[j].at = "idle" \/ restarts' # restarts \/ Rank(j)' < Rank(j)]_vars

\* A run whose task was started reaches a final status unless the process is
\* restarted or the task waits for ever for an answer, of the model or of the web:
\* the loop is bounded and every error ends in fail_run (manager.rs:205-226).
RunsSettle ==
    \A j \in Jobs :
        \/ <>[]Waits(j)
        \/ (job[j].at \in InSlot)
              ~> (job[j].at = "lost" \/ (job[j].run \in Runs
                                         /\ run[job[j].run].status \in Terminal))
=============================================================================
