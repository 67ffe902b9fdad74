----------------------------- MODULE ResearchRun -----------------------------
(***************************************************************************)
(* ProjectResearchController (controller.rs) driving one Project's managed *)
(* Research Runs over RunStore: the task spawned for each Run, the Codex   *)
(* turn and the tool calls of its agent, the child Search jobs, the        *)
(* commands of the researcher, the scheduler, application exit, crash and  *)
(* restart.  Everything but the store is memory, and a crash forgets it.   *)
(*                                                                         *)
(* One step is one store transaction or one critical section in memory;    *)
(* everything between two of them may interleave with the other actors.    *)
(* Store errors (a full disk, a lock held too long) are not modelled.      *)
(***************************************************************************)
EXTENDS RunStore

CONSTANTS
    MaxCancels,     \* the researcher's commands to cancel
    MaxControls,    \* and to configure, pause, resume or stop the Harness
    MaxExits,       \* times the application is closed
    MaxCrashes,     \* times it crashes
    MaxEdits,       \* the researcher's edits of State and Vault
    MaxTime

\* The bounds are numbers, and a child Search is told from the states of a call.
ASSUME ResearchRunAssumption ==
    /\ {MaxCancels, MaxControls, MaxExits, MaxCrashes, MaxEdits, MaxTime} \subseteq Nat
    /\ {"none", "begun"} \cap Children = {}

VARIABLES
    app,        \* the process
    task,       \* the spawned execute() of each Run
    active,     \* active_runs: the Run registered for the Project, or 0
    token,      \* Runs whose CancellationToken is cancelled
    grant,      \* Runs holding an MCP grant
    turn,       \* the Codex turn of each Run, or how it ended until that is received
    call,       \* the tool call in flight in each Run's agent
    job,        \* SearchManager's job of each child Search
    jobToken,   \* children whose job is told to stop
    cmd,        \* the threads that run commands
    used        \* what the environment has spent of its bounds

memVars == <<task, active, token, grant, turn, call, job, jobToken, cmd>>
vars == <<storeVars, memVars, app, used>>

Threads == {"ui", "async", "scheduler", "exit"}

TaskPc == {"none", "begin", "grant", "turn", "attach", "wait", "deadline",
           "interrupt", "settle", "settling", "reconcile", "save", "preflight",
           "record", "commit", "correct", "correcting", "finish", "error",
           "errorSettle", "errorSettling", "errorFinish", "fail", "cleanup", "remove", "done"}

CmdPc == {"idle", "ensure", "halt", "create", "configure", "fail", "spawn",
          "stop", "check", "cancel", "revoke", "signal", "runtime", "prepared", "interrupted", "quit"}

ResearchRunTypeOK ==
    /\ StoreTypeOK
    /\ app \in {"up", "closing", "down", "recovering"}
    /\ task \in [Runs -> [pc : TaskPc,
                          then : {"none", "ready", "cancelled", "failed",
                                  "commit", "correct", "error"},
                          attempt : {"first", "correction"},
                          closed : 0 .. MaxRuns]]
    /\ active \in 0 .. MaxRuns
    /\ token \subseteq Runs
    /\ grant \subseteq Runs
    /\ turn \in [Runs -> {"none", "running", "completed", "interrupted", "failed", "exited"}]
    /\ call \in [Runs -> {"none", "begun"} \cup Children]
    /\ job \in [Children -> {"none", "spawned", "running"}]
    /\ jobToken \subseteq Children
    /\ cmd \in [Threads -> [pc : CmdPc, run : 0 .. MaxRuns, due : 0 .. MaxTime]]
    /\ used \in [cancels : 0 .. MaxCancels, controls : 0 .. MaxControls,
                 exits : 0 .. MaxExits, crashes : 0 .. MaxCrashes, edits : 0 .. MaxEdits]

Asleep == [pc |-> "none", then |-> "none", attempt |-> "first", closed |-> 0]
Idle == [pc |-> "idle", run |-> 0, due |-> 0]

EmptyMemory ==
    /\ task' = [r \in Runs |-> Asleep]
    /\ active' = 0
    /\ token' = {}
    /\ grant' = {}
    /\ turn' = [r \in Runs |-> "none"]
    /\ call' = [r \in Runs |-> "none"]
    /\ job' = [c \in Children |-> "none"]
    /\ jobToken' = {}
    /\ cmd' = [t \in Threads |-> Idle]

Init ==
    /\ StoreInit
    /\ app = "up"
    /\ task = [r \in Runs |-> Asleep]
    /\ active = 0
    /\ token = {}
    /\ grant = {}
    /\ turn = [r \in Runs |-> "none"]
    /\ call = [r \in Runs |-> "none"]
    /\ job = [c \in Children |-> "none"]
    /\ jobToken = {}
    /\ cmd = [t \in Threads |-> Idle]
    /\ used = [cancels |-> 0, controls |-> 0, exits |-> 0, crashes |-> 0, edits |-> 0]

-----------------------------------------------------------------------------
(* What several actors do *)

ChildrenOf(r) == {c \in Children : child[c].parent = r}
Unfinished(r) == {c \in ChildrenOf(r) : child[c].status \in ActiveChild}

\* signal_child_searches: cancel every unfinished child, in the store and, if
\* its job is already registered, in the SearchManager.
SignalChildren(r) ==
    /\ CancelChildren(Unfinished(r))
    /\ jobToken' = jobToken \cup {c \in Unfinished(r) : job[c] # "none"}

\* Codex is one process: when it is shut down every running turn exits.
ExitTurns == turn' = [r \in Runs |-> IF turn[r] = "running" THEN "exited" ELSE turn[r]]

\* CodexRuntime::interrupt.  Codex acknowledges and ends the turn, answers with
\* an error, or says nothing until the grace period is over and is killed; the
\* last two are errors.
InterruptTurn(r, acknowledged) ==
    IF acknowledged
    THEN turn' = [turn EXCEPT ![r] = "none"]
    ELSE ExitTurns \/ UNCHANGED turn

Goto(r, pc) == task' = [task EXCEPT ![r].pc = pc]
GotoThen(r, pc, then) == task' = [task EXCEPT ![r].pc = pc, ![r].then = then]
At(r, pc) == task[r].pc = pc

On(t, pc) == cmd[t].pc = pc
Proceed(t, pc) == cmd' = [cmd EXCEPT ![t].pc = pc]
Return(t) == cmd' = [cmd EXCEPT ![t] = Idle]

-----------------------------------------------------------------------------
(* start: run_project_research on the UI thread, tick on the scheduler's *)

\* Commands run while the window is open or closing.
Accepting == app \in {"up", "closing"}

\* Bound: once MaxRuns Runs have been created nothing is started any more; a
\* start that is refused is met while there is a Run left to create.
RunProjectResearch ==
    /\ Accepting
    /\ \E r \in Runs : run[r].status = "none"
    /\ On("ui", "idle")
    /\ Proceed("ui", "create")
    /\ UNCHANGED <<storeVars, app, used, task, active, token, grant, turn, call, job, jobToken>>

\* A manual start skips ensure_harness_can_start; a scheduled one does not.
SchedulerTick ==
    /\ Accepting
    /\ On("scheduler", "idle")
    /\ ClaimDue
    /\ IF LimitReached(harness, now)
       THEN UNCHANGED cmd
       ELSE cmd' = [cmd EXCEPT !["scheduler"].pc = "ensure",
                               !["scheduler"].due = harness.next]
    /\ UNCHANGED <<app, used, task, active, token, grant, turn, call, job, jobToken>>

\* ensure_harness_can_start decides on a snapshot and halts the Harness later.
Ensure(t) ==
    /\ On(t, "ensure")
    /\ IF CanStart(harness, now) THEN Proceed(t, "create")
       ELSE IF harness.status = "stopped" THEN Return(t) ELSE Proceed(t, "halt")
    /\ UNCHANGED <<storeVars, app, used, task, active, token, grant, turn, call, job, jobToken>>

Halt(t) ==
    /\ On(t, "halt")
    /\ HaltHarness
    /\ Return(t)
    /\ UNCHANGED <<app, used, task, active, token, grant, turn, call, job, jobToken>>

Create(t) ==
    /\ On(t, "create")
    /\ \/ \E r \in Runs :
            /\ CreateRun(r, cmd[t].due)
            /\ cmd' = [cmd EXCEPT ![t].pc = "configure", ![t].run = r]
       \/ /\ ~ \E r \in Runs : IsNext(r) /\ CanCreate(cmd[t].due)
          /\ UNCHANGED storeVars
          /\ Return(t)
    /\ UNCHANGED <<app, used, task, active, token, grant, turn, call, job, jobToken>>

Configure(t) ==
    /\ On(t, "configure")
    /\ IF run[cmd[t].run].status = "queued"
       THEN ConfigureRun(cmd[t].run) /\ Proceed(t, "spawn")
       ELSE UNCHANGED storeVars /\ Proceed(t, "fail")
    /\ UNCHANGED <<app, used, task, active, token, grant, turn, call, job, jobToken>>

FailStart(t) ==
    /\ On(t, "fail")
    /\ FailRun(cmd[t].run)
    /\ Return(t)
    /\ UNCHANGED <<app, used, task, active, token, grant, turn, call, job, jobToken>>

\* Mutant: the Run is not registered.
SpawnUnregistered(t) ==
    /\ On(t, "spawn")
    /\ Goto(cmd[t].run, "begin")
    /\ Return(t)
    /\ UNCHANGED <<storeVars, app, used, active, token, grant, turn, call, job, jobToken>>

Spawn(t) ==
    /\ On(t, "spawn")
    /\ active' = cmd[t].run
    /\ Goto(cmd[t].run, "begin")
    /\ Return(t)
    /\ UNCHANGED <<storeVars, app, used, token, grant, turn, call, job, jobToken>>

-----------------------------------------------------------------------------
(* cancel and stop on an async worker, shutdown when the window closes *)

CancelProjectResearch ==
    /\ Accepting /\ used.cancels < MaxCancels
    /\ used' = [used EXCEPT !.cancels = @ + 1]
    /\ On("async", "idle")
    /\ Proceed("async", "cancel")
    /\ UNCHANGED <<storeVars, app, task, active, token, grant, turn, call, job, jobToken>>

Control ==
    /\ Accepting /\ used.controls < MaxControls
    /\ used' = [used EXCEPT !.controls = @ + 1]

StopResearchHarness ==
    /\ Control
    /\ On("async", "idle")
    /\ Proceed("async", IF NeedsStop(harness) THEN "stop" ELSE "check")
    /\ UNCHANGED <<storeVars, app, task, active, token, grant, turn, call, job, jobToken>>

Stop(t) ==
    /\ On(t, "stop")
    /\ StopHarness
    /\ Proceed(t, "check")
    /\ UNCHANGED <<app, used, task, active, token, grant, turn, call, job, jobToken>>

\* Stop cancels when the snapshot it read afterwards shows an admitted Run.
CheckStop(t) ==
    /\ On(t, "check")
    /\ IF \E r \in Runs : run[r].status \in Admitted
       THEN Proceed(t, "cancel") ELSE Return(t)
    /\ UNCHANGED <<storeVars, app, used, task, active, token, grant, turn, call, job, jobToken>>

\* What a thread does once its cancellation is over.
AfterCancel(t) == IF t = "exit" THEN Proceed(t, "runtime") ELSE Return(t)

Cancel(t) ==
    /\ On(t, "cancel")
    /\ \/ \E r \in Runs :
            /\ RequestCancel(r)
            /\ cmd' = [cmd EXCEPT ![t].pc = "revoke", ![t].run = r]
       \/ /\ ~ \E r \in Runs : IsLatestManaged(r) /\ run[r].status \in Admitted
          /\ UNCHANGED storeVars
          /\ AfterCancel(t)
    /\ UNCHANGED <<app, used, task, active, token, grant, turn, call, job, jobToken>>

Revoke(t) ==
    /\ On(t, "revoke")
    /\ grant' = grant \ {cmd[t].run}
    /\ Proceed(t, "signal")
    /\ UNCHANGED <<storeVars, app, used, task, active, token, turn, call, job, jobToken>>

\* Mutant: the registered Run is taken for the one that was cancelled.
TripTokenUnchecked(r) == token' = token \cup {active}

\* The token is found through active_runs, by Project.
TripToken(r) == token' = IF active = r THEN token \cup {r} ELSE token

Signal(t) ==
    /\ On(t, "signal")
    /\ SignalChildren(cmd[t].run)
    /\ TripToken(cmd[t].run)
    /\ AfterCancel(t)
    /\ UNCHANGED <<app, used, task, active, grant, turn, call, job>>

ControlHarness ==
    /\ Control
    /\ On("ui", "idle")
    /\ \/ \E enabled \in BOOLEAN : SaveConfiguration(enabled)
       \/ PauseHarness
       \/ ResumeHarness
    /\ UNCHANGED <<app, memVars>>

-----------------------------------------------------------------------------
(* execute: the task of one Run *)

\* A Run cancelled before its task first runs goes straight to its end.
Begin(r) ==
    /\ At(r, "begin")
    /\ IF run[r].status = "canceling"
       THEN GotoThen(r, "settle", "cancelled") ELSE Goto(r, "grant")
    /\ UNCHANGED <<storeVars, app, used, active, token, grant, turn, call, job, jobToken, cmd>>

IssueGrant(r) ==
    /\ At(r, "grant")
    /\ grant' = grant \cup {r}
    /\ Goto(r, "turn")
    /\ UNCHANGED <<storeVars, app, used, active, token, turn, call, job, jobToken, cmd>>

\* The runtime, the thread and the turn are started, or one of them fails.
\* thread/start and turn/start are awaited without a timeout, outside the
\* select!: the task stays here as long as Codex does not answer.
StartTurn(r) ==
    /\ At(r, "turn")
    /\ \/ turn' = [turn EXCEPT ![r] = "running"] /\ Goto(r, "attach")
       \/ UNCHANGED turn /\ Goto(r, "error")
    /\ UNCHANGED <<storeVars, app, used, active, token, grant, call, job, jobToken, cmd>>

Attach(r) ==
    /\ At(r, "attach")
    /\ \/ AttachTurn(r) /\ Goto(r, "wait")
       \/ /\ run[r].status \notin Working
          /\ UNCHANGED storeVars /\ Goto(r, "error")
    /\ UNCHANGED <<app, used, active, token, grant, turn, call, job, jobToken, cmd>>

\* The three arms of the select! that waits for the turn.
WaitTurn(r) ==
    /\ At(r, "wait")
    /\ turn[r] \notin {"none", "running"}
    /\ turn' = [turn EXCEPT ![r] = "none"]
    /\ CASE turn[r] = "completed" -> GotoThen(r, "settle", "ready")
         [] turn[r] = "failed" -> Goto(r, "error")
         [] OTHER -> GotoThen(r, "settle", "failed")
    /\ UNCHANGED <<storeVars, app, used, active, token, grant, call, job, jobToken, cmd>>

\* The event stream lagged: what is left of it cannot be trusted.
WaitLagged(r) ==
    /\ At(r, "wait")
    /\ Goto(r, "error")
    /\ UNCHANGED <<storeVars, app, used, active, token, grant, turn, call, job, jobToken, cmd>>

\* An interruption that is not acknowledged is an error.
WaitToken(r) ==
    /\ At(r, "wait")
    /\ r \in token
    /\ \E acknowledged \in BOOLEAN :
         /\ InterruptTurn(r, acknowledged)
         /\ IF acknowledged THEN GotoThen(r, "settle", "cancelled") ELSE Goto(r, "error")
    /\ UNCHANGED <<storeVars, app, used, active, token, grant, call, job, jobToken, cmd>>

\* Mutant: the deadline closes the Run and waits on.
WaitDeadlineLoops(r) ==
    /\ At(r, "wait")
    /\ RequestCancel(r)
    /\ UNCHANGED <<app, used, task, active, token, grant, turn, call, job, jobToken, cmd>>

WaitDeadline(r) ==
    /\ At(r, "wait")
    /\ \/ \E s \in Runs :
            /\ RequestCancel(s)
            /\ task' = [task EXCEPT ![r].pc = "deadline", ![r].closed = s]
       \/ /\ ~ \E s \in Runs : IsLatestManaged(s) /\ run[s].status \in Admitted
          /\ UNCHANGED storeVars
          /\ Goto(r, "interrupt")
    /\ UNCHANGED <<app, used, active, token, grant, turn, call, job, jobToken, cmd>>

\* The rest of cancel_with_reason, for the Run it closed.
Deadline(r) ==
    /\ At(r, "deadline")
    /\ grant' = grant \ {task[r].closed}
    /\ SignalChildren(task[r].closed)
    /\ TripToken(task[r].closed)
    /\ task' = [task EXCEPT ![r].pc = "interrupt", ![r].closed = 0]
    /\ UNCHANGED <<app, used, active, turn, call, job, cmd>>

Interrupt(r) ==
    /\ At(r, "interrupt")
    /\ \E acknowledged \in BOOLEAN :
         /\ InterruptTurn(r, acknowledged)
         /\ IF acknowledged THEN GotoThen(r, "settle", "cancelled") ELSE Goto(r, "error")
    /\ UNCHANGED <<storeVars, app, used, active, token, grant, call, job, jobToken, cmd>>

\* settle_child_searches: signal, then poll until all are terminal or give up.
Settle(r) ==
    /\ At(r, "settle")
    /\ SignalChildren(r)
    /\ Goto(r, "settling")
    /\ UNCHANGED <<app, used, active, token, grant, turn, call, job, cmd>>

\* Mutant: a completed turn is finished without being reconciled.
SettledUnreconciled(r) ==
    /\ At(r, "settling")
    /\ Goto(r, IF HasActiveChild(r) THEN "error" ELSE "finish")
    /\ UNCHANGED <<storeVars, app, used, active, token, grant, turn, call, job, jobToken, cmd>>

Settled(r) ==
    /\ At(r, "settling")
    /\ \/ /\ ~HasActiveChild(r)
          /\ Goto(r, IF task[r].then = "ready" THEN "reconcile" ELSE "finish")
       \/ HasActiveChild(r) /\ Goto(r, "error")
    /\ UNCHANGED <<storeVars, app, used, active, token, grant, turn, call, job, jobToken, cmd>>

-----------------------------------------------------------------------------
(* execute: reconciliation of a completed turn *)

\* The evidence is captured, the grant revoked and the final message taken;
\* a turn may complete without one.
Reconcile(r) ==
    /\ At(r, "reconcile")
    /\ \/ /\ BeginFinalization(r)
          /\ grant' = grant \ {r}
          /\ Goto(r, "save") \/ Goto(r, "error")
       \/ /\ run[r].status \notin Working
          /\ Goto(r, "error")
          /\ UNCHANGED <<storeVars, grant>>
    /\ UNCHANGED <<app, used, active, token, turn, call, job, jobToken, cmd>>

Save(r) ==
    /\ At(r, "save")
    /\ \E p \in Proposals : SaveAttempt(r, task[r].attempt, p)
    /\ Goto(r, "preflight")
    /\ UNCHANGED <<app, used, active, token, grant, turn, call, job, jobToken, cmd>>

Preflight(r) ==
    LET result == PreflightResult(r)
        then == IF result = "ok" THEN "commit"
                ELSE IF result = "repairable" /\ task[r].attempt = "first" THEN "correct"
                ELSE "error"
    IN  /\ At(r, "preflight")
        /\ GotoThen(r, "record", then)
        /\ UNCHANGED <<storeVars, app, used, active, token, grant, turn, call, job, jobToken, cmd>>

Record(r) ==
    /\ At(r, "record")
    /\ RecordIssues(r, task[r].then = "commit")
    /\ Goto(r, task[r].then)
    /\ UNCHANGED <<app, used, active, token, grant, turn, call, job, jobToken, cmd>>

\* The deadline may have passed at any time.
Commit(r) ==
    /\ At(r, "commit")
    /\ \/ /\ r \notin token
          /\ FinalizeSynthesis(r)
          /\ GotoThen(r, "finish", "ready")
       \/ UNCHANGED storeVars /\ Goto(r, "error")
    /\ UNCHANGED <<app, used, active, token, grant, turn, call, job, jobToken, cmd>>

\* reserve_synthesis_correction charges one model call, if any is left.
Correct(r) ==
    /\ At(r, "correct")
    /\ \/ run[r].status = "reconciling" /\ Goto(r, "correcting")
       \/ Goto(r, "error")
    /\ UNCHANGED <<storeVars, app, used, active, token, grant, turn, call, job, jobToken, cmd>>

\* Mutant: the attempt is not marked as the correction.
CorrectingAgain(r) ==
    /\ At(r, "correcting")
    /\ \/ Goto(r, "save") /\ UNCHANGED turn
       \/ Goto(r, "error") /\ (UNCHANGED turn \/ ExitTurns)
    /\ UNCHANGED <<storeVars, app, used, active, token, grant, call, job, jobToken, cmd>>

\* The correction turn completes; or it fails, is cancelled or is too late,
\* and the last two may shut the whole Codex process down.
Correcting(r) ==
    /\ At(r, "correcting")
    /\ \/ /\ task' = [task EXCEPT ![r].pc = "save", ![r].attempt = "correction"]
          /\ UNCHANGED turn
       \/ Goto(r, "error") /\ (UNCHANGED turn \/ ExitTurns)
    /\ UNCHANGED <<storeVars, app, used, active, token, grant, call, job, jobToken, cmd>>

-----------------------------------------------------------------------------
(* execute: the end of the Run *)

\* Mutant: a Run is ended over its unfinished children.
FinishAnyway(r, status, ended, refused) ==
    /\ IF IsActive(r)
       THEN SetStatus(r, status) /\ UNCHANGED <<harness, synth, child, stateRev, vault, vaultRev, now>>
       ELSE UNCHANGED storeVars
    /\ Goto(r, ended)

\* finish_codex_harness_run leaves a Run that is over alone, and refuses one
\* with an unfinished child.
Finish(r, status, ended, refused) ==
    \/ FinishRun(r, status) /\ Goto(r, ended)
    \/ /\ ~IsActive(r)
       /\ UNCHANGED storeVars /\ Goto(r, ended)
    \/ /\ IsActive(r) /\ HasActiveChild(r)
       /\ UNCHANGED storeVars /\ Goto(r, refused)

FinishOk(r) ==
    /\ At(r, "finish")
    /\ Finish(r, task[r].then, "cleanup", "error")
    /\ UNCHANGED <<app, used, active, token, grant, turn, call, job, jobToken, cmd>>

\* The status is read once; the children settle; then the Run is finished by
\* the status that was read.
Error(r) ==
    /\ At(r, "error")
    /\ GotoThen(r, "errorSettle",
                IF run[r].status = "canceling" THEN "cancelled" ELSE "failed")
    /\ UNCHANGED <<storeVars, app, used, active, token, grant, turn, call, job, jobToken, cmd>>

ErrorSettle(r) ==
    /\ At(r, "errorSettle")
    /\ SignalChildren(r)
    /\ Goto(r, "errorSettling")
    /\ UNCHANGED <<app, used, active, token, grant, turn, call, job, cmd>>

\* Mutant: the settle error is returned instead of failing the Run.
ErrorSettledReturns(r) ==
    /\ At(r, "errorSettling")
    /\ Goto(r, IF HasActiveChild(r) THEN "cleanup" ELSE "errorFinish")
    /\ UNCHANGED <<storeVars, app, used, active, token, grant, turn, call, job, jobToken, cmd>>

ErrorSettled(r) ==
    /\ At(r, "errorSettling")
    /\ Goto(r, IF HasActiveChild(r) THEN "fail" ELSE "errorFinish")
    /\ UNCHANGED <<storeVars, app, used, active, token, grant, turn, call, job, jobToken, cmd>>

FinishError(r) ==
    /\ At(r, "errorFinish")
    /\ Finish(r, task[r].then, "cleanup", "fail")
    /\ UNCHANGED <<app, used, active, token, grant, turn, call, job, jobToken, cmd>>

Fail(r) ==
    /\ At(r, "fail")
    /\ FailRun(r)
    /\ Goto(r, "cleanup")
    /\ UNCHANGED <<app, used, active, token, grant, turn, call, job, jobToken, cmd>>

\* Mutant: only a completed turn gives its grant back.
CleanupKeepsGrant(r) ==
    /\ At(r, "cleanup")
    /\ Goto(r, "remove")
    /\ UNCHANGED <<storeVars, app, used, active, token, grant, turn, call, job, jobToken, cmd>>

Cleanup(r) ==
    /\ At(r, "cleanup")
    /\ grant' = grant \ {r}
    /\ Goto(r, "remove")
    /\ UNCHANGED <<storeVars, app, used, active, token, turn, call, job, jobToken, cmd>>

\* active_runs is keyed by Project: whichever Run is registered is removed.
Remove(r) ==
    /\ At(r, "remove")
    /\ active' = 0
    /\ task' = [task EXCEPT ![r] = [Asleep EXCEPT !.pc = "done"]]
    /\ token' = token \ {r}
    /\ UNCHANGED <<storeVars, app, used, grant, turn, call, job, jobToken, cmd>>

-----------------------------------------------------------------------------
(* The agent: its turn, and the MCP tools it calls *)

TurnEnds(r) ==
    /\ turn[r] = "running"
    /\ \E how \in {"completed", "interrupted", "failed"} :
         turn' = [turn EXCEPT ![r] = how]
    /\ UNCHANGED <<storeVars, app, used, task, active, token, grant, call, job, jobToken, cmd>>

CodexExits ==
    /\ \E r \in Runs : turn[r] = "running"
    /\ ExitTurns
    /\ UNCHANGED <<storeVars, app, used, task, active, token, grant, call, job, jobToken, cmd>>

\* A call is let in by its grant.  Once in, it goes on whatever becomes of the
\* grant, the turn and the Run.
BeginCall(r) ==
    /\ turn[r] = "running" /\ r \in grant /\ call[r] = "none"
    /\ call' = [call EXCEPT ![r] = "begun"]
    /\ UNCHANGED <<storeVars, app, used, task, active, token, grant, turn, job, jobToken, cmd>>

Begun(r) == call[r] = "begun"
EndCall(r) == call' = [call EXCEPT ![r] = "none"]

\* search_start creates the child Search.
SearchStart(r) ==
    /\ Begun(r)
    /\ \E c \in Children : CreateChild(c, r) /\ call' = [call EXCEPT ![r] = c]
    /\ UNCHANGED <<app, used, task, active, token, grant, turn, job, jobToken, cmd>>

\* The rest of search_start reads the child back and hands it to SearchManager.
Enqueue(r) ==
    /\ call[r] \in Children
    /\ LET c == call[r]
       IN  job' = IF child[c].status = "queued" THEN [job EXCEPT ![c] = "spawned"] ELSE job
    /\ EndCall(r)
    /\ UNCHANGED <<storeVars, app, used, task, active, token, grant, turn, jobToken, cmd>>

\* search_cancel, for a child of the Run.
SearchCancel(r) ==
    /\ Begun(r)
    /\ \E c \in Unfinished(r) :
         /\ CancelChildren({c})
         /\ jobToken' = IF job[c] # "none" THEN jobToken \cup {c} ELSE jobToken
    /\ EndCall(r)
    /\ UNCHANGED <<app, used, task, active, token, grant, turn, job, cmd>>

VaultAddPaper(r) ==
    /\ Begun(r)
    /\ \E p \in Papers : AddPaper(r, p)
    /\ EndCall(r)
    /\ UNCHANGED <<app, used, task, active, token, grant, turn, job, jobToken, cmd>>

ReaderRead(r) ==
    /\ Begun(r)
    /\ \E p \in Papers : ReadPaper(r, p)
    /\ EndCall(r)
    /\ UNCHANGED <<app, used, task, active, token, grant, turn, job, jobToken, cmd>>

\* The call only read, or was refused.
CallReturns(r) ==
    /\ Begun(r)
    /\ EndCall(r)
    /\ UNCHANGED <<storeVars, app, used, task, active, token, grant, turn, job, jobToken, cmd>>

-----------------------------------------------------------------------------
(* SearchManager: the job of one child Search *)

JobStart(c) ==
    /\ job[c] = "spawned"
    /\ SetChildStatus(c, "running")
    /\ job' = [job EXCEPT ![c] = "running"]
    /\ UNCHANGED <<app, used, task, active, token, grant, turn, call, jobToken, cmd>>

\* A job that was told to stop may still finish, or fail, first.
JobEnd(c) ==
    /\ \/ job[c] = "spawned" /\ SetChildStatus(c, "failed")
       \/ job[c] = "running" /\ \E s \in {"ready", "failed"} : SetChildStatus(c, s)
       \/ job[c] = "running" /\ c \in jobToken /\ SetChildStatus(c, "cancelled")
    /\ job' = [job EXCEPT ![c] = "none"]
    /\ jobToken' = jobToken \ {c}
    /\ UNCHANGED <<app, used, task, active, token, grant, turn, call, cmd>>

-----------------------------------------------------------------------------
(* Exit, crash and restart *)

\* ProjectResearchController::shutdown cancels what active_runs holds.
ExitRequested ==
    /\ app = "up" /\ used.exits < MaxExits
    /\ app' = "closing"
    /\ used' = [used EXCEPT !.exits = @ + 1]
    /\ Proceed("exit", IF active = 0 THEN "runtime" ELSE "cancel")
    /\ UNCHANGED <<storeVars, task, active, token, grant, turn, call, job, jobToken>>

ShutdownRuntime(t) ==
    /\ On(t, "runtime")
    /\ ExitTurns
    /\ Proceed(t, "prepared")
    /\ UNCHANGED <<storeVars, app, used, task, active, token, grant, call, job, jobToken>>

\* recover_prepared_synthesis: commit what was preflighted, if it still can be.
RecoverPrepared ==
    \/ \E r \in Runs : synth[r].prepared /\ FinalizeSynthesis(r)
    \/ /\ ~ \E r \in Runs : synth[r].prepared /\ CanCommit(r)
       /\ UNCHANGED storeVars

RecoverOnExit(t) ==
    /\ \/ On(t, "prepared") /\ RecoverPrepared /\ Proceed(t, "interrupted")
       \/ On(t, "interrupted") /\ RecoverInterrupted /\ Proceed(t, "quit")
    /\ UNCHANGED <<app, used, task, active, token, grant, turn, call, job, jobToken>>

Quit(t) ==
    /\ On(t, "quit")
    /\ app' = "down"
    /\ EmptyMemory
    /\ UNCHANGED <<storeVars, used>>

Crash ==
    /\ app # "down" /\ used.crashes < MaxCrashes
    /\ app' = "down"
    /\ used' = [used EXCEPT !.crashes = @ + 1]
    /\ EmptyMemory
    /\ UNCHANGED storeVars

\* setup() recovers before any command can run.
Restart ==
    /\ app = "down"
    /\ RecoverPrepared
    /\ app' = "recovering"
    /\ UNCHANGED <<memVars, used>>

Recover ==
    /\ app = "recovering"
    /\ RecoverInterrupted
    /\ app' = "up"
    /\ UNCHANGED <<memVars, used>>

-----------------------------------------------------------------------------
(* The researcher's edits, and time *)

Edit ==
    /\ app = "up" /\ used.edits < MaxEdits
    /\ EditState \/ \E p \in Papers : EditVault(p) \/ DeletePaper(p)
    /\ used' = [used EXCEPT !.edits = @ + 1]
    /\ UNCHANGED <<app, memVars>>

Tick ==
    /\ now < MaxTime
    /\ ClockTick
    /\ UNCHANGED <<app, memVars, used>>

-----------------------------------------------------------------------------
Thread(t) ==
    \/ Ensure(t) \/ Halt(t) \/ Create(t) \/ Configure(t) \/ FailStart(t) \/ Spawn(t)
    \/ Stop(t) \/ CheckStop(t) \/ Cancel(t) \/ Revoke(t) \/ Signal(t)
    \/ ShutdownRuntime(t) \/ RecoverOnExit(t) \/ Quit(t)

Execute(r) ==
    \/ Begin(r) \/ IssueGrant(r) \/ StartTurn(r) \/ Attach(r)
    \/ WaitTurn(r) \/ WaitToken(r) \/ WaitDeadline(r) \/ Deadline(r) \/ Interrupt(r)
    \/ Settle(r) \/ Settled(r)
    \/ Reconcile(r) \/ Save(r) \/ Preflight(r) \/ Record(r) \/ Commit(r)
    \/ Correct(r) \/ Correcting(r)
    \/ FinishOk(r) \/ Error(r) \/ ErrorSettle(r) \/ ErrorSettled(r)
    \/ FinishError(r) \/ Fail(r) \/ Cleanup(r) \/ Remove(r)

Agent(r) ==
    \/ TurnEnds(r) \/ WaitLagged(r) \/ BeginCall(r)
    \/ SearchStart(r) \/ Enqueue(r) \/ SearchCancel(r) \/ VaultAddPaper(r) \/ ReaderRead(r)
    \/ CallReturns(r)

Job(c) == JobStart(c) \/ JobEnd(c)

Environment ==
    \/ RunProjectResearch \/ SchedulerTick \/ CancelProjectResearch
    \/ StopResearchHarness \/ ControlHarness
    \/ CodexExits \/ ExitRequested \/ Crash \/ Restart \/ Recover
    \/ Edit \/ Tick

Next ==
    \/ \E t \in Threads : Thread(t)
    \/ \E r \in Runs : Execute(r) \/ Agent(r)
    \/ \E c \in Children : Job(c)
    \/ Environment

\* The task awaits an answer of Codex that nothing bounds.
AwaitsCodex(r) == At(r, "turn")

\* Threads and spawned tasks are scheduled by the operating system and by tokio;
\* every other wait of a task has a timeout or the Run's deadline.  Nothing
\* obliges the researcher, the agent, Codex or a child's job to act, and nothing
\* makes the application start again; but once it starts, setup() goes on.
Fairness ==
    /\ \A t \in Threads : WF_vars(Thread(t))
    /\ \A r \in Runs : WF_vars(~AwaitsCodex(r) /\ Execute(r))
    /\ WF_vars(Recover)

Spec == Init /\ [][Next]_vars
FairSpec == Spec /\ Fairness

-----------------------------------------------------------------------------
(* Properties *)

\* Every step of the controller, its agents and its jobs is a transaction of
\* RunStore or leaves the store alone; and the controller keeps what StoreSpec
\* asks of its caller through every race, crash and restart.  What is proved
\* of StoreSpec therefore holds here.
ImplementsStore == StoreSpec

\* Some thread is about to configure and spawn the Run, or to fail it.
Starting(r) == \E t \in Threads : cmd[t].run = r /\ cmd[t].pc \in {"configure", "spawn", "fail"}

\* The Run's task has yet to end it.
Driven(r) == task[r].pc \notin {"none", "cleanup", "remove", "done"}

\* While the application is up, every active Run has somebody who will end it:
\* no early return of start or execute leaves a Run active for ever.
NoOrphanRun ==
    app = "up" => \A r \in Runs : IsActive(r) => Starting(r) \/ Driven(r)

\* A grant is revoked before its Run's task ends, whichever way it ends.
NoGrantOutlivesTask ==
    \A r \in grant : task[r].pc \notin {"none", "remove", "done"}

\* A Run ends ready or cancelled only once all its child Searches are over,
\* and none of them comes back to life: not through a search_start that was in
\* flight, nor through a job that starts or ends late.
ChildrenSettled ==
    \A r \in Runs : run[r].status \in {"ready", "cancelled"} => ~HasActiveChild(r)

\* Whatever a task asks of the store is something the store can do: the attempts
\* are saved in order and no attempt twice, the issues belong to an attempt, and
\* `ready' is asked for once the synthesis has committed.  No task is therefore
\* left waiting at a transaction that is refused.
NoTaskRefused ==
    \A r \in Runs :
        /\ task[r].pc \in {"attach", "reconcile", "save"} => run[r].codex
        /\ At(r, "save") =>
              synth[r].attempt = (IF task[r].attempt = "first" THEN "none" ELSE "first")
        /\ At(r, "record") => synth[r].attempt # "none"
        /\ task[r].pc \in {"finish", "errorFinish"} =>
              /\ task[r].then \in Terminal
              /\ task[r].then = "ready" => synth[r].committed

\* The steps a task may still take in its round, and the five of the one
\* correction it may still ask for.
StepsLeft ==
    [begin |-> 24, grant |-> 23, turn |-> 22, attach |-> 21, wait |-> 20, deadline |-> 19,
     interrupt |-> 18, settle |-> 17, settling |-> 16, reconcile |-> 15,
     save |-> 14, preflight |-> 13, record |-> 12, correct |-> 11, correcting |-> 10,
     commit |-> 9, finish |-> 8,
     error |-> 7, errorSettle |-> 6, errorSettling |-> 5, errorFinish |-> 4,
     fail |-> 3, cleanup |-> 2, remove |-> 1]

Rank(r) ==
    IF task[r].pc \in {"none", "done"} THEN 0
    ELSE StepsLeft[task[r].pc] + (IF task[r].attempt = "first" THEN 5 ELSE 0)

\* Every step of a task brings it nearer to its end, and nobody else moves it: a
\* task takes 29 steps at most, whatever the turn, the cancellations, the errors
\* and the correction make of it.
TasksAdvance ==
    [][\A r \in Runs :
          task'[r] # task[r] => At(r, "none") \/ app' = "down" \/ Rank(r)' < Rank(r)]_vars

\* Somebody has still to trip the token of the Run.
SignalPending(r) ==
    \/ \E t \in Threads : cmd[t].run = r /\ cmd[t].pc \in {"revoke", "signal"}
    \/ \E s \in Runs : task[s].closed = r

\* "Close one managed Run to new work and interrupt its active workers": once
\* cancel has returned, the task that waits for the Run's turn has its token.
CanceledRunIsSignalled ==
    \A r \in Runs : run[r].status = "canceling" /\ At(r, "wait") =>
        r \in token \/ SignalPending(r)

\* A cancelled Run leaves no turn behind that goes on working for it.
CancelledTurnStopped ==
    \A r \in Runs : run[r].status = "cancelled" => turn[r] # "running"

\* A Harness is stopped for a reason it can show.
StoppedHasReason == harness.status = "stopped" => harness.reason # "none"

\* Every Run ends, whatever its turn, its agent and its child Searches do, unless
\* the application goes down first or Codex never answers thread/start or
\* turn/start; and a Run that a crash left active ends once the application is
\* started again.
RunsEnd ==
    \A r \in Runs :
        \/ <>[]AwaitsCodex(r)
        \/ IsActive(r) ~> (~IsActive(r) \/ app = "down")

\* "The first Cancel action [...] interrupts the Codex turn", and a nonresponsive
\* agent process is terminated after the grace period (RFC 0137): a Run that was
\* cancelled ends.
CanceledRunsEnd ==
    \A r \in Runs : run[r].status = "canceling" ~> (~IsActive(r) \/ app = "down")

=============================================================================
